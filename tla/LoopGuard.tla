------------------------------- MODULE LoopGuard -------------------------------
(***************************************************************************)
(* tooling/guard.py and its two callers in tool_runtime.py: the memory     *)
(* that stops runaway tool calls.  A call is judged before its body runs   *)
(* (_guard_gate) and recorded after it (_record_outcome); between the two  *)
(* the approval gate may still refuse it, and a host thread may clear or   *)
(* compact the conversation.                                               *)
(***************************************************************************)
EXTENDS Naturals, Sequences, FiniteSets

CONSTANTS
  Calls,                  \* call signatures: tool name and canonical arguments
  Tools,
  Targets,                \* streak keys: tool name and the first target argument
  ToolOf,                 \* the tool of a call
  TargetOf,               \* the target of a call
  ToolAt,                 \* the tool a target belongs to
  Role,                   \* the guard role of a tool
  Forgets,                \* the tools whose remembered calls a tool's success drops
  DupLookback, CycleLookback, ErrStreakLimit, ConsecutiveErrorLimit,
  MaxApprovedRepeats,
  FailureBound            \* bound: failures in a row of tools no check stops

ASSUME LoopGuardAssumption ==
  /\ ToolOf \in [Calls -> Tools]
  /\ TargetOf \in [Calls -> Targets]
  /\ ToolAt \in [Targets -> Tools]
  /\ \A c \in Calls : ToolAt[TargetOf[c]] = ToolOf[c]
  /\ Role \in [Tools -> {"normal", "always_allowed", "recovery", "repeatable"}]
  /\ Forgets \in [Tools -> SUBSET Tools]
  /\ DupLookback \in Nat \ {0} /\ CycleLookback \in Nat \ {0}
  /\ ErrStreakLimit \in Nat \ {0} /\ ConsecutiveErrorLimit \in Nat \ {0}
  /\ MaxApprovedRepeats \in Nat \ {0}
  /\ FailureBound \in Nat

VARIABLES
  recent,       \* _recent_keys: the calls whose bodies returned last
  streak,       \* _error_streak
  consecutive,  \* _consecutive_errors
  lastError,    \* the calls in _last_error_by_key
  asked,        \* the calls in approved_repeats ...
  left,         \* ... and how many approved repeats each has left
  granted,      \* the call let pass that has not returned: one at most
  spent         \* history: repeats let through since the approvals were reset

evidence  == <<recent, lastError>>
failures  == <<streak, consecutive>>
approvals == <<asked, left, spent>>
guardVars == <<recent, streak, consecutive, lastError, asked, left, granted, spent>>

Window == IF DupLookback > CycleLookback THEN DupLookback ELSE CycleLookback

RepeatChecked(tool) == Role[tool] \notin {"always_allowed", "repeatable"}
ErrorChecked(tool)  == Role[tool] \notin {"always_allowed", "recovery"}

Remembered(s) == {s[i] : i \in DOMAIN s}

\* The sequence of the elements of s at the positions in kept, in their order.
\* Stated by rank: position i comes out at the number of kept positions up to i.
Rank(kept, i)   == Cardinality({j \in kept : j <= i})
KeepAt(s, kept) ==
  [k \in 1..Cardinality(kept) |-> s[CHOOSE i \in kept : Rank(kept, i) = k]]

GuardInit ==
  /\ recent = <<>> /\ lastError = {}
  /\ streak = [t \in Targets |-> 0] /\ consecutive = 0
  /\ asked = {} /\ left = [c \in Calls |-> 0]
  /\ granted = {} /\ spent = [c \in Calls |-> 0]

-------------------------------------------------------------------------------
(* The four checks, in the order decide() runs them.                       *)

FailureLoop(c) ==
  /\ ErrorChecked(ToolOf[c])
  /\ \/ streak[TargetOf[c]] >= ErrStreakLimit
     \/ consecutive >= ConsecutiveErrorLimit

Duplicate(c) == RepeatChecked(ToolOf[c]) /\ c \in Remembered(recent)

\* With the proposed call appended, the last 2p calls are the same p calls twice.
Cycle(c) ==
  LET seq == Append(recent, c)
  IN  /\ RepeatChecked(ToolOf[c])
      /\ \E p \in {2, 3} :
           /\ Len(seq) >= 2 * p
           /\ \A i \in 1..p : seq[Len(seq) - 2 * p + i] = seq[Len(seq) - p + i]

Repeating(c) == Duplicate(c) \/ Cycle(c)

-------------------------------------------------------------------------------
(* Before the body: _guard_gate and _confirm_repeat.  A call in a failure  *)
(* loop is refused with no change of state.                                *)

Admit(c) ==
  /\ granted = {} /\ ~FailureLoop(c) /\ ~Repeating(c)
  /\ granted' = {c}
  /\ UNCHANGED <<evidence, failures, approvals>>

\* A repeat the user has allowed before runs on what is left of that answer.
AdmitApproved(c) ==
  /\ granted = {} /\ ~FailureLoop(c) /\ Repeating(c)
  /\ c \in asked /\ left[c] > 0
  /\ left' = [left EXCEPT ![c] = @ - 1]
  /\ spent' = [spent EXCEPT ![c] = @ + 1]
  /\ granted' = {c}
  /\ UNCHANGED <<evidence, failures, asked>>

\* Variant: the repeat that is asked about does not count.
AskContinueFree(c) ==
  /\ granted = {} /\ ~FailureLoop(c) /\ Repeating(c)
  /\ c \notin asked
  /\ asked' = asked \cup {c}
  /\ left' = [left EXCEPT ![c] = MaxApprovedRepeats]
  /\ spent' = [spent EXCEPT ![c] = @ + 1]
  /\ granted' = {c}
  /\ UNCHANGED <<evidence, failures>>

\* The first repeat of a call is put to the user, who may answer "continue".
AskContinue(c) ==
  /\ granted = {} /\ ~FailureLoop(c) /\ Repeating(c)
  /\ c \notin asked
  /\ asked' = asked \cup {c}
  /\ left' = [left EXCEPT ![c] = MaxApprovedRepeats - 1]
  /\ spent' = [spent EXCEPT ![c] = @ + 1]
  /\ granted' = {c}
  /\ UNCHANGED <<evidence, failures>>

\* Any other answer, or nobody to ask: no further repeat of it is let through.
AskRefuse(c) ==
  /\ granted = {} /\ ~FailureLoop(c) /\ Repeating(c)
  /\ c \notin asked
  /\ asked' = asked \cup {c}
  /\ left' = [left EXCEPT ![c] = 0]
  /\ UNCHANGED <<evidence, failures, spent, granted>>

\* The approval gate, which comes after the guard, refuses the call.
Decline ==
  /\ granted # {}
  /\ granted' = {}
  /\ UNCHANGED <<evidence, failures, approvals>>

-------------------------------------------------------------------------------
(* After the body: a success first drops what it made stale (forget_tools),*)
(* then the outcome is recorded.                                           *)

Remaining(tool) == {i \in DOMAIN recent : ToolOf[recent[i]] \notin Forgets[tool]}

Shift(s, c) ==
  IF Len(s) + 1 > Window THEN Tail(Append(s, c)) ELSE Append(s, c)

\* Variant: nothing is evicted.
EvictedNothing(s, c) == {}

\* The error memory of a call that leaves the window goes with it.
Evicted(s, c) ==
  IF Len(s) + 1 > Window
  THEN {Head(Append(s, c))} \ Remembered(Tail(Append(s, c))) ELSE {}

\* Variant: a success ends every streak.
SucceedForAll(c) ==
  /\ c \in granted
  /\ recent' = Shift(recent, c)
  /\ lastError' = (lastError \ Evicted(recent, c)) \ {c}
  /\ streak' = [t \in Targets |-> 0]
  /\ consecutive' = 0
  /\ granted' = {}
  /\ UNCHANGED approvals

Succeed(c) ==
  LET kept    == Remaining(ToolOf[c])
      trimmed == IF kept = DOMAIN recent THEN recent ELSE KeepAt(recent, kept)
      errors  == IF kept = DOMAIN recent THEN lastError
                 ELSE {e \in lastError : ToolOf[e] \notin Forgets[ToolOf[c]]}
  IN  /\ c \in granted
      /\ recent' = Shift(trimmed, c)
      /\ lastError' = (errors \ Evicted(trimmed, c)) \ {c}
      /\ streak' = [streak EXCEPT ![TargetOf[c]] = 0]
      /\ consecutive' = 0
      /\ granted' = {}
      /\ UNCHANGED approvals

\* A failure is remembered for the duplicate message when it has a text.
Fail(c) ==
  /\ c \in granted
  /\ consecutive < FailureBound /\ streak[TargetOf[c]] < FailureBound
  /\ recent' = Shift(recent, c)
  /\ \E told \in {{}, {c}} : lastError' = (lastError \ Evicted(recent, c)) \cup told
  /\ streak' = [streak EXCEPT ![TargetOf[c]] = @ + 1]
  /\ consecutive' = consecutive + 1
  /\ granted' = {}
  /\ UNCHANGED approvals

-------------------------------------------------------------------------------
(* The events of the conversation.                                         *)

ResetRepeatWindow ==
  /\ recent' = <<>> /\ lastError' = {}
  /\ asked' = {}
  /\ left' = [c \in Calls |-> 0] /\ spent' = [c \in Calls |-> 0]

\* A new user message: no call is in flight then.  Streaks survive.
OnNewTurn ==
  /\ granted = {}
  /\ consecutive' = 0
  /\ ResetRepeatWindow
  /\ UNCHANGED <<streak, granted>>

OnCompacted ==
  /\ ResetRepeatWindow
  /\ UNCHANGED <<failures, granted>>

OnCleared ==
  /\ ResetRepeatWindow
  /\ streak' = [t \in Targets |-> 0] /\ consecutive' = 0
  /\ UNCHANGED granted

-------------------------------------------------------------------------------
GuardNext ==
  \/ \E c \in Calls : \/ Admit(c) \/ AdmitApproved(c) \/ AskContinue(c) \/ AskRefuse(c)
                      \/ Succeed(c) \/ Fail(c)
  \/ Decline \/ OnNewTurn \/ OnCompacted \/ OnCleared

GuardSpec == GuardInit /\ [][GuardNext]_guardVars

-------------------------------------------------------------------------------
(* Properties.                                                             *)

\* Every part of the guard has its type; the window never outgrows its bound.
GuardTypeOK ==
  /\ recent \in Seq(Calls) /\ Len(recent) <= Window
  /\ streak \in [Targets -> Nat] /\ consecutive \in Nat
  /\ lastError \subseteq Calls
  /\ asked \subseteq Calls /\ left \in [Calls -> Nat]
  /\ granted \subseteq Calls
  /\ spent \in [Calls -> Nat]

\* The memory of an error never outlives the duplicate check that reads it: a
\* call with a remembered error is still in the window (record's eviction, the
\* filter of forget_tools, the resets).
ErrorMemoryIsLive == lastError \subseteq Remembered(recent)

\* No target of an error-checked tool fails more than err_streak_limit times in
\* a row, whatever other calls, requests, compactions or clears come between:
\* the streak is read at the gate and written behind the body.
HardStop ==
  \A t \in Targets : ErrorChecked(ToolAt[t]) => streak[t] <= ErrStreakLimit

\* One "continue" lets at most max_approved_repeats repeats of a call through,
\* and none runs unasked (the count in approved_repeats and the resets that
\* take the evidence and the answer away together).
OverridesAreBounded ==
  \A c \in Calls : /\ spent[c] + left[c] <= MaxApprovedRepeats
                   /\ c \notin asked => spent[c] = 0 /\ left[c] = 0

\* Whatever check_cycle would report, check_duplicate, which decide() runs
\* first, has reported already: a period ends in a call still in the window.
CycleIsDuplicate == \A c \in Calls : Cycle(c) => Duplicate(c)

\* A target at its limit stays refused, through new messages and compactions,
\* until the conversation is cleared: no call under way or to come can reach it
\* to end the streak.
Stuck(t) == ErrorChecked(ToolAt[t]) /\ streak[t] >= ErrStreakLimit
StuckUntilCleared ==
  [][~OnCleared => \A t \in Targets : Stuck(t) => Stuck(t)']_guardVars
===============================================================================
