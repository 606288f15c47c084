-------------------------------- MODULE RunLoop --------------------------------
(***************************************************************************)
(* One agent's run(): the lease, the ReAct loop, request fitting, provider *)
(* failures with their one compacting retry, the call-by-call batch, and   *)
(* every way out (answer, stop, error, turn limit, abort, an exception     *)
(* that escapes), with a second thread that may abort at any moment and a  *)
(* host that clears or compacts the conversation between runs.             *)
(***************************************************************************)
EXTENDS Transcript

CONSTANTS
  MaxTurns,     \* config.max_turns
  MaxBatch,     \* bound: calls one reply announces
  MaxRuns,      \* bound: calls of run()
  KeepRecent,   \* config.keep_recent
  Strategy,     \* "summarise" or "ladder"
  Escapes       \* TRUE: an exception may escape a turn (a live name conflict,
                \* a result json.dumps rejects)

ASSUME RunLoopAssumption ==
  /\ MaxTurns \in Nat \ {0}
  /\ MaxBatch \in Nat \ {0}
  /\ MaxRuns \in Nat \ {0}
  /\ KeepRecent \in Nat \ {0}
  /\ Strategy \in {"summarise", "ladder"}
  /\ Escapes \in BOOLEAN

VARIABLES
  pc,        \* where the agent thread is
  aborted,   \* the cancellation event
  history,   \* conversation.history
  request,   \* the messages of the last provider request
  turn,      \* loop turn
  attempts,  \* compacting retries so far, per reason
  stalled,   \* attempts[_STALLED]
  pending,   \* calls of the batch not answered yet
  results,   \* batch.messages
  nextId,    \* next unused call id
  runs,      \* run() calls so far
  outcome,   \* how the last run ended
  ran,       \* history: the calls whose body ran
  tally      \* history: DONE events of this run, requests of this turn,
             \* requests and bodies begun after the abort

loopVars == <<turn, attempts, stalled>>
batch    == <<pending, results>>
runLog   == <<runs, ran>>
vars     == <<pc, aborted, history, request, turn, attempts, stalled,
              pending, results, nextId, runs, outcome, ran, tally>>

\* The two provider refusals classify() answers with Recovery.COMPACT.
Reasons       == {"context_overflow", "payload_too_large"}
NoAttempts    == [r \in Reasons |-> 0]
MaxRecoveries == 1
MaxNudges     == 2
ForcedKeep    == 2
RequestBound  == 1 + 2 * MaxRecoveries   \* a turn's request and one retry per reason

PCs == {"idle", "entering", "top", "hooks", "prepare", "stream", "reply",
        "call", "gate", "body"}
Outcomes == {"none", "refused", "answer", "stopped", "over_budget", "error",
             "max_turns", "aborted", "raised"}

Init ==
  /\ pc = "idle" /\ aborted = FALSE
  /\ history = <<>> /\ request = <<>>
  /\ turn = 0 /\ attempts = NoAttempts /\ stalled = 0
  /\ pending = <<>> /\ results = <<>>
  /\ nextId = 1 /\ runs = 0 /\ outcome = "none"
  /\ ran = {}
  /\ tally = [done |-> 0, asked |-> 0, lateAsks |-> 0, lateBodies |-> 0]

\* A run that returns a RunResult: the given number of DONE events were emitted.
EndWith(o, dones) ==
  /\ pc' = "idle"
  /\ outcome' = o
  /\ tally' = [tally EXCEPT !.done = @ + dones]
End(o) == EndWith(o, 1)

\* An exception other than AgentAborted leaves run(): no RunResult, no DONE.
Raise ==
  /\ Escapes
  /\ pc' = "idle"
  /\ outcome' = "raised"

-------------------------------------------------------------------------------
(* Beginning a run.                                                        *)

\* run(): the lock is taken and the tools are validated; the lease is not held yet.
Start ==
  /\ pc = "idle" /\ runs < MaxRuns
  /\ pc' = "entering"
  /\ runs' = runs + 1
  /\ outcome' = "none"
  /\ tally' = [tally EXCEPT !.done = 0, !.asked = 0, !.lateAsks = 0, !.lateBodies = 0]
  /\ UNCHANGED <<aborted, history, request, loopVars, batch, nextId, ran>>

\* Variant: the transcript an earlier run left is not repaired.
EnterUnrepaired ==
  /\ pc = "entering"
  /\ pc' = "top"
  /\ aborted' = FALSE
  /\ history' = Append(history, User)
  /\ turn' = 0 /\ attempts' = NoAttempts /\ stalled' = 0
  /\ UNCHANGED <<request, batch, nextId, runLog, outcome, tally>>

\* The lease clears the cancellation flag, whoever raised it and when.
Enter ==
  /\ pc = "entering"
  /\ pc' = "top"
  /\ aborted' = FALSE
  /\ history' = Append(Sanitize(history), User)
  /\ turn' = 0 /\ attempts' = NoAttempts /\ stalled' = 0
  /\ UNCHANGED <<request, batch, nextId, runLog, outcome, tally>>

\* Two tools share a name, or there is no model: left before the lease is taken.
EnterRefused ==
  /\ pc = "entering"
  /\ pc' = "idle"
  /\ outcome' = "refused"
  /\ UNCHANGED <<aborted, history, request, loopVars, batch, nextId, runLog, tally>>

\* An image that cannot be encoded ends the run before it touches the transcript.
EnterBadImage ==
  /\ pc = "entering"
  /\ aborted' = FALSE
  /\ End("error")
  /\ UNCHANGED <<history, request, loopVars, batch, nextId, runLog>>

-------------------------------------------------------------------------------
(* A turn up to the provider request.                                      *)

TurnStart ==
  /\ pc = "top" /\ turn < MaxTurns /\ ~aborted
  /\ pc' = "hooks"
  /\ turn' = turn + 1
  /\ tally' = [tally EXCEPT !.asked = 0]
  /\ UNCHANGED <<aborted, history, request, attempts, stalled, batch, nextId,
                 runLog, outcome>>

\* Variant: the exception is swallowed on its way out.
TurnAbortedSwallowed ==
  /\ pc = "top" /\ turn < MaxTurns /\ aborted
  /\ UNCHANGED vars

TurnAborted ==
  /\ pc = "top" /\ turn < MaxTurns /\ aborted
  /\ End("aborted")
  /\ UNCHANGED <<aborted, history, request, loopVars, batch, nextId, runLog>>

\* The loop is exhausted; the flag is not looked at any more.
HandleMaxTurns ==
  /\ pc = "top" /\ turn = MaxTurns
  /\ history' = Append(history, Reply)
  /\ End("max_turns")
  /\ UNCHANGED <<aborted, request, loopVars, batch, nextId, runLog>>

BeforeTurnPasses ==
  /\ pc = "hooks"
  /\ pc' = "prepare"
  /\ UNCHANGED <<aborted, history, request, loopVars, batch, nextId, runLog,
                 outcome, tally>>

\* A hook returns a stop string, which the loop finalises.
BeforeTurnStops ==
  /\ pc = "hooks"
  /\ history' = Append(history, Reply)
  /\ End("stopped")
  /\ stalled' = 0
  /\ UNCHANGED <<aborted, request, turn, attempts, batch, nextId, runLog>>

\* Budget's hook has appended its answer and emitted DONE before the loop does
\* the same with the string it returns.
BudgetStops ==
  /\ pc = "hooks"
  /\ history' = history \o <<Reply, Reply>>
  /\ EndWith("over_budget", 2)
  /\ stalled' = 0
  /\ UNCHANGED <<aborted, request, turn, attempts, batch, nextId, runLog>>

\* What fitting may leave as history: itself, or an adopted compaction.  A
\* demotion by the ladder changes bodies only, so here it is the history itself.
Compactions(h, keep) ==
  IF Strategy = "summarise" THEN Summarised(h, keep) ELSE Laddered(h, keep)

Prepare ==
  /\ pc = "prepare"
  /\ \E h \in {history} \cup Compactions(history, KeepRecent) :
       /\ history' = h
       /\ request' = StripOrphans(h)
  /\ pc' = "stream"
  /\ tally' = [tally EXCEPT !.asked = @ + 1, !.lateAsks = @ + (IF aborted THEN 1 ELSE 0)]
  /\ UNCHANGED <<aborted, loopVars, batch, nextId, runLog, outcome>>

\* ContextWindowExceeded: refused locally, after any compaction was adopted.
PrepareTooLarge ==
  /\ pc = "prepare"
  /\ \E h \in {history} \cup Compactions(history, KeepRecent) :
       history' = Append(Sanitize(h), Reply)
  /\ End("error")
  /\ UNCHANGED <<aborted, request, loopVars, batch, nextId, runLog>>

\* Resolving the tool surface meets two registries publishing one name.
PrepareRaises ==
  /\ pc = "prepare"
  /\ Raise
  /\ UNCHANGED <<aborted, history, request, loopVars, batch, nextId, runLog, tally>>

-------------------------------------------------------------------------------
(* The provider call.                                                      *)

\* Variant: the flag is not looked at between deltas.
StreamAbortedUnseen ==
  /\ pc = "stream" /\ aborted
  /\ UNCHANGED vars

\* Seen between two deltas, or raised by the provider as ProviderInterrupted.
StreamAborted ==
  /\ pc = "stream" /\ aborted
  /\ End("aborted")
  /\ UNCHANGED <<aborted, history, request, loopVars, batch, nextId, runLog>>

HandleProviderError(h) ==
  /\ history' = Append(Sanitize(h), Reply)
  /\ End("error")

\* Any failure whose recovery is STOP.
StreamFails ==
  /\ pc = "stream"
  /\ HandleProviderError(history)
  /\ UNCHANGED <<aborted, request, loopVars, batch, nextId, runLog>>

\* Variant: the retries are not counted.
StreamOverflowsUncounted ==
  /\ pc = "stream"
  /\ history' \in Compactions(history, ForcedKeep)
  /\ pc' = "prepare"
  /\ UNCHANGED <<aborted, request, loopVars, batch, nextId, runLog, outcome, tally>>

\* The provider says the request is too large, in one of two ways: one forced
\* compaction and retry each, if the pass changed the history.  The abort flag is
\* not consulted on the way back.
StreamOverflows ==
  /\ pc = "stream"
  /\ \E r \in Reasons : /\ attempts[r] < MaxRecoveries
                       /\ attempts' = [attempts EXCEPT ![r] = @ + 1]
  /\ \E h \in Compactions(history, ForcedKeep) \cup
              (IF Strategy = "ladder" THEN {history} ELSE {}) :
       history' = h
  /\ pc' = "prepare"
  /\ UNCHANGED <<aborted, request, turn, stalled, batch, nextId, runLog, outcome,
                 tally>>

\* No attempt left, nothing could be removed, or what is left is still too large.
OverflowUnrecovered ==
  /\ pc = "stream"
  /\ \E h \in {history} \cup
              (IF \E r \in Reasons : attempts[r] < MaxRecoveries
               THEN Compactions(history, ForcedKeep) ELSE {}) :
       HandleProviderError(h)
  /\ UNCHANGED <<aborted, request, loopVars, batch, nextId, runLog>>

\* The last delta passed its abort check; the stream ends.
StreamCloses ==
  /\ pc = "stream" /\ ~aborted
  /\ pc' = "reply"
  /\ attempts' = NoAttempts
  /\ UNCHANGED <<aborted, history, request, turn, stalled, batch, nextId, runLog,
                 outcome, tally>>

-------------------------------------------------------------------------------
(* A reply without tool calls.                                             *)

LastIsResult == history # <<>> /\ IsResult(Last(history))

ReplyAnswers ==
  /\ pc = "reply"
  /\ history' = Append(history, Reply)
  /\ stalled' = 0
  /\ End("answer")
  /\ UNCHANGED <<aborted, request, turn, attempts, batch, nextId, runLog>>

\* Empty text after a tool result: nudged while the allowance lasts.
ReplyStalls ==
  /\ pc = "reply" /\ LastIsResult /\ stalled < MaxNudges
  /\ stalled' = stalled + 1
  /\ history' = Append(history, User)
  /\ pc' = "top"
  /\ UNCHANGED <<aborted, request, turn, attempts, batch, nextId, runLog, outcome,
                 tally>>

\* Cut off by the output limit with some text: asked to continue.
ReplyTruncated ==
  /\ pc = "reply"
  /\ history' = history \o <<Reply, User>>
  /\ pc' = "top"
  /\ UNCHANGED <<aborted, request, loopVars, batch, nextId, runLog, outcome, tally>>

ReplyTruncatedEmpty ==
  /\ pc = "reply"
  /\ history' = Append(history, Reply)
  /\ End("error")
  /\ UNCHANGED <<aborted, request, loopVars, batch, nextId, runLog>>

-------------------------------------------------------------------------------
(* A reply with tool calls: the batch, call by call.                       *)

\* The provider's ids are taken to be unique in the conversation.
ReplyCalls ==
  /\ pc = "reply"
  /\ \E n \in 1..MaxBatch :
       LET ids == [k \in 1..n |-> nextId + k - 1]
       IN  /\ history' = Append(history, Announce(ids))
           /\ pending' = ids
           /\ nextId' = nextId + n
  /\ results' = <<>>
  /\ stalled' = 0
  /\ pc' = "call"
  /\ UNCHANGED <<aborted, request, turn, attempts, runLog, outcome, tally>>

\* AgentAborted inside a batch: the calls without a result get one each.
AnswerRemaining(calls, msgs) ==
  LET answered == {msgs[i].id : i \in DOMAIN msgs}
  IN  msgs \o FlattenSeq([k \in DOMAIN calls |->
                IF calls[k] \in answered THEN <<>> ELSE <<NotRun(calls[k])>>])

\* Variants: the calls left behind stay unanswered; the run ends without DONE.
AbortBatchUnanswered ==
  /\ history' = history \o results
  /\ pending' = <<>> /\ results' = <<>>
  /\ End("aborted")
AbortBatchSilent ==
  /\ history' = history \o AnswerRemaining(pending, results)
  /\ pending' = <<>> /\ results' = <<>>
  /\ EndWith("aborted", 0)

AbortBatch ==
  /\ history' = history \o AnswerRemaining(pending, results)
  /\ pending' = <<>> /\ results' = <<>>
  /\ End("aborted")

CallAborted ==
  /\ pc = "call" /\ pending # <<>> /\ aborted
  /\ AbortBatch
  /\ UNCHANGED <<aborted, request, loopVars, nextId, runLog>>

\* Variant: the flag is looked at once, before the first call.
CallNextUnchecked ==
  /\ pc = "call" /\ pending # <<>> /\ (results = <<>> => ~aborted)
  /\ pc' = "gate"
  /\ UNCHANGED <<aborted, history, request, loopVars, batch, nextId, runLog,
                 outcome, tally>>

CallNext ==
  /\ pc = "call" /\ pending # <<>> /\ ~aborted
  /\ pc' = "gate"
  /\ UNCHANGED <<aborted, history, request, loopVars, batch, nextId, runLog,
                 outcome, tally>>

\* Out of scope, invalid arguments, or stopped by one of the gates.
GateBlocks ==
  /\ pc = "gate"
  /\ results' = Append(results, NotRun(Head(pending)))
  /\ pending' = Tail(pending)
  /\ pc' = "call"
  /\ UNCHANGED <<aborted, history, request, loopVars, nextId, runLog, outcome, tally>>

\* A feature gate or the user at the approval prompt aborts the run.
GateAborts ==
  /\ pc = "gate"
  /\ AbortBatch
  /\ UNCHANGED <<aborted, request, loopVars, nextId, runLog>>

\* The surface of this call meets a name conflict: the batch's messages are lost.
GateRaises ==
  /\ pc = "gate"
  /\ Raise
  /\ pending' = <<>> /\ results' = <<>>
  /\ UNCHANGED <<aborted, history, request, loopVars, nextId, runLog, tally>>

GateAllows ==
  /\ pc = "gate"
  /\ pc' = "body"
  /\ tally' = [tally EXCEPT !.lateBodies = @ + (IF aborted THEN 1 ELSE 0)]
  /\ UNCHANGED <<aborted, history, request, loopVars, batch, nextId, runLog, outcome>>

\* Variant: the flag is looked at again behind the body, and the result dropped.
BodyReturnsLate ==
  /\ pc = "body"
  /\ ran' = ran \cup {Head(pending)}
  /\ results' = Append(results, IF aborted THEN NotRun(Head(pending))
                                ELSE Result(Head(pending)))
  /\ pending' = Tail(pending)
  /\ pc' = "call"
  /\ UNCHANGED <<aborted, history, request, loopVars, nextId, runs, outcome, tally>>

\* A body that returns or raises: both become the call's one result.
BodyReturns ==
  /\ pc = "body"
  /\ ran' = ran \cup {Head(pending)}
  /\ results' = Append(results, Result(Head(pending)))
  /\ pending' = Tail(pending)
  /\ pc' = "call"
  /\ UNCHANGED <<aborted, history, request, loopVars, nextId, runs, outcome, tally>>

\* The body ran, but its result cannot be serialised: json.dumps raises.
BodyUnserialisable ==
  /\ pc = "body"
  /\ Raise
  /\ ran' = ran \cup {Head(pending)}
  /\ pending' = <<>> /\ results' = <<>>
  /\ UNCHANGED <<aborted, history, request, loopVars, nextId, runs, tally>>

BatchDone ==
  /\ pc = "call" /\ pending = <<>>
  /\ history' = history \o results
  /\ results' = <<>>
  /\ pc' = "top"
  /\ UNCHANGED <<aborted, request, loopVars, pending, nextId, runLog, outcome, tally>>

-------------------------------------------------------------------------------
(* Other threads, and the host between runs.                               *)

Abort ==
  /\ ~aborted
  /\ aborted' = TRUE
  /\ UNCHANGED <<pc, history, request, loopVars, batch, nextId, runLog, outcome, tally>>

ClearHistory ==
  /\ pc = "idle"
  /\ history' = <<>> /\ turn' = 0
  /\ UNCHANGED <<pc, aborted, request, attempts, stalled, batch, nextId, runLog,
                 outcome, tally>>

ForceCompaction ==
  /\ pc = "idle"
  /\ history' \in Compactions(history, KeepRecent)
  /\ UNCHANGED <<pc, aborted, request, loopVars, batch, nextId, runLog, outcome, tally>>

-------------------------------------------------------------------------------
Entering  == Enter \/ EnterRefused \/ EnterBadImage
Preparing == TurnStart \/ TurnAborted \/ HandleMaxTurns \/ BeforeTurnPasses
             \/ BeforeTurnStops \/ BudgetStops
             \/ Prepare \/ PrepareTooLarge \/ PrepareRaises
Streaming == StreamFails \/ StreamOverflows \/ OverflowUnrecovered \/ StreamCloses
Replying  == ReplyAnswers \/ ReplyStalls \/ ReplyTruncated \/ ReplyTruncatedEmpty
             \/ ReplyCalls
Calling   == CallAborted \/ CallNext \/ GateBlocks \/ GateAborts \/ GateRaises
             \/ GateAllows \/ BodyReturns \/ BodyUnserialisable \/ BatchDone

\* Everything the agent thread does by itself once tools and gates return.
Agent == Entering \/ Preparing \/ StreamAborted \/ Replying \/ Calling

Next == Start \/ Agent \/ Streaming \/ Abort \/ ClearHistory \/ ForceCompaction

\* The agent thread is scheduled, and tools, gates and users answer it.
AgentFairness == WF_vars(Agent)
\* The provider answers, fails or is stopped by its stall deadline: assumed only
\* where a property says so.
ProviderFairness == WF_vars(Agent \/ Streaming)

Spec == Init /\ [][Next]_vars /\ AgentFairness
-------------------------------------------------------------------------------
(* Properties.                                                             *)

Running == pc \notin {"idle", "entering"}

\* The control state has the shape the code gives it (loop.run's locals, the
\* cancellation event, the counters kept here about a run).
ControlTypeOK ==
  /\ pc \in PCs
  /\ aborted \in BOOLEAN
  /\ turn \in 0..MaxTurns
  /\ attempts \in [Reasons -> 0..MaxRecoveries]
  /\ stalled \in 0..MaxNudges
  /\ runs \in 0..MaxRuns
  /\ outcome \in Outcomes
  /\ tally \in [done : Nat, asked : Nat, lateAsks : Nat, lateBodies : Nat]

\* Every variable has its type: the control state above, and a transcript, a
\* request and a batch made of messages about positive call ids.
TypeOK ==
  /\ ControlTypeOK
  /\ nextId \in Nat \ {0}
  /\ history \in Seq(Message(Nat \ {0}))
  /\ request \in Seq(Message(Nat \ {0}))
  /\ results \in Seq(Message(Nat \ {0}))
  /\ pending \in Seq(Nat \ {0})
  /\ ran \subseteq Nat \ {0}

\* Whatever happened before - aborted and dying batches, failed requests,
\* compaction, earlier runs - the messages a provider is sent pair every
\* announced call with exactly one result, directly behind it
\* (Conversation.sanitize, strip_orphan_tool_messages, execute_calls).
RequestPaired == pc = "stream" => Paired(request)

\* An abort is prompt: after abort() the thread opens no more than the request
\* it was about to open and that request's compacting retries, or starts no
\* more than the one tool body it had already gated, and never both
\* (check_abort per turn and per delta, execute_calls' check per call).
AbortIsPrompt ==
  /\ tally.lateAsks <= RequestBound
  /\ tally.lateBodies <= 1
  /\ tally.lateAsks = 0 \/ tally.lateBodies = 0

\* One turn asks the provider once, plus one retry per kind of refusal after a
\* compaction: nothing re-arms the counters inside a turn (_try_recover, and
\* the reset after a completed request).
RequestsPerTurn == tally.asked <= RequestBound

\* A run that returns has announced DONE exactly once, whichever way it ended
\* (_finalize_text_turn, the error, length, limit and abort endings); only a
\* stop by Budget announces it twice.
DoneOnce ==
  pc = "idle" /\ outcome \notin {"none", "refused", "raised"} =>
    tally.done = IF outcome = "over_budget" THEN 2 ELSE 1

\* A result that tells the model its call never ran is about a call whose body
\* did not run (_answer_remaining, the synthetic results of sanitize).
NotRunIsTrue ==
  \A i \in DOMAIN history :
    IsResult(history[i]) /\ ~history[i].ran => history[i].id \notin ran

\* Between runs no announced call lacks its result: every way out of a batch
\* answers the calls it leaves behind.
AnsweredAtRest == pc = "idle" => Paired(StripOrphans(history))

\* With a provider that answers, fails or stalls out, every run ends: turns,
\* recoveries and nudges are all bounded.
RunEnds == ProviderFairness => ((pc # "idle") ~> (pc = "idle"))

\* Even when the provider never answers, an abort ends the run it reaches,
\* provided tool bodies, gates and the approval prompt return.
AbortEndsRun == (Running /\ aborted) ~> (pc = "idle")

\* The loop keeps the provider's contract about announced calls.
Phase == CASE pc \in {"idle", "entering"}  -> "rest"
           [] pc \in {"stream", "reply"}   -> "asked"
           [] OTHER                        -> "busy"
Contract == INSTANCE Exchange WITH
              Ids <- Nat \ {0}, phase <- Phase, owed <- Unanswered(history)
ImplementsExchange == Contract!Spec
===============================================================================
