---------------------------- MODULE LoopGuardProofs ----------------------------
(***************************************************************************)
(* Theorems about LoopGuard, and about ToolMemory, which puts the dedupe   *)
(* cache before it, for all sets of calls, tools, targets and files, all   *)
(* roles and all limits.                                                   *)
(*                                                                         *)
(* HardStop and StuckUntilCleared rest on one inductive fact: the call     *)
(* under way is below its limit, because the gate read the streak and      *)
(* nothing raises a streak while it is under way but its own failure.      *)
(* What is said of the window needs the lemmas about KeepAt, the sequence  *)
(* that forget_tools leaves.  Every step of ToolMemory is one of the guard *)
(* or none, so all of it holds there too; what is added is that neither    *)
(* memory knows a read whose file has changed since.                       *)
(***************************************************************************)
EXTENDS ToolMemory, TLAPS, FiniteSetTheorems

-------------------------------------------------------------------------------
(* Keeping some positions of a sequence.                                   *)

\* Ranks number the kept positions from 1 without gap or repetition.
LEMMA RankNumbers ==
  ASSUME NEW kept, IsFiniteSet(kept), kept \subseteq Nat \ {0}
  PROVE  /\ Cardinality(kept) \in Nat
         /\ \A i \in kept : Rank(kept, i) \in 1..Cardinality(kept)
         /\ \A i \in kept, j \in kept : Rank(kept, i) = Rank(kept, j) => i = j
         /\ \A k \in 1..Cardinality(kept) : \E i \in kept : Rank(kept, i) = k
<1> DEFINE Upto(i) == {j \in kept : j <= i}
<1>1. Cardinality(kept) \in Nat
  BY FS_CardinalityType
<1>2. ASSUME NEW i \in kept
      PROVE  /\ IsFiniteSet(Upto(i)) /\ i \in Upto(i)
             /\ Rank(kept, i) = Cardinality(Upto(i))
             /\ Rank(kept, i) \in 1..Cardinality(kept)
  <2>1. Upto(i) \in SUBSET kept /\ i \in Upto(i)
    OBVIOUS
  <2>2. IsFiniteSet(Upto(i)) /\ Cardinality(Upto(i)) <= Cardinality(kept)
    BY <2>1, FS_Subset
  <2>3. Cardinality(Upto(i)) \in Nat /\ Cardinality(Upto(i)) # 0
    BY <2>1, <2>2, FS_CardinalityType, FS_EmptySet
  <2> QED
    BY <1>1, <2>1, <2>2, <2>3 DEF Rank
<1>3. ASSUME NEW i \in kept, NEW j \in kept, i < j
      PROVE  Rank(kept, i) # Rank(kept, j)
  <2>1. Upto(i) \in SUBSET Upto(j)
    <3> SUFFICES ASSUME NEW k \in kept, k <= i PROVE k <= j
      OBVIOUS
    <3> QED
      BY <1>3
  <2>2. j \in Upto(j) /\ j \notin Upto(i)
    BY <1>3
  <2>3. Cardinality(Upto(j)) # Cardinality(Upto(i))
    BY <1>2, <2>1, <2>2, FS_Subset
  <2> QED
    BY <1>2, <2>3
<1> DEFINE rank == [i \in kept |-> Rank(kept, i)]
<1>4. rank \in Injection(kept, 1..Cardinality(kept))
  <2>1. rank \in [kept -> 1..Cardinality(kept)]
    BY <1>2
  <2>2. ASSUME NEW i \in kept, NEW j \in kept, rank[i] = rank[j]
        PROVE  i = j
    BY <1>3, <2>2
  <2> QED
    BY <2>1, <2>2 DEF Injection, IsInjective
<1>5. /\ IsFiniteSet(1..Cardinality(kept))
      /\ Cardinality(1..Cardinality(kept)) = Cardinality(kept)
  BY <1>1, FS_Interval
<1>6. rank \in Surjection(kept, 1..Cardinality(kept))
  BY <1>4, <1>5, FS_Injection
<1>7. \A k \in 1..Cardinality(kept) : \E i \in kept : Rank(kept, i) = k
  BY <1>6 DEF Surjection
<1>8. \A i \in kept, j \in kept : Rank(kept, i) = Rank(kept, j) => i = j
  BY <1>3
<1> QED
  BY <1>1, <1>2, <1>7, <1>8

\* What is left of a sequence is a sequence of the same elements, no longer than
\* it was, and holds the elements of the kept positions and no others.
LEMMA KeepAtKeeps ==
  ASSUME NEW S, NEW s \in Seq(S), NEW kept \in SUBSET DOMAIN s
  PROVE  /\ KeepAt(s, kept) \in Seq(S)
         /\ Len(KeepAt(s, kept)) <= Len(s)
         /\ Remembered(KeepAt(s, kept)) = {s[i] : i \in kept}
<1>1. /\ IsFiniteSet(1..Len(s)) /\ Cardinality(1..Len(s)) = Len(s)
      /\ DOMAIN s = 1..Len(s) /\ Len(s) \in Nat
  <2>1. Len(s) \in Nat /\ DOMAIN s = 1..Len(s)
    OBVIOUS
  <2>2. /\ IsFiniteSet(1..Len(s))
        /\ Cardinality(1..Len(s)) = IF 1 > Len(s) THEN 0 ELSE Len(s) - 1 + 1
    BY <2>1, FS_Interval
  <2> QED
    BY <2>1, <2>2
<1>2. IsFiniteSet(kept) /\ Cardinality(kept) <= Len(s) /\ kept \subseteq Nat \ {0}
  BY <1>1, FS_Subset
<1> DEFINE n     == Cardinality(kept)
           At(k) == CHOOSE i \in kept : Rank(kept, i) = k
<1>3. n \in Nat /\ \A k \in 1..n : At(k) \in kept /\ Rank(kept, At(k)) = k
  BY <1>2, RankNumbers
<1>4. KeepAt(s, kept) = [k \in 1..n |-> s[At(k)]]
  BY DEF KeepAt
<1>5. \A i \in kept : s[i] \in S
  BY <1>1
<1> HIDE DEF n, At
<1>6. KeepAt(s, kept) \in Seq(S) /\ Len(KeepAt(s, kept)) = n
  BY <1>3, <1>4, <1>5
<1>7. \A i \in kept : \E k \in 1..n : At(k) = i
  <2> SUFFICES ASSUME NEW i \in kept PROVE \E k \in 1..n : At(k) = i
    OBVIOUS
  <2>1. Rank(kept, i) \in 1..n
    BY <1>2, RankNumbers DEF n
  <2>2. At(Rank(kept, i)) = i
    BY <1>2, <1>3, <2>1, RankNumbers
  <2> QED
    BY <2>1, <2>2
<1> QED
  BY <1>2, <1>3, <1>4, <1>6, <1>7 DEF Remembered, n

-------------------------------------------------------------------------------
(* The invariants of every step.                                           *)

\* No call is let through at its limit, and only one is under way.
GrantsBelowLimit ==
  /\ \A c \in granted, d \in granted : c = d
  /\ \A c \in granted :
       ErrorChecked(ToolOf[c]) => streak[TargetOf[c]] < ErrStreakLimit

\* The types HardStop needs.
StreakTyped == streak \in [Targets -> Nat] /\ granted \subseteq Calls

StreakInv == StreakTyped /\ GrantsBelowLimit /\ HardStop

LEMMA StreakInvariance == GuardSpec => []StreakInv
<1> USE LoopGuardAssumption DEF LoopGuardAssumption
<1>1. GuardInit => StreakInv
  BY DEF GuardInit, StreakInv, StreakTyped, GrantsBelowLimit, HardStop
<1>2. StreakInv /\ [GuardNext]_guardVars => StreakInv'
  <2> SUFFICES ASSUME StreakInv, [GuardNext]_guardVars
               PROVE  StreakInv'
    OBVIOUS
  <2> USE DEF StreakInv, StreakTyped, GrantsBelowLimit, HardStop
  <2>1. ASSUME NEW c \in Calls, Admit(c) \/ AdmitApproved(c) \/ AskContinue(c)
        PROVE  StreakInv'
    <3>1. /\ granted' = {c} /\ streak' = streak
          /\ ErrorChecked(ToolOf[c]) => ~(streak[TargetOf[c]] >= ErrStreakLimit)
      BY <2>1 DEF Admit, AdmitApproved, AskContinue, FailureLoop, failures
    <3>2. TargetOf[c] \in Targets
      OBVIOUS
    <3> QED
      BY <3>1, <3>2
  <2>2. ASSUME NEW c \in Calls, AskRefuse(c)
        PROVE  StreakInv'
    BY <2>2 DEF AskRefuse, failures
  <2>3. ASSUME NEW c \in Calls, Succeed(c)
        PROVE  StreakInv'
    <3>1. granted' = {} /\ streak' = [streak EXCEPT ![TargetOf[c]] = 0]
      BY <2>3 DEF Succeed
    <3> QED
      BY <3>1
  <2>4. ASSUME NEW c \in Calls, Fail(c)
        PROVE  StreakInv'
    <3>1. /\ c \in granted /\ granted' = {}
          /\ streak' = [streak EXCEPT ![TargetOf[c]] = @ + 1]
      BY <2>4 DEF Fail
    <3>2. ErrorChecked(ToolAt[TargetOf[c]]) => streak[TargetOf[c]] + 1 <= ErrStreakLimit
      BY <3>1
    <3> QED
      BY <3>1, <3>2
  <2>5. CASE Decline
    BY <2>5 DEF Decline, failures
  <2>6. CASE OnNewTurn
    BY <2>6 DEF OnNewTurn
  <2>7. CASE OnCompacted
    BY <2>7 DEF OnCompacted, failures
  <2>8. CASE OnCleared
    BY <2>8 DEF OnCleared
  <2>9. CASE UNCHANGED guardVars
    BY <2>9 DEF guardVars
  <2> QED
    BY <2>1, <2>2, <2>3, <2>4, <2>5, <2>6, <2>7, <2>8, <2>9 DEF GuardNext
<1> QED
  BY <1>1, <1>2, PTL DEF GuardSpec

\* No target of an error-checked tool fails more often in a row than
\* err_streak_limit says (check_error_streak, record), for any limit and roles.
THEOREM FailuresStop == GuardSpec => []HardStop
BY StreakInvariance, PTL DEF StreakInv

\* A target that has reached the limit is refused until the conversation is
\* cleared: nothing else can end its streak (reset_repeat_window and
\* reset_for_new_turn leave _error_streak alone).
THEOREM StuckStays == GuardSpec => StuckUntilCleared
<1> USE LoopGuardAssumption DEF LoopGuardAssumption
<1>1. StreakInv /\ [GuardNext]_guardVars
        => [~OnCleared => \A t \in Targets : Stuck(t) => Stuck(t)']_guardVars
  <2> SUFFICES ASSUME StreakInv, GuardNext, ~OnCleared,
                      NEW t \in Targets, Stuck(t)
               PROVE  Stuck(t)'
    OBVIOUS
  <2>1. ASSUME NEW c \in Calls, Succeed(c) \/ Fail(c)
        PROVE  Stuck(t)'
    <3>1. c \in granted /\ \E n \in {0, streak[TargetOf[c]] + 1} :
            streak' = [streak EXCEPT ![TargetOf[c]] = n]
      BY <2>1 DEF Succeed, Fail
    <3>2. TargetOf[c] # t
      BY <3>1 DEF StreakInv, StreakTyped, GrantsBelowLimit, Stuck
    <3>3. streak'[t] = streak[t]
      BY <3>1, <3>2 DEF StreakInv, StreakTyped
    <3> QED
      BY <3>3 DEF Stuck
  <2>2. CASE UNCHANGED streak
    BY <2>2 DEF Stuck
  <2>3. ASSUME NEW c \in Calls,
               Admit(c) \/ AdmitApproved(c) \/ AskContinue(c) \/ AskRefuse(c)
        PROVE  UNCHANGED streak
    BY <2>3 DEF Admit, AdmitApproved, AskContinue, AskRefuse, failures
  <2>4. CASE Decline \/ OnNewTurn \/ OnCompacted
    BY <2>2, <2>4 DEF Decline, OnNewTurn, OnCompacted, failures
  <2> QED
    BY <2>1, <2>2, <2>3, <2>4 DEF GuardNext
<1> QED
  BY <1>1, StreakInvariance, PTL DEF GuardSpec, StuckUntilCleared

-------------------------------------------------------------------------------
(* Approved repeats.                                                       *)

ApprovalsTyped == left \in [Calls -> Nat] /\ spent \in [Calls -> Nat]

LEMMA ApprovalsInvariance == GuardSpec => [](ApprovalsTyped /\ OverridesAreBounded)
<1> USE LoopGuardAssumption DEF LoopGuardAssumption, ApprovalsTyped, OverridesAreBounded
<1>1. GuardInit => ApprovalsTyped /\ OverridesAreBounded
  BY DEF GuardInit
<1>2. ApprovalsTyped /\ OverridesAreBounded /\ [GuardNext]_guardVars
        => ApprovalsTyped' /\ OverridesAreBounded'
  <2> SUFFICES ASSUME ApprovalsTyped, OverridesAreBounded, [GuardNext]_guardVars
               PROVE  ApprovalsTyped' /\ OverridesAreBounded'
    OBVIOUS
  <2>1. ASSUME UNCHANGED approvals
        PROVE  ApprovalsTyped' /\ OverridesAreBounded'
    BY <2>1 DEF approvals
  <2>2. ASSUME NEW c \in Calls, AdmitApproved(c)
        PROVE  ApprovalsTyped' /\ OverridesAreBounded'
    <3>1. /\ c \in asked /\ left[c] > 0 /\ asked' = asked
          /\ left' = [left EXCEPT ![c] = @ - 1]
          /\ spent' = [spent EXCEPT ![c] = @ + 1]
      BY <2>2 DEF AdmitApproved
    <3> QED
      BY <3>1
  <2>3. ASSUME NEW c \in Calls, AskContinue(c)
        PROVE  ApprovalsTyped' /\ OverridesAreBounded'
    <3>1. /\ c \notin asked /\ asked' = asked \cup {c}
          /\ left' = [left EXCEPT ![c] = MaxApprovedRepeats - 1]
          /\ spent' = [spent EXCEPT ![c] = @ + 1]
      BY <2>3 DEF AskContinue
    <3>2. spent[c] = 0
      BY <3>1
    <3> QED
      BY <3>1, <3>2
  <2>4. ASSUME NEW c \in Calls, AskRefuse(c)
        PROVE  ApprovalsTyped' /\ OverridesAreBounded'
    <3>1. /\ c \notin asked /\ asked' = asked \cup {c}
          /\ left' = [left EXCEPT ![c] = 0] /\ spent' = spent
      BY <2>4 DEF AskRefuse
    <3> QED
      BY <3>1
  <2>5. ASSUME NEW c \in Calls, Admit(c) \/ Succeed(c) \/ Fail(c)
        PROVE  UNCHANGED approvals
    BY <2>5 DEF Admit, Succeed, Fail
  <2>6. CASE OnNewTurn \/ OnCompacted \/ OnCleared
    BY <2>6 DEF OnNewTurn, OnCompacted, OnCleared, ResetRepeatWindow
  <2>7. CASE Decline \/ UNCHANGED guardVars
    BY <2>1, <2>7 DEF Decline, guardVars, approvals
  <2> QED
    BY <2>1, <2>2, <2>3, <2>4, <2>5, <2>6, <2>7 DEF GuardNext
<1> QED
  BY <1>1, <1>2, PTL DEF GuardSpec

\* One "continue" is worth max_approved_repeats repeats of its call and no more,
\* and a call nobody was asked about repeats never (_confirm_repeat, the resets).
THEOREM OverridesBounded == GuardSpec => []OverridesAreBounded
BY ApprovalsInvariance, PTL

-------------------------------------------------------------------------------
(* The window.                                                             *)

WindowTyped ==
  /\ recent \in Seq(Calls) /\ Len(recent) <= Window
  /\ granted \subseteq Calls /\ lastError \subseteq Calls

WindowInv == WindowTyped /\ ErrorMemoryIsLive

\* Recording a call keeps the window in bounds; whatever it drops was evicted.
LEMMA ShiftWindow ==
  ASSUME NEW s \in Seq(Calls), Len(s) <= Window, NEW c \in Calls
  PROVE  /\ Shift(s, c) \in Seq(Calls) /\ Len(Shift(s, c)) <= Window
         /\ c \in Remembered(Shift(s, c))
         /\ Remembered(s) \ Evicted(s, c) \subseteq Remembered(Shift(s, c))
<1> DEFINE long == Append(s, c)
<1>0. Window \in Nat \ {0}
  BY LoopGuardAssumption DEF LoopGuardAssumption, Window
<1>1. /\ long \in Seq(Calls) /\ Len(long) = Len(s) + 1 /\ long[Len(s) + 1] = c
      /\ \A i \in 1..Len(s) : long[i] = s[i]
  OBVIOUS
<1>2. CASE Len(s) + 1 > Window
  <2>1. /\ Shift(s, c) = Tail(long)
        /\ Evicted(s, c) = {Head(long)} \ Remembered(Tail(long))
    BY <1>2 DEF Shift, Evicted
  <2>2. /\ Tail(long) \in Seq(Calls) /\ Len(Tail(long)) = Len(s)
        /\ \A i \in 1..Len(s) : Tail(long)[i] = long[i + 1]
        /\ Len(s) \in Nat \ {0} /\ Head(long) = long[1]
    BY <1>0, <1>1, <1>2
  <2>3. c \in Remembered(Tail(long))
    <3>1. Tail(long)[Len(s)] = c /\ Len(s) \in DOMAIN Tail(long)
      BY <1>1, <2>2
    <3> QED
      BY <3>1 DEF Remembered
  <2>4. ASSUME NEW e \in Remembered(s), e # Head(long)
        PROVE  e \in Remembered(Tail(long))
    <3>1. PICK i \in 1..Len(s) : e = s[i]
      BY <2>4 DEF Remembered
    <3>2. i # 1 /\ i - 1 \in 1..Len(s) /\ Tail(long)[i - 1] = long[i]
      BY <1>1, <2>2, <2>4, <3>1
    <3>3. DOMAIN Tail(long) = 1..Len(s)
      BY <2>2
    <3> QED
      BY <1>1, <3>1, <3>2, <3>3 DEF Remembered
  <2> QED
    BY <2>1, <2>2, <2>3, <2>4
<1>3. CASE ~(Len(s) + 1 > Window)
  <2>1. Shift(s, c) = long /\ Evicted(s, c) = {}
    BY <1>3 DEF Shift, Evicted
  <2>2. DOMAIN long = 1..(Len(s) + 1) /\ DOMAIN s = 1..Len(s)
    BY <1>1
  <2>3. c \in Remembered(long) /\ Remembered(s) \subseteq Remembered(long)
    BY <1>1, <2>2 DEF Remembered
  <2> QED
    BY <1>0, <1>1, <1>3, <2>1, <2>3
<1> QED
  BY <1>2, <1>3

LEMMA WindowInvariance == GuardSpec => []WindowInv
<1> USE DEF WindowInv, WindowTyped, ErrorMemoryIsLive
<1>1. GuardInit => WindowInv
  <2> SUFFICES ASSUME GuardInit PROVE WindowInv
    OBVIOUS
  <2>1. recent = <<>> /\ lastError = {} /\ granted = {}
    BY DEF GuardInit
  <2>2. Window \in Nat
    BY LoopGuardAssumption DEF LoopGuardAssumption, Window
  <2> QED
    BY <2>1, <2>2
<1>2. WindowInv /\ [GuardNext]_guardVars => WindowInv'
  <2> SUFFICES ASSUME WindowInv, [GuardNext]_guardVars
               PROVE  WindowInv'
    OBVIOUS
  <2>1. ASSUME UNCHANGED evidence, granted' \subseteq Calls
        PROVE  WindowInv'
    BY <2>1 DEF evidence, Remembered
  <2>2. ASSUME NEW c \in Calls,
               Admit(c) \/ AdmitApproved(c) \/ AskContinue(c) \/ AskRefuse(c)
        PROVE  WindowInv'
    BY <2>1, <2>2 DEF Admit, AdmitApproved, AskContinue, AskRefuse
  <2>3. ASSUME NEW c \in Calls, Fail(c)
        PROVE  WindowInv'
    <3>1. PICK told \in {{}, {c}} :
            lastError' = (lastError \ Evicted(recent, c)) \cup told
      BY <2>3 DEF Fail
    <3>2. recent' = Shift(recent, c) /\ granted' = {}
      BY <2>3 DEF Fail
    <3> QED
      BY <3>1, <3>2, ShiftWindow
  <2>4. ASSUME NEW c \in Calls, Succeed(c)
        PROVE  WindowInv'
    <3> DEFINE kept    == Remaining(ToolOf[c])
               trimmed == IF kept = DOMAIN recent THEN recent ELSE KeepAt(recent, kept)
               errors  == IF kept = DOMAIN recent THEN lastError
                          ELSE {e \in lastError : ToolOf[e] \notin Forgets[ToolOf[c]]}
    <3>1. /\ recent' = Shift(trimmed, c) /\ granted' = {}
          /\ lastError' = (errors \ Evicted(trimmed, c)) \ {c}
      BY <2>4 DEF Succeed
    <3>2. kept \in SUBSET DOMAIN recent
      BY DEF Remaining
    <3>3. /\ trimmed \in Seq(Calls) /\ Len(trimmed) <= Window
          /\ errors \subseteq Remembered(trimmed)
      <4>1. CASE kept = DOMAIN recent
        BY <4>1
      <4>2. CASE kept # DOMAIN recent
        <5>1. /\ KeepAt(recent, kept) \in Seq(Calls)
              /\ Len(KeepAt(recent, kept)) <= Len(recent)
              /\ Remembered(KeepAt(recent, kept)) = {recent[i] : i \in kept}
          BY <3>2, KeepAtKeeps
        <5>2. Window \in Nat
          BY LoopGuardAssumption DEF LoopGuardAssumption, Window
        <5>3. Len(KeepAt(recent, kept)) <= Window
          BY <5>1, <5>2
        <5>4. ASSUME NEW e \in lastError, ToolOf[e] \notin Forgets[ToolOf[c]]
              PROVE  e \in {recent[i] : i \in kept}
          BY <5>4 DEF Remembered, Remaining
        <5> QED
          BY <4>2, <5>1, <5>3, <5>4
      <4> QED
        BY <4>1, <4>2
    <3>4. errors \subseteq Calls
      OBVIOUS
    <3> HIDE DEF kept, trimmed, errors
    <3>5. /\ recent' \in Seq(Calls) /\ Len(recent') <= Window
          /\ Remembered(trimmed) \ Evicted(trimmed, c) \subseteq Remembered(recent')
      BY <3>1, <3>3, ShiftWindow
    <3>6. lastError' \subseteq Remembered(recent') /\ lastError' \subseteq Calls
      BY <3>1, <3>3, <3>4, <3>5
    <3> QED
      BY <3>1, <3>5, <3>6
  <2>5. CASE OnNewTurn \/ OnCompacted \/ OnCleared
    <3>1. recent' = <<>> /\ lastError' = {} /\ granted' \subseteq Calls
      BY <2>5 DEF OnNewTurn, OnCompacted, OnCleared, ResetRepeatWindow
    <3>2. Window \in Nat
      BY LoopGuardAssumption DEF LoopGuardAssumption, Window
    <3> QED
      BY <3>1, <3>2
  <2>6. CASE Decline \/ UNCHANGED guardVars
    BY <2>1, <2>6 DEF Decline, guardVars, evidence
  <2> QED
    BY <2>2, <2>3, <2>4, <2>5, <2>6 DEF GuardNext
<1> QED
  BY <1>1, <1>2, PTL DEF GuardSpec

\* The text of an error is remembered only for a call the duplicate check can
\* still meet (record's eviction, forget_tools' filter, the resets).
THEOREM ErrorMemoryLive == GuardSpec => []ErrorMemoryIsLive
BY WindowInvariance, PTL DEF WindowInv

\* The cycle check never has the last word: a call that would close a period of
\* two or three is in the window, where the duplicate check has found it before
\* (decide's order of checks), whatever the lookbacks.
THEOREM CyclesAreDuplicates == GuardSpec => []CycleIsDuplicate
<1>1. WindowTyped => CycleIsDuplicate
  <2> SUFFICES ASSUME WindowTyped, NEW c \in Calls, Cycle(c)
               PROVE  Duplicate(c)
    BY DEF CycleIsDuplicate
  <2> DEFINE seq == Append(recent, c)
  <2>1. recent \in Seq(Calls)
    BY DEF WindowTyped
  <2>2. /\ Len(seq) = Len(recent) + 1 /\ Len(recent) \in Nat
        /\ seq[Len(seq)] = c
        /\ \A i \in 1..Len(recent) : seq[i] = recent[i]
    BY <2>1
  <2>3. PICK p \in {2, 3} :
          /\ Len(seq) >= 2 * p
          /\ \A i \in 1..p : seq[Len(seq) - 2 * p + i] = seq[Len(seq) - p + i]
    BY DEF Cycle
  <2> HIDE DEF seq
  <2>4. seq[Len(seq) - p] = c /\ Len(seq) - p \in 1..Len(recent)
    <3>1. p \in 1..p
      BY <2>3
    <3>2. seq[Len(seq) - 2 * p + p] = seq[Len(seq) - p + p]
      BY <2>3, <3>1
    <3>3. Len(seq) - 2 * p + p = Len(seq) - p /\ Len(seq) - p + p = Len(seq)
      BY <2>2
    <3> QED
      BY <2>2, <2>3, <3>2, <3>3
  <2>5. c \in Remembered(recent)
    BY <2>1, <2>2, <2>4 DEF Remembered
  <2> QED
    BY <2>5 DEF Duplicate, Cycle
<1> QED
  BY <1>1, WindowInvariance, PTL DEF WindowInv

\* Every part of the guard keeps its type and the window its bound, whatever
\* record, forget_tools and the resets do to it.
THEOREM GuardTyped == GuardSpec => []GuardTypeOK
<1> USE LoopGuardAssumption DEF LoopGuardAssumption
<1> DEFINE CountersTyped == consecutive \in Nat /\ asked \subseteq Calls
<1>1. GuardInit => CountersTyped
  BY DEF GuardInit
<1>2. CountersTyped /\ [GuardNext]_guardVars => CountersTyped'
  <2> SUFFICES ASSUME CountersTyped, [GuardNext]_guardVars
               PROVE  CountersTyped'
    OBVIOUS
  <2>1. ASSUME NEW c \in Calls, \/ Admit(c) \/ AdmitApproved(c) \/ AskContinue(c)
                                \/ AskRefuse(c) \/ Succeed(c) \/ Fail(c)
        PROVE  CountersTyped'
    BY <2>1 DEF Admit, AdmitApproved, AskContinue, AskRefuse, Succeed, Fail,
                failures, approvals
  <2>2. CASE OnNewTurn \/ OnCompacted \/ OnCleared
    BY <2>2 DEF OnNewTurn, OnCompacted, OnCleared, ResetRepeatWindow, failures
  <2>3. CASE Decline \/ UNCHANGED guardVars
    BY <2>3 DEF Decline, guardVars, failures, approvals
  <2> QED
    BY <2>1, <2>2, <2>3 DEF GuardNext
<1>3. WindowInv /\ StreakInv /\ ApprovalsTyped /\ CountersTyped => GuardTypeOK
  BY DEF WindowInv, WindowTyped, StreakInv, StreakTyped, ApprovalsTyped, GuardTypeOK
<1> QED
  BY <1>1, <1>2, <1>3, WindowInvariance, StreakInvariance, ApprovalsInvariance, PTL
     DEF GuardSpec
-------------------------------------------------------------------------------
(* The cache and the guard over conversation and files.                    *)

\* A step of the two memories is a step of the guard or none of its concern.
LEMMA GuardSteps == [Next]_vars => [GuardNext]_guardVars
<1> SUFFICES ASSUME [Next]_vars PROVE [GuardNext]_guardVars
  OBVIOUS
<1>1. ASSUME NEW c \in Calls, Gate(c) \/ BodySucceeds(c) \/ BodyFails(c)
      PROVE  GuardNext
  BY <1>1 DEF Gate, BodySucceeds, BodyFails, GuardNext
<1>2. CASE Rejected \/ NewRequest \/ Summarise \/ Clear
  BY <1>2 DEF Rejected, NewRequest, Summarise, Clear, GuardNext
<1>3. CASE EndBatch \/ BatchEscapes \/ Demote \/ UNCHANGED vars
  BY <1>3 DEF EndBatch, BatchEscapes, Demote, vars
<1> QED
  BY <1>1, <1>2, <1>3 DEF Next

\* Behind the cache, and with conversation and files around it, the guard does nothing it
\* does not do alone: what is proved of LoopGuard holds here.
THEOREM GuardIsKept == Spec => GuardSpec
<1>1. Init => GuardInit
  BY DEF Init
<1> QED
  BY <1>1, GuardSteps, PTL DEF Spec, GuardSpec

\* The types of what ToolMemory adds.
MemoryTyped ==
  /\ seen \subseteq Calls
  /\ shown \in [Calls -> Places]
  /\ content \in [Files -> Values]
  /\ observed \in [Calls -> Values]

LEMMA MemoryTypes == MemoryTyped /\ [Next]_vars => MemoryTyped'
<1> USE ToolMemoryAssumption DEF ToolMemoryAssumption, MemoryTyped
<1> SUFFICES ASSUME MemoryTyped, [Next]_vars PROVE MemoryTyped'
  OBVIOUS
<1>1. ASSUME NEW c \in Calls, Gate(c)
      PROVE  MemoryTyped'
  BY <1>1 DEF Gate, memoryVars
<1>2. ASSUME NEW c \in Calls, BodySucceeds(c)
      PROVE  MemoryTyped'
  <2>1. content' \in [Files -> Values]
    BY <1>2 DEF BodySucceeds, Effect, IsRead
  <2>2. FileOf[c] \in Files /\ observed' = [observed EXCEPT ![c] = content'[FileOf[c]]]
    BY <1>2 DEF BodySucceeds, Effect
  <2>3. observed' \in [Calls -> Values]
    BY <2>1, <2>2
  <2>4. seen' \subseteq Calls /\ shown' \in [Calls -> Places]
    BY <1>2 DEF BodySucceeds, Places
  <2> QED
    BY <2>1, <2>3, <2>4
<1>3. ASSUME NEW c \in Calls, BodyFails(c)
      PROVE  MemoryTyped'
  <2>1. content' \in [Files -> Values]
    BY <1>3 DEF BodyFails
  <2>2. FileOf[c] \in Files /\ observed' = [observed EXCEPT ![c] = content'[FileOf[c]]]
    BY <1>3 DEF BodyFails
  <2>3. observed' \in [Calls -> Values]
    BY <2>1, <2>2
  <2> QED
    BY <1>3, <2>1, <2>3 DEF BodyFails
<1>4. CASE Rejected \/ NewRequest \/ UNCHANGED vars
  BY <1>4 DEF Rejected, NewRequest, memoryVars, vars
<1>5. CASE EndBatch \/ BatchEscapes \/ Demote
  <2>1. shown' \in [Calls -> Places]
    BY <1>5 DEF EndBatch, BatchEscapes, Demote, Settle, Places
  <2> QED
    BY <1>5, <2>1 DEF EndBatch, BatchEscapes, Demote
<1>6. CASE Summarise \/ Clear
  <2>1. shown' \in [Calls -> Places]
    BY <1>6 DEF Summarise, Clear, Places
  <2> QED
    BY <1>6, <2>1 DEF Summarise, Clear
<1> QED
  BY <1>1, <1>2, <1>3, <1>4, <1>5, <1>6 DEF Next

LEMMA MemoryInit == Init => MemoryTyped
BY ToolMemoryAssumption DEF ToolMemoryAssumption, Init, MemoryTyped, Places

\* Cache, results, files and what was read of them keep their types.
THEOREM MemoryIsTyped == Spec => []TypeOK
<1>1. MemoryTyped /\ GuardTypeOK => TypeOK
  BY DEF MemoryTyped, TypeOK
<1> QED
  BY <1>1, MemoryInit, MemoryTypes, GuardIsKept, GuardTyped, PTL DEF Spec

\* dedupe.py: a call the cache answers has left a result in the conversation, in whatever
\* form; compaction and clear() drop the entries of what they take away.
THEOREM CacheKept == Spec => []CachedIsKept
<1>1. Init => CachedIsKept
  BY DEF Init, CachedIsKept
<1>2. MemoryTyped /\ CachedIsKept /\ [Next]_vars => CachedIsKept'
  <2> SUFFICES ASSUME MemoryTyped, CachedIsKept, [Next]_vars, NEW d \in seen'
               PROVE  shown'[d] # "nowhere"
    BY DEF CachedIsKept
  <2> USE DEF MemoryTyped, CachedIsKept
  <2>1. ASSUME NEW c \in Calls, BodySucceeds(c)
        PROVE  shown'[d] # "nowhere"
    <3>1. d \in seen \cup {c} /\ shown' = [shown EXCEPT ![c] = "batch"]
      BY <2>1 DEF BodySucceeds
    <3> QED
      BY <3>1
  <2>2. ASSUME NEW c \in Calls, Gate(c) \/ BodyFails(c)
        PROVE  shown'[d] # "nowhere"
    BY <2>2 DEF Gate, BodyFails, memoryVars
  <2>3. CASE Rejected \/ NewRequest \/ UNCHANGED vars
    BY <2>3 DEF Rejected, NewRequest, memoryVars, vars
  <2>4. CASE EndBatch \/ BatchEscapes \/ Demote
    <3>1. d \in seen
      BY <2>4 DEF EndBatch, BatchEscapes, Demote
    <3> QED
      BY <2>4, <3>1 DEF EndBatch, BatchEscapes, Demote, Settle
  <2>5. CASE Summarise \/ Clear
    BY <2>5 DEF Summarise, Clear
  <2> QED
    BY <2>1, <2>2, <2>3, <2>4, <2>5 DEF Next
<1> QED
  BY <1>1, <1>2, MemoryInit, MemoryTypes, PTL DEF Spec

\* A file that changed since a read of it last ran: neither memory knows the read.
ChangedIsForgotten ==
  \A c \in Calls :
    IsRead(c) /\ content[FileOf[c]] \notin {observed[c], Torn} =>
      c \notin seen /\ c \notin Remembered(recent)

\* What the window gains by a call is that call.
LEMMA ShiftRemembers ==
  ASSUME NEW s \in Seq(Calls), NEW c \in Calls
  PROVE  Remembered(Shift(s, c)) \subseteq Remembered(s) \cup {c}
<1> DEFINE long == Append(s, c)
<1>1. /\ long \in Seq(Calls) /\ Len(long) = Len(s) + 1 /\ long[Len(s) + 1] = c
      /\ \A i \in 1..Len(s) : long[i] = s[i]
      /\ DOMAIN long = 1..(Len(s) + 1) /\ DOMAIN s = 1..Len(s) /\ Len(s) \in Nat
  OBVIOUS
<1>2. Remembered(long) \subseteq Remembered(s) \cup {c}
  <2> SUFFICES ASSUME NEW i \in 1..(Len(s) + 1) PROVE long[i] \in Remembered(s) \cup {c}
    BY <1>1 DEF Remembered
  <2>1. CASE i \in 1..Len(s)
    BY <1>1, <2>1 DEF Remembered
  <2>2. CASE i = Len(s) + 1
    BY <1>1, <2>2
  <2> QED
    BY <1>1, <2>1, <2>2
<1>3. Remembered(Tail(long)) \subseteq Remembered(long)
  <2>1. /\ Len(Tail(long)) = Len(s) /\ DOMAIN Tail(long) = 1..Len(s)
        /\ \A i \in 1..Len(s) : Tail(long)[i] = long[i + 1] /\ i + 1 \in 1..(Len(s) + 1)
    BY <1>1
  <2> QED
    BY <1>1, <2>1 DEF Remembered
<1> QED
  BY <1>2, <1>3 DEF Shift

\* What a success leaves in the window: nothing of the tools it makes stale but itself.
LEMMA SuccessForgets ==
  ASSUME WindowTyped, NEW c \in Calls, Succeed(c), NEW d \in Remembered(recent'), d # c
  PROVE  d \in Remembered(recent) /\ ToolOf[d] \notin Forgets[ToolOf[c]]
<1> DEFINE kept    == Remaining(ToolOf[c])
           trimmed == IF kept = DOMAIN recent THEN recent ELSE KeepAt(recent, kept)
<1>1. recent' = Shift(trimmed, c) /\ recent \in Seq(Calls)
  BY DEF Succeed, WindowTyped
<1>2. kept \in SUBSET DOMAIN recent /\ \A i \in kept : ToolOf[recent[i]] \notin Forgets[ToolOf[c]]
  BY DEF Remaining
<1> HIDE DEF kept
<1>3. trimmed \in Seq(Calls) /\ Remembered(trimmed) = {recent[i] : i \in kept}
  <2>1. CASE kept = DOMAIN recent
    BY <1>1, <2>1 DEF Remembered
  <2>2. CASE kept # DOMAIN recent
    BY <1>1, <1>2, <2>2, KeepAtKeeps
  <2> QED
    BY <2>1, <2>2
<1> HIDE DEF trimmed
<1>4. d \in Remembered(trimmed)
  BY <1>1, <1>3, ShiftRemembers
<1> QED
  BY <1>2, <1>3, <1>4 DEF Remembered

\* A body that changes a file drops its readers from both memories in the same step.
LEMMA ForgottenNext ==
  ASSUME WritersAreHeard
  PROVE  MemoryTyped /\ WindowTyped /\ ChangedIsForgotten /\ [Next]_vars => ChangedIsForgotten'
<1> SUFFICES ASSUME MemoryTyped, WindowTyped, ChangedIsForgotten, [Next]_vars,
                    NEW c \in Calls, IsRead(c), content'[FileOf[c]] \notin {observed'[c], Torn}
             PROVE  c \notin seen' /\ c \notin Remembered(recent')
  BY DEF ChangedIsForgotten, IsRead
<1> DEFINE Known == content[FileOf[c]] \notin {observed[c], Torn}
<1>0. Known => c \notin seen /\ c \notin Remembered(recent)
  BY DEF ChangedIsForgotten
<1>1. ASSUME UNCHANGED <<recent, seen, content, observed>>
      PROVE  c \notin seen' /\ c \notin Remembered(recent')
  BY <1>0, <1>1
<1>2. ASSUME NEW d \in Calls, Gate(d)
      PROVE  c \notin seen' /\ c \notin Remembered(recent')
  BY <1>1, <1>2 DEF Gate, memoryVars, Admit, AdmitApproved, AskContinue, AskRefuse, evidence
<1>3. ASSUME NEW d \in Calls, BodySucceeds(d)
      PROVE  c \notin seen' /\ c \notin Remembered(recent')
  <2>1. /\ Succeed(d) /\ seen' \subseteq (seen \cup {d}) \ Stale(d)
        /\ content' = IF IsRead(d) THEN content ELSE [content EXCEPT ![FileOf[d]] = Writes[d]]
        /\ observed' = [observed EXCEPT ![d] = content'[FileOf[d]]]
    BY <1>3 DEF BodySucceeds, Effect
  <2>2. d # c
    BY <2>1 DEF MemoryTyped
  <2>3. observed'[c] = observed[c]
    BY <2>1, <2>2 DEF MemoryTyped
  <2>4. CASE content'[FileOf[c]] = content[FileOf[c]]
    BY <1>0, <2>1, <2>2, <2>3, <2>4, SuccessForgets
  <2>5. CASE content'[FileOf[c]] # content[FileOf[c]]
    <3>1. d \in DOMAIN Writes /\ FileOf[d] = FileOf[c]
      BY <2>1, <2>5 DEF IsRead, MemoryTyped
    <3>2. ToolOf[c] \in Forgets[ToolOf[d]] /\ (ToolOf[c] \in Keyed => PathOf[c] = PathOf[d])
      BY <3>1 DEF WritersAreHeard
    <3>3. c \in Stale(d)
      BY <3>2 DEF Stale
    <3> QED
      BY <2>1, <2>2, <3>2, <3>3, SuccessForgets
  <2> QED
    BY <2>4, <2>5
<1>4. ASSUME NEW d \in Calls, BodyFails(d)
      PROVE  c \notin seen' /\ c \notin Remembered(recent')
  <2>1. /\ recent' = Shift(recent, d) /\ seen' = seen
        /\ content' = content \/ content' = [content EXCEPT ![FileOf[d]] = Torn]
        /\ observed' = [observed EXCEPT ![d] = content'[FileOf[d]]]
    BY <1>4 DEF BodyFails, Fail
  <2>2. d # c
    BY <2>1 DEF MemoryTyped
  <2>3. observed'[c] = observed[c] /\ content'[FileOf[c]] = content[FileOf[c]]
    <3>1. FileOf[c] \in Files
      BY ToolMemoryAssumption DEF ToolMemoryAssumption
    <3> QED
      BY <2>1, <2>2, <3>1 DEF MemoryTyped
  <2>4. recent \in Seq(Calls)
    BY DEF WindowTyped
  <2> QED
    BY <1>0, <2>1, <2>2, <2>3, <2>4, ShiftRemembers
<1>5. CASE Rejected \/ EndBatch \/ BatchEscapes \/ Demote \/ UNCHANGED vars
  BY <1>1, <1>5 DEF Rejected, Decline, EndBatch, BatchEscapes, Demote, memoryVars, guardVars,
                    evidence, vars
<1>6. ASSUME recent' = <<>>
      PROVE  c \notin Remembered(recent')
  BY <1>6 DEF Remembered
<1>7. CASE NewRequest
  <2>1. recent' = <<>> /\ UNCHANGED <<seen, content, observed>>
    BY <1>7 DEF NewRequest, OnNewTurn, ResetRepeatWindow, memoryVars
  <2> QED
    BY <1>0, <1>6, <2>1
<1>8. CASE Summarise \/ Clear
  <2>1. recent' = <<>> /\ seen' = {}
    BY <1>8 DEF Summarise, Clear, OnCompacted, OnCleared, ResetRepeatWindow
  <2> QED
    BY <1>6, <2>1
<1> QED
  BY <1>2, <1>3, <1>4, <1>5, <1>7, <1>8 DEF Next

\* dedupe.py and guard.py: as the files feature declares its tools, a read whose file has
\* changed since is answered by its body: neither from the cache nor refused as a repeat.
THEOREM ChangedIsReread ==
  ASSUME ReadersRecover, WritersAreHeard
  PROVE  Spec => []ChangedFileIsReread
<1>1. Init => ChangedIsForgotten
  BY DEF Init, ChangedIsForgotten
<1>2. MemoryTyped /\ WindowTyped /\ ChangedIsForgotten /\ [Next]_vars => ChangedIsForgotten'
  BY ForgottenNext
<1>3. ChangedIsForgotten /\ CycleIsDuplicate => ChangedFileIsReread
  BY DEF ChangedIsForgotten, CycleIsDuplicate, ChangedFileIsReread, ReadersRecover, Repeating,
         Duplicate, FailureLoop
<1>4. WindowInv => WindowTyped
  BY DEF WindowInv
<1> QED
  BY <1>1, <1>2, <1>3, <1>4, MemoryInit, MemoryTypes, GuardIsKept, WindowInvariance,
     CyclesAreDuplicates, PTL DEF Spec
===============================================================================
