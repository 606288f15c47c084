---------------------------- MODULE RunLoopProofs ----------------------------
(***************************************************************************)
(* Theorems about RunLoop for every value of its constants.                *)
(*                                                                         *)
(* The first half is about the control state: its type, the promptness of  *)
(* an abort, the bound on requests per turn, the single DONE of a run.     *)
(* They follow from IInv, which ties the counters to the place the thread  *)
(* has reached and in which the transcript does not occur.                 *)
(*                                                                         *)
(* The second half is about the transcript, of any length and content:     *)
(* every request is one a provider accepts, a result that denies its call  *)
(* ran is right, and the loop implements the contract of module Exchange.  *)
(* It needs what repair and compaction do to a transcript (Sanitized,      *)
(* CutIsSound), stated for the transcripts a run can have: Sound.          *)
(***************************************************************************)
EXTENDS RunLoop, TLAPS, SequenceTheorems, FiniteSetTheorems

\* Requests opened late are paid for by the retry counters: behind the last
\* check a thread can only be at "prepare" or "stream", and each round between
\* the two uses up one attempt.  `used` is the number of attempts spent.
Used == attempts["context_overflow"] + attempts["payload_too_large"]

\* Where an abort may have been overlooked, and how often.
Lateness ==
  /\ ~aborted /\ pc # "idle" => tally.lateAsks = 0 /\ tally.lateBodies = 0
  /\ pc \in {"entering", "hooks"} => tally.lateAsks = 0 /\ tally.lateBodies = 0
  /\ pc \in {"top", "reply", "call", "gate", "body"} => tally.lateAsks = 0
  /\ pc \in {"prepare", "stream", "reply", "gate"} => tally.lateBodies = 0
  /\ pc = "prepare" => tally.lateAsks <= Used
  /\ pc = "stream" => tally.lateAsks <= Used + 1

\* What the turn has asked so far, by place.
Asking ==
  /\ pc \in {"top", "hooks", "reply", "call", "gate", "body"} => attempts = NoAttempts
  /\ pc = "hooks" => tally.asked = 0
  /\ pc = "prepare" => tally.asked <= Used
  /\ pc = "stream" => tally.asked <= Used + 1

\* No DONE before the end; one at the end of a run that returns a result.
Doneness ==
  /\ pc # "idle" => tally.done = 0
  /\ pc = "idle" /\ outcome \notin {"none", "refused", "raised"} =>
       tally.done = IF outcome = "over_budget" THEN 2 ELSE 1

IInv == ControlTypeOK /\ AbortIsPrompt /\ RequestsPerTurn /\ Lateness /\ Asking

-------------------------------------------------------------------------------
(* The invariant is inductive.                                             *)

LEMMA InitIInv == Init => IInv
<1> SUFFICES ASSUME Init
             PROVE  IInv
  OBVIOUS
<1>1. aborted \in BOOLEAN
  BY DEF Init
<1>2. attempts = NoAttempts /\ attempts \in [Reasons -> 0..MaxRecoveries]
  BY DEF Init, NoAttempts, MaxRecoveries
<1>3. pc = "idle" /\ turn = 0 /\ stalled = 0 /\ runs = 0 /\ outcome = "none"
  BY DEF Init
<1>4. tally = [done |-> 0, asked |-> 0, lateAsks |-> 0, lateBodies |-> 0]
  BY DEF Init
<1> QED
  BY <1>1, <1>2, <1>3, <1>4, RunLoopAssumption
     DEF RunLoopAssumption, IInv, ControlTypeOK, AbortIsPrompt, RequestsPerTurn, Lateness,
         Asking, RequestBound, MaxRecoveries, MaxNudges, PCs, Outcomes

\* The two updates of the tally that touch several fields.
TallyType == [done : Nat, asked : Nat, lateAsks : Nat, lateBodies : Nat]

LEMMA TallyReset ==
  ASSUME NEW t \in TallyType, NEW u,
         u = [t EXCEPT !.done = 0, !.asked = 0, !.lateAsks = 0, !.lateBodies = 0]
  PROVE  u = [done |-> 0, asked |-> 0, lateAsks |-> 0, lateBodies |-> 0]
BY DEF TallyType

LEMMA TallyAsked ==
  ASSUME NEW t \in TallyType, NEW u, NEW n \in Nat,
         u = [t EXCEPT !.asked = @ + 1, !.lateAsks = @ + n]
  PROVE  u = [done |-> t.done, asked |-> t.asked + 1, lateAsks |-> t.lateAsks + n,
              lateBodies |-> t.lateBodies]
BY DEF TallyType

LEMMA NextIInv == IInv /\ [Next]_vars => IInv'
<1> SUFFICES ASSUME IInv, [Next]_vars
             PROVE  IInv'
  OBVIOUS
<1> USE RunLoopAssumption
    DEF RunLoopAssumption, IInv, ControlTypeOK, AbortIsPrompt, RequestsPerTurn, Lateness,
        Asking, Used,
        RequestBound, MaxRecoveries, MaxNudges, NoAttempts, Reasons, PCs, Outcomes,
        loopVars, batch, runLog
<1>1. CASE Start
  <2>1. aborted' \in BOOLEAN
    BY <1>1 DEF Start
  <2>2. /\ pc' = "entering" /\ runs' = runs + 1 /\ runs < MaxRuns /\ outcome' = "none"
        /\ tally' = [tally EXCEPT !.done = 0, !.asked = 0, !.lateAsks = 0, !.lateBodies = 0]
        /\ UNCHANGED <<turn, attempts, stalled>>
    BY <1>1 DEF Start
  <2>3. tally' = [done |-> 0, asked |-> 0, lateAsks |-> 0, lateBodies |-> 0]
    BY <2>2, TallyReset DEF TallyType
  <2>4. ControlTypeOK'
    BY <2>1, <2>2, <2>3
  <2> QED
    BY <2>2, <2>3, <2>4
<1>2. CASE Enter
  <2>1. aborted' \in BOOLEAN
    BY <1>2 DEF Enter
  <2>2. /\ pc = "entering" /\ pc' = "top" /\ attempts' = NoAttempts
        /\ turn' = 0 /\ stalled' = 0
        /\ UNCHANGED <<runs, outcome, tally>>
    BY <1>2 DEF Enter
  <2>3. attempts' \in [Reasons -> 0..MaxRecoveries]
    BY <2>2
  <2>4. ControlTypeOK'
    BY <2>1, <2>2, <2>3
  <2>5. AbortIsPrompt' /\ RequestsPerTurn' /\ Lateness'
    BY <2>2
  <2>6. Asking'
    BY <2>2
  <2> QED
    BY <2>4, <2>5, <2>6
<1>3. CASE EnterRefused
  BY <1>3 DEF EnterRefused
<1>4. CASE EnterBadImage
  <2>1. aborted' \in BOOLEAN
    BY <1>4 DEF EnterBadImage
  <2>2. /\ pc = "entering" /\ pc' = "idle" /\ outcome' = "error"
        /\ tally' = [tally EXCEPT !.done = @ + 1]
        /\ UNCHANGED <<turn, attempts, stalled, runs>>
    BY <1>4 DEF EnterBadImage, End, EndWith
  <2> QED
    BY <2>1, <2>2
<1>5. CASE TurnStart
  BY <1>5 DEF TurnStart
<1>6. CASE TurnAborted
  BY <1>6 DEF TurnAborted, End, EndWith
<1>7. CASE HandleMaxTurns
  BY <1>7 DEF HandleMaxTurns, End, EndWith
<1>8. CASE BeforeTurnPasses
  BY <1>8 DEF BeforeTurnPasses
<1>9. CASE BeforeTurnStops \/ BudgetStops
  <2>1. PICK o \in {"stopped", "over_budget"}, n \in {1, 2} : EndWith(o, n)
    BY <1>9 DEF BeforeTurnStops, BudgetStops, End
  <2>2. /\ pc = "hooks" /\ stalled' = 0
        /\ UNCHANGED <<aborted, turn, attempts, runs>>
    BY <1>9 DEF BeforeTurnStops, BudgetStops
  <2> QED
    BY <2>1, <2>2 DEF EndWith
<1>10. CASE Prepare
  <2>1. PICK n \in {0, 1} :
          /\ ~aborted => n = 0
          /\ tally' = [tally EXCEPT !.asked = @ + 1, !.lateAsks = @ + n]
    BY <1>10 DEF Prepare
  <2>2. /\ pc = "prepare" /\ pc' = "stream"
        /\ UNCHANGED <<aborted, turn, attempts, stalled, runs, outcome>>
    BY <1>10 DEF Prepare
  <2>3. Used \in 0..2 /\ Used' = Used
    BY <2>2
  <2>4. tally' = [done |-> tally.done, asked |-> tally.asked + 1,
                  lateAsks |-> tally.lateAsks + n, lateBodies |-> tally.lateBodies]
    BY <2>1, TallyAsked DEF TallyType
  <2>5. ControlTypeOK'
    BY <2>2, <2>4
  <2>6. AbortIsPrompt' /\ RequestsPerTurn'
    BY <2>2, <2>3, <2>4
  <2>7. Lateness'
    <3>1. ~aborted' => tally'.lateAsks = 0
      BY <2>1, <2>2, <2>4
    <3> QED
      BY <3>1, <2>2, <2>3, <2>4
  <2>8. Asking'
    BY <2>2, <2>3, <2>4
  <2> QED
    BY <2>5, <2>6, <2>7, <2>8
<1>11. CASE PrepareTooLarge
  BY <1>11 DEF PrepareTooLarge, End, EndWith
<1>12. CASE PrepareRaises
  BY <1>12 DEF PrepareRaises, Raise
<1>13. CASE StreamAborted
  BY <1>13 DEF StreamAborted, End, EndWith
<1>14. CASE ReplyAnswers
  BY <1>14 DEF ReplyAnswers, End, EndWith
<1>15. CASE ReplyStalls
  BY <1>15 DEF ReplyStalls
<1>16. CASE ReplyTruncated
  BY <1>16 DEF ReplyTruncated
<1>17. CASE ReplyTruncatedEmpty
  BY <1>17 DEF ReplyTruncatedEmpty, End, EndWith
<1>18. CASE ReplyCalls
  BY <1>18 DEF ReplyCalls
<1>19. CASE CallAborted
  <2>1. /\ pc \in {"call", "gate"} /\ pc' = "idle" /\ outcome' = "aborted"
        /\ tally' = [tally EXCEPT !.done = @ + 1]
        /\ UNCHANGED <<aborted, turn, attempts, stalled, runs>>
    BY <1>19 DEF CallAborted, AbortBatch, End, EndWith
  <2> QED
    BY <2>1
<1>20. CASE CallNext
  BY <1>20 DEF CallNext
<1>21. CASE GateBlocks
  BY <1>21 DEF GateBlocks
<1>22. CASE GateAborts
  <2>1. /\ pc \in {"call", "gate"} /\ pc' = "idle" /\ outcome' = "aborted"
        /\ tally' = [tally EXCEPT !.done = @ + 1]
        /\ UNCHANGED <<aborted, turn, attempts, stalled, runs>>
    BY <1>22 DEF GateAborts, AbortBatch, End, EndWith
  <2> QED
    BY <2>1
<1>23. CASE GateRaises
  BY <1>23 DEF GateRaises, Raise
<1>24. CASE GateAllows
  BY <1>24 DEF GateAllows
<1>25. CASE BodyReturns
  BY <1>25 DEF BodyReturns
<1>26. CASE BodyUnserialisable
  BY <1>26 DEF BodyUnserialisable, Raise
<1>27. CASE BatchDone
  BY <1>27 DEF BatchDone
<1>28. CASE StreamFails
  BY <1>28 DEF StreamFails, HandleProviderError, End, EndWith
<1>29. CASE StreamOverflows
  BY <1>29 DEF StreamOverflows
<1>30. CASE OverflowUnrecovered
  BY <1>30 DEF OverflowUnrecovered, HandleProviderError, End, EndWith
<1>31. CASE StreamCloses
  BY <1>31 DEF StreamCloses
<1>32. CASE Abort
  BY <1>32 DEF Abort
<1>33. CASE ClearHistory
  BY <1>33 DEF ClearHistory
<1>34. CASE ForceCompaction
  BY <1>34 DEF ForceCompaction
<1>35. CASE UNCHANGED vars
  BY <1>35 DEF vars
<1> QED
  BY <1>1, <1>2, <1>3, <1>4, <1>5, <1>6, <1>7, <1>8, <1>9, <1>10, <1>11, <1>12, <1>13,
     <1>14, <1>15, <1>16, <1>17, <1>18, <1>19, <1>20, <1>21, <1>22, <1>23, <1>24,
     <1>25, <1>26, <1>27, <1>28, <1>29, <1>30, <1>31, <1>32, <1>33, <1>34, <1>35
     DEF Next, Agent, Entering, Preparing, Streaming, Replying, Calling

LEMMA Invariance == Spec => []IInv
BY InitIInv, NextIInv, PTL DEF Spec

-------------------------------------------------------------------------------
(* Theorems.                                                               *)

\* The control state is well typed in every behaviour (loop.run and its callers).
THEOREM ControlTyped == Spec => []ControlTypeOK
BY Invariance, PTL DEF IInv

\* However abort() falls between the checks, no more than one request with its
\* compacting retries, or one gated tool body, begins after it.
THEOREM AbortPromptness == Spec => []AbortIsPrompt
BY Invariance, PTL DEF IInv

\* The provider sees at most one request of a turn and one retry per kind of
\* refusal, however long the run and whatever was compacted.
THEOREM BoundedRequests == Spec => []RequestsPerTurn
BY Invariance, PTL DEF IInv

\* A run that returns has emitted DONE exactly once, and twice only where Budget
\* ended it (the endings of loop.run and Agent._run_once).
THEOREM SingleDone == Spec => []DoneOnce
<1>1. Init => Doneness
  BY DEF Init, Doneness
<1>2. IInv /\ Doneness /\ [Next]_vars => Doneness'
  <2> SUFFICES ASSUME IInv, Doneness, [Next]_vars
               PROVE  Doneness'
    OBVIOUS
  <2> USE DEF Doneness
  <2>0. tally \in TallyType
    BY DEF IInv, ControlTypeOK, TallyType
  <2>1. CASE Start
    <3>0. tally' = [tally EXCEPT !.done = 0, !.asked = 0, !.lateAsks = 0, !.lateBodies = 0]
      BY <2>1 DEF Start
    <3>1. tally'.done = 0
      BY <2>0, <3>0 DEF TallyType
    <3> QED
      BY <2>1, <3>1, Zenon DEF Start
  <2>2. CASE Prepare
    <3>1. PICK n \in {0, 1} :
            tally' = [tally EXCEPT !.asked = @ + 1, !.lateAsks = @ + n]
      BY <2>2 DEF Prepare
    <3>2. tally'.done = tally.done
      BY <2>0, <3>1 DEF TallyType
    <3> QED
      BY <2>2, <3>2 DEF Prepare
  <2>3. CASE EnterRefused \/ PrepareRaises \/ GateRaises \/ BodyUnserialisable
    BY <2>3 DEF EnterRefused, PrepareRaises, GateRaises, BodyUnserialisable, Raise
  <2>4. CASE TurnStart \/ GateAllows
    BY <2>0, <2>4 DEF TurnStart, GateAllows, TallyType
  <2>5. ASSUME pc # "idle", NEW o, o # "over_budget", End(o)
        PROVE  Doneness'
    BY <2>0, <2>5 DEF End, EndWith, TallyType
  <2>6. CASE EnterBadImage \/ TurnAborted \/ HandleMaxTurns \/ PrepareTooLarge
             \/ StreamAborted \/ StreamFails \/ OverflowUnrecovered \/ ReplyAnswers
             \/ ReplyTruncatedEmpty \/ CallAborted \/ GateAborts
    BY <2>5, <2>6 DEF EnterBadImage, TurnAborted, HandleMaxTurns, PrepareTooLarge,
       StreamAborted, StreamFails, OverflowUnrecovered, HandleProviderError, ReplyAnswers,
       ReplyTruncatedEmpty, CallAborted, GateAborts, AbortBatch
  <2>7. CASE BeforeTurnStops
    BY <2>5, <2>7 DEF BeforeTurnStops
  <2>7a. CASE BudgetStops
    BY <2>0, <2>7a DEF BudgetStops, EndWith, TallyType
  <2>8. ASSUME UNCHANGED <<outcome, tally>>,
               pc # "idle" \/ UNCHANGED pc, pc' # "idle" \/ UNCHANGED pc
        PROVE  Doneness'
    BY <2>8
  <2>9. CASE Enter \/ BeforeTurnPasses \/ ReplyStalls \/ ReplyTruncated \/ ReplyCalls
             \/ CallNext \/ GateBlocks \/ BodyReturns \/ BatchDone \/ StreamOverflows
             \/ StreamCloses
    BY <2>8, <2>9 DEF Enter, BeforeTurnPasses, ReplyStalls, ReplyTruncated, ReplyCalls,
       CallNext, GateBlocks, BodyReturns, BatchDone, StreamOverflows, StreamCloses
  <2>10. CASE Abort \/ ClearHistory \/ ForceCompaction \/ UNCHANGED vars
    BY <2>8, <2>10 DEF Abort, ClearHistory, ForceCompaction, vars
  <2> QED
    BY <2>1, <2>2, <2>3, <2>4, <2>6, <2>7, <2>7a, <2>9, <2>10
       DEF Next, Agent, Entering, Preparing, Streaming, Replying, Calling
<1>3. Doneness => DoneOnce
  BY DEF Doneness, DoneOnce
<1> QED
  BY <1>1, <1>2, <1>3, Invariance, PTL DEF Spec

-------------------------------------------------------------------------------
(* Flattened sequences, and sets as sequences.                             *)

\* Every non-empty set of positions has a first one.
LEMMA LeastElement ==
  ASSUME NEW T \in SUBSET Nat, T # {}
  PROVE  \E x \in T : \A y \in T : x <= y
<1>1. IsWellFoundedOn(OpToRel(<, Nat), Nat)
  BY NatLessThanWellFounded
<1>2. PICK x \in T : \A y \in T : ~ (<<y, x>> \in OpToRel(<, Nat))
  BY <1>1, WFMin
<1>3. \A y \in T : ~(y < x)
  BY <1>2 DEF OpToRel
<1> QED
  BY <1>3

\* g collects the parts of q one after the other.
Collects(g, q) ==
  \A i \in 1..Len(q) : g[i] = IF i = 1 THEN q[i] ELSE g[i - 1] \o q[i]

LEMMA CollectsOnce ==
  ASSUME NEW q, Len(q) \in Nat, NEW f, NEW g, Collects(f, q), Collects(g, q)
  PROVE  \A i \in 1..Len(q) : f[i] = g[i]
<1> DEFINE differ == {i \in 1..Len(q) : f[i] # g[i]}
<1> SUFFICES ASSUME differ # {} PROVE FALSE
  OBVIOUS
<1>0. differ \in SUBSET Nat /\ \A i \in differ : i \in 1..Len(q) /\ f[i] # g[i]
  OBVIOUS
<1>1. \A i \in 1..Len(q) : i \notin differ => f[i] = g[i]
  OBVIOUS
<1> HIDE DEF differ
<1>2. PICK x \in differ : \A y \in differ : x <= y
  BY <1>0, LeastElement
<1>3. x \in 1..Len(q) /\ f[x] # g[x]
  BY <1>0
<1>4. CASE x = 1
  BY <1>3, <1>4 DEF Collects
<1>5. CASE x # 1
  <2>1. x - 1 \in 1..Len(q) /\ x - 1 \notin differ
    BY <1>2, <1>3, <1>5
  <2>2. f[x - 1] = g[x - 1]
    BY <1>1, <2>1
  <2>3. f[x] = f[x - 1] \o q[x] /\ g[x] = g[x - 1] \o q[x]
    BY <1>3, <1>5 DEF Collects
  <2> QED
    BY <1>3, <2>2, <2>3
<1> QED
  BY <1>4, <1>5

LEMMA FlattenCollects ==
  ASSUME NEW q, Len(q) \in Nat \ {0}, NEW g, Collects(g, q)
  PROVE  FlattenSeq(q) = g[Len(q)]
<1> DEFINE n == Len(q)
           F(f) == [i \in 1..n |-> IF i = 1 THEN q[i] ELSE f[i - 1] \o q[i]]
           f == CHOOSE e : e = F(e)
           e == [i \in 1..n |-> g[i]]
<1>1. FlattenSeq(q) = f[n]
  BY DEF FlattenSeq
<1>2. e = F(e)
  <2>1. \A i \in 1..n : g[i] = IF i = 1 THEN q[i] ELSE e[i - 1] \o q[i]
    BY DEF Collects
  <2> HIDE DEF n
  <2> QED
    BY <2>1
<1>3. f = F(f)
  <2> HIDE DEF F, e
  <2> QED
    BY <1>2
<1> HIDE DEF f
<1>4. Collects(f, q)
  BY <1>3 DEF Collects
<1>5. f[n] = g[n]
  BY <1>4, CollectsOnce
<1> QED
  BY <1>1, <1>5

LEMMA PrefixGrows ==
  ASSUME NEW S, NEW h \in Seq(S), NEW i \in 1..Len(h)
  PROVE  /\ SubSeq(h, 1, i) \in Seq(S)
         /\ SubSeq(h, 1, i) = IF i = 1 THEN <<h[i]>> ELSE SubSeq(h, 1, i - 1) \o <<h[i]>>
<1> DEFINE a == SubSeq(h, 1, i - 1)
           b == <<h[i]>>
           c == SubSeq(h, 1, i)
<1>1. /\ b \in Seq(S) /\ Len(b) = 1 /\ b[1] = h[i]
      /\ c \in Seq(S) /\ Len(c) = i /\ \A k \in 1..i : c[k] = h[k]
  OBVIOUS
<1>2. a \in Seq(S) /\ Len(a) = i - 1 /\ \A k \in 1..i - 1 : a[k] = h[k]
  BY i - 1 \in Int, 1 \in Int, SubSeqProperties
<1> HIDE DEF a, b, c
<1>3. CASE i = 1
  <2>1. c = b
    BY <1>1, <1>3, SeqEqual
  <2> QED
    BY <1>1, <1>3, <2>1 DEF b, c
<1>4. CASE i # 1
  <2>1. /\ a \o b \in Seq(S) /\ Len(a \o b) = Len(a) + Len(b)
        /\ \A k \in 1..Len(a) + Len(b) : (a \o b)[k] = IF k <= Len(a) THEN a[k] ELSE b[k - Len(a)]
    BY <1>1, <1>2, ConcatProperties
  <2>2. Len(a \o b) = i /\ \A k \in 1..i : (a \o b)[k] = h[k]
    BY <1>1, <1>2, <2>1
  <2>3. c = a \o b
    BY <1>1, <2>1, <2>2, SeqEqual
  <2> QED
    BY <1>1, <1>4, <2>3 DEF a, b, c
<1> QED
  BY <1>3, <1>4

\* The elements of h one by one, and t hung on the last.
Tailed(q, h, t) ==
  /\ Len(q) = Len(h)
  /\ \A i \in 1..Len(h) : q[i] = IF i = Len(h) THEN <<h[i]>> \o t ELSE <<h[i]>>

LEMMA FlattenTail ==
  ASSUME NEW S, NEW h \in Seq(S), h # <<>>, NEW t \in Seq(S), NEW q, Tailed(q, h, t)
  PROVE  FlattenSeq(q) = h \o t
<1> DEFINE n == Len(h)
           g == [i \in 1..n |-> IF i = n THEN h \o t ELSE SubSeq(h, 1, i)]
<1>1. n \in Nat \ {0} /\ Len(q) = n
  BY DEF Tailed
<1>2. ASSUME NEW i \in 1..n
      PROVE  g[i] = IF i = 1 THEN q[i] ELSE g[i - 1] \o q[i]
  <2> DEFINE a == SubSeq(h, 1, i - 1)
             b == <<h[i]>>
             c == SubSeq(h, 1, i)
  <2>1. /\ g[i] = IF i = n THEN h \o t ELSE c
        /\ i # 1 => g[i - 1] = a
        /\ q[i] = IF i = n THEN b \o t ELSE b
    BY <1>1 DEF Tailed
  <2>2. c = IF i = 1 THEN b ELSE a \o b
    BY PrefixGrows
  <2>3. b \in Seq(S) /\ (i # 1 => a \in Seq(S))
    <3>1. i # 1 => i - 1 \in 1..n
      BY <1>1
    <3> QED
      BY <3>1, PrefixGrows
  <2>4. i = n => c = h
    <3>1. /\ c \in Seq(S) /\ Len(c) = i /\ \A k \in 1..i : c[k] = h[k]
      OBVIOUS
    <3> HIDE DEF c
    <3> QED
      BY <3>1, SeqEqual
  <2> HIDE DEF a, b, c, g, n
  <2>5. i # 1 => (a \o b) \o t = a \o (b \o t)
    BY <2>3, ConcatAssociative
  <2> QED
    BY <2>1, <2>2, <2>4, <2>5
<1>3. g[n] = h \o t
  BY <1>1
<1> HIDE DEF n, g
<1>4. Collects(g, q)
  BY <1>1, <1>2 DEF Collects
<1> QED
  BY <1>1, <1>3, <1>4, FlattenCollects

LEMMA FlattenSingletons ==
  ASSUME NEW S, NEW h \in Seq(S), NEW q, q = [i \in 1..Len(h) |-> <<h[i]>>]
  PROVE  FlattenSeq(q) = h
<1>1. CASE h = <<>>
  <2>1. Len(q) = 0 /\ q = <<>>
    BY <1>1
  <2> QED
    BY <1>1, <2>1 DEF FlattenSeq
<1>2. CASE h # <<>>
  <2>1. <<>> \in Seq(S) /\ h \o <<>> = h
    OBVIOUS
  <2>2. \A i \in 1..Len(h) : <<h[i]>> \o <<>> = <<h[i]>>
    OBVIOUS
  <2>3. Tailed(q, h, <<>>)
    BY <2>2 DEF Tailed
  <2> QED
    BY <1>2, <2>1, <2>3, FlattenTail
<1> QED
  BY <1>1, <1>2

\* A finite set as a sequence: each element once.
LEMMA SetInSequence ==
  ASSUME NEW S, IsFiniteSet(S)
  PROVE  /\ SetToSeq(S) \in Seq(S)
         /\ \A i, j \in 1..Len(SetToSeq(S)) : SetToSeq(S)[i] = SetToSeq(S)[j] => i = j
         /\ {SetToSeq(S)[i] : i \in 1..Len(SetToSeq(S))} = S
<1> DEFINE n == Cardinality(S)
           s == SetToSeq(S)
<1>1. n \in Nat /\ ExistsBijection(1..n, S)
  BY FS_CardinalityType
<1>2. \E f \in [1..n -> S] : IsInjective(f)
  BY <1>1 DEF ExistsBijection, Bijection, Injection
<1>3. s \in [1..n -> S] /\ IsInjective(s)
  BY <1>2 DEF SetToSeq
<1>4. s \in Seq(S) /\ Len(s) = n
  BY <1>1, <1>3
<1>5. s \in Injection(1..n, S)
  BY <1>3 DEF Injection
<1>6. IsFiniteSet(1..n) /\ Cardinality(1..n) = n
  BY <1>1, FS_Interval
<1>7. s \in Surjection(1..n, S)
  BY <1>5, <1>6, FS_Injection
<1> HIDE DEF s, n
<1>8. {s[i] : i \in 1..n} = S
  BY <1>3, <1>7 DEF Surjection
<1>9. \A i, j \in 1..n : s[i] = s[j] => i = j
  BY <1>3 DEF IsInjective
<1> QED
  BY <1>4, <1>8, <1>9 DEF s

-------------------------------------------------------------------------------
(* Sound transcripts.                                                      *)

Ids == Nat \ {0}

\* Each result lies behind the caller of its call, with nothing but results between.
Owns(h, a, i) ==
  /\ IsCaller(h[a]) /\ h[i].id \in CallIds(h[a])
  /\ \A k \in (a + 1)..i : IsResult(h[k])

\* A transcript as the operations leave it: every result is owned, no id is used twice,
\* all ids are below n, and every caller but the last message has its results.
Sound(h, n) ==
  /\ h \in Seq(Message(Ids))
  /\ \A i \in 1..Len(h) : IsResult(h[i]) => \E a \in 1..(i - 1) : Owns(h, a, i)
  /\ \A a, b \in 1..Len(h) : IsCaller(h[a]) /\ IsCaller(h[b]) /\ a # b =>
       CallIds(h[a]) \cap CallIds(h[b]) = {}
  /\ \A i, j \in 1..Len(h) : IsResult(h[i]) /\ IsResult(h[j]) /\ h[i].id = h[j].id => i = j
  /\ \A a \in 1..Len(h) : IsCaller(h[a]) => \A c \in CallIds(h[a]) : c \in Nat /\ c < n
  /\ \A a \in 1..Len(h) : a # Len(h) /\ IsCaller(h[a]) =>
       \A c \in CallIds(h[a]) : \E i \in 1..Len(h) : IsResult(h[i]) /\ h[i].id = c

\* Nothing is owed: the last message announces no calls.
Settled(h) == h # <<>> => ~IsCaller(h[Len(h)])

LEMMA Roles == \A m : IsResult(m) => ~IsCaller(m)
BY DEF IsResult, IsCaller

\* A result has one owner.
LEMMA OneOwner ==
  ASSUME NEW h, NEW i \in Nat, NEW a \in 1..(i - 1), NEW b \in 1..(i - 1),
         IsCaller(h[a]), IsCaller(h[b]),
         \A k \in (a + 1)..i : IsResult(h[k]), \A k \in (b + 1)..i : IsResult(h[k])
  PROVE  a = b
<1>1. CASE a < b
  BY <1>1, Roles, b \in (a + 1)..i
<1>2. CASE b < a
  BY <1>2, Roles, a \in (b + 1)..i
<1> QED
  BY <1>1, <1>2

LEMMA Positions ==
  ASSUME NEW n, NEW h, Sound(h, n)
  PROVE  Len(h) \in Nat /\ DOMAIN h = 1..Len(h) /\ \A i \in 1..Len(h) : h[i] \in Message(Ids)
BY DEF Sound

LEMMA OwnersResults ==
  ASSUME NEW n, NEW h, Sound(h, n), NEW a \in 1..Len(h), IsCaller(h[a]),
         NEW i \in 1..Len(h), IsResult(h[i])
  PROVE  h[i].id \in CallIds(h[a]) <=> i \in BlockOf(h, a)
<1>1. PICK b \in 1..(i - 1) : Owns(h, b, i)
  BY DEF Sound
<1>2. Len(h) \in Nat /\ b \in 1..Len(h) /\ IsCaller(h[b])
  BY <1>1, Positions DEF Owns
<1>3. ASSUME h[i].id \in CallIds(h[a])
      PROVE  i \in BlockOf(h, a)
  <2>1. a = b
    BY <1>1, <1>2, <1>3 DEF Sound, Owns
  <2> QED
    BY <1>1, <1>2, <2>1 DEF Owns, BlockOf
<1>4. ASSUME i \in BlockOf(h, a)
      PROVE  h[i].id \in CallIds(h[a])
  <2>1. i \in (a + 1)..Len(h) /\ \A k \in (a + 1)..i : IsResult(h[k])
    BY <1>4 DEF BlockOf
  <2>2. a \in 1..(i - 1) /\ i \in Nat
    BY <1>2, <2>1
  <2>3. a = b
    BY <1>1, <1>2, <2>1, <2>2, OneOwner DEF Owns
  <2> QED
    BY <1>1, <2>3 DEF Owns
<1> QED
  BY <1>3, <1>4

\* A settled transcript is one a provider accepts.
LEMMA SettledIsPaired ==
  ASSUME NEW n, NEW h, Sound(h, n), Settled(h)
  PROVE  Paired(h)
<1>1. Len(h) \in Nat /\ DOMAIN h = 1..Len(h)
  BY Positions
<1>2. ASSUME NEW a \in 1..Len(h), IsCaller(h[a])
      PROVE  /\ {h[i].id : i \in BlockOf(h, a)} = CallIds(h[a])
             /\ \A i, j \in BlockOf(h, a) : h[i].id = h[j].id => i = j
  <2>1. \A i \in BlockOf(h, a) : i \in 1..Len(h) /\ IsResult(h[i])
    BY <1>1 DEF BlockOf
  <2>2. \A i \in BlockOf(h, a) : h[i].id \in CallIds(h[a])
    BY <1>2, <2>1, OwnersResults
  <2>3. a # Len(h)
    <3>1. h # <<>>
      BY <1>2, Len(<<>>) = 0
    <3> QED
      BY <1>2, <3>1 DEF Settled
  <2>4. ASSUME NEW c \in CallIds(h[a])
        PROVE  \E i \in BlockOf(h, a) : h[i].id = c
    <3>1. PICK i \in 1..Len(h) : IsResult(h[i]) /\ h[i].id = c
      BY <1>2, <2>3, <2>4 DEF Sound
    <3> QED
      BY <1>2, <2>4, <3>1, OwnersResults
  <2>5. \A i, j \in BlockOf(h, a) : h[i].id = h[j].id => i = j
    BY <2>1 DEF Sound
  <2> QED
    BY <2>2, <2>4, <2>5
<1>3. ASSUME NEW i \in 1..Len(h), IsResult(h[i])
      PROVE  \E a \in 1..(i - 1) : IsCaller(h[a]) /\ i \in BlockOf(h, a)
  <2>1. PICK a \in 1..(i - 1) : Owns(h, a, i)
    BY <1>3 DEF Sound
  <2>2. i \in (a + 1)..Len(h)
    BY <1>1, <2>1
  <2> QED
    BY <2>1, <2>2 DEF Owns, BlockOf
<1> QED
  BY <1>1, <1>2, <1>3 DEF Paired

\* What the last message announces is not answered anywhere.
LEMMA LastIsOpen ==
  ASSUME NEW n, NEW h, Sound(h, n), h # <<>>, IsCaller(h[Len(h)])
  PROVE  \A i \in 1..Len(h) : IsResult(h[i]) => h[i].id \notin CallIds(h[Len(h)])
<1> SUFFICES ASSUME NEW i \in 1..Len(h), IsResult(h[i]), h[i].id \in CallIds(h[Len(h)])
             PROVE  FALSE
  OBVIOUS
<1>1. Len(h) \in 1..Len(h)
  BY Positions DEF Sound
<1>2. i \in BlockOf(h, Len(h))
  BY <1>1, OwnersResults
<1> QED
  BY <1>1, <1>2 DEF BlockOf

\* What a sound transcript owes is what its last message announces.
LEMMA Owed ==
  ASSUME NEW n, NEW h, Sound(h, n)
  PROVE  Unanswered(h) = IF Settled(h) THEN {} ELSE CallIds(h[Len(h)])
<1>1. Len(h) \in Nat /\ DOMAIN h = 1..Len(h)
  BY Positions
<1>2. \A c : c \in Announced(h) <=> \E a \in 1..Len(h) : IsCaller(h[a]) /\ c \in CallIds(h[a])
  BY <1>1 DEF Announced
<1>3. \A c : c \in Answered(h) <=> \E i \in 1..Len(h) : IsResult(h[i]) /\ h[i].id = c
  BY <1>1 DEF Answered
<1>4. ASSUME NEW c \in Unanswered(h)
      PROVE  ~Settled(h) /\ c \in CallIds(h[Len(h)])
  <2>1. PICK a \in 1..Len(h) : IsCaller(h[a]) /\ c \in CallIds(h[a])
    BY <1>2, <1>4 DEF Unanswered
  <2>2. a = Len(h)
    BY <1>3, <1>4, <2>1 DEF Unanswered, Sound
  <2> QED
    BY <1>1, <2>1, <2>2 DEF Settled
<1>5. ASSUME ~Settled(h), NEW c \in CallIds(h[Len(h)])
      PROVE  c \in Unanswered(h)
  <2>1. h # <<>> /\ IsCaller(h[Len(h)])
    BY <1>5 DEF Settled
  <2>2. Len(h) \in 1..Len(h)
    BY <2>1 DEF Sound
  <2> QED
    BY <1>2, <1>3, <1>5, <2>1, <2>2, LastIsOpen DEF Unanswered
<1> QED
  BY <1>4, <1>5

\* A sound transcript has no orphans.
LEMMA NoOrphans ==
  ASSUME NEW n, NEW h, Sound(h, n)
  PROVE  StripOrphans(h) = h
<1> DEFINE owned(i) == \E a \in 1..(i - 1) : IsCaller(h[a]) /\ h[i].id \in CallIds(h[a])
           q == [i \in DOMAIN h |-> IF IsResult(h[i]) /\ ~owned(i) THEN <<>> ELSE <<h[i]>>]
<1>1. DOMAIN h = 1..Len(h) /\ h \in Seq(Message(Ids))
  BY Positions DEF Sound
<1>2. \A i \in 1..Len(h) : ~(IsResult(h[i]) /\ ~owned(i))
  BY DEF Sound, Owns
<1>3. StripOrphans(h) = FlattenSeq(q)
  BY DEF StripOrphans
<1> HIDE DEF owned
<1>4. q = [i \in 1..Len(h) |-> <<h[i]>>]
  BY <1>1, <1>2
<1> HIDE DEF q
<1> QED
  BY <1>1, <1>3, <1>4, FlattenSingletons

-------------------------------------------------------------------------------
\* What may follow the last message of a sound transcript.

\* The results of e are among those of h.
NoNewResult(e, h) ==
  \A i \in 1..Len(e) : IsResult(e[i]) => \E j \in 1..Len(h) : h[j] = e[i]

\* A message that is neither a result nor a call.
Plain == {User, Reply}

LEMMA PlainMessages ==
  \A m \in Plain : m \in Message(Ids) /\ ~IsResult(m) /\ ~IsCaller(m)
<1>1. <<>> \in Seq(Ids)
  OBVIOUS
<1>2. User \in Message(Ids) /\ Reply \in Message(Ids)
  BY <1>1 DEF User, Reply, Message
<1>3. ~IsResult(User) /\ ~IsCaller(User) /\ ~IsResult(Reply) /\ ~IsCaller(Reply)
  BY DEF User, Reply, IsResult, IsCaller
<1> QED
  BY <1>2, <1>3 DEF Plain

LEMMA ResultMessages ==
  \A c \in Ids : /\ NotRun(c) \in Message(Ids) /\ IsResult(NotRun(c)) /\ NotRun(c).id = c
                 /\ ~NotRun(c).ran
                 /\ Result(c) \in Message(Ids) /\ IsResult(Result(c)) /\ Result(c).id = c
                 /\ Result(c).ran
<1>1. <<>> \in Seq(Ids)
  OBVIOUS
<1> QED
  BY <1>1 DEF Result, NotRun, Message, IsResult

LEMMA AppendPlain ==
  ASSUME NEW n, NEW h, Sound(h, n), Settled(h), NEW m \in Plain
  PROVE  Sound(Append(h, m), n) /\ Settled(Append(h, m)) /\ NoNewResult(Append(h, m), h)
<1> DEFINE e == Append(h, m)
<1>1. h \in Seq(Message(Ids)) /\ Len(h) \in Nat
  BY DEF Sound
<1>2. m \in Message(Ids) /\ ~IsResult(m) /\ ~IsCaller(m)
  BY PlainMessages
<1>3. /\ e \in Seq(Message(Ids)) /\ e # <<>> /\ Len(e) = Len(h) + 1
      /\ \A i \in 1..Len(h) : e[i] = h[i]
      /\ e[Len(h) + 1] = m
  BY <1>1, <1>2, AppendProperties
<1> HIDE DEF e
<1>4. \A i \in 1..Len(e) : i \in 1..Len(h) \/ i = Len(h) + 1
  BY <1>1, <1>3
<1>5. \A i \in 1..Len(e) : IsResult(e[i]) \/ IsCaller(e[i]) => i \in 1..Len(h) /\ e[i] = h[i]
  BY <1>2, <1>3, <1>4
<1>6. ASSUME NEW i \in 1..Len(e), IsResult(e[i])
      PROVE  \E a \in 1..(i - 1) : Owns(e, a, i)
  <2>1. i \in 1..Len(h) /\ e[i] = h[i] /\ IsResult(h[i])
    BY <1>5, <1>6
  <2>2. PICK a \in 1..(i - 1) : Owns(h, a, i)
    BY <2>1 DEF Sound
  <2>3. \A k \in a..i : k \in 1..Len(h) /\ e[k] = h[k]
    BY <1>1, <1>3, <2>1, <2>2
  <2> QED
    BY <2>1, <2>2, <2>3 DEF Owns
<1>7. ASSUME NEW a \in 1..Len(e), a # Len(e), IsCaller(e[a]), NEW c \in CallIds(e[a])
      PROVE  \E i \in 1..Len(e) : IsResult(e[i]) /\ e[i].id = c
  <2>1. a \in 1..Len(h) /\ e[a] = h[a]
    BY <1>5, <1>7
  <2>2. a # Len(h)
    <3>1. h # <<>>
      BY <2>1, Len(<<>>) = 0
    <3> QED
      BY <1>7, <2>1, <3>1 DEF Settled
  <2>3. PICK i \in 1..Len(h) : IsResult(h[i]) /\ h[i].id = c
    BY <1>7, <2>1, <2>2 DEF Sound
  <2> QED
    BY <1>1, <1>3, <2>3
<1>8. Sound(e, n)
  BY <1>3, <1>5, <1>6, <1>7 DEF Sound
<1>9. Settled(e)
  BY <1>2, <1>3 DEF Settled
<1>10. NoNewResult(e, h)
  BY <1>5 DEF NoNewResult
<1> QED
  BY <1>8, <1>9, <1>10 DEF e

\* The last message of e announces the calls s.
Opened(e, s) ==
  /\ e # <<>> /\ IsCaller(e[Len(e)])
  /\ CallIds(e[Len(e)]) = {s[i] : i \in 1..Len(s)}

\* An assistant message whose calls have fresh ids.
LEMMA AppendAnnounce ==
  ASSUME NEW n \in Ids, NEW h, Sound(h, n), Settled(h), NEW k \in Ids,
         NEW s \in Seq(Ids), Len(s) = k, \A i \in 1..k : s[i] = n + i - 1
  PROVE  /\ Sound(Append(h, Announce(s)), n + k) /\ NoNewResult(Append(h, Announce(s)), h)
         /\ Opened(Append(h, Announce(s)), s)
<1> DEFINE m == Announce(s)
           e == Append(h, m)
<1>1. h \in Seq(Message(Ids)) /\ Len(h) \in Nat
  BY DEF Sound
<1>0. n \in Nat /\ n > 0 /\ k \in Nat /\ k > 0
  BY DEF Ids
<1>2. s \in Seq(Ids) /\ Len(s) = k /\ DOMAIN s = 1..k
  BY <1>0 DEF Ids
<1>3. m \in Message(Ids) /\ ~IsResult(m) /\ IsCaller(m) /\ m.calls = s
  <2>1. s # <<>>
    BY <1>0, <1>2, Len(<<>>) = 0
  <2> QED
    BY <1>2, <2>1 DEF Announce, Message, IsResult, IsCaller, NoId
<1>4. CallIds(m) = {s[i] : i \in 1..k} /\ \A c \in CallIds(m) : c \in n..(n + k - 1)
  <2>1. CallIds(m) = {s[i] : i \in 1..k}
    BY <1>2, <1>3 DEF CallIds
  <2>2. \A i \in 1..k : s[i] \in n..(n + k - 1)
    BY <1>0
  <2> QED
    BY <2>1, <2>2
<1> HIDE DEF m
<1>5. /\ e \in Seq(Message(Ids)) /\ e # <<>> /\ Len(e) = Len(h) + 1
      /\ \A i \in 1..Len(h) : e[i] = h[i]
      /\ e[Len(h) + 1] = m
  BY <1>1, <1>3, AppendProperties
<1> HIDE DEF e
<1>6. \A i \in 1..Len(e) : i \in 1..Len(h) \/ i = Len(h) + 1
  BY <1>1, <1>5
<1>7. \A i \in 1..Len(e) : IsResult(e[i]) => i \in 1..Len(h) /\ e[i] = h[i]
  BY <1>3, <1>5, <1>6
<1>8. ASSUME NEW i \in 1..Len(e), IsResult(e[i])
      PROVE  \E a \in 1..(i - 1) : Owns(e, a, i)
  <2>1. i \in 1..Len(h) /\ e[i] = h[i] /\ IsResult(h[i])
    BY <1>7, <1>8
  <2>2. PICK a \in 1..(i - 1) : Owns(h, a, i)
    BY <2>1 DEF Sound
  <2>3. \A j \in a..i : j \in 1..Len(h) /\ e[j] = h[j]
    BY <1>1, <1>5, <2>1, <2>2
  <2> QED
    BY <2>1, <2>2, <2>3 DEF Owns
<1>9. ASSUME NEW a \in 1..Len(e), a # Len(e), IsCaller(e[a]), NEW c \in CallIds(e[a])
      PROVE  \E i \in 1..Len(e) : IsResult(e[i]) /\ e[i].id = c
  <2>1. a \in 1..Len(h) /\ e[a] = h[a]
    BY <1>5, <1>6, <1>9
  <2>2. a # Len(h)
    <3>1. h # <<>>
      BY <2>1, Len(<<>>) = 0
    <3> QED
      BY <1>9, <2>1, <3>1 DEF Settled
  <2>3. PICK i \in 1..Len(h) : IsResult(h[i]) /\ h[i].id = c
    BY <1>9, <2>1, <2>2 DEF Sound
  <2> QED
    BY <1>1, <1>5, <2>3
<1>10. ASSUME NEW a \in 1..Len(e), IsCaller(e[a]), NEW c \in CallIds(e[a])
       PROVE  c \in Nat /\ c < n + k /\ (a # Len(e) => c < n) /\ (a = Len(e) => ~(c < n))
  <2>1. CASE a \in 1..Len(h)
    <3>1. c \in Nat /\ c < n
      BY <1>5, <1>10, <2>1 DEF Sound
    <3> QED
      BY <1>0, <1>1, <1>5, <2>1, <3>1
  <2>2. CASE a = Len(h) + 1
    <3>1. c \in n..(n + k - 1)
      BY <1>4, <1>5, <1>10, <2>2
    <3> QED
      BY <1>0, <1>1, <1>5, <2>2, <3>1
  <2> QED
    BY <1>6, <2>1, <2>2
<1>11. ASSUME NEW a \in 1..Len(e), NEW b \in 1..Len(e), IsCaller(e[a]), IsCaller(e[b]), a # b,
              NEW c \in CallIds(e[a]), c \in CallIds(e[b])
       PROVE  FALSE
  <2>1. CASE a \in 1..Len(h) /\ b \in 1..Len(h)
    BY <1>5, <1>11, <2>1 DEF Sound
  <2>2. CASE a = Len(e) \/ b = Len(e)
    BY <1>10, <1>11, <2>2
  <2> QED
    BY <1>5, <1>6, <2>1, <2>2
<1>12. Sound(e, n + k)
  BY <1>5, <1>7, <1>8, <1>9, <1>10, <1>11 DEF Sound
<1>13. e[Len(e)] = m
  BY <1>5
<1>14. NoNewResult(e, h)
  BY <1>7 DEF NoNewResult
<1> QED
  BY <1>3, <1>4, <1>5, <1>12, <1>13, <1>14 DEF e, m, Opened

\* A sequence of results that answers each of the given calls once.
Answers(r, ids) ==
  /\ r \in Seq(Message(Ids)) /\ \A i \in 1..Len(r) : IsResult(r[i])
  /\ \A i, j \in 1..Len(r) : r[i].id = r[j].id => i = j
  /\ {r[i].id : i \in 1..Len(r)} = ids

LEMMA ConcatParts ==
  ASSUME NEW S, NEW s \in Seq(S), NEW t \in Seq(S)
  PROVE  /\ s \o t \in Seq(S) /\ Len(s \o t) = Len(s) + Len(t)
         /\ \A i \in 1..Len(s) : i \in 1..Len(s \o t) /\ (s \o t)[i] = s[i]
         /\ \A i \in 1..Len(t) : Len(s) + i \in 1..Len(s \o t) /\ (s \o t)[Len(s) + i] = t[i]
         /\ \A i \in 1..Len(s \o t) : i \notin 1..Len(s) =>
              i - Len(s) \in 1..Len(t) /\ (s \o t)[i] = t[i - Len(s)]
<1> DEFINE e == s \o t
           m == Len(s)
           n == Len(t)
<1>1. /\ e \in Seq(S) /\ Len(e) = m + n
      /\ \A i \in 1..m + n : e[i] = IF i <= m THEN s[i] ELSE t[i - m]
  BY ConcatProperties
<1>2. m \in Nat /\ n \in Nat
  OBVIOUS
<1> HIDE DEF e, m, n
<1>3. \A i \in 1..m : i \in 1..m + n /\ i <= m
  BY <1>2
<1>4. \A i \in 1..n : m + i \in 1..m + n /\ ~(m + i <= m) /\ (m + i) - m = i
  BY <1>2
<1>5. \A i \in 1..m + n : i \notin 1..m => i - m \in 1..n /\ ~(i <= m)
  BY <1>2
<1> QED
  BY <1>1, <1>3, <1>4, <1>5 DEF e, m, n

\* The results of the last caller, all of them, behind it.
LEMMA AppendAnswers ==
  ASSUME NEW n, NEW h, Sound(h, n), h # <<>>, IsCaller(h[Len(h)]),
         NEW r, Answers(r, CallIds(h[Len(h)]))
  PROVE  Sound(h \o r, n) /\ Settled(h \o r)
<1> DEFINE e == h \o r
           l == Len(h)
<1>1. h \in Seq(Message(Ids)) /\ l \in Nat /\ l > 0 /\ l \in 1..Len(h)
  BY DEF Sound
<1>2. r \in Seq(Message(Ids)) /\ Len(r) \in Nat /\ \A i \in 1..Len(r) : IsResult(r[i])
  BY DEF Answers
<1>3. /\ e \in Seq(Message(Ids)) /\ Len(e) = l + Len(r)
      /\ \A i \in 1..l : i \in 1..Len(e) /\ e[i] = h[i]
      /\ \A i \in 1..Len(r) : l + i \in 1..Len(e) /\ e[l + i] = r[i]
      /\ \A i \in 1..Len(e) : i \notin 1..l => i - l \in 1..Len(r) /\ e[i] = r[i - l]
  BY <1>1, <1>2, ConcatParts
<1> HIDE DEF e, l
<1>4. /\ \A i \in 1..l : i \in 1..Len(e) /\ e[i] = h[i]
      /\ \A i \in 1..Len(r) : l + i \in 1..Len(e) /\ e[l + i] = r[i]
  BY <1>3
<1>5. ASSUME NEW i \in 1..Len(e), ~(i \in 1..l)
      PROVE  i - l \in 1..Len(r) /\ e[i] = r[i - l] /\ IsResult(e[i])
  BY <1>2, <1>3, <1>5
<1>6. ASSUME NEW i \in 1..Len(e), IsResult(e[i])
      PROVE  \E a \in 1..(i - 1) : Owns(e, a, i)
  <2>1. CASE i \in 1..l
    <3>1. PICK a \in 1..(i - 1) : Owns(h, a, i)
      BY <1>4, <1>6, <2>1 DEF Sound, l
    <3>2. \A k \in a..i : k \in 1..l /\ e[k] = h[k]
      BY <1>1, <1>4, <2>1, <3>1
    <3> QED
      BY <1>4, <2>1, <3>1, <3>2 DEF Owns
  <2>2. CASE ~(i \in 1..l)
    <3>1. e[i].id \in CallIds(h[l])
      BY <1>5, <2>2 DEF Answers, l
    <3>2. \A k \in (l + 1)..i : k \in 1..Len(e) /\ ~(k \in 1..l)
      BY <1>1, <1>2, <1>3
    <3>3. \A k \in (l + 1)..i : IsResult(e[k])
      BY <1>5, <3>2
    <3>4. l \in 1..(i - 1) /\ e[l] = h[l]
      BY <1>1, <1>4, <2>2
    <3> QED
      BY <3>1, <3>3, <3>4 DEF Owns, l
  <2> QED
    BY <2>1, <2>2
<1>7. \A a \in 1..Len(e) : IsCaller(e[a]) => a \in 1..l /\ e[a] = h[a]
  BY <1>4, <1>5, Roles
<1>8. ASSUME NEW i \in 1..Len(e), NEW j \in 1..Len(e), IsResult(e[i]), IsResult(e[j]),
             e[i].id = e[j].id
      PROVE  i = j
  <2>1. ASSUME NEW x \in 1..l, NEW y \in 1..Len(e), ~(y \in 1..l), IsResult(e[x]), e[x].id = e[y].id
        PROVE  FALSE
    <3>1. e[y].id \in CallIds(h[l])
      BY <1>5, <2>1 DEF Answers, l
    <3>2. IsResult(h[x]) /\ h[x].id \in CallIds(h[l])
      BY <1>4, <2>1, <3>1
    <3> QED
      BY <1>1, <3>2, LastIsOpen DEF l
  <2>2. CASE i \in 1..l /\ j \in 1..l
    BY <1>4, <1>8, <2>2 DEF Sound, l
  <2>3. CASE ~(i \in 1..l) /\ ~(j \in 1..l)
    <3>1. i - l = j - l
      BY <1>5, <1>8, <2>3 DEF Answers
    <3> QED
      BY <1>1, <3>1
  <2> QED
    BY <1>8, <2>1, <2>2, <2>3
<1>9. ASSUME NEW a \in 1..Len(e), IsCaller(e[a]), NEW c \in CallIds(e[a])
      PROVE  \E i \in 1..Len(e) : IsResult(e[i]) /\ e[i].id = c
  <2>1. a \in 1..l /\ e[a] = h[a]
    BY <1>7, <1>9
  <2>2. CASE a # l
    <3>1. PICK i \in 1..Len(h) : IsResult(h[i]) /\ h[i].id = c
      BY <1>9, <2>1, <2>2 DEF Sound, l
    <3> QED
      BY <1>4, <3>1 DEF l
  <2>3. CASE a = l
    <3>1. PICK i \in 1..Len(r) : r[i].id = c
      BY <1>9, <2>1, <2>3 DEF Answers, l
    <3> QED
      BY <1>2, <1>4, <3>1
  <2> QED
    BY <2>2, <2>3
<1>10. Sound(e, n)
  <2>1. \A a, b \in 1..Len(e) : IsCaller(e[a]) /\ IsCaller(e[b]) /\ a # b =>
          CallIds(e[a]) \cap CallIds(e[b]) = {}
    BY <1>7 DEF Sound, l
  <2>2. \A a \in 1..Len(e) : IsCaller(e[a]) => \A c \in CallIds(e[a]) : c \in Nat /\ c < n
    BY <1>7 DEF Sound, l
  <2> QED
    BY <1>3, <1>6, <1>8, <1>9, <2>1, <2>2 DEF Sound
<1>11. Settled(e)
  <2>1. PICK c : c \in CallIds(h[l])
    <3>1. h[l] \in Message(Ids) /\ h[l].calls # <<>>
      BY <1>1, Positions DEF IsCaller, l
    <3>2. h[l].calls \in Seq(Ids) /\ 1 \in DOMAIN h[l].calls
      BY <3>1 DEF Message
    <3> QED
      BY <3>2 DEF CallIds
  <2>2. PICK i \in 1..Len(r) : r[i].id = c
    BY <2>1 DEF Answers, l
  <2>3. Len(e) \in 1..Len(e) /\ ~(Len(e) \in 1..l)
    BY <1>1, <1>2, <1>3, <2>2
  <2>4. ~IsCaller(e[Len(e)])
    BY <1>5, <2>3, Roles
  <2> QED
    BY <2>4 DEF Settled
<1> QED
  BY <1>10, <1>11 DEF e

\* Repair changes a sound transcript only where it is open: the calls of its last message
\* get their synthetic results.
LEMMA Patched ==
  ASSUME NEW n, NEW h, Sound(h, n)
  PROVE  \/ Settled(h) /\ Patch(h) = h
         \/ /\ ~Settled(h)
            /\ \E r : /\ Patch(h) = h \o r /\ Answers(r, CallIds(h[Len(h)]))
                      /\ \A i \in 1..Len(r) : ~r[i].ran
<1> DEFINE missing(a) == CallIds(h[a]) \ Answered(h)
           ids(i) == UNION {missing(a) : a \in ClosedAt(h, i)}
           patch(i) == [k \in DOMAIN SetToSeq(ids(i)) |-> NotRun(SetToSeq(ids(i))[k])]
           q == [i \in DOMAIN h |-> <<h[i]>> \o patch(i)]
           l == Len(h)
<1>1. h \in Seq(Message(Ids)) /\ l \in Nat /\ DOMAIN h = 1..l
  BY Positions DEF Sound
<1>2. \A c : c \in Answered(h) <=> \E i \in 1..l : IsResult(h[i]) /\ h[i].id = c
  BY <1>1 DEF Answered
<1>3. Patch(h) = FlattenSeq(q)
  BY DEF Patch
<1> HIDE DEF l, missing, patch, q
<1>4. \A i \in 1..l : \A a \in ClosedAt(h, i) :
        a \in 1..l /\ IsCaller(h[a]) /\ a <= i /\ \A k \in (a + 1)..i : IsResult(h[k])
  <2> SUFFICES ASSUME NEW i \in 1..l, NEW a \in ClosedAt(h, i)
               PROVE  a \in 1..l /\ IsCaller(h[a]) /\ a <= i /\ \A k \in (a + 1)..i : IsResult(h[k])
    OBVIOUS
  <2>1. a \in 1..i /\ IsCaller(h[a]) /\ \A k \in (a + 1)..i : IsResult(h[k])
    BY DEF ClosedAt
  <2> QED
    BY <1>1, <2>1
<1>5. \A a \in 1..l : IsCaller(h[a]) => IF a = l THEN missing(a) = CallIds(h[a]) ELSE missing(a) = {}
  <2>1. ASSUME NEW a \in 1..l, IsCaller(h[a]), a # l
        PROVE  missing(a) = {}
    BY <1>2, <2>1 DEF Sound, missing, l
  <2>2. ASSUME l \in 1..l, IsCaller(h[l])
        PROVE  missing(l) = CallIds(h[l])
    <3>1. h # <<>>
      BY <2>2, Len(<<>>) = 0 DEF l
    <3> QED
      BY <1>2, <2>2, <3>1, LastIsOpen DEF missing, l
  <2> QED
    BY <2>1, <2>2
<1>6. ASSUME NEW i \in 1..l, i # l \/ ~IsCaller(h[l])
      PROVE  ids(i) = {}
  <2>1. \A a \in ClosedAt(h, i) : a # l
    BY <1>1, <1>4, <1>6
  <2> QED
    BY <1>4, <1>5, <2>1
<1>7. ASSUME l \in 1..l, IsCaller(h[l])
      PROVE  ids(l) = CallIds(h[l])
  <2>1. l \in ClosedAt(h, l)
    BY <1>1, <1>7 DEF ClosedAt
  <2>2. \A a \in ClosedAt(h, l) : a # l => missing(a) = {}
    BY <1>4, <1>5, <1>7
  <2>3. missing(l) = CallIds(h[l])
    BY <1>5, <1>7
  <2> HIDE DEF missing
  <2> QED
    BY <2>1, <2>2, <2>3
<1>8. IsFiniteSet({}) /\ \A a \in 1..l : IsFiniteSet(CallIds(h[a]))
  <2>1. ASSUME NEW a \in 1..l
        PROVE  IsFiniteSet(CallIds(h[a]))
    <3> DEFINE s == h[a].calls
    <3>1. s \in Seq(Ids)
      BY Positions DEF Message, l
    <3>2. s \in [1..Len(s) -> CallIds(h[a])] /\ Len(s) \in Nat
          /\ \A c \in CallIds(h[a]) : \E k \in 1..Len(s) : s[k] = c
      BY <3>1 DEF CallIds
    <3> HIDE DEF s
    <3>3. s \in Surjection(1..Len(s), CallIds(h[a]))
      BY <3>2 DEF Surjection
    <3>4. IsFiniteSet(1..Len(s))
      BY <3>2, FS_Interval
    <3> QED
      BY <3>3, <3>4, FS_Surjection
  <2> QED
    BY <2>1, FS_EmptySet
<1>9. ASSUME NEW i \in 1..l, ids(i) = {}
      PROVE  q[i] = <<h[i]>>
  <2>1. SetToSeq({}) \in Seq({})
    BY <1>8, SetInSequence
  <2>2. SetToSeq({}) = <<>>
    BY <2>1
  <2>3. patch(i) = <<>>
    <3> DEFINE s == SetToSeq(ids(i))
    <3>0. s = SetToSeq({})
      BY <1>9
    <3>1. s \in Seq({}) /\ DOMAIN s = 1..0
      <4> HIDE DEF s
      <4> QED
        BY <3>0, <2>1, <2>2
    <3>2. patch(i) = [k \in DOMAIN s |-> NotRun(s[k])]
      BY DEF patch
    <3> HIDE DEF s, ids
    <3>3. patch(i) = [k \in 1..0 |-> NotRun(s[k])]
      BY <3>1, <3>2
    <3>4. patch(i) \in Seq({}) /\ Len(patch(i)) = 0
      BY <3>3
    <3> QED
      BY <3>4, EmptySeq
  <2>4. <<h[i]>> \o <<>> = <<h[i]>>
    BY <1>1
  <2> HIDE DEF patch
  <2> QED
    BY <1>1, <2>3, <2>4 DEF q
<1>10. CASE Settled(h)
  <2>1. \A i \in 1..l : ids(i) = {}
    <3>1. ASSUME l \in 1..l
          PROVE  ~IsCaller(h[l])
      BY <1>10, <3>1, Len(<<>>) = 0 DEF Settled, l
    <3> QED
      BY <1>1, <1>6, <3>1
  <2>2. q = [i \in 1..l |-> <<h[i]>>]
    <3>1. q = [i \in 1..l |-> q[i]]
      BY <1>1 DEF q
    <3>2. \A i \in 1..l : q[i] = <<h[i]>>
      BY <1>9, <2>1
    <3> HIDE DEF q
    <3> QED
      BY <3>1, <3>2
  <2> HIDE DEF q
  <2>3. FlattenSeq(q) = h
    BY <1>1, <2>2, FlattenSingletons
  <2> QED
    BY <1>3, <1>10, <2>3
<1>11. CASE ~Settled(h)
  <2>1. h # <<>> /\ IsCaller(h[l]) /\ l \in 1..l
    BY <1>1, <1>11 DEF Settled
  <2> DEFINE r == patch(l)
             s == SetToSeq(CallIds(h[l]))
  <2>2. /\ s \in Seq(CallIds(h[l])) /\ DOMAIN s = 1..Len(s) /\ Len(s) \in Nat
        /\ \A i, j \in 1..Len(s) : s[i] = s[j] => i = j
        /\ {s[i] : i \in 1..Len(s)} = CallIds(h[l])
    BY <1>8, <2>1, SetInSequence DEF l
  <2>3. r = [k \in 1..Len(s) |-> NotRun(s[k])]
    BY <1>7, <2>1, <2>2 DEF patch
  <2>4. \A c \in CallIds(h[l]) : c \in Ids
    <3>1. h[l].calls \in Seq(Ids)
      BY <2>1, Positions DEF Message, l
    <3> QED
      BY <3>1 DEF CallIds
  <2> HIDE DEF r, s
  <2>5. \A k \in 1..Len(s) : /\ s[k] \in Ids /\ r[k] \in Message(Ids) /\ IsResult(r[k])
                             /\ r[k].id = s[k] /\ ~r[k].ran
    BY <2>2, <2>3, <2>4, ResultMessages
  <2>6. r \in Seq(Message(Ids)) /\ Len(r) = Len(s)
    BY <2>2, <2>3, <2>5
  <2>7. Answers(r, CallIds(h[l]))
    BY <2>2, <2>5, <2>6 DEF Answers
  <2>8. Tailed(q, h, r)
    <3>1. Len(q) = l /\ q[l] = <<h[l]>> \o r
      BY <1>1, <2>1 DEF r, q, l
    <3>2. \A i \in 1..l : i # l => q[i] = <<h[i]>>
      BY <1>6, <1>9
    <3> HIDE DEF q
    <3> QED
      BY <3>1, <3>2 DEF Tailed, l
  <2> HIDE DEF q
  <2>9. FlattenSeq(q) = h \o r
    BY <1>1, <2>1, <2>6, <2>8, FlattenTail
  <2> QED
    BY <1>3, <1>11, <2>5, <2>6, <2>7, <2>9 DEF l
<1> QED
  BY <1>10, <1>11

-------------------------------------------------------------------------------
(* Repair and compaction keep a transcript sound.                          *)

LEMMA Sanitized ==
  ASSUME NEW n, NEW h, Sound(h, n)
  PROVE  Sound(Sanitize(h), n) /\ Settled(Sanitize(h)) /\ (Settled(h) => Sanitize(h) = h)
<1>1. CASE Settled(h)
  <2>1. Patch(h) = h
    BY <1>1, Patched
  <2> QED
    BY <1>1, <2>1, NoOrphans DEF Sanitize
<1>2. CASE ~Settled(h)
  <2>1. PICK r : Patch(h) = h \o r /\ Answers(r, CallIds(h[Len(h)]))
    BY <1>2, Patched
  <2>2. Sound(h \o r, n) /\ Settled(h \o r)
    BY <1>2, <2>1, AppendAnswers DEF Settled
  <2> QED
    BY <1>2, <2>1, <2>2, NoOrphans DEF Sanitize
<1> QED
  BY <1>1, <1>2

\* A cut of h: a record in place of all that lies before a message that is no result.
IsCut(e, h) ==
  \E s \in 1..(Len(h) + 1) :
    /\ s = Len(h) + 1 \/ ~IsResult(h[s])
    /\ e = <<Record>> \o SubSeq(h, s, Len(h))

LEMMA CutIsSound ==
  ASSUME NEW n, NEW h, Sound(h, n), NEW e, IsCut(e, h)
  PROVE  /\ Sound(e, n) /\ (Settled(h) => Settled(e)) /\ NoNewResult(e, h)
         /\ Unanswered(e) \subseteq Unanswered(h)
<1>1. PICK s \in 1..(Len(h) + 1) : /\ s = Len(h) + 1 \/ ~IsResult(h[s])
                                   /\ e = <<Record>> \o SubSeq(h, s, Len(h))
  BY DEF IsCut
<1> DEFINE l == Len(h)
           m == l + 2 - s
           t == SubSeq(h, s, l)
           at(i) == s + i - 2
<1>2. h \in Seq(Message(Ids)) /\ l \in Nat /\ s \in Nat /\ s > 0 /\ s <= l + 1
      /\ \A i \in 1..l : h[i] \in Message(Ids)
  BY DEF Sound
<1>3. /\ t \in Seq(Message(Ids)) /\ Len(t) = l + 1 - s
      /\ \A i \in 1..(l + 1 - s) : t[i] = h[s + i - 1]
  <2>1. \A i \in s..l : h[i] \in Message(Ids)
    BY <1>2
  <2>2. /\ t \in Seq(Message(Ids)) /\ Len(t) = IF s <= l THEN l - s + 1 ELSE 0
        /\ \A i \in 1..l - s + 1 : t[i] = h[s + i - 1]
    BY <1>2, <2>1, SubSeqProperties
  <2> QED
    BY <1>2, <2>2
<1>4. /\ Record \in Message(Ids) /\ ~IsResult(Record) /\ ~IsCaller(Record)
      /\ <<Record>> \in Seq(Message(Ids)) /\ Len(<<Record>>) = 1 /\ <<Record>>[1] = Record
  BY PlainMessages DEF Plain, Record
<1> HIDE DEF t, l
<1>5. /\ e \in Seq(Message(Ids)) /\ Len(e) = m /\ e[1] = Record
      /\ \A i \in 2..m : e[i] = h[at(i)]
  <2>1. /\ e \in Seq(Message(Ids)) /\ Len(e) = 1 + Len(t)
        /\ \A i \in 1..1 : e[i] = <<Record>>[i]
        /\ \A i \in 1..Len(e) : i \notin 1..1 => i - 1 \in 1..Len(t) /\ e[i] = t[i - 1]
    BY <1>1, <1>3, <1>4, ConcatParts DEF t, l
  <2>2. ASSUME NEW i \in 2..m
        PROVE  e[i] = h[at(i)]
    <3>1. i \in 1..Len(e) /\ i \notin 1..1 /\ i - 1 \in 1..(l + 1 - s) /\ s + (i - 1) - 1 = s + i - 2
      BY <1>2, <1>3, <2>1
    <3> QED
      BY <1>3, <2>1, <3>1
  <2> QED
    BY <1>2, <1>3, <1>4, <2>1, <2>2
<1>6. m \in Nat /\ m > 0 /\ \A i \in 2..m : at(i) \in s..l /\ at(i) \in 1..l
  BY <1>2
<1>7. \A i \in 1..m : (IsResult(e[i]) \/ IsCaller(e[i])) => i \in 2..m /\ e[i] = h[at(i)]
  <2>1. \A i \in 1..m : i = 1 \/ i \in 2..m
    BY <1>6
  <2> QED
    BY <1>4, <1>5, <2>1
<1>8. \A i, j \in 2..m : at(i) = at(j) => i = j
  BY <1>2, <1>6
\* Positions of the tail in e.
<1>9. \A x \in s..l : x - s + 2 \in 2..m /\ at(x - s + 2) = x /\ e[x - s + 2] = h[x]
  <2>1. \A x \in s..l : x - s + 2 \in 2..m /\ at(x - s + 2) = x
    BY <1>2
  <2> QED
    BY <1>5, <2>1
<1> HIDE DEF m
\* The owner of a result in the tail is in the tail.
<1>10. ASSUME NEW i \in 2..m, IsResult(e[i])
       PROVE  \E a \in 2..(i - 1) : Owns(e, a, i) /\ Owns(h, at(a), at(i))
  <2>1. at(i) \in 1..l /\ at(i) \in s..l /\ IsResult(h[at(i)]) /\ h[at(i)] = e[i]
    BY <1>5, <1>6, <1>10
  <2>2. PICK x \in 1..(at(i) - 1) : Owns(h, x, at(i))
    BY <2>1 DEF Sound, l
  <2>3. x >= s
    <3>1. SUFFICES ASSUME x < s PROVE FALSE
      BY <1>2, <2>2
    <3>2. s \in (x + 1)..at(i)
      BY <1>2, <2>1, <2>2, <3>1
    <3>3. IsResult(h[s])
      BY <2>2, <3>2 DEF Owns
    <3> QED
      BY <1>1, <1>2, <2>1, <3>3 DEF l
  <2>4. x \in s..l
    BY <1>2, <2>1, <2>2, <2>3
  <2> DEFINE a == x - s + 2
  <2>5. a \in 2..m /\ at(a) = x /\ e[a] = h[x] /\ a \in 2..(i - 1)
    <3>1. x - s + 2 <= i - 1
      BY <1>2, <2>2
    <3> QED
      BY <1>2, <1>9, <2>4, <3>1
  <2>6. ASSUME NEW k \in (a + 1)..i
        PROVE  IsResult(e[k])
    <3>1. k \in 2..m /\ at(k) \in (x + 1)..at(i)
      BY <1>2, <1>6, <2>4
    <3> QED
      BY <1>5, <2>2, <3>1 DEF Owns
  <2>7. Owns(e, a, i)
    BY <2>1, <2>2, <2>5, <2>6 DEF Owns
  <2> HIDE DEF a, at
  <2> QED
    BY <2>2, <2>5, <2>7
<1> HIDE DEF at
<1>11. ASSUME NEW a \in 2..m, IsCaller(e[a]), NEW i \in 1..l, IsResult(h[i]), h[i].id \in CallIds(e[a])
       PROVE  \E j \in 2..m : i = at(j) /\ e[j] = h[i]
  <2>1. IsCaller(h[at(a)]) /\ at(a) \in 1..l /\ at(a) \in s..l /\ h[i].id \in CallIds(h[at(a)])
    BY <1>5, <1>6, <1>11
  <2>2. i \in BlockOf(h, at(a))
    BY <1>11, <2>1, OwnersResults DEF l
  <2>3. i \in (at(a) + 1)..l
    BY <2>2 DEF BlockOf, l
  <2>4. i \in s..l
    BY <1>2, <2>1, <2>3
  <2> QED
    BY <1>9, <2>4
<1>12. Sound(e, n)
  <2>1. \A i \in 1..m : IsResult(e[i]) => \E a \in 1..(i - 1) : Owns(e, a, i)
    <3> SUFFICES ASSUME NEW i \in 1..m, IsResult(e[i]) PROVE \E a \in 1..(i - 1) : Owns(e, a, i)
      OBVIOUS
    <3>1. PICK a \in 2..(i - 1) : Owns(e, a, i)
      BY <1>7, <1>10
    <3> QED
      BY <3>1
  <2>2. \A a, b \in 1..m : IsCaller(e[a]) /\ IsCaller(e[b]) /\ a # b =>
          CallIds(e[a]) \cap CallIds(e[b]) = {}
    <3> SUFFICES ASSUME NEW a \in 1..m, NEW b \in 1..m, IsCaller(e[a]), IsCaller(e[b]), a # b
                 PROVE  CallIds(e[a]) \cap CallIds(e[b]) = {}
      OBVIOUS
    <3>1. /\ e[a] = h[at(a)] /\ at(a) \in 1..l /\ e[b] = h[at(b)] /\ at(b) \in 1..l
          /\ at(a) # at(b)
      BY <1>6, <1>7, <1>8
    <3> QED
      BY <3>1 DEF Sound, l
  <2>3. \A i, j \in 1..m : IsResult(e[i]) /\ IsResult(e[j]) /\ e[i].id = e[j].id => i = j
    <3> SUFFICES ASSUME NEW i \in 1..m, NEW j \in 1..m, IsResult(e[i]), IsResult(e[j]),
                        e[i].id = e[j].id
                 PROVE  i = j
      OBVIOUS
    <3>1. /\ e[i] = h[at(i)] /\ at(i) \in 1..l /\ e[j] = h[at(j)] /\ at(j) \in 1..l
          /\ (at(i) = at(j) => i = j)
      BY <1>6, <1>7, <1>8
    <3> QED
      BY <3>1 DEF Sound, l
  <2>4. \A a \in 1..m : IsCaller(e[a]) => \A c \in CallIds(e[a]) : c \in Nat /\ c < n
    BY <1>6, <1>7 DEF Sound, l
  <2>5. ASSUME NEW a \in 1..m, a # m, IsCaller(e[a]), NEW c \in CallIds(e[a])
        PROVE  \E i \in 1..m : IsResult(e[i]) /\ e[i].id = c
    <3>1. a \in 2..m /\ e[a] = h[at(a)] /\ at(a) \in 1..l
      BY <1>6, <1>7, <2>5
    <3>2. at(a) # l
      BY <1>2, <1>6, <2>5, <3>1 DEF at, m
    <3>3. PICK i \in 1..l : IsResult(h[i]) /\ h[i].id = c
      BY <2>5, <3>1, <3>2 DEF Sound, l
    <3>4. PICK j \in 2..m : i = at(j) /\ e[j] = h[i]
      BY <1>11, <2>5, <3>1, <3>3
    <3> QED
      BY <3>3, <3>4
  <2> QED
    BY <1>5, <2>1, <2>2, <2>3, <2>4, <2>5 DEF Sound
<1>13. Settled(h) => Settled(e)
  <2> SUFFICES ASSUME Settled(h), IsCaller(e[m]) PROVE FALSE
    BY <1>5 DEF Settled
  <2>1. m \in 1..m
    BY <1>6
  <2>2. m \in 2..m /\ at(m) = l /\ e[m] = h[l] /\ at(m) \in 1..l
    BY <1>2, <1>6, <1>7, <2>1 DEF at, m
  <2>3. h # <<>>
    BY <2>2, Len(<<>>) = 0 DEF l
  <2> QED
    BY <2>2, <2>3 DEF Settled, l
<1>14. Unanswered(e) \subseteq Unanswered(h)
  <2> SUFFICES ASSUME NEW c \in Unanswered(e) PROVE c \in Unanswered(h)
    OBVIOUS
  <2>1. DOMAIN e = 1..m /\ DOMAIN h = 1..l
    BY <1>2, <1>5, <1>6 DEF l
  <2>2. PICK a \in 1..m : IsCaller(e[a]) /\ c \in CallIds(e[a])
    BY <2>1 DEF Unanswered, Announced
  <2>3. a \in 2..m /\ e[a] = h[at(a)] /\ at(a) \in 1..l
    BY <1>6, <1>7, <2>2
  <2>4. c \in Announced(h)
    BY <2>1, <2>2, <2>3 DEF Announced
  <2>5. ASSUME c \in Answered(h) PROVE FALSE
    <3>1. PICK i \in 1..l : IsResult(h[i]) /\ h[i].id = c
      BY <2>1, <2>5 DEF Answered
    <3>2. PICK j \in 2..m : i = at(j) /\ e[j] = h[i]
      BY <1>11, <2>2, <2>3, <3>1
    <3>3. j \in 1..m
      BY <3>2
    <3> QED
      BY <2>1, <3>1, <3>2, <3>3 DEF Unanswered, Answered
  <2> QED
    BY <2>4, <2>5 DEF Unanswered
<1>15. NoNewResult(e, h)
  <2>1. \A i \in 1..m : IsResult(e[i]) => at(i) \in 1..l /\ h[at(i)] = e[i]
    BY <1>6, <1>7
  <2> QED
    BY <1>5, <2>1 DEF NoNewResult, l
<1> QED
  BY <1>12, <1>13, <1>14, <1>15

LEMMA LeastChosen ==
  ASSUME NEW T \in SUBSET Nat, T # {}, NEW x, x = CHOOSE i \in T : \A j \in T : i <= j
  PROVE  x \in T /\ \A j \in T : x <= j
BY LeastElement

LEMMA SafeStartCuts ==
  ASSUME NEW S, NEW h \in Seq(S), NEW s \in 1..(Len(h) + 1)
  PROVE  /\ SafeStart(h, s) \in s..(Len(h) + 1)
         /\ SafeStart(h, s) = Len(h) + 1 \/ ~IsResult(h[SafeStart(h, s)])
<1> DEFINE users == {i \in s..Len(h) : h[i].role = "user"}
           nonTool == {i \in s..Len(h) : ~IsResult(h[i])} \cup {Len(h) + 1}
           least(T) == CHOOSE i \in T : \A j \in T : i <= j
<1>1. SafeStart(h, s) = IF users # {} THEN least(users) ELSE least(nonTool)
  BY DEF SafeStart
<1>2. /\ users \in SUBSET Nat /\ nonTool \in SUBSET Nat /\ nonTool # {}
      /\ \A i \in users : i \in s..Len(h) /\ ~IsResult(h[i])
      /\ \A i \in nonTool : i \in s..(Len(h) + 1) /\ (i = Len(h) + 1 \/ ~IsResult(h[i]))
      /\ Len(h) \in Nat
  BY DEF IsResult
<1> HIDE DEF users, nonTool
<1>3. nonTool # {} => least(nonTool) \in nonTool
  BY <1>2, LeastChosen
<1>4. users # {} => least(users) \in users
  BY <1>2, LeastChosen
<1>5. CASE users # {}
  <2>1. SafeStart(h, s) \in users
    BY <1>1, <1>4, <1>5
  <2> HIDE DEF least
  <2>2. SafeStart(h, s) \in s..Len(h) /\ ~IsResult(h[SafeStart(h, s)])
    BY <1>2, <2>1
  <2>3. \A x \in s..Len(h) : x \in s..(Len(h) + 1)
    BY <1>2
  <2> QED
    BY <2>2, <2>3
<1>6. CASE users = {}
  <2>1. SafeStart(h, s) \in nonTool
    BY <1>1, <1>2, <1>3, <1>6
  <2> HIDE DEF least
  <2> QED
    BY <1>2, <2>1
<1> QED
  BY <1>5, <1>6

LEMMA SummarisedCuts ==
  ASSUME NEW S, NEW h \in Seq(S), NEW keep, NEW e \in Summarised(h, keep)
  PROVE  IsCut(e, h)
<1>1. PICK s \in 1..(Len(h) + 1) : e = SummariseFrom(h, s)
  BY DEF Summarised
<1>2. /\ SafeStart(h, s) \in s..(Len(h) + 1)
      /\ SafeStart(h, s) = Len(h) + 1 \/ ~IsResult(h[SafeStart(h, s)])
  BY SafeStartCuts
<1>3. SafeStart(h, s) \in 1..(Len(h) + 1)
  BY <1>2
<1> QED
  BY <1>1, <1>2, <1>3 DEF SummariseFrom, IsCut

LEMMA OrphanRepairCuts ==
  ASSUME NEW n, NEW h, Sound(h, n), NEW k \in Nat, k < Len(h)
  PROVE  /\ OrphanRepairStart(h, k) \in 1..(Len(h) + 1)
         /\ OrphanRepairStart(h, k) = Len(h) + 1 \/ ~IsResult(h[OrphanRepairStart(h, k)])
<1> DEFINE first == Len(h) - k + 1
           kept == UNION {CallIds(h[i]) : i \in {j \in first..Len(h) : IsCaller(h[j])}}
           stops == {i \in first..Len(h) : ~IsResult(h[i]) \/ h[i].id \in kept} \cup {Len(h) + 1}
           x == CHOOSE i \in stops : \A j \in stops : i <= j
<1>1. OrphanRepairStart(h, k) = x
  BY DEF OrphanRepairStart
<1>2. Len(h) \in Nat /\ first \in Nat /\ first > 0 /\ first <= Len(h) + 1
  BY Positions
<1> HIDE DEF first
<1>3. /\ stops \in SUBSET Nat /\ stops # {}
      /\ \A i \in stops : i = Len(h) + 1 \/ (i \in first..Len(h) /\ (~IsResult(h[i]) \/ h[i].id \in kept))
      /\ \A i \in first..Len(h) : ~IsResult(h[i]) => i \in stops
  BY <1>2
<1>4. \A c \in kept : \E j \in first..Len(h) : IsCaller(h[j]) /\ c \in CallIds(h[j])
  OBVIOUS
<1> HIDE DEF stops, kept
<1>5. x \in stops /\ \A j \in stops : x <= j
  BY <1>3, LeastChosen
<1> HIDE DEF x
<1>6. ASSUME x # Len(h) + 1, IsResult(h[x])
      PROVE  FALSE
  <2>1. x \in first..Len(h) /\ h[x].id \in kept
    BY <1>3, <1>5, <1>6
  <2>2. PICK j \in first..Len(h) : IsCaller(h[j]) /\ h[x].id \in CallIds(h[j])
    BY <1>4, <2>1
  <2>3. j \in 1..Len(h) /\ x \in 1..Len(h)
    BY <1>2, <2>1
  <2>4. x \in BlockOf(h, j)
    BY <1>6, <2>2, <2>3, OwnersResults
  <2>5. j < x
    BY <2>3, <2>4 DEF BlockOf
  <2>6. j \in stops
    BY <1>3, <2>2, Roles
  <2>7. x <= j
    BY <1>5, <2>6
  <2> QED
    BY <2>3, <2>5, <2>7
<1>7. x \in 1..(Len(h) + 1)
  BY <1>2, <1>3, <1>5
<1> QED
  BY <1>1, <1>6, <1>7

LEMMA CompactionsCut ==
  ASSUME NEW n, NEW h, Sound(h, n), NEW keep \in Nat, NEW e \in Compactions(h, keep)
  PROVE  IsCut(e, h)
<1>1. h \in Seq(Message(Ids)) /\ Len(h) \in Nat
  BY DEF Sound
<1>2. CASE e \in Summarised(h, keep)
  BY <1>1, <1>2, SummarisedCuts
<1>3. CASE e \in Laddered(h, keep)
  <2>1. ~(Len(h) <= keep)
    BY <1>3 DEF Laddered
  <2>2. PICK k \in MinKeepRecent..keep : e = <<Record>> \o SubSeq(h, OrphanRepairStart(h, k), Len(h))
    BY <1>3, <2>1 DEF Laddered
  <2>3. k \in Nat /\ k < Len(h)
    BY <1>1, <2>1 DEF MinKeepRecent
  <2>4. /\ OrphanRepairStart(h, k) \in 1..(Len(h) + 1)
        /\ OrphanRepairStart(h, k) = Len(h) + 1 \/ ~IsResult(h[OrphanRepairStart(h, k)])
    BY <2>3, OrphanRepairCuts
  <2> QED
    BY <2>2, <2>4 DEF IsCut
<1> QED
  BY <1>2, <1>3 DEF Compactions

\* Nobody answers the calls of a batch that are still pending; all of them get a result.
LEMMA RemainingAnswered ==
  ASSUME NEW calls \in Seq(Ids), NEW msgs \in Seq(Message(Ids)),
         \A i \in 1..Len(msgs) : \A k \in 1..Len(calls) : msgs[i].id # calls[k]
  PROVE  AnswerRemaining(calls, msgs) = msgs \o [k \in 1..Len(calls) |-> NotRun(calls[k])]
<1> DEFINE answered == {msgs[i].id : i \in DOMAIN msgs}
           left == [k \in 1..Len(calls) |-> NotRun(calls[k])]
           q == [k \in DOMAIN calls |->
                   IF calls[k] \in answered THEN <<>> ELSE <<NotRun(calls[k])>>]
<1>1. AnswerRemaining(calls, msgs) = msgs \o FlattenSeq(q)
  BY DEF AnswerRemaining
<1>2. left \in Seq(Message(Ids)) /\ Len(left) = Len(calls)
  <2>1. \A k \in 1..Len(calls) : NotRun(calls[k]) \in Message(Ids)
    BY ResultMessages
  <2> QED
    BY <2>1
<1>3. DOMAIN calls = 1..Len(calls) /\ DOMAIN msgs = 1..Len(msgs)
  OBVIOUS
<1>4. \A k \in 1..Len(calls) : calls[k] \notin answered
  BY <1>3
<1> HIDE DEF answered
<1>5. q = [k \in 1..Len(left) |-> <<left[k]>>]
  BY <1>2, <1>3, <1>4
<1> HIDE DEF q, left
<1>6. FlattenSeq(q) = left
  BY <1>2, <1>5, FlattenSingletons
<1> QED
  BY <1>1, <1>6 DEF left

-------------------------------------------------------------------------------
(* The transcript of a run.                                                *)

InBatch == pc \in {"call", "gate", "body"}

\* During a batch: every call of the last message either has its one result, not yet in the
\* transcript, or is pending.
BatchSound ==
  /\ ~Settled(history)
  /\ \A i, j \in 1..Len(pending) : pending[i] = pending[j] => i = j
  /\ \A i \in 1..Len(results) : IsResult(results[i])
  /\ \A i, j \in 1..Len(results) : results[i].id = results[j].id => i = j
  /\ \A i \in 1..Len(results) : \A k \in 1..Len(pending) : results[i].id # pending[k]
  /\ CallIds(history[Len(history)]) =
       {results[i].id : i \in 1..Len(results)} \cup {pending[k] : k \in 1..Len(pending)}

\* Only a batch, or an exception that left one, leaves a call unanswered.
TranscriptInv ==
  /\ nextId \in Ids /\ Sound(history, nextId)
  /\ request \in Seq(Message(Ids)) /\ pending \in Seq(Ids) /\ results \in Seq(Message(Ids))
  /\ pc \in PCs
  /\ pc \in {"top", "hooks", "prepare", "stream", "reply"} => Settled(history)
  /\ pc \in {"idle", "entering"} /\ ~Escapes => Settled(history)
  /\ InBatch => BatchSound
  /\ pc \in {"gate", "body"} => pending # <<>>
  /\ RequestPaired

\* A call that is pending has not run, and neither has one whose result says so.
RanInv ==
  /\ \A c \in ran : c \in Ids /\ c < nextId
  /\ InBatch => \A k \in 1..Len(pending) : pending[k] \notin ran
  /\ InBatch => \A i \in 1..Len(results) : ~results[i].ran => results[i].id \notin ran
  /\ \A i \in 1..Len(history) : IsResult(history[i]) /\ ~history[i].ran => history[i].id \notin ran

LEMMA TwoAppended ==
  ASSUME NEW n, NEW h, Sound(h, n), Settled(h), NEW a \in Plain, NEW b \in Plain
  PROVE  /\ Sound(h \o <<a, b>>, n) /\ Settled(h \o <<a, b>>) /\ NoNewResult(h \o <<a, b>>, h)
<1> DEFINE e == Append(h, a)
           f == Append(e, b)
<1>0. /\ h \in Seq(Message(Ids)) /\ a \in Message(Ids) /\ b \in Message(Ids)
      /\ ~IsResult(a) /\ ~IsResult(b)
  BY PlainMessages DEF Sound
<1>1. h \o <<a, b>> = f
  <2>1. <<a>> \in Seq(Message(Ids)) /\ <<b>> \in Seq(Message(Ids)) /\ <<a, b>> = <<a>> \o <<b>>
    <3> SUFFICES ASSUME NEW S, a \in S, b \in S
                 PROVE  <<a>> \in Seq(S) /\ <<b>> \in Seq(S) /\ <<a, b>> = <<a>> \o <<b>>
      BY <1>0
    <3> DEFINE s == <<a, b>>
               t == <<a>> \o <<b>>
    <3>1. /\ s \in Seq(S) /\ Len(s) = 2 /\ s[1] = a /\ s[2] = b
          /\ <<a>> \in Seq(S) /\ Len(<<a>>) = 1 /\ <<a>>[1] = a
          /\ <<b>> \in Seq(S) /\ Len(<<b>>) = 1 /\ <<b>>[1] = b
      OBVIOUS
    <3>2. t \in Seq(S) /\ Len(t) = 2
          /\ \A i \in 1..2 : t[i] = IF i <= 1 THEN <<a>>[i] ELSE <<b>>[i - 1]
      BY <3>1, ConcatProperties
    <3> HIDE DEF s, t
    <3>3. \A i \in 1..2 : s[i] = t[i]
      BY <3>1, <3>2
    <3> QED
      BY <3>1, <3>2, <3>3, SeqEqual DEF s, t
  <2>2. h \o (<<a>> \o <<b>>) = (h \o <<a>>) \o <<b>>
    BY <1>0, <2>1, ConcatAssociative
  <2>3. e = h \o <<a>> /\ e \in Seq(Message(Ids))
    BY <1>0, AppendIsConcat, AppendProperties
  <2> HIDE DEF e
  <2>4. f = e \o <<b>>
    BY <1>0, <2>3, AppendIsConcat
  <2> QED
    BY <2>1, <2>2, <2>3, <2>4
<1>2. Sound(e, n) /\ Settled(e) /\ NoNewResult(e, h)
  BY AppendPlain
<1> HIDE DEF e
<1>3. Sound(f, n) /\ Settled(f) /\ NoNewResult(f, e)
  BY <1>2, AppendPlain
<1> HIDE DEF f
<1>4. NoNewResult(f, h)
  <2> SUFFICES ASSUME NEW i \in 1..Len(f), IsResult(f[i])
               PROVE  \E j \in 1..Len(h) : h[j] = f[i]
    BY DEF NoNewResult
  <2>1. PICK j \in 1..Len(e) : e[j] = f[i]
    BY <1>3 DEF NoNewResult
  <2> QED
    BY <1>2, <2>1 DEF NoNewResult
<1> QED
  BY <1>1, <1>3, <1>4

LEMMA RepairedAndPlain ==
  ASSUME NEW n, NEW h, Sound(h, n), NEW m \in Plain
  PROVE  /\ Sound(Append(Sanitize(h), m), n) /\ Settled(Append(Sanitize(h), m))
         /\ Settled(h) => NoNewResult(Append(Sanitize(h), m), h)
<1>1. Sound(Sanitize(h), n) /\ Settled(Sanitize(h)) /\ (Settled(h) => Sanitize(h) = h)
  BY Sanitized
<1> QED
  BY <1>1, AppendPlain

LEMMA NoNewResultItself == ASSUME NEW h PROVE NoNewResult(h, h)
BY DEF NoNewResult

\* What the transcript becomes where it may be compacted.
LEMMA CompactedOrNot ==
  ASSUME NEW n, NEW h, Sound(h, n), NEW keep \in Nat, NEW e \in {h} \cup Compactions(h, keep)
  PROVE  /\ Sound(e, n) /\ (Settled(h) => Settled(e)) /\ NoNewResult(e, h)
         /\ Unanswered(e) \subseteq Unanswered(h)
<1>1. CASE e = h
  BY <1>1, NoNewResultItself
<1>2. CASE e \in Compactions(h, keep)
  BY <1>2, CompactionsCut, CutIsSound
<1> QED
  BY <1>1, <1>2

\* What ends a batch: the results it has and one for each call left.
LEMMA BatchAnswers ==
  ASSUME TranscriptInv, InBatch,
         NEW r, r = AnswerRemaining(pending, results)
  PROVE  /\ Sound(history \o r, nextId) /\ Settled(history \o r)
         /\ r \in Seq(Message(Ids))
         /\ \A i \in 1..Len(r) :
              \/ \E j \in 1..Len(results) : results[j] = r[i]
              \/ \E k \in 1..Len(pending) : r[i].id = pending[k]
<1> DEFINE left == [k \in 1..Len(pending) |-> NotRun(pending[k])]
           last == history[Len(history)]
           m == Len(results)
<1>0. /\ pending \in Seq(Ids) /\ results \in Seq(Message(Ids)) /\ BatchSound
      /\ Sound(history, nextId)
  BY DEF TranscriptInv
<1>1. r = results \o left
  BY <1>0, RemainingAnswered DEF BatchSound
<1>2. /\ left \in Seq(Message(Ids)) /\ Len(left) = Len(pending)
      /\ \A k \in 1..Len(pending) : IsResult(left[k]) /\ left[k].id = pending[k]
  <2>1. \A k \in 1..Len(pending) : NotRun(pending[k]) \in Message(Ids)
                                   /\ IsResult(NotRun(pending[k])) /\ NotRun(pending[k]).id = pending[k]
    BY <1>0, ResultMessages
  <2> QED
    BY <1>0, <2>1
<1> HIDE DEF left
<1>3. /\ r \in Seq(Message(Ids)) /\ Len(r) = m + Len(left)
      /\ \A i \in 1..m : i \in 1..Len(r) /\ r[i] = results[i]
      /\ \A i \in 1..Len(left) : m + i \in 1..Len(r) /\ r[m + i] = left[i]
      /\ \A i \in 1..Len(r) : i \notin 1..m => i - m \in 1..Len(left) /\ r[i] = left[i - m]
  <2>1. left \in Seq(Message(Ids)) /\ results \in Seq(Message(Ids))
    BY <1>0, <1>2
  <2> HIDE DEF m
  <2>2. m = Len(results)
    BY DEF m
  <2> QED
    BY <1>1, <2>1, <2>2, ConcatParts
<1>4. m \in Nat
  BY <1>0
<1> HIDE DEF m
<1>5. \A i \in 1..Len(r) : i \notin 1..m => IsResult(r[i]) /\ r[i].id = pending[i - m]
                                            /\ i - m \in 1..Len(pending)
  BY <1>2, <1>3
<1>6. \A i \in 1..m : IsResult(r[i]) /\ r[i] = results[i]
  BY <1>0, <1>3 DEF BatchSound, m
<1>7. \A i, j \in 1..Len(r) : r[i].id = r[j].id => i = j
  <2> SUFFICES ASSUME NEW i \in 1..Len(r), NEW j \in 1..Len(r), r[i].id = r[j].id PROVE i = j
    OBVIOUS
  <2>1. CASE i \in 1..m /\ j \in 1..m
    BY <1>0, <1>6, <2>1 DEF BatchSound, m
  <2>2. CASE i \notin 1..m /\ j \notin 1..m
    <3>1. i - m = j - m
      BY <1>0, <1>5, <2>2 DEF BatchSound
    <3> QED
      BY <1>4, <3>1
  <2>3. ASSUME NEW x \in 1..m, NEW y \in 1..Len(r), y \notin 1..m, r[x].id = r[y].id
        PROVE  FALSE
    <3>1. r[x] = results[x] /\ r[y].id = pending[y - m] /\ y - m \in 1..Len(pending)
      BY <1>5, <1>6, <2>3
    <3> QED
      BY <1>0, <2>3, <3>1 DEF BatchSound, m
  <2> QED
    BY <2>1, <2>2, <2>3
<1>8. {r[i].id : i \in 1..Len(r)} = CallIds(last)
  <2>1. \A i \in 1..Len(r) : r[i].id \in CallIds(last)
    <3> SUFFICES ASSUME NEW i \in 1..Len(r) PROVE r[i].id \in CallIds(last)
      OBVIOUS
    <3>1. CASE i \in 1..m
      BY <1>0, <1>6, <3>1 DEF BatchSound, m
    <3>2. CASE i \notin 1..m
      BY <1>0, <1>5, <3>2 DEF BatchSound
    <3> QED
      BY <3>1, <3>2
  <2>2. ASSUME NEW c \in CallIds(last)
        PROVE  \E i \in 1..Len(r) : r[i].id = c
    <3>1. CASE \E i \in 1..m : results[i].id = c
      BY <1>3, <3>1
    <3>2. CASE \E k \in 1..Len(pending) : pending[k] = c
      BY <1>2, <1>3, <3>2
    <3> QED
      BY <1>0, <2>2, <3>1, <3>2 DEF BatchSound, m
  <2> QED
    BY <2>1, <2>2
<1>9. Answers(r, CallIds(last))
  BY <1>3, <1>5, <1>6, <1>7, <1>8 DEF Answers
<1>10. history # <<>> /\ IsCaller(last)
  BY <1>0 DEF BatchSound, Settled
<1>11. Sound(history \o r, nextId) /\ Settled(history \o r)
  BY <1>0, <1>9, <1>10, AppendAnswers
<1>12. \A i \in 1..Len(r) : \/ \E j \in 1..Len(results) : results[j] = r[i]
                            \/ \E k \in 1..Len(pending) : r[i].id = pending[k]
  BY <1>5, <1>6 DEF m
<1> QED
  BY <1>3, <1>11, <1>12

\* A call of the batch gets its result.
LEMMA BatchStep ==
  ASSUME TranscriptInv, InBatch, pending # <<>>, UNCHANGED <<history, nextId, request>>, NEW m,
         m \in Message(Ids), IsResult(m), m.id = Head(pending),
         results' = Append(results, m), pending' = Tail(pending), pc' = "call"
  PROVE  TranscriptInv'
<1> DEFINE l == Len(pending)
           k == Len(results)
<1>0. /\ pending \in Seq(Ids) /\ results \in Seq(Message(Ids)) /\ BatchSound
      /\ Sound(history, nextId) /\ l \in Nat /\ l > 0 /\ k \in Nat
  BY DEF TranscriptInv
<1>1. /\ pending' \in Seq(Ids) /\ Len(pending') = l - 1
      /\ \A i \in 1..(l - 1) : pending'[i] = pending[i + 1] /\ i + 1 \in 1..l /\ i + 1 # 1
      /\ Head(pending) = pending[1] /\ 1 \in 1..l
  BY <1>0
<1>2. /\ results' \in Seq(Message(Ids)) /\ Len(results') = k + 1 /\ results'[k + 1] = m
      /\ \A i \in 1..k : results'[i] = results[i] /\ i # k + 1
      /\ \A i \in 1..(k + 1) : i \in 1..k \/ i = k + 1
  <2>1. /\ results' \in Seq(Message(Ids)) /\ Len(results') = k + 1 /\ results'[k + 1] = m
        /\ \A i \in 1..k : results'[i] = results[i]
    BY <1>0, AppendProperties
  <2> QED
    BY <1>0, <2>1
<1>3. /\ \A i, j \in 1..l : pending[i] = pending[j] => i = j
      /\ \A i, j \in 1..k : results[i].id = results[j].id => i = j
      /\ \A i \in 1..k : IsResult(results[i]) /\ \A j \in 1..l : results[i].id # pending[j]
      /\ CallIds(history[Len(history)]) = {results[i].id : i \in 1..k} \cup {pending[j] : j \in 1..l}
  BY <1>0 DEF BatchSound
<1> HIDE DEF l, k
<1>4. \A i, j \in 1..(l - 1) : pending'[i] = pending'[j] => i = j
  <2> SUFFICES ASSUME NEW i \in 1..(l - 1), NEW j \in 1..(l - 1), pending'[i] = pending'[j] PROVE i = j
    OBVIOUS
  <2>1. i + 1 = j + 1
    BY <1>1, <1>3
  <2> QED
    BY <2>1
<1>5. \A i \in 1..(k + 1) : IsResult(results'[i])
  BY <1>2, <1>3
<1>6. \A i, j \in 1..(k + 1) : results'[i].id = results'[j].id => i = j
  <2>1. ASSUME NEW i \in 1..k
        PROVE  results'[i].id # results'[k + 1].id
    <3>1. results'[i].id = results[i].id /\ results'[k + 1].id = pending[1] /\ 1 \in 1..l
      BY <1>1, <1>2
    <3> QED
      BY <1>3, <3>1
  <2>2. \A i, j \in 1..k : results'[i].id = results'[j].id => i = j
    BY <1>2, <1>3
  <2> SUFFICES ASSUME NEW i \in 1..(k + 1), NEW j \in 1..(k + 1), results'[i].id = results'[j].id
               PROVE  i = j
    OBVIOUS
  <2> QED
    BY <1>2, <2>1, <2>2
<1>7. \A i \in 1..(k + 1) : \A j \in 1..(l - 1) : results'[i].id # pending'[j]
  <2> SUFFICES ASSUME NEW i \in 1..(k + 1), NEW j \in 1..(l - 1) PROVE results'[i].id # pending'[j]
    OBVIOUS
  <2>1. CASE i \in 1..k
    BY <1>1, <1>2, <1>3, <2>1
  <2>2. CASE i = k + 1
    BY <1>1, <1>2, <1>3, <2>2
  <2> QED
    BY <1>2, <2>1, <2>2
<1>8. {results'[i].id : i \in 1..(k + 1)} \cup {pending'[j] : j \in 1..(l - 1)}
        = {results[i].id : i \in 1..k} \cup {pending[j] : j \in 1..l}
  <2>1. \A j \in 1..l : j = 1 \/ (j - 1 \in 1..(l - 1) /\ pending'[j - 1] = pending[j])
    <3>1. \A j \in 1..l : j = 1 \/ (j - 1 \in 1..(l - 1) /\ (j - 1) + 1 = j)
      BY <1>0 DEF l
    <3> QED
      BY <1>1, <3>1
  <2>2. /\ \A i \in 1..k : i \in 1..(k + 1) /\ results'[i].id = results[i].id
        /\ k + 1 \in 1..(k + 1) /\ results'[k + 1].id = pending[1]
    BY <1>0, <1>1, <1>2 DEF k
  <2>3. ASSUME NEW c, c \in {results'[i].id : i \in 1..(k + 1)} \cup {pending'[j] : j \in 1..(l - 1)}
        PROVE  c \in {results[i].id : i \in 1..k} \cup {pending[j] : j \in 1..l}
    BY <1>1, <1>2, <2>2, <2>3
  <2>4. ASSUME NEW c, c \in {results[i].id : i \in 1..k} \cup {pending[j] : j \in 1..l}
        PROVE  c \in {results'[i].id : i \in 1..(k + 1)} \cup {pending'[j] : j \in 1..(l - 1)}
    <3>1. CASE \E i \in 1..k : c = results[i].id
      BY <2>2, <3>1
    <3>2. ASSUME NEW j \in 1..l, c = pending[j]
          PROVE  c \in {results'[i].id : i \in 1..(k + 1)} \cup {pending'[x] : x \in 1..(l - 1)}
      <4>1. CASE j = 1
        BY <2>2, <3>2, <4>1
      <4>2. CASE j # 1
        BY <2>1, <3>2, <4>2
      <4> QED
        BY <4>1, <4>2
    <3> QED
      BY <2>4, <3>1, <3>2
  <2> QED
    BY <2>3, <2>4
<1>9. ~Settled(history)'
  BY <1>0 DEF BatchSound, Settled
<1>10. BatchSound'
  <2>1. Len(pending') = l - 1 /\ Len(results') = k + 1 /\ history' = history
    BY <1>1, <1>2
  <2>2. CallIds(history'[Len(history')]) =
          {results'[i].id : i \in 1..Len(results')} \cup {pending'[j] : j \in 1..Len(pending')}
    BY <1>3, <1>8, <2>1
  <2> QED
    BY <1>4, <1>5, <1>6, <1>7, <1>9, <2>1, <2>2 DEF BatchSound
<1>11. Sound(history, nextId)' /\ (nextId \in Ids)' /\ request' \in Seq(Message(Ids))
  BY DEF TranscriptInv, Sound, Owns
<1> QED
  BY <1>1, <1>2, <1>10, <1>11 DEF TranscriptInv, PCs, InBatch, RequestPaired

\* A step that leaves a settled transcript and opens neither a request nor a batch.
LEMMA Rests ==
  ASSUME TranscriptInv, Sound(history', nextId'), Settled(history'), UNCHANGED <<nextId, request>>,
         pending' \in Seq(Ids), results' \in Seq(Message(Ids)),
         pc' \in {"idle", "entering", "top", "hooks", "prepare", "reply"}
  PROVE  TranscriptInv'
BY DEF TranscriptInv, RequestPaired, InBatch, PCs

\* A step that leaves transcript, request and batch alone.
LEMMA Keeps ==
  ASSUME TranscriptInv, UNCHANGED <<history, nextId, request, pending, results>>,
         \/ pc' = pc
         \/ /\ pc \in {"top", "hooks", "prepare", "stream", "reply"}
            /\ pc' \in {"idle", "top", "hooks", "prepare", "reply"}
         \/ pc \in {"idle", "entering"} /\ pc' \in {"idle", "entering"}
         \/ pc \in {"call", "gate"} /\ pc' \in {"gate", "body"} /\ pending # <<>>
  PROVE  TranscriptInv'
<1>1. /\ nextId' \in Ids /\ Sound(history', nextId')
      /\ request' \in Seq(Message(Ids)) /\ pending' \in Seq(Ids) /\ results' \in Seq(Message(Ids))
      /\ pc' \in PCs
  BY DEF TranscriptInv, PCs
<1>2. /\ pc' \in {"top", "hooks", "prepare", "stream", "reply"} => Settled(history')
      /\ pc' \in {"idle", "entering"} /\ ~Escapes => Settled(history')
  BY DEF TranscriptInv
<1>3. InBatch' => BatchSound'
  <2>1. InBatch' => InBatch
    BY DEF InBatch
  <2>2. BatchSound => BatchSound'
    BY DEF BatchSound, Settled
  <2> QED
    BY <2>1, <2>2 DEF TranscriptInv
<1>4. pc' \in {"gate", "body"} => pending' # <<>>
  BY DEF TranscriptInv
<1>5. RequestPaired'
  BY DEF TranscriptInv, RequestPaired
<1> QED
  BY <1>1, <1>2, <1>3, <1>4, <1>5 DEF TranscriptInv

LEMMA TranscriptInit == Init => TranscriptInv
<1> SUFFICES ASSUME Init PROVE TranscriptInv
  OBVIOUS
<1>1. /\ pc = "idle" /\ history = <<>> /\ request = <<>> /\ pending = <<>> /\ results = <<>>
      /\ nextId = 1
  BY DEF Init
<1>2. <<>> \in Seq(Message(Ids)) /\ <<>> \in Seq(Ids) /\ Len(<<>>) = 0 /\ 1 \in Ids
  BY DEF Ids
<1>3. Sound(<<>>, 1) /\ Settled(<<>>)
  BY <1>2 DEF Sound, Settled
<1> QED
  BY <1>1, <1>2, <1>3 DEF TranscriptInv, InBatch, PCs, RequestPaired

LEMMA TranscriptNext == TranscriptInv /\ [Next]_vars => TranscriptInv'
<1> SUFFICES ASSUME TranscriptInv, [Next]_vars
             PROVE  TranscriptInv'
  OBVIOUS
<1> USE DEF loopVars, batch, runLog
<1>1. /\ Sound(history, nextId) /\ nextId \in Ids /\ pending \in Seq(Ids)
      /\ request \in Seq(Message(Ids)) /\ results \in Seq(Message(Ids))
      /\ history \in Seq(Message(Ids))
  BY DEF TranscriptInv, Sound
<1>2. pc \in {"top", "hooks", "prepare", "stream", "reply"} => Settled(history)
  BY DEF TranscriptInv
<1>3. <<>> \in Seq(Ids) /\ <<>> \in Seq(Message(Ids)) /\ Len(<<>>) = 0
  OBVIOUS
<1>4. User \in Plain /\ Reply \in Plain
  BY DEF Plain
<1>5. KeepRecent \in Nat /\ ForcedKeep \in Nat
  BY RunLoopAssumption DEF RunLoopAssumption, ForcedKeep
<1>6. CASE Start \/ EnterRefused \/ EnterBadImage \/ TurnStart \/ TurnAborted
           \/ BeforeTurnPasses \/ PrepareRaises \/ StreamAborted \/ StreamCloses
           \/ CallNext \/ GateAllows \/ Abort \/ UNCHANGED vars
  <2>1. pc = "gate" => pending # <<>>
    BY DEF TranscriptInv
  <2> QED
    BY <1>6, <2>1, Keeps
       DEF Start, EnterRefused, EnterBadImage, TurnStart, TurnAborted, BeforeTurnPasses,
           PrepareRaises, StreamAborted, StreamCloses, CallNext, GateAllows, Abort, vars,
           End, EndWith, Raise
<1>7. CASE Enter
  <2>1. history' = Append(Sanitize(history), User) /\ pc' = "top"
        /\ UNCHANGED <<request, pending, results, nextId>>
    BY <1>7 DEF Enter
  <2> QED
    BY <1>1, <1>4, <2>1, RepairedAndPlain, Rests
<1>8. CASE HandleMaxTurns \/ BeforeTurnStops \/ ReplyAnswers \/ ReplyStalls \/ ReplyTruncatedEmpty
  <2>1. PICK m \in Plain : history' = Append(history, m)
    BY <1>4, <1>8 DEF HandleMaxTurns, BeforeTurnStops, ReplyAnswers, ReplyStalls,
                      ReplyTruncatedEmpty
  <2>2. pc \in {"top", "hooks", "reply"} /\ pc' \in {"idle", "top"}
        /\ UNCHANGED <<request, pending, results, nextId>>
    BY <1>8 DEF HandleMaxTurns, BeforeTurnStops, ReplyAnswers, ReplyStalls,
                ReplyTruncatedEmpty, End, EndWith
  <2> QED
    BY <1>1, <1>2, <2>1, <2>2, AppendPlain, Rests
<1>9. CASE BudgetStops \/ ReplyTruncated
  <2>1. PICK m \in Plain : history' = history \o <<Reply, m>>
    BY <1>4, <1>9 DEF BudgetStops, ReplyTruncated
  <2>2. pc \in {"hooks", "reply"} /\ pc' \in {"idle", "top"}
        /\ UNCHANGED <<request, pending, results, nextId>>
    BY <1>9 DEF BudgetStops, ReplyTruncated, EndWith
  <2> QED
    BY <1>1, <1>2, <1>4, <2>1, <2>2, TwoAppended, Rests
<1>10. CASE PrepareTooLarge \/ StreamFails \/ OverflowUnrecovered
  <2>0. PICK k \in {KeepRecent, ForcedKeep} :
          \E h \in {history} \cup Compactions(history, k) : history' = Append(Sanitize(h), Reply)
    BY <1>10 DEF PrepareTooLarge, StreamFails, OverflowUnrecovered, HandleProviderError
  <2>1. PICK h \in {history} \cup Compactions(history, k) : history' = Append(Sanitize(h), Reply)
    BY <2>0
  <2>2. pc' = "idle" /\ UNCHANGED <<request, pending, results, nextId>>
    BY <1>10 DEF PrepareTooLarge, StreamFails, OverflowUnrecovered, HandleProviderError,
                 End, EndWith
  <2>3. Sound(h, nextId)
    BY <1>1, <1>5, <2>1, CompactedOrNot
  <2> QED
    BY <1>1, <1>4, <2>1, <2>2, <2>3, RepairedAndPlain, Rests
<1>11. CASE Prepare
  <2>1. PICK h \in {history} \cup Compactions(history, KeepRecent) :
          history' = h /\ request' = StripOrphans(h)
    BY <1>11 DEF Prepare
  <2>2. pc = "prepare" /\ pc' = "stream" /\ UNCHANGED <<pending, results, nextId>>
    BY <1>11 DEF Prepare
  <2>3. Sound(h, nextId) /\ Settled(h)
    BY <1>1, <1>2, <1>5, <2>1, <2>2, CompactedOrNot
  <2>4. request' = h /\ h \in Seq(Message(Ids)) /\ Paired(h)
    BY <2>1, <2>3, NoOrphans, SettledIsPaired DEF Sound
  <2> QED
    BY <1>1, <2>1, <2>2, <2>3, <2>4 DEF TranscriptInv, RequestPaired, InBatch, PCs
<1>12. CASE StreamOverflows
  <2>1. PICK h \in {history} \cup Compactions(history, ForcedKeep) : history' = h
    BY <1>12 DEF StreamOverflows
  <2>2. pc = "stream" /\ pc' = "prepare" /\ UNCHANGED <<request, pending, results, nextId>>
    BY <1>12 DEF StreamOverflows
  <2>3. Sound(h, nextId) /\ Settled(h)
    BY <1>1, <1>2, <1>5, <2>1, <2>2, CompactedOrNot
  <2> QED
    BY <1>1, <2>1, <2>2, <2>3, Rests
<1>13. CASE ReplyCalls
  <2>1. PICK n \in 1..MaxBatch :
          /\ history' = Append(history, Announce([k \in 1..n |-> nextId + k - 1]))
          /\ pending' = [k \in 1..n |-> nextId + k - 1]
          /\ nextId' = nextId + n
    BY <1>13 DEF ReplyCalls
  <2>2. pc = "reply" /\ pc' = "call" /\ results' = <<>> /\ UNCHANGED request
    BY <1>13 DEF ReplyCalls
  <2>3. n \in Ids /\ nextId' \in Ids
    BY <1>1, <2>1, RunLoopAssumption DEF RunLoopAssumption, Ids
  <2> DEFINE s == [k \in 1..n |-> nextId + k - 1]
  <2>4. /\ Sound(history', nextId') /\ history' # <<>> /\ IsCaller(history'[Len(history')])
        /\ CallIds(history'[Len(history')]) = {s[i] : i \in 1..n}
    <3>1. s \in Seq(Ids) /\ Len(s) = n /\ \A i \in 1..n : s[i] = nextId + i - 1
      BY <1>1, <2>3 DEF Ids
    <3>2. history' = Append(history, Announce(s)) /\ nextId' = nextId + n /\ Settled(history)
      BY <1>2, <2>1, <2>2
    <3> HIDE DEF s
    <3>3. /\ Sound(Append(history, Announce(s)), nextId + n)
          /\ Opened(Append(history, Announce(s)), s)
      BY <1>1, <2>3, <3>1, <3>2, AppendAnnounce
    <3> QED
      BY <3>1, <3>2, <3>3 DEF Opened
  <2>5. /\ s \in Seq(Ids) /\ Len(s) = n
        /\ \A i, j \in 1..n : s[i] = s[j] => i = j
    BY <1>1, <2>3 DEF Ids
  <2>6. BatchSound'
    <3>1. pending' = s
      BY <2>1
    <3> HIDE DEF s
    <3> QED
      BY <1>3, <2>2, <2>4, <2>5, <3>1 DEF BatchSound, Settled
  <2>7. pending' \in Seq(Ids) /\ results' \in Seq(Message(Ids))
    BY <1>3, <2>1, <2>2, <2>5
  <2> QED
    BY <1>1, <2>2, <2>3, <2>4, <2>6, <2>7 DEF TranscriptInv, RequestPaired, PCs
<1>14. CASE CallAborted \/ GateAborts
  <2>1. InBatch /\ pc' = "idle" /\ pending' = <<>> /\ results' = <<>>
        /\ history' = history \o AnswerRemaining(pending, results)
        /\ UNCHANGED <<request, nextId>>
    BY <1>14 DEF CallAborted, GateAborts, AbortBatch, End, EndWith, InBatch
  <2> QED
    BY <1>3, <2>1, BatchAnswers, Rests
<1>15. CASE GateBlocks
  <2>1. pc = "gate" /\ pc' = "call" /\ results' = Append(results, NotRun(Head(pending)))
        /\ pending' = Tail(pending) /\ UNCHANGED <<history, nextId, request>>
    BY <1>15 DEF GateBlocks
  <2>2. pending # <<>> /\ InBatch
    BY <2>1 DEF TranscriptInv, InBatch
  <2>3. Head(pending) \in Ids
    BY <1>1, <2>2
  <2> QED
    BY <2>1, <2>2, <2>3, BatchStep, ResultMessages
<1>16. CASE BodyReturns
  <2>1. pc = "body" /\ pc' = "call" /\ results' = Append(results, Result(Head(pending)))
        /\ pending' = Tail(pending) /\ UNCHANGED <<history, nextId, request>>
    BY <1>16 DEF BodyReturns
  <2>2. pending # <<>> /\ InBatch
    BY <2>1 DEF TranscriptInv, InBatch
  <2>3. Head(pending) \in Ids
    BY <1>1, <2>2
  <2> QED
    BY <2>1, <2>2, <2>3, BatchStep, ResultMessages
<1>17. CASE BatchDone
  <2>1. pc = "call" /\ pc' = "top" /\ pending = <<>> /\ results' = <<>>
        /\ history' = history \o results /\ UNCHANGED <<request, pending, nextId>>
    BY <1>17 DEF BatchDone
  <2>2. InBatch /\ BatchSound
    BY <2>1 DEF TranscriptInv, InBatch
  <2>3. history # <<>> /\ IsCaller(history[Len(history)])
    BY <2>2 DEF BatchSound, Settled
  <2>4. Answers(results, CallIds(history[Len(history)]))
    <3>1. Len(pending) = 0
      BY <2>1
    <3>2. CallIds(history[Len(history)]) = {results[i].id : i \in 1..Len(results)}
      BY <2>2, <3>1 DEF BatchSound
    <3> QED
      BY <1>1, <2>2, <3>2 DEF BatchSound, Answers
  <2>5. Sound(history', nextId') /\ Settled(history')
    BY <1>1, <2>1, <2>3, <2>4, AppendAnswers
  <2> QED
    BY <1>1, <1>3, <2>1, <2>5, Rests
<1>18. CASE GateRaises \/ BodyUnserialisable
  <2>1. pc' = "idle" /\ Escapes /\ pending' = <<>> /\ results' = <<>>
        /\ UNCHANGED <<history, nextId, request>>
    BY <1>18 DEF GateRaises, BodyUnserialisable, Raise
  <2> QED
    BY <1>1, <1>3, <2>1 DEF TranscriptInv, RequestPaired, InBatch, PCs
<1>19. CASE ClearHistory
  <2>1. pc' = "idle" /\ history' = <<>> /\ UNCHANGED <<pending, results, nextId, request>>
    BY <1>19 DEF ClearHistory
  <2>2. Sound(history', nextId') /\ Settled(history')
    BY <1>3, <2>1 DEF Sound, Settled
  <2> QED
    BY <1>1, <2>1, <2>2, Rests
<1>20. CASE ForceCompaction
  <2>1. pc = "idle" /\ pc' = "idle" /\ history' \in Compactions(history, KeepRecent)
        /\ UNCHANGED <<pending, results, nextId, request>>
    BY <1>20 DEF ForceCompaction
  <2>2. Sound(history', nextId') /\ (Settled(history) => Settled(history'))
    BY <1>1, <1>5, <2>1, CompactedOrNot
  <2> QED
    BY <1>1, <2>1, <2>2 DEF TranscriptInv, RequestPaired, InBatch, PCs
<1> QED
  BY <1>6, <1>7, <1>8, <1>9, <1>10, <1>11, <1>12, <1>13, <1>14, <1>15, <1>16, <1>17, <1>18,
     <1>19, <1>20
     DEF Next, Agent, Entering, Preparing, Streaming, Replying, Calling

\* A step outside a batch that adds no result and runs no body.
LEMMA RanRests ==
  ASSUME RanInv, NoNewResult(history', history), UNCHANGED ran, nextId' = nextId, ~InBatch'
  PROVE  RanInv'
<1>1. \A i \in 1..Len(history') : IsResult(history'[i]) /\ ~history'[i].ran =>
        history'[i].id \notin ran
  BY DEF RanInv, NoNewResult
<1> QED
  BY <1>1 DEF RanInv

\* The batch's results behind the transcript.
LEMMA RanExtended ==
  ASSUME RanInv, history \in Seq(Message(Ids)), NEW r \in Seq(Message(Ids)),
         history' = history \o r, UNCHANGED ran, nextId' = nextId, ~InBatch',
         \A i \in 1..Len(r) : ~r[i].ran => r[i].id \notin ran
  PROVE  RanInv'
<1>1. \A i \in 1..Len(history') : IsResult(history'[i]) /\ ~history'[i].ran =>
        history'[i].id \notin ran
  <2> SUFFICES ASSUME NEW i \in 1..Len(history'), IsResult(history'[i]), ~history'[i].ran
               PROVE  history'[i].id \notin ran
    OBVIOUS
  <2>1. /\ \A j \in 1..Len(history) : (history \o r)[j] = history[j]
        /\ i \notin 1..Len(history) => i - Len(history) \in 1..Len(r)
                                       /\ (history \o r)[i] = r[i - Len(history)]
    BY ConcatParts
  <2>2. CASE i \in 1..Len(history)
    BY <2>1, <2>2 DEF RanInv
  <2>3. CASE i \notin 1..Len(history)
    BY <2>1, <2>3
  <2> QED
    BY <2>2, <2>3
<1> QED
  BY <1>1 DEF RanInv

LEMMA RanNext ==
  ASSUME Escapes = FALSE
  PROVE  TranscriptInv /\ RanInv /\ [Next]_vars => RanInv'
<1> SUFFICES ASSUME TranscriptInv, RanInv, [Next]_vars
             PROVE  RanInv'
  OBVIOUS
<1> USE DEF loopVars, batch, runLog
<1>1. /\ Sound(history, nextId) /\ nextId \in Ids /\ pending \in Seq(Ids)
      /\ results \in Seq(Message(Ids)) /\ history \in Seq(Message(Ids))
  BY DEF TranscriptInv, Sound
<1>2. pc \in {"idle", "entering", "top", "hooks", "prepare", "stream", "reply"} => Settled(history)
  BY DEF TranscriptInv
<1>3. User \in Plain /\ Reply \in Plain
  BY DEF Plain
<1>4. KeepRecent \in Nat /\ ForcedKeep \in Nat
  BY RunLoopAssumption DEF RunLoopAssumption, ForcedKeep
<1>5. CASE Start \/ EnterRefused \/ EnterBadImage \/ TurnStart \/ TurnAborted
           \/ BeforeTurnPasses \/ PrepareRaises \/ StreamAborted \/ StreamCloses
           \/ CallNext \/ GateAllows \/ Abort \/ UNCHANGED vars
  <2>1. UNCHANGED <<history, nextId, pending, results, ran>> /\ (InBatch' => InBatch)
    BY <1>5
       DEF Start, EnterRefused, EnterBadImage, TurnStart, TurnAborted, BeforeTurnPasses,
           PrepareRaises, StreamAborted, StreamCloses, CallNext, GateAllows, Abort, vars,
           End, EndWith, Raise, InBatch
  <2> QED
    BY <2>1 DEF RanInv
<1>6. CASE Enter
  <2>1. history' = Append(Sanitize(history), User) /\ ~InBatch' /\ UNCHANGED <<nextId, ran>>
        /\ Settled(history)
    BY <1>2, <1>6 DEF Enter, InBatch
  <2> QED
    BY <1>1, <1>3, <2>1, RepairedAndPlain, RanRests
<1>7. CASE HandleMaxTurns \/ BeforeTurnStops \/ ReplyAnswers \/ ReplyStalls \/ ReplyTruncatedEmpty
  <2>1. PICK m \in Plain : history' = Append(history, m)
    BY <1>3, <1>7 DEF HandleMaxTurns, BeforeTurnStops, ReplyAnswers, ReplyStalls,
                      ReplyTruncatedEmpty
  <2>2. Settled(history) /\ ~InBatch' /\ UNCHANGED <<nextId, ran>>
    BY <1>2, <1>7 DEF HandleMaxTurns, BeforeTurnStops, ReplyAnswers, ReplyStalls,
                      ReplyTruncatedEmpty, End, EndWith, InBatch
  <2> QED
    BY <1>1, <2>1, <2>2, AppendPlain, RanRests
<1>8. CASE BudgetStops \/ ReplyTruncated
  <2>1. PICK m \in Plain : history' = history \o <<Reply, m>>
    BY <1>3, <1>8 DEF BudgetStops, ReplyTruncated
  <2>2. Settled(history) /\ ~InBatch' /\ UNCHANGED <<nextId, ran>>
    BY <1>2, <1>8 DEF BudgetStops, ReplyTruncated, EndWith, InBatch
  <2> QED
    BY <1>1, <1>3, <2>1, <2>2, TwoAppended, RanRests
<1>9. CASE PrepareTooLarge \/ StreamFails \/ OverflowUnrecovered
  <2>0. PICK k \in {KeepRecent, ForcedKeep} :
          \E h \in {history} \cup Compactions(history, k) : history' = Append(Sanitize(h), Reply)
    BY <1>9 DEF PrepareTooLarge, StreamFails, OverflowUnrecovered, HandleProviderError
  <2>1. PICK h \in {history} \cup Compactions(history, k) : history' = Append(Sanitize(h), Reply)
    BY <2>0
  <2>2. ~InBatch' /\ UNCHANGED <<nextId, ran>> /\ Settled(history)
    BY <1>2, <1>9 DEF PrepareTooLarge, StreamFails, OverflowUnrecovered, HandleProviderError,
                      End, EndWith, InBatch
  <2>3. Sound(h, nextId) /\ Settled(h) /\ NoNewResult(h, history)
    BY <1>1, <1>4, <2>1, <2>2, CompactedOrNot
  <2>4. NoNewResult(history', h)
    BY <1>3, <2>1, <2>3, RepairedAndPlain
  <2>5. NoNewResult(history', history)
    BY <2>3, <2>4 DEF NoNewResult
  <2> QED
    BY <2>2, <2>5, RanRests
<1>10. CASE Prepare \/ StreamOverflows \/ ForceCompaction
  <2>1. PICK k \in {KeepRecent, ForcedKeep} : history' \in {history} \cup Compactions(history, k)
    BY <1>10 DEF Prepare, StreamOverflows, ForceCompaction
  <2>2. ~InBatch' /\ UNCHANGED <<nextId, ran>>
    BY <1>10 DEF Prepare, StreamOverflows, ForceCompaction, InBatch
  <2>3. NoNewResult(history', history)
    BY <1>1, <1>4, <2>1, CompactedOrNot
  <2> QED
    BY <2>2, <2>3, RanRests
<1>11. CASE ReplyCalls
  <2>1. PICK n \in 1..MaxBatch :
          /\ history' = Append(history, Announce([k \in 1..n |-> nextId + k - 1]))
          /\ pending' = [k \in 1..n |-> nextId + k - 1]
          /\ nextId' = nextId + n
    BY <1>11 DEF ReplyCalls
  <2>2. results' = <<>> /\ UNCHANGED ran /\ Settled(history)
    BY <1>2, <1>11 DEF ReplyCalls
  <2>3. n \in Ids /\ nextId \in Nat /\ n \in Nat /\ n > 0
    BY <1>1, <2>1, RunLoopAssumption DEF RunLoopAssumption, Ids
  <2> DEFINE s == [k \in 1..n |-> nextId + k - 1]
  <2>4. s \in Seq(Ids) /\ Len(s) = n /\ \A i \in 1..n : s[i] = nextId + i - 1
    BY <1>1, <2>3 DEF Ids
  <2>5. history' = Append(history, Announce(s)) /\ pending' = s
    BY <2>1
  <2> HIDE DEF s
  <2>6. NoNewResult(history', history)
    BY <1>1, <2>2, <2>3, <2>4, <2>5, AppendAnnounce
  <2>7. \A i \in 1..Len(history') : IsResult(history'[i]) /\ ~history'[i].ran =>
          history'[i].id \notin ran'
    BY <2>2, <2>6 DEF RanInv, NoNewResult
  <2>8. \A k \in 1..Len(pending') : pending'[k] \notin ran'
    <3>1. \A k \in 1..n : ~(s[k] < nextId)
      BY <2>3, <2>4
    <3> QED
      BY <2>2, <2>4, <2>5, <3>1 DEF RanInv
  <2>9. \A c \in ran' : c \in Ids /\ c < nextId'
    BY <2>1, <2>2, <2>3 DEF RanInv, Ids
  <2>10. Len(results') = 0
    BY <2>2
  <2> QED
    BY <2>7, <2>8, <2>9, <2>10 DEF RanInv
<1>12. CASE CallAborted \/ GateAborts
  <2> DEFINE r == AnswerRemaining(pending, results)
  <2>1. InBatch /\ ~InBatch' /\ history' = history \o r /\ UNCHANGED <<nextId, ran>>
    BY <1>12 DEF CallAborted, GateAborts, AbortBatch, End, EndWith, InBatch
  <2>2. /\ r \in Seq(Message(Ids))
        /\ \A i \in 1..Len(r) : \/ \E j \in 1..Len(results) : results[j] = r[i]
                                \/ \E k \in 1..Len(pending) : r[i].id = pending[k]
    BY <2>1, BatchAnswers
  <2> HIDE DEF r
  <2>3. \A i \in 1..Len(r) : ~r[i].ran => r[i].id \notin ran
    BY <2>1, <2>2 DEF RanInv
  <2> QED
    BY <1>1, <2>1, <2>2, <2>3, RanExtended
<1>13. CASE BatchDone
  <2>1. InBatch /\ ~InBatch' /\ history' = history \o results /\ UNCHANGED <<nextId, ran>>
    BY <1>13 DEF BatchDone, InBatch
  <2>2. \A i \in 1..Len(results) : ~results[i].ran => results[i].id \notin ran
    BY <2>1 DEF RanInv
  <2> QED
    BY <1>1, <2>1, <2>2, RanExtended
<1>14. CASE GateBlocks \/ BodyReturns
  <2>1. PICK m \in {NotRun(Head(pending)), Result(Head(pending))} :
          /\ results' = Append(results, m) /\ pending' = Tail(pending)
          /\ UNCHANGED <<history, nextId>>
          /\ IF m.ran THEN ran' = ran \cup {Head(pending)} ELSE UNCHANGED ran
    BY <1>14 DEF GateBlocks, BodyReturns, NotRun, Result
  <2>2. pending # <<>> /\ InBatch /\ InBatch'
    BY <1>14 DEF TranscriptInv, InBatch, GateBlocks, BodyReturns
  <2>3. BatchSound
    BY <2>2 DEF TranscriptInv
  <2> DEFINE c == Head(pending)
  <2>4. c \in Ids /\ c = pending[1] /\ 1 \in 1..Len(pending)
    BY <1>1, <2>2
  <2>5. m \in Message(Ids) /\ m.id = c
    BY <2>1, <2>4, ResultMessages
  <2> HIDE DEF c
  <2>6. /\ Len(pending') = Len(pending) - 1
        /\ \A k \in 1..Len(pending') :
             pending'[k] = pending[k + 1] /\ k + 1 \in 1..Len(pending) /\ k + 1 # 1
    BY <1>1, <2>1, <2>2
  <2>7. /\ Len(results') = Len(results) + 1 /\ results'[Len(results) + 1] = m
        /\ \A i \in 1..Len(results) : results'[i] = results[i]
        /\ \A i \in 1..(Len(results) + 1) : i \in 1..Len(results) \/ i = Len(results) + 1
    BY <1>1, <2>1, <2>5, AppendProperties
  <2>8. c \notin ran
    BY <2>2, <2>4 DEF RanInv
  <2>9. \A d : d \in ran' => d \in ran \/ (d = c /\ m.ran)
    BY <2>1 DEF c
  <2>10. c < nextId
    <3>1. history # <<>> /\ IsCaller(history[Len(history)]) /\ c \in CallIds(history[Len(history)])
      BY <2>3, <2>4 DEF BatchSound, Settled
    <3>2. Len(history) \in 1..Len(history)
      BY <1>1, <3>1
    <3> QED
      BY <1>1, <3>1, <3>2 DEF Sound
  <2>11. \A d \in ran' : d \in Ids /\ d < nextId'
    BY <2>1, <2>4, <2>9, <2>10 DEF RanInv
  <2>12. \A k \in 1..Len(pending') : pending'[k] \notin ran'
    <3> SUFFICES ASSUME NEW k \in 1..Len(pending'), pending'[k] \in ran' PROVE FALSE
      OBVIOUS
    <3>1. pending'[k] = pending[k + 1] /\ k + 1 \in 1..Len(pending) /\ k + 1 # 1
      BY <2>6
    <3>2. pending[k + 1] \notin ran /\ pending[k + 1] # c
      BY <2>2, <2>3, <2>4, <3>1 DEF RanInv, BatchSound
    <3> QED
      BY <2>9, <3>1, <3>2
  <2>13. \A i \in 1..Len(results') : ~results'[i].ran => results'[i].id \notin ran'
    <3> SUFFICES ASSUME NEW i \in 1..Len(results'), ~results'[i].ran, results'[i].id \in ran'
                 PROVE  FALSE
      OBVIOUS
    <3>1. CASE i \in 1..Len(results)
      <4>1. results[i].id \notin ran /\ results[i].id # c
        BY <2>2, <2>3, <2>4, <2>7, <3>1 DEF RanInv, BatchSound
      <4> QED
        BY <2>7, <2>9, <3>1, <4>1
    <3>2. CASE i = Len(results) + 1
      BY <2>5, <2>7, <2>8, <2>9, <3>2
    <3> QED
      BY <2>7, <3>1, <3>2
  <2>14. \A i \in 1..Len(history) : IsResult(history[i]) /\ ~history[i].ran =>
           history[i].id \notin ran'
    <3> SUFFICES ASSUME NEW i \in 1..Len(history), IsResult(history[i]), ~history[i].ran,
                        history[i].id \in ran'
                 PROVE  FALSE
      OBVIOUS
    <3>1. history # <<>> /\ IsCaller(history[Len(history)]) /\ c \in CallIds(history[Len(history)])
      BY <2>3, <2>4 DEF BatchSound, Settled
    <3>2. history[i].id # c
      BY <1>1, <3>1, LastIsOpen
    <3>3. history[i].id \notin ran
      BY DEF RanInv
    <3> QED
      BY <2>9, <3>2, <3>3
  <2> QED
    BY <2>1, <2>11, <2>12, <2>13, <2>14 DEF RanInv
<1>15. CASE GateRaises \/ BodyUnserialisable
  BY <1>15 DEF GateRaises, BodyUnserialisable, Raise
<1>16. CASE ClearHistory
  <2>1. history' = <<>> /\ UNCHANGED <<nextId, ran>> /\ ~InBatch'
    BY <1>16 DEF ClearHistory, InBatch
  <2>2. NoNewResult(history', history)
    BY <2>1, Len(<<>>) = 0 DEF NoNewResult
  <2> QED
    BY <2>1, <2>2, RanRests
<1> QED
  BY <1>5, <1>6, <1>7, <1>8, <1>9, <1>10, <1>11, <1>12, <1>13, <1>14, <1>15, <1>16
     DEF Next, Agent, Entering, Preparing, Streaming, Replying, Calling

-------------------------------------------------------------------------------
(* The abstract contract.                                                  *)

LEMMA Phases ==
  /\ pc \in {"idle", "entering"} => Phase = "rest"
  /\ pc \in {"stream", "reply"} => Phase = "asked"
  /\ pc \in {"top", "hooks", "prepare", "call", "gate", "body"} => Phase = "busy"
BY DEF Phase

LEMMA PhasesNext ==
  /\ pc' \in {"idle", "entering"} => Phase' = "rest"
  /\ pc' \in {"stream", "reply"} => Phase' = "asked"
  /\ pc' \in {"top", "hooks", "prepare", "call", "gate", "body"} => Phase' = "busy"
BY DEF Phase

LEMMA SettledOwesNothing ==
  ASSUME NEW n, NEW h, Sound(h, n), Settled(h)
  PROVE  Unanswered(h) = {}
BY Owed

LEMMA OwesCalls ==
  ASSUME NEW n, NEW h, Sound(h, n)
  PROVE  Unanswered(h) \subseteq Ids
<1>1. CASE Settled(h)
  BY <1>1, Owed
<1>2. CASE ~Settled(h)
  <2>1. h # <<>> /\ h \in Seq(Message(Ids)) /\ Unanswered(h) = CallIds(h[Len(h)])
    BY <1>2, Owed DEF Settled, Sound
  <2>2. h[Len(h)] \in Message(Ids)
    BY <2>1
  <2>3. h[Len(h)].calls \in Seq(Ids)
    BY <2>2 DEF Message
  <2> QED
    BY <2>1, <2>3 DEF CallIds
<1> QED
  BY <1>1, <1>2

LEMMA ContractNext ==
  TranscriptInv /\ TranscriptInv' /\ [Next]_vars => [Contract!Next]_(Contract!vars)
<1> SUFFICES ASSUME TranscriptInv, TranscriptInv', [Next]_vars
             PROVE  [Contract!Next]_(Contract!vars)
  OBVIOUS
<1> USE DEF loopVars, batch, runLog
<1> DEFINE owed == Unanswered(history)
<1>1. /\ Sound(history, nextId) /\ nextId \in Ids /\ Sound(history', nextId')
      /\ history \in Seq(Message(Ids))
  BY DEF TranscriptInv, Sound
<1>2. /\ pc \in {"top", "hooks", "prepare", "stream", "reply"} => Settled(history)
      /\ pc' \in {"top", "hooks", "prepare", "stream", "reply"} => Settled(history')
  BY DEF TranscriptInv
<1>3. User \in Plain /\ Reply \in Plain
  BY DEF Plain
<1>4. KeepRecent \in Nat /\ ForcedKeep \in Nat
  BY RunLoopAssumption DEF RunLoopAssumption, ForcedKeep
<1>5. /\ Settled(history) => owed = {}
      /\ Settled(history') => owed' = {}
      /\ UNCHANGED history => owed' = owed
      /\ owed' \subseteq Ids
  <2>1. owed' = Unanswered(history')
    OBVIOUS
  <2> QED
    BY <1>1, <2>1, SettledOwesNothing, OwesCalls
<1> DEFINE Stutter == UNCHANGED <<Phase, owed>>
<1>6. /\ Stutter => [Contract!Next]_(Contract!vars)
      /\ Phase = "rest" /\ Phase' = "busy" /\ owed' = {} => Contract!Next
      /\ Phase = "rest" /\ Phase' = "rest" /\ owed' \subseteq owed => Contract!Next
      /\ Phase = "busy" /\ Phase' = "asked" /\ owed = {} /\ owed' = {} => Contract!Next
      /\ Phase = "asked" /\ Phase' = "busy" => Contract!Next
      /\ Phase = "busy" /\ Phase' = "busy" /\ owed' = {} => Contract!Next
      /\ Phase # "rest" /\ Phase' = "rest" /\ (owed' = {} \/ owed' = owed) => Contract!Next
  <2>1. owed' \in SUBSET (Nat \ {0})
    BY <1>5 DEF Ids
  <2> QED
    BY <2>1 DEF Contract!Next, Contract!vars, Contract!Begin, Contract!Forget, Contract!Ask,
       Contract!Retry, Contract!Announce, Contract!Settle, Contract!Finish, Contract!Die
<1> HIDE DEF owed, Stutter
<1>7. CASE Start \/ EnterRefused \/ EnterBadImage \/ TurnStart \/ BeforeTurnPasses
           \/ StreamCloses \/ CallNext \/ GateBlocks \/ GateAllows \/ BodyReturns
           \/ Abort \/ UNCHANGED vars
  <2>1. UNCHANGED history /\
        \/ UNCHANGED pc
        \/ pc \in {"idle", "entering"} /\ pc' \in {"idle", "entering"}
        \/ pc \in {"stream", "reply"} /\ pc' \in {"stream", "reply"}
        \/ /\ pc \in {"top", "hooks", "prepare", "call", "gate", "body"}
           /\ pc' \in {"top", "hooks", "prepare", "call", "gate", "body"}
    BY <1>7 DEF Start, EnterRefused, EnterBadImage, TurnStart, BeforeTurnPasses, StreamCloses,
       CallNext, GateBlocks, GateAllows, BodyReturns, Abort, vars, End, EndWith
  <2>2. UNCHANGED pc => UNCHANGED Phase
    BY DEF Phase
  <2> QED
    BY <1>5, <1>6, <2>1, <2>2, Phases, PhasesNext DEF Stutter
<1>8. CASE Enter
  BY <1>2, <1>5, <1>6, <1>8, Phases, PhasesNext DEF Enter
<1>9. ASSUME Phase # "rest", pc' = "idle", Settled(history')
      PROVE  Contract!Next
  BY <1>5, <1>6, <1>9, PhasesNext
<1>10. CASE TurnAborted \/ StreamAborted \/ PrepareRaises \/ GateRaises \/ BodyUnserialisable
  <2>1. UNCHANGED history /\ pc' = "idle" /\ pc \in PCs \ {"idle", "entering"}
    BY <1>10 DEF TurnAborted, StreamAborted, PrepareRaises, GateRaises, BodyUnserialisable,
                 End, EndWith, Raise, PCs
  <2> QED
    BY <1>5, <1>6, <2>1, Phases, PhasesNext DEF PCs
<1>11. CASE HandleMaxTurns \/ BeforeTurnStops \/ ReplyAnswers \/ ReplyTruncatedEmpty
  <2>1. /\ pc \in {"top", "hooks", "reply"} /\ pc' = "idle" /\ history' = Append(history, Reply)
    BY <1>11 DEF HandleMaxTurns, BeforeTurnStops, ReplyAnswers, ReplyTruncatedEmpty, End, EndWith
  <2>2. Settled(history')
    BY <1>1, <1>2, <1>3, <2>1, AppendPlain
  <2> QED
    BY <1>9, <2>1, <2>2, Phases
<1>12. CASE BudgetStops
  <2>1. pc = "hooks" /\ pc' = "idle" /\ history' = history \o <<Reply, Reply>>
    BY <1>12 DEF BudgetStops, EndWith
  <2>2. Settled(history')
    BY <1>1, <1>2, <1>3, <2>1, TwoAppended
  <2> QED
    BY <1>9, <2>1, <2>2, Phases
<1>13. CASE PrepareTooLarge \/ StreamFails \/ OverflowUnrecovered
  <2>0. PICK k \in {KeepRecent, ForcedKeep} :
          \E h \in {history} \cup Compactions(history, k) : history' = Append(Sanitize(h), Reply)
    BY <1>13 DEF PrepareTooLarge, StreamFails, OverflowUnrecovered, HandleProviderError
  <2>1. PICK h \in {history} \cup Compactions(history, k) : history' = Append(Sanitize(h), Reply)
    BY <2>0
  <2>2. pc \in {"prepare", "stream"} /\ pc' = "idle"
    BY <1>13 DEF PrepareTooLarge, StreamFails, OverflowUnrecovered, HandleProviderError,
                 End, EndWith
  <2>3. Sound(h, nextId)
    BY <1>1, <1>4, <2>1, CompactedOrNot
  <2>4. Settled(history')
    BY <1>3, <2>1, <2>3, RepairedAndPlain
  <2> QED
    BY <1>9, <2>2, <2>4, Phases
<1>14. CASE Prepare
  BY <1>2, <1>5, <1>6, <1>14, Phases, PhasesNext DEF Prepare
<1>15. CASE StreamOverflows \/ ReplyStalls \/ ReplyTruncated \/ ReplyCalls
  <2>1. pc \in {"stream", "reply"} /\ pc' \in {"prepare", "top", "call"}
    BY <1>15 DEF StreamOverflows, ReplyStalls, ReplyTruncated, ReplyCalls
  <2> QED
    BY <1>6, <2>1, Phases, PhasesNext
<1>16. CASE CallAborted \/ GateAborts
  <2>1. InBatch /\ pc' = "idle" /\ history' = history \o AnswerRemaining(pending, results)
    BY <1>16 DEF CallAborted, GateAborts, AbortBatch, End, EndWith, InBatch
  <2>2. Settled(history')
    BY <2>1, BatchAnswers
  <2> QED
    BY <1>9, <2>1, <2>2, Phases DEF InBatch
<1>17. CASE BatchDone
  BY <1>2, <1>5, <1>6, <1>17, Phases, PhasesNext DEF BatchDone
<1>18. CASE ClearHistory
  <2>1. pc = "idle" /\ pc' = "idle" /\ history' = <<>>
    BY <1>18 DEF ClearHistory
  <2>2. owed' = {}
    BY <1>5, <2>1 DEF Settled
  <2> QED
    BY <1>6, <2>1, <2>2, Phases, PhasesNext
<1>19. CASE ForceCompaction
  <2>1. pc = "idle" /\ pc' = "idle" /\ history' \in Compactions(history, KeepRecent)
    BY <1>19 DEF ForceCompaction
  <2>2. Unanswered(history') \subseteq Unanswered(history)
    BY <1>1, <1>4, <2>1, CompactedOrNot
  <2> QED
    BY <1>6, <2>1, <2>2, Phases, PhasesNext DEF owed
<1> QED
  BY <1>7, <1>8, <1>10, <1>11, <1>12, <1>13, <1>14, <1>15, <1>16, <1>17, <1>18, <1>19
     DEF Next, Agent, Entering, Preparing, Streaming, Replying, Calling

-------------------------------------------------------------------------------
(* Theorems about the transcript.                                          *)

LEMMA TranscriptInvariance == Spec => []TranscriptInv
BY TranscriptInit, TranscriptNext, PTL DEF Spec

\* Every variable has its type in every behaviour: whatever is repaired, compacted, cut off
\* or left by an exception, transcript, request and batch stay sequences of messages about
\* positive call ids.
THEOREM Typed == Spec => []TypeOK
<1> DEFINE RanIds == ran \subseteq Ids
<1>1. Init => RanIds
  BY DEF Init
<1>2. TranscriptInv /\ RanIds /\ [Next]_vars => RanIds'
  <2> SUFFICES ASSUME TranscriptInv, RanIds, [Next]_vars
               PROVE  RanIds'
    OBVIOUS
  <2> USE DEF loopVars, batch, runLog
  <2>1. CASE BodyReturns \/ BodyUnserialisable
    <3>1. pc = "body" /\ ran' = ran \cup {Head(pending)}
      BY <2>1 DEF BodyReturns, BodyUnserialisable
    <3>2. pending # <<>> /\ pending \in Seq(Ids)
      BY <3>1 DEF TranscriptInv
    <3>3. Head(pending) \in Ids
      BY <3>2
    <3> QED
      BY <3>1, <3>3
  <2>2. CASE UNCHANGED ran
    BY <2>2
  <2>3. Start \/ Entering \/ Preparing \/ StreamAborted \/ Streaming \/ Replying
        \/ Abort \/ ClearHistory \/ ForceCompaction \/ UNCHANGED vars => UNCHANGED ran
    BY DEF Start, Entering, Enter, EnterRefused, EnterBadImage, Preparing, TurnStart, TurnAborted,
       HandleMaxTurns, BeforeTurnPasses, BeforeTurnStops, BudgetStops, Prepare, PrepareTooLarge,
       PrepareRaises, StreamAborted, Streaming, StreamFails, StreamOverflows,
       OverflowUnrecovered, StreamCloses, Replying, ReplyAnswers, ReplyStalls, ReplyTruncated,
       ReplyTruncatedEmpty, ReplyCalls, Abort, ClearHistory, ForceCompaction, vars
  <2>4. CallAborted \/ CallNext \/ GateBlocks \/ GateAborts \/ GateRaises \/ GateAllows
        \/ BatchDone => UNCHANGED ran
    BY DEF CallAborted, CallNext, GateBlocks, GateAborts, GateRaises, GateAllows, BatchDone
  <2> QED
    BY <2>1, <2>2, <2>3, <2>4 DEF Next, Agent, Calling
<1>3. IInv /\ TranscriptInv /\ RanIds => TypeOK
  BY DEF IInv, TranscriptInv, TypeOK, Sound, Ids
<1> QED
  BY <1>1, <1>2, <1>3, Invariance, TranscriptInvariance, PTL DEF Spec

\* What is sent to a provider pairs every announced call with exactly one result, directly
\* behind it: for transcripts of every length, batches of every size, both compaction
\* strategies, and whatever exceptions and aborts have left behind (Conversation.sanitize,
\* strip_orphan_tool_messages, execute_calls).
THEOREM RequestsArePaired == Spec => []RequestPaired
BY TranscriptInvariance, PTL DEF TranscriptInv

\* The loop implements the contract of module Exchange: each of its steps is a step of the
\* contract or changes neither the phase nor what is owed.
THEOREM ContractKept == Spec => ImplementsExchange
<1>1. Init => Contract!Init
  <2> SUFFICES ASSUME Init PROVE Contract!Init
    OBVIOUS
  <2>1. Sound(history, nextId) /\ Settled(history) /\ pc = "idle"
    BY TranscriptInit DEF TranscriptInv, Init, Settled
  <2> QED
    BY <2>1, Phases, SettledOwesNothing DEF Contract!Init
<1> QED
  BY <1>1, ContractNext, TranscriptInvariance, PTL DEF Spec, ImplementsExchange, Contract!Spec

\* Where no exception leaves a turn, a result that tells the model its call never ran is
\* about a call whose body did not run (_answer_remaining): a body's id is pending until its
\* one result is written, and a cut never adds a result.
THEOREM NotRunIsTold ==
  ASSUME Escapes = FALSE
  PROVE  Spec => []NotRunIsTrue
<1>1. Init => RanInv
  <2> SUFFICES ASSUME Init PROVE RanInv
    OBVIOUS
  <2>1. pc = "idle" /\ ran = {} /\ Len(history) = 0
    BY DEF Init
  <2> QED
    BY <2>1 DEF RanInv, InBatch
<1>2. TranscriptInv /\ RanInv /\ [Next]_vars => RanInv'
  BY RanNext
<1>3. TranscriptInv /\ RanInv => NotRunIsTrue
  <2> SUFFICES ASSUME TranscriptInv, RanInv PROVE NotRunIsTrue
    OBVIOUS
  <2>1. DOMAIN history = 1..Len(history)
    BY DEF TranscriptInv, Sound
  <2> QED
    BY <2>1 DEF RanInv, NotRunIsTrue
<1> QED
  BY <1>1, <1>2, <1>3, TranscriptInvariance, PTL DEF Spec

\* Where no exception leaves a turn, every run leaves a transcript that owes nothing
\* (execute_calls answers what an abort leaves of a batch).
THEOREM AnsweredWhereNothingEscapes ==
  ASSUME Escapes = FALSE
  PROVE  Spec => []AnsweredAtRest
<1>1. TranscriptInv => AnsweredAtRest
  <2> SUFFICES ASSUME TranscriptInv, pc = "idle" PROVE Paired(StripOrphans(history))
    BY DEF AnsweredAtRest
  <2>1. Sound(history, nextId) /\ Settled(history)
    BY DEF TranscriptInv
  <2> QED
    BY <2>1, NoOrphans, SettledIsPaired
<1> QED
  BY <1>1, TranscriptInvariance, PTL

===============================================================================
