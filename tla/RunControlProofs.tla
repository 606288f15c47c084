--------------------------- MODULE RunControlProofs ---------------------------
(***************************************************************************)
(* Theorems about RunControl for any set of threads and any number of runs *)
(* and compositions.  One inductive invariant: the lock and the lease      *)
(* agree; the run in progress is the last one, and the outputs belong to   *)
(* it until its result is built; between the step a composing call stood   *)
(* at when the run began and the step it stands at now lies no check.      *)
(***************************************************************************)
EXTENDS RunControl, TLAPS

\* The run whose lease was taken last, as long as its result is not built.
Leased(t) == at[t] \in {"running", "reporting"}

OutputsOfTheRun ==
  \A t \in Threads : Leased(t) =>
    /\ mine[t] = runs /\ runs \in Nat \ {0}
    /\ outputs = {runs} \cap recorded
    /\ runs \notin DOMAIN reported

StopsOfTheRun == flag /\ (\E t \in Threads : at[t] = "running") => runs \in called

Composition ==
  IsRunning =>
    \A t \in Threads : \A k \in entered[t]..(next[t] - 1) : call[t][k] = "change"

AtRest ==
  \A t \in Threads :
    at[t] # "composing" => next[t] = 1 /\ entered[t] = 1 /\ late[t] = {}

\* What is late lies behind the step the call stands at.
LateIsPast == \A t \in Threads : late[t] \subseteq 1..(next[t] - 1)

IInv == /\ TypeOK /\ LeaseIsExclusive /\ OutputsOfTheRun /\ OwnOutputs
        /\ StopsOfTheRun /\ AbortIsScoped /\ Composition /\ LateIsPast
        /\ AtRest /\ LateChangesCleared

\* What a step leaves alone.
LEMMA Stutter ==
  ASSUME IInv, UNCHANGED vars
  PROVE  IInv'
BY DEF IInv, vars, TypeOK, LeaseIsExclusive, InRun, OutputsOfTheRun, Leased, OwnOutputs,
       StopsOfTheRun, AbortIsScoped, Composition, LateIsPast, AtRest, LateChangesCleared,
       IsRunning

LEMMA InitIInv == Init => IInv
<1> SUFFICES ASSUME Init PROVE IInv
  OBVIOUS
<1>1. DOMAIN reported = {} /\ runs = 0 /\ uses = 0
  BY DEF Init
<1>2. TypeOK
  <2>1. /\ mine \in [Threads -> 0..runs] /\ late \in [Threads -> SUBSET (Nat \ {0})]
        /\ call \in [Threads -> Calls \cup {<<>>}]
        /\ next \in [Threads -> Nat \ {0}] /\ entered \in [Threads -> Nat \ {0}]
    BY <1>1 DEF Init
  <2>2. runs \in 0..MaxRuns /\ uses \in 0..MaxUses
    BY <1>1, RunControlAssumption DEF RunControlAssumption
  <2> QED
    BY <1>1, <2>1, <2>2 DEF Init, TypeOK, Places
<1>3. \A t \in Threads : at[t] = "out" /\ late[t] = {} /\ next[t] = 1 /\ entered[t] = 1
  BY DEF Init
<1>4. /\ LeaseIsExclusive /\ OutputsOfTheRun /\ StopsOfTheRun /\ Composition
      /\ LateIsPast /\ AtRest /\ LateChangesCleared
  BY <1>3, RunControlAssumption
     DEF Init, RunControlAssumption, LeaseIsExclusive, InRun, OutputsOfTheRun, Leased,
         StopsOfTheRun, Composition, LateIsPast, AtRest, LateChangesCleared, IsRunning
<1>5. OwnOutputs /\ AbortIsScoped
  BY <1>1 DEF Init, OwnOutputs, AbortIsScoped
<1> QED
  BY <1>2, <1>4, <1>5 DEF IInv

\* A composing call leaves the lock, the lease and the records of runs alone, and
\* its thread begins, stays in it or returns.
LEMMA ComposingKeeps ==
  ASSUME NEW t \in Threads, Composing(t)
  PROVE  /\ UNCHANGED <<lock, lease, results>>
         /\ \/ UNCHANGED at
            \/ /\ at[t] \in {"out", "composing"}
               /\ \E place \in {"out", "composing"} : at' = [at EXCEPT ![t] = place]
BY DEF Composing, UseStart, CheckPasses, CheckRejects, Change, UseReturns, Leave, Advance, Go

\* Where a thread that takes a step of run() or of a composing call stands
\* afterwards, and the others stay: the counter changes hands only through the lock.
LEMMA StepTypeOK ==
  ASSUME IInv, Next
  PROVE  TypeOK'
<1> USE RunControlAssumption DEF RunControlAssumption, IInv, TypeOK, Places, Go
<1>1. CASE Abort
  <2>1. called' \subseteq 1..runs
    <3>1. CASE IsRunning
      <4>1. \E t \in Threads : at[t] = "running"
        BY <3>1 DEF IsRunning, LeaseIsExclusive
      <4>2. runs \in 1..runs
        BY <4>1 DEF OutputsOfTheRun, Leased
      <4> QED
        BY <1>1, <4>2 DEF Abort
    <3> QED
      BY <1>1, <3>1 DEF Abort
  <2> QED
    BY <1>1, <2>1 DEF Abort, compose
<1>2. ASSUME NEW t \in Threads, RunStart(t) \/ RunRefused(t) \/ Release(t)
      PROVE  TypeOK'
  BY <1>2 DEF RunStart, RunRefused, Release, lease, results, compose
<1>3. ASSUME NEW t \in Threads, LeaseEnter(t)
      PROVE  TypeOK'
  <2>1. /\ runs' = runs + 1 /\ runs' \in 0..MaxRuns /\ mine' = [mine EXCEPT ![t] = runs']
        /\ active' = active + 1 /\ flag' = FALSE /\ outputs' = {} /\ lock' = lock
        /\ UNCHANGED <<uses, call, next, recorded, stopped, called, reported>>
    BY <1>3 DEF LeaseEnter, MeetsCalls, results
  <2>2. 1..runs \subseteq 1..runs' /\ 0..runs \subseteq 0..runs' /\ runs' \in 0..runs'
    BY <2>1
  <2>3. mine' \in [Threads -> 0..runs']
    BY <2>1, <2>2
  <2>4. /\ at' = [at EXCEPT ![t] = "running"]
        /\ entered' = next /\ late' = [u \in Threads |-> {}]
    BY <1>3 DEF LeaseEnter, MeetsCalls
  <2>5. /\ at' \in [Threads -> Places]
        /\ entered' \in [Threads -> Nat \ {0}] /\ late' \in [Threads -> SUBSET (Nat \ {0})]
    BY <2>4
  <2>6. flag' \in BOOLEAN
    BY <2>1
  <2> QED
    BY <2>1, <2>2, <2>3, <2>5, <2>6
<1>4. ASSUME NEW t \in Threads, RecordOutput(t)
      PROVE  TypeOK'
  <2>1. mine[t] \in 1..runs
    BY <1>4 DEF RecordOutput, OutputsOfTheRun, Leased
  <2> QED
    BY <1>4, <2>1 DEF RecordOutput, compose
<1>5. ASSUME NEW t \in Threads, LeaseExit(t)
      PROVE  TypeOK'
  <2>1. at[t] = "running" /\ mine[t] \in 1..runs
    BY <1>5 DEF LeaseExit, OutputsOfTheRun, Leased
  <2>2. active' = 0
    BY <1>5, <2>1 DEF LeaseExit, LeaseIsExclusive
  <2>3. \E place \in Places : at' = [at EXCEPT ![t] = place]
    BY <1>5 DEF LeaseExit
  <2>4. stopped' \subseteq 1..runs
    BY <1>5, <2>1 DEF LeaseExit
  <2> QED
    BY <1>5, <2>2, <2>3, <2>4 DEF LeaseExit, compose
<1>6. ASSUME NEW t \in Threads, Report(t)
      PROVE  TypeOK'
  <2>1. mine[t] \in 1..runs
    BY <1>6 DEF Report, OutputsOfTheRun, Leased
  <2> QED
    BY <1>6, <2>1 DEF Report, lease, compose
<1>7. ASSUME NEW t \in Threads, Composing(t)
      PROVE  TypeOK'
  <2>1. /\ UNCHANGED <<lock, active, flag, outputs, runs, mine, recorded, reported,
                        stopped, called>>
        /\ \E place \in Places : at' = [at EXCEPT ![t] = place] \/ at' = at
    BY <1>7, ComposingKeeps DEF lease, results
  <2>2. uses' \in 0..MaxUses
    BY <1>7 DEF Composing, UseStart, CheckPasses, CheckRejects, Change, UseReturns, Leave,
                Advance
  <2>3. \/ UNCHANGED call \/ \E c \in Calls : call' = [call EXCEPT ![t] = c]
        \/ call' = [call EXCEPT ![t] = <<>>]
    BY <1>7 DEF Composing, UseStart, CheckPasses, CheckRejects, Change, UseReturns, Leave,
                Advance
  <2>4. \/ UNCHANGED next \/ next' = [next EXCEPT ![t] = @ + 1]
        \/ next' = [next EXCEPT ![t] = 1]
    BY <1>7 DEF Composing, UseStart, CheckPasses, CheckRejects, Change, UseReturns, Leave,
                Advance
  <2>5. \/ UNCHANGED late \/ late' = [late EXCEPT ![t] = @ \cup {next[t]}]
        \/ late' = [late EXCEPT ![t] = {}]
    <3>1. CASE Change(t)
      BY <3>1 DEF Change
    <3>2. CASE UseStart(t) \/ CheckPasses(t) \/ CheckRejects(t) \/ UseReturns(t)
      BY <3>2 DEF UseStart, CheckPasses, CheckRejects, UseReturns, Leave
    <3> QED
      BY <1>7, <3>1, <3>2 DEF Composing
  <2>6. UNCHANGED entered \/ entered' = [entered EXCEPT ![t] = 1]
    BY <1>7 DEF Composing, UseStart, CheckPasses, CheckRejects, Change, UseReturns, Leave,
                Advance
  <2>7. at' \in [Threads -> Places] /\ call' \in [Threads -> Calls \cup {<<>>}]
    <3>1. at' \in [Threads -> Places]
      BY <2>1
    <3>2. call' \in [Threads -> Calls \cup {<<>>}]
      BY <2>3
    <3> QED
      BY <3>1, <3>2
  <2>8. next' \in [Threads -> Nat \ {0}] /\ entered' \in [Threads -> Nat \ {0}]
    <3>1. next[t] + 1 \in Nat \ {0} /\ 1 \in Nat \ {0}
      OBVIOUS
    <3>2. next' \in [Threads -> Nat \ {0}]
      BY <2>4, <3>1
    <3>3. entered' \in [Threads -> Nat \ {0}]
      BY <2>6, <3>1
    <3> QED
      BY <3>2, <3>3
  <2>9. late' \in [Threads -> SUBSET (Nat \ {0})]
    <3>1. CASE UNCHANGED late
      BY <3>1
    <3>2. CASE late' = [late EXCEPT ![t] = @ \cup {next[t]}]
      <4>1. late[t] \cup {next[t]} \in SUBSET (Nat \ {0})
        OBVIOUS
      <4> QED
        BY <3>2, <4>1
    <3>3. CASE late' = [late EXCEPT ![t] = {}]
      BY <3>3
    <3> QED
      BY <2>5, <3>1, <3>2, <3>3
  <2> QED
    BY <2>1, <2>2, <2>7, <2>8, <2>9
<1> QED
  BY <1>1, <1>2, <1>3, <1>4, <1>5, <1>6, <1>7 DEF Next, Running

\* The lock passes from nobody to a thread and back to nobody; the lease is
\* taken and closed inside.
LEMMA StepLease ==
  ASSUME IInv, Next
  PROVE  LeaseIsExclusive'
<1> USE RunControlAssumption
    DEF RunControlAssumption, IInv, TypeOK, LeaseIsExclusive, InRun, Go
<1>1. CASE Abort
  BY <1>1 DEF Abort
<1>2. ASSUME NEW t \in Threads, RunStart(t)
      PROVE  LeaseIsExclusive'
  BY <1>2 DEF RunStart, lease
<1>3. ASSUME NEW t \in Threads, RunRefused(t) \/ Report(t)
      PROVE  LeaseIsExclusive'
  BY <1>3 DEF RunRefused, Report, lease
<1>4. ASSUME NEW t \in Threads, LeaseEnter(t)
      PROVE  LeaseIsExclusive'
  BY <1>4 DEF LeaseEnter
<1>5. ASSUME NEW t \in Threads, RecordOutput(t)
      PROVE  LeaseIsExclusive'
  BY <1>5 DEF RecordOutput
<1>6. ASSUME NEW t \in Threads, LeaseExit(t)
      PROVE  LeaseIsExclusive'
  <2>1. at[t] = "running" /\ lock' = lock /\ active' = active - 1
        /\ \E place \in {"reporting", "releasing"} : at' = [at EXCEPT ![t] = place]
    BY <1>6 DEF LeaseExit
  <2> QED
    BY <2>1
<1>7. ASSUME NEW t \in Threads, Release(t)
      PROVE  LeaseIsExclusive'
  BY <1>7 DEF Release, lease
<1>8. ASSUME NEW t \in Threads, Composing(t)
      PROVE  LeaseIsExclusive'
  <2>1. /\ UNCHANGED <<lock, active>>
        /\ \/ UNCHANGED at
           \/ ~InRun(t) /\ \E place \in {"out", "composing"} : at' = [at EXCEPT ![t] = place]
    BY <1>8, ComposingKeeps DEF lease
  <2> QED
    BY <2>1
<1> QED
  BY <1>1, <1>2, <1>3, <1>4, <1>5, <1>6, <1>7, <1>8 DEF Next, Running

\* One leased thread at most.
LEMMA OneLeased ==
  ASSUME IInv, NEW t \in Threads, NEW u \in Threads, InRun(t), InRun(u)
  PROVE  t = u
BY DEF IInv, LeaseIsExclusive

\* Only the run in progress touches the outputs, and its result is built last.
LEMMA StepOutputs ==
  ASSUME IInv, Next
  PROVE  OutputsOfTheRun' /\ OwnOutputs'
<1> USE DEF IInv, OutputsOfTheRun, OwnOutputs, Leased, InRun
<1>0. at \in [Threads -> Places] /\ mine \in [Threads -> 0..runs] /\ runs \in Nat
      /\ recorded \subseteq 1..runs /\ DOMAIN reported \subseteq 1..runs
  BY RunControlAssumption DEF TypeOK, RunControlAssumption
<1>1. ASSUME NEW t \in Threads, LeaseEnter(t)
      PROVE  OutputsOfTheRun' /\ OwnOutputs'
  <2>1. /\ at[t] = "validating" /\ at' = [at EXCEPT ![t] = "running"]
        /\ outputs' = {} /\ runs' = runs + 1 /\ mine' = [mine EXCEPT ![t] = runs + 1]
        /\ UNCHANGED <<recorded, reported>>
    BY <1>1 DEF LeaseEnter, results, Go
  <2>2. \A u \in Threads : u # t => at'[u] \notin {"running", "reporting"}
    BY <1>0, <2>1, OneLeased
  <2>3. runs' \notin recorded /\ runs' \notin DOMAIN reported /\ runs' \in Nat \ {0}
    BY <1>0, <2>1
  <2>4. mine'[t] = runs'
    BY <1>0, <2>1
  <2> QED
    BY <2>1, <2>2, <2>3, <2>4
<1>2. ASSUME NEW t \in Threads, RecordOutput(t)
      PROVE  OutputsOfTheRun' /\ OwnOutputs'
  <2>1. /\ UNCHANGED <<at, runs, mine, reported>> /\ mine[t] = runs
        /\ outputs' = outputs \cup {runs} /\ recorded' = recorded \cup {runs}
        /\ runs \notin DOMAIN reported
    BY <1>2 DEF RecordOutput
  <2> QED
    BY <2>1
<1>3. ASSUME NEW t \in Threads, Report(t)
      PROVE  OutputsOfTheRun' /\ OwnOutputs'
  <2>1. /\ at[t] = "reporting" /\ at' = [at EXCEPT ![t] = "releasing"] /\ mine[t] = runs
        /\ UNCHANGED <<outputs, runs, mine, recorded>>
        /\ reported' = [r \in DOMAIN reported \cup {runs} |->
                          IF r = runs THEN outputs ELSE reported[r]]
    BY <1>3 DEF Report, lease, Go
  <2>2. \A u \in Threads : at'[u] \notin {"running", "reporting"}
    BY <1>0, <2>1, OneLeased
  <2>3. outputs = {runs} \cap recorded
    BY <2>1
  <2> QED
    BY <2>1, <2>2, <2>3
<1>4. ASSUME UNCHANGED <<outputs, runs, mine, recorded, reported>>,
             \A u \in Threads : at'[u] \in {"running", "reporting"} => Leased(u)
      PROVE  OutputsOfTheRun' /\ OwnOutputs'
  BY <1>4
<1>5. ASSUME NEW t \in Threads, RunStart(t) \/ RunRefused(t) \/ LeaseExit(t) \/ Release(t)
      PROVE  OutputsOfTheRun' /\ OwnOutputs'
  BY <1>0, <1>4, <1>5 DEF RunStart, RunRefused, LeaseExit, Release, Go, lease, results
<1>6. ASSUME NEW t \in Threads, Composing(t)
      PROVE  OutputsOfTheRun' /\ OwnOutputs'
  BY <1>0, <1>4, <1>6, ComposingKeeps DEF lease, results
<1>7. CASE Abort
  BY <1>4, <1>7 DEF Abort
<1> QED
  BY <1>1, <1>2, <1>3, <1>5, <1>6, <1>7 DEF Next, Running

\* The flag of a running run was raised while it ran.
LEMMA StepStops ==
  ASSUME IInv, Next
  PROVE  StopsOfTheRun' /\ AbortIsScoped'
<1> USE DEF IInv, StopsOfTheRun, AbortIsScoped
<1>0. at \in [Threads -> Places]
  BY DEF TypeOK
<1>1. ASSUME NEW t \in Threads, LeaseEnter(t)
      PROVE  StopsOfTheRun' /\ AbortIsScoped'
  BY <1>1 DEF LeaseEnter, results
<1>2. ASSUME NEW t \in Threads, LeaseExit(t)
      PROVE  StopsOfTheRun' /\ AbortIsScoped'
  <2>1. at[t] = "running" /\ mine[t] = runs
    BY <1>2 DEF LeaseExit, Go, OutputsOfTheRun, Leased
  <2>2. stopped' = stopped \/ (flag /\ stopped' = stopped \cup {mine[t]})
    BY <1>2 DEF LeaseExit
  <2>3. stopped' \subseteq called
    BY <2>1, <2>2
  <2>4. /\ UNCHANGED <<flag, runs, called>>
        /\ \E place \in {"reporting", "releasing"} : at' = [at EXCEPT ![t] = place]
    BY <1>2 DEF LeaseExit, Go
  <2>5. (\E u \in Threads : at'[u] = "running") => \E u \in Threads : at[u] = "running"
    BY <1>0, <2>4
  <2> QED
    BY <2>3, <2>4, <2>5
<1>3. CASE Abort
  <2>1. ASSUME NEW t \in Threads, at[t] = "running" PROVE IsRunning
    BY <2>1 DEF LeaseIsExclusive, IsRunning
  <2> QED
    BY <1>3, <2>1 DEF Abort
<1>4. ASSUME UNCHANGED <<flag, runs, stopped, called>>,
             \A u \in Threads : at'[u] = "running" => at[u] = "running"
      PROVE  StopsOfTheRun' /\ AbortIsScoped'
  BY <1>4
<1>5. ASSUME NEW t \in Threads, \/ RunStart(t) \/ RunRefused(t) \/ RecordOutput(t)
                                \/ Report(t) \/ Release(t)
      PROVE  StopsOfTheRun' /\ AbortIsScoped'
  BY <1>0, <1>4, <1>5
     DEF RunStart, RunRefused, RecordOutput, Report, Release, Go, lease, results
<1>6. ASSUME NEW t \in Threads, Composing(t)
      PROVE  StopsOfTheRun' /\ AbortIsScoped'
  BY <1>0, <1>4, <1>6, ComposingKeeps DEF lease, results
<1> QED
  BY <1>1, <1>2, <1>3, <1>5, <1>6 DEF Next, Running

\* While a run is active no call passes a check, so what lies between the step a run
\* met it at and the step it stands at are changes.
LEMMA StepComposition ==
  ASSUME IInv, Next
  PROVE  Composition' /\ LateIsPast' /\ LateChangesCleared'
<1> USE DEF IInv, Composition, LateIsPast, LateChangesCleared, IsRunning
<1>0. /\ late \in [Threads -> SUBSET (Nat \ {0})] /\ active \in {0, 1}
      /\ next \in [Threads -> Nat \ {0}] /\ entered \in [Threads -> Nat \ {0}]
      /\ call \in [Threads -> Calls \cup {<<>>}]
  BY DEF TypeOK, LeaseIsExclusive
<1>1. ASSUME NEW t \in Threads, LeaseEnter(t)
      PROVE  Composition' /\ LateIsPast' /\ LateChangesCleared'
  <2>1. /\ UNCHANGED <<call, next>> /\ entered' = next
        /\ late' = [u \in Threads |-> {}]
    BY <1>1 DEF LeaseEnter, MeetsCalls
  <2>2. \A u \in Threads : entered'[u]..(next'[u] - 1) = {}
    BY <1>0, <2>1
  <2> QED
    BY <2>1, <2>2
<1>2. ASSUME UNCHANGED <<call, next, entered, late>>, active' <= active, active' \in {0, 1}
      PROVE  Composition' /\ LateIsPast' /\ LateChangesCleared'
  BY <1>0, <1>2
<1>3. ASSUME NEW t \in Threads, RunStart(t) \/ RunRefused(t) \/ RecordOutput(t)
                                \/ Report(t) \/ Release(t)
      PROVE  Composition' /\ LateIsPast' /\ LateChangesCleared'
  BY <1>0, <1>2, <1>3
     DEF RunStart, RunRefused, RecordOutput, Report, Release, lease, compose
<1>4. ASSUME NEW t \in Threads, LeaseExit(t)
      PROVE  Composition' /\ LateIsPast' /\ LateChangesCleared'
  <2>1. active = 1
    BY <1>4 DEF LeaseExit, Go, LeaseIsExclusive
  <2> QED
    BY <1>0, <1>2, <1>4, <2>1 DEF LeaseExit, compose
<1>5. ASSUME NEW t \in Threads, UNCHANGED <<active, entered>>,
             at[t] = "composing",
             UNCHANGED call, next' = [next EXCEPT ![t] = @ + 1],
             active = 0 \/ call[t][next[t]] = "change",
             \/ UNCHANGED late
             \/ active > 0 /\ late' = [late EXCEPT ![t] = @ \cup {next[t]}]
      PROVE  Composition' /\ LateIsPast' /\ LateChangesCleared'
  <2>1. /\ next'[t] = next[t] + 1
        /\ \A u \in Threads \ {t} : next'[u] = next[u] /\ late'[u] = late[u]
    BY <1>0, <1>5
  <2>2. /\ late'[t] = late[t] \/ (active > 0 /\ late'[t] = late[t] \cup {next[t]})
        /\ entered[t] \in Nat \ {0} /\ next[t] \in Nat \ {0}
        /\ late[t] \in SUBSET (Nat \ {0})
    BY <1>0, <1>5
  <2>3. Composition'
    <3>1. ASSUME active > 0, NEW k \in entered[t]..next[t] PROVE call[t][k] = "change"
      BY <1>5, <2>2, <3>1
    <3> QED
      BY <1>5, <2>1, <2>2, <3>1
  <2>4. LateIsPast'
    BY <2>1, <2>2
  <2>5. LateChangesCleared'
    <3>1. ASSUME NEW i \in late'[t], NEW k \in entered[t]..i PROVE call[t][k] = "change"
      <4>1. CASE i \in late[t]
        BY <3>1, <4>1
      <4>2. CASE active > 0 /\ i = next[t]
        BY <1>5, <2>2, <3>1, <4>2
      <4> QED
        BY <2>2, <3>1, <4>1, <4>2
    <3> QED
      BY <1>5, <2>1, <3>1
  <2> QED
    BY <2>3, <2>4, <2>5
<1>6. ASSUME NEW t \in Threads, CheckPasses(t) \/ Change(t)
      PROVE  Composition' /\ LateIsPast' /\ LateChangesCleared'
  <2>1. /\ UNCHANGED <<active, entered, call>> /\ at[t] = "composing"
        /\ next' = [next EXCEPT ![t] = @ + 1]
    BY <1>6 DEF CheckPasses, Change, Faces, Advance, lease
  <2>2. /\ active = 0 \/ call[t][next[t]] = "change"
        /\ \/ UNCHANGED late
           \/ active > 0 /\ late' = [late EXCEPT ![t] = @ \cup {next[t]}]
    <3>1. CASE CheckPasses(t)
      BY <1>0, <3>1 DEF CheckPasses
    <3>2. CASE Change(t)
      BY <1>0, <3>2 DEF Change, Faces
    <3> QED
      BY <1>6, <3>1, <3>2
  <2> QED
    BY <1>5, <2>1, <2>2
<1>7. ASSUME NEW t \in Threads, UNCHANGED active, NEW c, next[t] = 1, entered[t] = 1,
             late[t] = {}, UNCHANGED <<next, entered, late>>,
             call' = [call EXCEPT ![t] = c]
      PROVE  Composition' /\ LateIsPast' /\ LateChangesCleared'
  <2>1. \A u \in Threads \ {t} : call'[u] = call[u]
    BY <1>0, <1>7
  <2>2. entered[t]..(next[t] - 1) = {}
    BY <1>7
  <2> QED
    BY <1>7, <2>1, <2>2
<1>8. ASSUME NEW t \in Threads, CheckRejects(t) \/ UseReturns(t)
      PROVE  Composition' /\ LateIsPast' /\ LateChangesCleared'
  <2>1. /\ UNCHANGED active /\ call' = [call EXCEPT ![t] = <<>>]
        /\ next' = [next EXCEPT ![t] = 1] /\ entered' = [entered EXCEPT ![t] = 1]
        /\ late' = [late EXCEPT ![t] = {}]
    BY <1>8 DEF CheckRejects, UseReturns, Leave, lease
  <2>2. /\ next'[t] = 1 /\ entered'[t] = 1 /\ late'[t] = {}
        /\ \A u \in Threads \ {t} : /\ call'[u] = call[u] /\ next'[u] = next[u]
                                     /\ entered'[u] = entered[u] /\ late'[u] = late[u]
    BY <1>0, <2>1
  <2>3. entered'[t]..(next'[t] - 1) = {}
    BY <2>2
  <2> QED
    BY <2>1, <2>2, <2>3
<1>9. ASSUME NEW t \in Threads, UseStart(t)
      PROVE  Composition' /\ LateIsPast' /\ LateChangesCleared'
  BY <1>7, <1>9 DEF UseStart, Go, lease, AtRest
<1>10. CASE Abort
  BY <1>0, <1>2, <1>10 DEF Abort, compose
<1> QED
  BY <1>1, <1>3, <1>4, <1>6, <1>8, <1>9, <1>10 DEF Next, Running, Composing

\* A thread outside a composing call has nothing of one.
LEMMA StepAtRest ==
  ASSUME IInv, Next
  PROVE  AtRest'
<1> USE DEF IInv, AtRest, Go
<1>0. /\ at \in [Threads -> Places] /\ late \in [Threads -> SUBSET (Nat \ {0})]
      /\ next \in [Threads -> Nat \ {0}] /\ entered \in [Threads -> Nat \ {0}]
  BY DEF TypeOK
<1>1. ASSUME NEW t \in Threads, LeaseEnter(t)
      PROVE  AtRest'
  BY <1>0, <1>1 DEF LeaseEnter, MeetsCalls
<1>2. ASSUME NEW t \in Threads, \/ RunStart(t) \/ RunRefused(t) \/ RecordOutput(t)
                                \/ LeaseExit(t) \/ Report(t) \/ Release(t)
      PROVE  AtRest'
  <2>1. UNCHANGED <<next, entered, late>>
    BY <1>2 DEF RunStart, RunRefused, RecordOutput, LeaseExit, Report, Release, compose
  <2>2. \A u \in Threads : at'[u] = at[u] \/ (u = t /\ at[t] # "composing")
    BY <1>0, <1>2 DEF RunStart, RunRefused, RecordOutput, LeaseExit, Report, Release
  <2> QED
    BY <2>1, <2>2
<1>3. ASSUME NEW t \in Threads, UseStart(t)
      PROVE  AtRest'
  BY <1>0, <1>3 DEF UseStart
<1>4. ASSUME NEW t \in Threads, CheckPasses(t) \/ Change(t)
      PROVE  AtRest'
  <2>1. /\ at[t] = "composing" /\ UNCHANGED <<at, entered>>
        /\ next' = [next EXCEPT ![t] = @ + 1]
        /\ \E S : late' = [late EXCEPT ![t] = S] \/ late' = late
    BY <1>4 DEF CheckPasses, Change, Faces, Advance
  <2> QED
    BY <1>0, <2>1
<1>5. ASSUME NEW t \in Threads, CheckRejects(t) \/ UseReturns(t)
      PROVE  AtRest'
  BY <1>0, <1>5 DEF CheckRejects, UseReturns, Leave
<1>6. CASE Abort
  BY <1>6 DEF Abort, compose
<1> QED
  BY <1>1, <1>2, <1>3, <1>4, <1>5, <1>6 DEF Next, Running, Composing

LEMMA Invariance == Spec => []IInv
<1>1. IInv /\ [Next]_vars => IInv'
  BY Stutter, StepTypeOK, StepLease, StepOutputs, StepStops, StepComposition, StepAtRest
     DEF IInv
<1> QED
  BY <1>1, InitIInv, PTL DEF Spec

-------------------------------------------------------------------------------
(* Theorems.                                                               *)

\* The state of the lock, the lease and the outputs is well typed throughout
\* (RunControl, RunLease, RunOutputs).
THEOREM Typed == Spec => []TypeOK
BY Invariance, PTL DEF IInv

\* One agent runs once at a time and is_running says when (Agent.run's lock,
\* RunLease).
THEOREM LeaseExclusive == Spec => []LeaseIsExclusive
BY Invariance, PTL DEF IInv

\* A result carries its own run's outputs although the lease is closed when they
\* are read: the lock is still held (Agent._run_once, RunOutputs).
THEOREM OutputsOwned == Spec => []OwnOutputs
BY Invariance, PTL DEF IInv

\* A run is stopped only by an abort() that was called while it was active.
THEOREM AbortScoped == Spec => []AbortIsScoped
BY Invariance, PTL DEF IInv

\* What a call changes inside a run was cleared before the run began: no check of the
\* call lies between where the run met it and what it changed, whatever checks and
\* changes the call is made of (_reject_while_running in some mutators, none in
\* add_context, on_approved_call, the setters and _attach_feature).
THEOREM LateChangesWereCleared == Spec => []LateChangesCleared
BY Invariance, PTL DEF IInv
===============================================================================
