------------------------------ MODULE RunControl ------------------------------
(***************************************************************************)
(* One Agent shared by the threads of its host: run() with its lock and    *)
(* its lease, the outputs of a run, the cancellation flag, and the calls   *)
(* that compose the agent.  A composing call is a sequence of steps:       *)
(* looks at is_running and changes, some of which have a look of their own *)
(* and some of which have none.                                            *)
(***************************************************************************)
EXTENDS Naturals, Sequences

CONSTANTS
  Threads,
  NoThread,
  Calls,    \* the composing calls, each the sequence of its checks and changes
  MaxRuns,  \* bound: runs that take the lease
  MaxUses   \* bound: composing calls

ASSUME RunControlAssumption ==
  /\ NoThread \notin Threads /\ MaxRuns \in Nat /\ MaxUses \in Nat
  /\ Calls \subseteq Seq({"check", "change"})

VARIABLES
  at,        \* where each thread is
  lock,      \* the holder of Agent._run_lock
  active,    \* RunControl._active_runs
  flag,      \* the cancellation event
  outputs,   \* RunOutputs: the runs that put something there
  runs,      \* runs that have taken the lease
  uses,      \* composing calls begun
  mine,      \* the run of each thread
  call,      \* the composing call each thread is in
  next,      \* the step of it that is next
  recorded,  \* history: the runs that recorded an output
  reported,  \* history: the outputs each RunResult carries, by run
  stopped,   \* history: the runs that ended by an abort
  called,    \* history: the runs abort() was called in
  entered,   \* history: the step each call stood at when the last run began
  late       \* history: the steps of it that changed the agent in that run

lease   == <<active, flag, outputs, runs, mine>>
results == <<recorded, reported, stopped, called>>
compose == <<uses, call, next, entered, late>>
vars    == <<at, lock, active, flag, outputs, runs, uses, mine, call, next, recorded,
             reported, stopped, called, entered, late>>

Places == {"out", "validating", "running", "reporting", "releasing", "composing"}

Init ==
  /\ at = [t \in Threads |-> "out"]
  /\ lock = NoThread /\ active = 0 /\ flag = FALSE /\ outputs = {}
  /\ runs = 0 /\ uses = 0 /\ mine = [t \in Threads |-> 0]
  /\ recorded = {} /\ reported = [r \in {} |-> {}] /\ stopped = {} /\ called = {}
  /\ call = [t \in Threads |-> <<>>] /\ next = [t \in Threads |-> 1]
  /\ entered = next /\ late = [t \in Threads |-> {}]

Go(t, from, to) == at[t] = from /\ at' = [at EXCEPT ![t] = to]

-------------------------------------------------------------------------------
(* run().  A thread that finds the lock held raises and changes nothing.   *)

RunStart(t) ==
  /\ Go(t, "out", "validating")
  /\ lock = NoThread /\ lock' = t
  /\ UNCHANGED <<lease, results, compose>>

\* Variant: the early return skips the release.
RunRefusedHolding(t) ==
  /\ Go(t, "validating", "out")
  /\ UNCHANGED <<lock, lease, results, compose>>

\* The tools do not validate, or there is no model.
RunRefused(t) ==
  /\ Go(t, "validating", "releasing")
  /\ UNCHANGED <<lock, lease, results, compose>>

\* The run begins while composing calls stand where they stand.
MeetsCalls ==
  /\ entered' = next /\ late' = [u \in Threads |-> {}]
  /\ UNCHANGED <<uses, call, next>>

\* Variants: the outputs of the last run are kept; its cancellation is.
LeaseEnterKeepsOutputs(t) ==
  /\ runs < MaxRuns
  /\ Go(t, "validating", "running")
  /\ active' = active + 1
  /\ flag' = FALSE
  /\ runs' = runs + 1
  /\ mine' = [mine EXCEPT ![t] = runs + 1]
  /\ MeetsCalls
  /\ UNCHANGED <<lock, outputs, results>>
LeaseEnterKeepsFlag(t) ==
  /\ runs < MaxRuns
  /\ Go(t, "validating", "running")
  /\ active' = active + 1
  /\ outputs' = {}
  /\ runs' = runs + 1
  /\ mine' = [mine EXCEPT ![t] = runs + 1]
  /\ MeetsCalls
  /\ UNCHANGED <<lock, flag, results>>

LeaseEnter(t) ==
  /\ runs < MaxRuns
  /\ Go(t, "validating", "running")
  /\ active' = active + 1
  /\ outputs' = {} /\ flag' = FALSE
  /\ runs' = runs + 1
  /\ mine' = [mine EXCEPT ![t] = runs + 1]
  /\ MeetsCalls
  /\ UNCHANGED <<lock, results>>

RecordOutput(t) ==
  /\ at[t] = "running"
  /\ outputs' = outputs \cup {mine[t]}
  /\ recorded' = recorded \cup {mine[t]}
  /\ UNCHANGED <<at, lock, active, flag, runs, mine, reported, stopped, called, compose>>

\* The loop returns, stops on the flag, or leaves by an exception; the lease is
\* closed in every case, and only then is a RunResult built.
LeaseExit(t) ==
  /\ \/ Go(t, "running", "reporting") /\ UNCHANGED stopped
     \/ /\ flag /\ Go(t, "running", "reporting")
        /\ stopped' = stopped \cup {mine[t]}
     \/ Go(t, "running", "releasing") /\ UNCHANGED stopped
  /\ active' = active - 1
  /\ UNCHANGED <<lock, flag, outputs, runs, mine, recorded, reported, called, compose>>

\* The snapshot is taken behind the lease, but still under the lock.
Report(t) ==
  /\ Go(t, "reporting", "releasing")
  /\ reported' = [r \in DOMAIN reported \cup {mine[t]} |->
                    IF r = mine[t] THEN outputs ELSE reported[r]]
  /\ UNCHANGED <<lock, lease, recorded, stopped, called, compose>>

Release(t) ==
  /\ Go(t, "releasing", "out")
  /\ lock' = NoThread
  /\ UNCHANGED <<lease, results, compose>>

-------------------------------------------------------------------------------
(* Composition.  What a mutator does before it returns: look at is_running *)
(* and change something, change it twice, or change it without a look.     *)

Checked   == <<"check", "change">>
Twice     == <<"check", "change", "change">>
Unchecked == <<"change">>

\* use() looks once itself; the feature's install chains mutators, and each hook
\* and the feature's own entry are appended behind it.
Use(install, hooks) ==
  <<"check">> \o install \o [i \in 1..hooks + 1 |-> "change"]
Memory      == Checked \o Unchecked \o Checked
Skills      == Checked \o Unchecked \o Unchecked \o Checked
Files       == Checked \o Checked \o Checked \o Unchecked \o Checked
SystemTools == Twice \o Checked

IsRunning == active > 0

UseStart(t) ==
  /\ uses < MaxUses
  /\ Go(t, "out", "composing")
  /\ uses' = uses + 1
  /\ \E c \in Calls : call' = [call EXCEPT ![t] = c]
  /\ UNCHANGED <<lock, lease, results, next, entered, late>>

Leave(t) ==
  /\ Go(t, "composing", "out")
  /\ call' = [call EXCEPT ![t] = <<>>] /\ next' = [next EXCEPT ![t] = 1]
  /\ entered' = [entered EXCEPT ![t] = 1] /\ late' = [late EXCEPT ![t] = {}]
  /\ UNCHANGED <<lock, lease, results, uses>>

\* The call's next step is of this kind.
Faces(t, step) ==
  /\ at[t] = "composing" /\ next[t] \in DOMAIN call[t]
  /\ call[t][next[t]] = step
Advance(t) ==
  /\ next' = [next EXCEPT ![t] = @ + 1]
  /\ UNCHANGED <<at, lock, lease, results, uses, call, entered>>

\* Variant: only use() itself looks, its mutators do not.
CheckPassesUnseen(t) ==
  /\ next[t] > 1 \/ ~IsRunning
  /\ Faces(t, "check") /\ Advance(t) /\ UNCHANGED late

CheckPasses(t) ==
  /\ ~IsRunning
  /\ Faces(t, "check") /\ Advance(t) /\ UNCHANGED late

\* RuntimeError: what the call has changed so far stays.
CheckRejects(t) ==
  /\ IsRunning
  /\ Faces(t, "check") /\ Leave(t)

Change(t) ==
  /\ Faces(t, "change") /\ Advance(t)
  /\ late' = [late EXCEPT ![t] = IF IsRunning THEN @ \cup {next[t]} ELSE @]

\* The call is through, or a step of it raises; the changes it made stay.
UseReturns(t) == Leave(t)

-------------------------------------------------------------------------------
\* Any thread, at any time.
Abort ==
  /\ flag' = TRUE
  /\ called' = called \cup (IF IsRunning THEN {runs} ELSE {})
  /\ UNCHANGED <<at, lock, active, outputs, runs, mine, recorded, reported, stopped,
                 compose>>

Running(t) ==
  \/ RunStart(t) \/ RunRefused(t) \/ LeaseEnter(t) \/ RecordOutput(t)
  \/ LeaseExit(t) \/ Report(t) \/ Release(t)
Composing(t) ==
  \/ UseStart(t) \/ CheckPasses(t) \/ CheckRejects(t) \/ Change(t) \/ UseReturns(t)

Next == Abort \/ \E t \in Threads : Running(t) \/ Composing(t)

Spec == Init /\ [][Next]_vars

-------------------------------------------------------------------------------
(* Properties.                                                             *)

\* The lock, the lease and what is kept about runs have their types.
TypeOK ==
  /\ at \in [Threads -> Places]
  /\ lock \in Threads \cup {NoThread}
  /\ active \in Nat /\ flag \in BOOLEAN
  /\ runs \in 0..MaxRuns /\ uses \in 0..MaxUses
  /\ outputs \subseteq 1..runs /\ mine \in [Threads -> 0..runs]
  /\ recorded \subseteq 1..runs /\ stopped \subseteq 1..runs /\ called \subseteq 1..runs
  /\ DOMAIN reported \subseteq 1..runs
  /\ call \in [Threads -> Calls \cup {<<>>}]
  /\ next \in [Threads -> Nat \ {0}] /\ entered \in [Threads -> Nat \ {0}]
  /\ late \in [Threads -> SUBSET (Nat \ {0})]

\* One agent never runs twice at once, and is_running says so exactly while the
\* loop runs: the lock and the counter agree on every way in and out.
InRun(t) == at[t] \in {"validating", "running", "reporting", "releasing"}
LeaseIsExclusive ==
  /\ \A t \in Threads : InRun(t) <=> lock = t
  /\ active = IF \E t \in Threads : at[t] = "running" THEN 1 ELSE 0

\* A RunResult carries the outputs of its own run, all of them and no others,
\* although the lease that protects them is closed when they are read.
OwnOutputs ==
  \A r \in DOMAIN reported : reported[r] = {r} \cap recorded

\* Only an abort() called while a run was active can stop it: one that came too
\* late for a run, or before one, never reaches the next.
AbortIsScoped == stopped \subseteq called

\* What a composing call changes in a run follows on where the run met it, with no
\* check in between: a change that is checked is never cleared in the run it is made
\* in, and a call a run has met ends at its next check.  Changes without a check of
\* their own (add_context, hooks, setters) are late as often as a call chains them.
LateChangesCleared ==
  \A t \in Threads : \A i \in late[t] :
    \A k \in entered[t]..i : call[t][k] = "change"

\* Nothing is composed while a run is active (_reject_while_running).
ComposedBetweenRuns == \A t \in Threads : late[t] = {}
===============================================================================
