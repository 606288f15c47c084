------------------------------ MODULE ToolsProofs ------------------------------
(***************************************************************************)
(* Theorems about three of the tools' machines: MemoryStore for any        *)
(* clients, stores, names and contents, Reading for any text, cap and      *)
(* cost of a character, Declaration for any declaration and value.         *)
(*                                                                         *)
(* IndexMatches speaks of rest; what carries it there is the listing the   *)
(* index is written from: as long as no other store has changed the        *)
(* directory, the names found and the names still to read are the          *)
(* memories.  No change of the own store comes between, since a store has  *)
(* one job at a time.                                                      *)
(*                                                                         *)
(* NoLineSkipped speaks of the next call; Paged adds the page in hand,     *)
(* whose reported lines have been given whole.  SchemaIsEnforced rests on  *)
(* two facts about the conversions: they keep a value of its type, and     *)
(* what they give has the type.                                            *)
(***************************************************************************)
EXTENDS MemoryStore, Reading, Declaration, TLAPS, FiniteSetTheorems, SequenceTheorems,
        WellFoundedInduction

Changing == [at : {"changed"}, rebuild : BOOLEAN]
Listing  == [at : {"listing"}, rebuild : BOOLEAN, todo : SUBSET Names, found : SUBSET Names,
             alone : BOOLEAN, steady : SUBSET Names, ever : SUBSET Names]

\* The clients, their jobs and the directory have their types.
MemoryTyped ==
  /\ store \in [Clients -> Stores]
  /\ job \in [Clients -> {Idle} \cup Changing \cup Listing]
  /\ files = [n \in Names |-> files[n]]
  /\ behind \in BOOLEAN

\* A store's lock lets one job of its clients in.
OneJob ==
  \A c, d \in Clients : store[c] = store[d] /\ job[c] # Idle /\ job[d] # Idle => c = d

\* What a listing has and still has to read, of a directory others may change.
Known(c) ==
  /\ job[c].alone => job[c].found \cup job[c].todo = Memories
  /\ job[c].steady \subseteq Memories
  /\ job[c].steady \subseteq job[c].found \cup job[c].todo
  /\ job[c].found \cup job[c].todo \subseteq job[c].ever
ListingsKnow == \A c \in Clients : job[c].at = "listing" => Known(c)

Rebuilding(c) == job[c] # Idle /\ job[c].rebuild
Fresh ==
  files[IndexName] = IF Memories = {} /\ files[IndexName] = Missing THEN Missing
                     ELSE Index(Memories)
\* The index is right, or somebody is about to write it, or it is known to be behind.
IndexKept == ~behind /\ (\A c \in Clients : ~Rebuilding(c)) => Fresh

MemoryInv == MemoryTyped /\ OneJob /\ ListingsKnow /\ IndexKept

-------------------------------------------------------------------------------

\* Jobs of one kind are not of another.
LEMMA JobKinds ==
  ASSUME NEW j \in {Idle} \cup Changing \cup Listing
  PROVE  /\ j.at = "listing" <=> j \in Listing
         /\ j.at = "changed" <=> j \in Changing
         /\ j = Idle <=> j.at = "idle"
BY DEF Idle, Changing, Listing

\* A remembered or forgotten name is one of the names.
LEMMA NamedCalls ==
  ASSUME NEW call, call.action \in {"remember", "forget"}, Refusal(call) = "none"
  PROVE  call.name \in Names
BY DEF Refusal

LEMMA MemoryStarts == MemoryInit => MemoryInv
<1> SUFFICES ASSUME MemoryInit PROVE MemoryInv
  OBVIOUS
<1>1. \A c \in Clients : job[c] = Idle
  BY DEF MemoryInit
<1>2. Present = {} /\ Memories = {} /\ files[IndexName] = Missing
  BY MemoryAssumption DEF MemoryInit, Present, Memories
<1>3. MemoryTyped
  BY MemoryAssumption DEF MemoryInit, MemoryTyped
<1>4. OneJob /\ IndexKept
  BY <1>1, <1>2 DEF OneJob, IndexKept, Fresh
<1>5. ListingsKnow
  BY <1>1 DEF ListingsKnow, Idle
<1> QED
  BY <1>3, <1>4, <1>5 DEF MemoryInv

-------------------------------------------------------------------------------
(* A change of the directory.                                              *)

\* A file put or removed by a client that had no job: the other stores' listings are
\* told, and its own store has none.
LEMMA PutKeeps ==
  ASSUME MemoryInv, NEW c \in Clients, Free(c), NEW n \in Names, NEW file,
         file.kind # "missing" \/ file = Missing, Put(n, file, c),
         UNCHANGED <<store, behind>>
  PROVE  MemoryInv'
<1> USE DEF MemoryInv
<1>1. \A d \in Clients : store[d] = store[c] => job[d] = Idle
  BY DEF Free, Busy, MemoryTyped
<1>2. /\ files' = [files EXCEPT ![n] = file]
      /\ \A m \in Names : files'[m] = IF m = n THEN file ELSE files[m]
  BY DEF Put, MemoryTyped
<1>3. job'[c] = [at |-> "changed", rebuild |-> TRUE]
  BY DEF Put, MemoryTyped
<1>4. ASSUME NEW d \in Clients, d # c, job[d].at # "listing"
      PROVE  job'[d] = job[d]
  BY <1>4 DEF Put, MemoryTyped
<1>5. ASSUME NEW d \in Clients, d # c, job[d].at = "listing"
      PROVE  /\ job[d] \in Listing /\ job'[d] \in Listing
             /\ job'[d].rebuild = job[d].rebuild /\ ~job'[d].alone
             /\ job'[d].todo = job[d].todo /\ job'[d].found = job[d].found
             /\ job'[d].steady = IF file = Missing THEN job[d].steady \ {n} ELSE job[d].steady
             /\ job[d].ever \subseteq job'[d].ever
  <2>1. job[d] \in Listing /\ job[d] # Idle
    BY <1>5, JobKinds DEF MemoryTyped, Idle
  <2>2. store[d] # store[c]
    BY <1>1, <2>1
  <2>3. job'[d] = [job[d] EXCEPT !.alone  = @ /\ store[d] = store[c],
                                 !.steady = IF file = Missing THEN @ \ {n} ELSE @,
                                 !.ever   = IF file = Missing THEN @ ELSE @ \cup {n}]
    BY <1>5 DEF Put
  <2> DEFINE kept == IF file = Missing THEN job[d].steady \ {n} ELSE job[d].steady
             shown == IF file = Missing THEN job[d].ever ELSE job[d].ever \cup {n}
  <2>4. kept \in SUBSET Names /\ shown \in SUBSET Names /\ job[d].ever \subseteq shown
    BY <2>1 DEF Listing
  <2>5. (job[d].alone /\ store[d] = store[c]) = FALSE
    BY <2>2
  <2>6. job'[d] = [job[d] EXCEPT !.alone = FALSE, !.steady = kept, !.ever = shown]
    BY <2>3, <2>5, Zenon
  <2> HIDE DEF kept, shown
  <2>7. job'[d] \in Listing
    BY <2>1, <2>4, <2>6 DEF Listing
  <2>8. /\ ~job'[d].alone /\ job'[d].steady = kept /\ job'[d].ever = shown
        /\ job'[d].rebuild = job[d].rebuild /\ job'[d].todo = job[d].todo
        /\ job'[d].found = job[d].found
    BY <2>1, <2>6 DEF Listing
  <2> QED
    BY <2>1, <2>4, <2>7, <2>8 DEF kept
<1>6. MemoryTyped'
  <2>1. \A d \in Clients : job'[d] \in {Idle} \cup Changing \cup Listing
    <3> SUFFICES ASSUME NEW d \in Clients
                 PROVE  job'[d] \in {Idle} \cup Changing \cup Listing
      OBVIOUS
    <3>1. CASE d = c
      <4>1. [at |-> "changed", rebuild |-> TRUE] \in Changing
        BY DEF Changing
      <4> QED
        BY <1>3, <3>1, <4>1
    <3>2. CASE d # c /\ job[d].at = "listing"
      BY <1>5, <3>2
    <3>3. CASE d # c /\ job[d].at # "listing"
      BY <1>4, <3>3 DEF MemoryTyped
    <3> QED
      BY <3>1, <3>2, <3>3
  <2>2. job' \in [Clients -> {Idle} \cup Changing \cup Listing]
    BY <2>1 DEF Put
  <2>3. files' = [m \in Names |-> files'[m]]
    BY <1>2 DEF MemoryTyped
  <2> QED
    BY <2>2, <2>3 DEF MemoryTyped
<1>7. \A d \in Clients : d # c => (job'[d] = Idle <=> job[d] = Idle)
  <2> SUFFICES ASSUME NEW d \in Clients, d # c PROVE job'[d] = Idle <=> job[d] = Idle
    OBVIOUS
  <2>1. CASE job[d].at = "listing"
    BY <1>5, <2>1, JobKinds DEF Idle
  <2> QED
    BY <1>4, <2>1
<1>8. OneJob'
  BY <1>1, <1>7 DEF OneJob
<1>9. ListingsKnow'
  <2> SUFFICES ASSUME NEW d \in Clients, job'[d].at = "listing" PROVE Known(d)'
    BY DEF ListingsKnow
  <2>1. d # c /\ job[d].at = "listing"
    BY <1>3, <1>4
  <2>2. Known(d)
    BY <2>1 DEF ListingsKnow
  <2>3. Memories \ {n} \subseteq Memories' /\ (file # Missing /\ n \in Memories => n \in Memories')
    BY <1>2 DEF Memories, Present
  <2>4. job'[d].steady \subseteq Memories'
    BY <1>5, <2>1, <2>2, <2>3 DEF Known
  <2> QED
    BY <1>5, <2>1, <2>2, <2>4 DEF Known
<1>10. IndexKept'
  BY <1>3 DEF IndexKept, Rebuilding, Idle
<1> QED
  BY <1>6, <1>8, <1>9, <1>10

-------------------------------------------------------------------------------
(* The steps of one job.                                                   *)

\* A client's job moves on without a change of the directory.
LEMMA JobMoves ==
  ASSUME MemoryInv, NEW c \in Clients, NEW j \in {Idle} \cup Changing \cup Listing,
         job' = [job EXCEPT ![c] = j], UNCHANGED <<store, files, behind>>,
         j # Idle /\ job[c] = Idle => Free(c),
         j.at = "listing" => Known(c)',
         Rebuilding(c) => Rebuilding(c)'
  PROVE  MemoryInv'
<1> USE DEF MemoryInv
<1>1. job'[c] = j /\ \A d \in Clients : d # c => job'[d] = job[d]
  BY DEF MemoryTyped
<1>2. MemoryTyped'
  BY DEF MemoryTyped
<1>3. OneJob'
  <2> SUFFICES ASSUME NEW d \in Clients, NEW e \in Clients, store[d] = store[e],
                      job'[d] # Idle, job'[e] # Idle
               PROVE  d = e
    BY DEF OneJob
  <2>1. CASE job[c] = Idle /\ j # Idle
    <3>1. ASSUME NEW b \in Clients, store[b] = store[c] PROVE job[b] = Idle
      BY <2>1, <3>1 DEF Free, Busy
    <3> QED
      BY <1>1, <2>1, <3>1 DEF OneJob
  <2>2. CASE job[c] # Idle \/ j = Idle
    BY <1>1, <2>2 DEF OneJob
  <2> QED
    BY <2>1, <2>2
<1>4. ListingsKnow'
  <2> SUFFICES ASSUME NEW d \in Clients, job'[d].at = "listing" PROVE Known(d)'
    BY DEF ListingsKnow
  <2>1. CASE d = c
    BY <1>1, <2>1
  <2>2. CASE d # c
    BY <1>1, <2>2 DEF ListingsKnow, Known, Memories, Present
  <2> QED
    BY <2>1, <2>2
<1>5. IndexKept'
  <2> SUFFICES ASSUME ~behind, \A d \in Clients : ~Rebuilding(d)' PROVE Fresh
    BY DEF IndexKept, Fresh, Memories, Present
  <2>1. \A d \in Clients : ~Rebuilding(d)
    BY <1>1 DEF Rebuilding
  <2> QED
    BY <2>1 DEF IndexKept
<1> QED
  BY <1>2, <1>3, <1>4, <1>5

LEMMA StartListKeeps ==
  ASSUME MemoryInv, NEW c \in Clients, StartList(c) PROVE MemoryInv'
<1> DEFINE j == [at |-> "changed", rebuild |-> FALSE]
<1>1. j \in Changing /\ j.at # "listing"
  BY DEF Changing
<1>2. ~Rebuilding(c)
  BY DEF StartList, Free, Busy, Rebuilding
<1> QED
  BY <1>1, <1>2, JobMoves DEF StartList

LEMMA GlobKeeps ==
  ASSUME MemoryInv, NEW c \in Clients, Glob(c) PROVE MemoryInv'
<1> DEFINE j == [at |-> "listing", rebuild |-> job[c].rebuild, todo |-> Memories,
                 found |-> {}, alone |-> TRUE, steady |-> Memories, ever |-> Memories]
<1>1. job[c] \in Changing /\ job[c] # Idle
  BY JobKinds DEF Glob, MemoryInv, MemoryTyped, Idle
<1>2. Memories \subseteq Names
  BY DEF Memories, Present
<1>3. j \in Listing
  BY <1>1, <1>2 DEF Changing, Listing
<1>4. job' = [job EXCEPT ![c] = j] /\ job'[c] = j /\ UNCHANGED <<store, files, behind>>
  BY DEF Glob, MemoryInv, MemoryTyped
<1>5. Known(c)'
  BY <1>4 DEF Known, Memories, Present
<1>6. Rebuilding(c) => Rebuilding(c)'
  BY <1>3, <1>4, JobKinds DEF Rebuilding, Idle
<1> QED
  BY <1>1, <1>3, <1>4, <1>5, <1>6, JobMoves

LEMMA LoadNextKeeps ==
  ASSUME MemoryInv, NEW c \in Clients, LoadNext(c) PROVE MemoryInv'
<1>1. job[c] \in Listing /\ job[c] # Idle /\ Known(c)
  BY JobKinds DEF LoadNext, MemoryInv, MemoryTyped, ListingsKnow, Idle
<1>2. PICK n \in job[c].todo :
        job' = [job EXCEPT ![c].todo  = @ \ {n},
                           ![c].found = IF files[n] = Missing THEN @ ELSE @ \cup {n}]
  BY DEF LoadNext
<1> DEFINE got == IF files[n] = Missing THEN job[c].found ELSE job[c].found \cup {n}
           j == [job[c] EXCEPT !.todo = @ \ {n}, !.found = got]
<1>3. n \in Names /\ got \in SUBSET Names
  BY <1>1 DEF Listing
<1>4. /\ job' = [job EXCEPT ![c] = j] /\ job'[c] = j
      /\ UNCHANGED <<store, files, behind>>
  BY <1>1, <1>2 DEF LoadNext, MemoryInv, MemoryTyped
<1> HIDE DEF got
<1>5. /\ j \in Listing /\ j.at = "listing" /\ j # Idle
      /\ j.rebuild = job[c].rebuild /\ j.alone = job[c].alone /\ j.ever = job[c].ever
      /\ j.steady = job[c].steady /\ j.found = got /\ j.todo = job[c].todo \ {n}
  <2>1. j \in Listing
    BY <1>1, <1>3 DEF Listing
  <2> QED
    BY <1>1, <2>1, JobKinds DEF Listing, Idle
<1> HIDE DEF j
<1>6. Known(c)'
  <2>1. files[n] = Missing => n \notin Memories
    BY DEF Memories, Present
  <2>2. got \cup (job[c].todo \ {n}) \subseteq job[c].found \cup job[c].todo
    BY DEF got
  <2>3. job[c].found \cup job[c].todo \subseteq Memories
           => got \cup (job[c].todo \ {n}) = job[c].found \cup job[c].todo
    BY <2>1 DEF got
  <2>4. job[c].steady \subseteq got \cup (job[c].todo \ {n})
    BY <1>1, <2>1 DEF got, Known
  <2>5. Memories' = Memories
    BY <1>4 DEF Memories, Present
  <2> QED
    BY <1>1, <1>4, <1>5, <2>2, <2>3, <2>4, <2>5 DEF Known
<1>7. Rebuilding(c) => Rebuilding(c)'
  BY <1>4, <1>5 DEF Rebuilding
<1> QED
  BY <1>1, <1>4, <1>5, <1>6, <1>7, JobMoves

LEMMA ReturnListKeeps ==
  ASSUME MemoryInv, NEW c \in Clients, ReturnList(c) PROVE MemoryInv'
<1>1. Idle.at # "listing" /\ ~Rebuilding(c)
  BY DEF ReturnList, Rebuilding, Idle
<1> QED
  BY <1>1, JobMoves DEF ReturnList

\* The index is written from what was found; if another store changed the directory
\* meanwhile, the index is known to be behind.
LEMMA WriteIndexKeeps ==
  ASSUME MemoryInv, NEW c \in Clients, WriteIndex(c) PROVE MemoryInv'
<1> USE DEF MemoryInv
<1>1. job[c] \in Listing /\ job[c] # Idle /\ Known(c) /\ job[c].todo = {}
  BY JobKinds DEF WriteIndex, MemoryTyped, ListingsKnow, Idle
<1>2. /\ files'[IndexName] = Index(job[c].found)
      /\ \A n \in Names \ {IndexName} : files'[n] = files[n]
      /\ files' = [n \in Names |-> files'[n]]
  BY MemoryAssumption DEF WriteIndex, MemoryTyped
<1>3. Memories' = Memories
  BY <1>2 DEF Memories, Present
<1>4. job'[c] = Idle /\ \A d \in Clients : d # c => job'[d] = job[d]
  BY DEF WriteIndex, MemoryTyped
<1>5. MemoryTyped'
  <2>1. behind' \in BOOLEAN
    BY <1>1 DEF WriteIndex
  <2> QED
    BY <1>2, <2>1 DEF WriteIndex, MemoryTyped
<1>6. OneJob'
  BY <1>4 DEF OneJob, WriteIndex
<1>7. ListingsKnow'
  <2> SUFFICES ASSUME NEW d \in Clients, job'[d].at = "listing" PROVE Known(d)'
    BY DEF ListingsKnow
  <2>1. d # c
    BY <1>4 DEF Idle
  <2> QED
    BY <1>3, <1>4, <2>1 DEF ListingsKnow, Known
<1>8. IndexKept'
  <2> SUFFICES ASSUME ~behind' PROVE Fresh'
    BY DEF IndexKept
  <2>1. job[c].alone
    BY <1>1 DEF WriteIndex
  <2>2. job[c].found = Memories
    BY <1>1, <2>1 DEF Known
  <2>3. files'[IndexName] = Index(Memories) /\ Index(Memories) # Missing
    BY <1>2, <2>2 DEF Index, Missing
  <2> QED
    BY <1>3, <2>3 DEF Fresh, Index
<1> QED
  BY <1>5, <1>6, <1>7, <1>8

\* A store that dies drops its jobs; one that was to write the index leaves it behind.
LEMMA CrashKeeps ==
  ASSUME MemoryInv, NEW s \in Stores, Crash(s) PROVE MemoryInv'
<1> USE DEF MemoryInv
<1>1. \A d \in Clients : job'[d] = IF store[d] = s THEN Idle ELSE job[d]
  BY DEF Crash
<1>2. Memories' = Memories
  BY DEF Crash, Memories, Present
<1>3. MemoryTyped'
  BY DEF Crash, MemoryTyped
<1>4. OneJob'
  BY <1>1 DEF OneJob, Crash
<1>5. ListingsKnow'
  <2> SUFFICES ASSUME NEW d \in Clients, job'[d].at = "listing" PROVE Known(d)'
    BY DEF ListingsKnow
  <2>1. job'[d] = job[d]
    BY <1>1 DEF Idle
  <2> QED
    BY <1>2, <2>1 DEF ListingsKnow, Known
<1>6. IndexKept'
  <2> SUFFICES ASSUME ~behind', \A d \in Clients : ~Rebuilding(d)' PROVE Fresh'
    BY DEF IndexKept
  <2>1. ~behind /\ \A d \in Busy(s) : ~job[d].rebuild
    BY DEF Crash
  <2>2. \A d \in Clients : ~Rebuilding(d)
    BY <1>1, <2>1 DEF Busy, Rebuilding
  <2> QED
    BY <1>2, <2>1, <2>2 DEF IndexKept, Fresh, Crash
<1> QED
  BY <1>3, <1>4, <1>5, <1>6

-------------------------------------------------------------------------------

\* A call that changes no job and no file changes nothing the invariant is about.
LEMMA ReplyKeeps ==
  ASSUME MemoryInv, UNCHANGED <<store, files, job, behind>> PROVE MemoryInv'
BY DEF MemoryInv, MemoryTyped, OneJob, ListingsKnow, Known, IndexKept, Rebuilding, Fresh,
       Memories, Present

LEMMA CallKeeps ==
  ASSUME MemoryInv, NEW c \in Clients, NEW call \in Calls,
         Remember(c, call) \/ Forget(c, call) \/ Recall(c, call) \/ Rejected(c, call)
  PROVE  MemoryInv'
<1>1. CASE Remember(c, call)
  <2> DEFINE note == Note(IF call.type = "" THEN "user" ELSE call.type, call.text)
  <2>1. call.name \in Names
    <3>1. call.action \in {"remember", "forget"} /\ Refusal(call) = "none"
      BY <1>1 DEF Remember
    <3> QED
      BY <3>1, NamedCalls
  <2>2. note.kind # "missing"
    BY DEF Note
  <2>3. Put(call.name, note, c) /\ Free(c) /\ UNCHANGED <<store, behind>>
    BY <1>1 DEF Remember
  <2> QED
    BY <2>1, <2>2, <2>3, PutKeeps
<1>2. CASE Forget(c, call)
  <2>1. call.name \in Names
    <3>1. call.action \in {"remember", "forget"} /\ Refusal(call) = "none"
      BY <1>2 DEF Forget
    <3> QED
      BY <3>1, NamedCalls
  <2>2. CASE files[call.name] = Missing
    BY <1>2, <2>2, ReplyKeeps DEF Forget, Return
  <2>3. CASE files[call.name] # Missing
    BY <1>2, <2>1, <2>3, PutKeeps DEF Forget
  <2> QED
    BY <2>2, <2>3
<1>3. CASE Recall(c, call) \/ Rejected(c, call)
  BY <1>3, ReplyKeeps DEF Recall, Rejected, Return
<1> QED
  BY <1>1, <1>2, <1>3

LEMMA MemorySteps == MemoryInv /\ [MemoryNext]_memoryVars => MemoryInv'
<1> SUFFICES ASSUME MemoryInv, [MemoryNext]_memoryVars PROVE MemoryInv'
  OBVIOUS
<1>1. CASE UNCHANGED memoryVars
  BY <1>1, ReplyKeeps DEF memoryVars
<1>2. CASE \E c \in Clients, call \in Calls :
             Remember(c, call) \/ Forget(c, call) \/ Recall(c, call) \/ Rejected(c, call)
  BY <1>2, CallKeeps
<1>3. CASE \E c \in Clients :
             StartList(c) \/ Glob(c) \/ LoadNext(c) \/ ReturnList(c) \/ WriteIndex(c)
  BY <1>3, StartListKeeps, GlobKeeps, LoadNextKeeps, ReturnListKeeps, WriteIndexKeeps
<1>4. CASE \E s \in Stores : Crash(s)
  BY <1>4, CrashKeeps
<1> QED
  BY <1>1, <1>2, <1>3, <1>4 DEF MemoryNext

LEMMA MemoryAlways == MemorySpec => []MemoryInv
<1> QED
  BY MemoryStarts, MemorySteps, PTL DEF MemorySpec

-------------------------------------------------------------------------------

\* At rest the index lists the memories, unless a store died on the way to it or it was
\* written from a listing another store disturbed (MemoryStore._rebuild_index).
THEOREM IndexAgrees == MemorySpec => []IndexMatches
<1>1. MemoryInv => IndexMatches
  BY DEF MemoryInv, IndexKept, Rebuilding, Fresh, IndexMatches
<1> QED
  BY <1>1, MemoryAlways, PTL

\* However files come and go, a finished listing has all that stayed and nothing that
\* never was (MemoryStore.list).
THEOREM ListingsAreHonest == MemorySpec => []ListingIsHonest
<1>1. MemoryInv => ListingIsHonest
  BY DEF MemoryInv, ListingsKnow, Known, ListingIsHonest
<1> QED
  BY <1>1, MemoryAlways, PTL

-------------------------------------------------------------------------------
(* Reading behind a cut.                                                   *)

\* A set of numbers has a least one.
LEMMA LeastElement ==
  ASSUME NEW T \in SUBSET Nat, T # {}
  PROVE  \E x \in T : \A y \in T : x <= y
<1>1. IsWellFoundedOn(OpToRel(<, Nat), Nat)
  BY NatLessThanWellFounded
<1>2. PICK x \in T : \A y \in T : ~ (<<y, x>> \in OpToRel(<, Nat))
  BY <1>1, WFMin
<1>3. \A y \in T : ~(y < x)
  BY <1>2 DEF OpToRel
<1> QED
  BY <1>3

\* The greatest of some numbers up to a bound.
LEMMA GreatestElement ==
  ASSUME NEW b \in Nat, NEW T \in SUBSET (1..b), T # {}
  PROVE  Max(T) \in T
<1> DEFINE above == {b - x : x \in T}
<1>1. above \in SUBSET Nat /\ above # {}
  <2>1. \A x \in T : b - x \in Nat
    OBVIOUS
  <2> QED
    BY <2>1
<1>2. PICK d \in above : \A y \in above : d <= y
  BY <1>1, LeastElement
<1>3. PICK x \in T : d = b - x
  OBVIOUS
<1>4. \A y \in T : x >= y
  <2> TAKE y \in T
  <2>1. b - x <= b - y
    BY <1>2, <1>3
  <2> QED
    BY <2>1
<1> QED
  BY <1>4 DEF Max

\* How many positions of a text have some property is a number.
LEMMA Counted ==
  ASSUME NEW n \in Nat, NEW T \in SUBSET (1..n)
  PROVE  Cardinality(T) \in Nat
<1>1. IsFiniteSet(1..n)
  BY FS_Interval
<1>2. IsFiniteSet(T)
  BY <1>1, FS_Subset
<1> QED
  BY <1>2, FS_CardinalityType

\* The counts of a text.
LEMMA TextCounts ==
  ASSUME NEW S, NEW s \in Seq(S)
  PROVE  Newlines(s) \in Nat /\ Wide(s) \in Nat
<1>0. Len(s) \in Nat
  OBVIOUS
<1>1. ASSUME NEW T \in SUBSET (1..Len(s)) PROVE Cardinality(T) \in Nat
  BY <1>0, Counted
<1> QED
  BY <1>0, <1>1 DEF Newlines, Wide

\* A page asked for is the rest of the text from somewhere on.
LEMMA RequestedIsText ==
  ASSUME NEW S, NEW s \in Seq(S), NEW n
  PROVE  Requested(s, n) \in Seq(S)
<1> DEFINE starts == {i \in 1..Len(s) : Newlines(SubSeq(s, 1, i - 1)) >= n - 1} \cup {Len(s) + 1}
<1>1. starts \in SUBSET Nat /\ starts # {} /\ \A i \in starts : i \in 1..(Len(s) + 1)
  OBVIOUS
<1> HIDE DEF starts
<1>2. Min(starts) \in starts
  BY <1>1, LeastElement DEF Min
<1>3. LineStart(s, n) \in 1..(Len(s) + 1)
  BY <1>1, <1>2 DEF LineStart, starts
<1> QED
  BY <1>3 DEF Requested

\* What a budget keeps of a content is a prefix of it.
LEMMA CutIsPrefix ==
  ASSUME NEW S, NEW content \in Seq(S), NEW budget \in Nat
  PROVE  ClipAtLine(content, budget) \in 0..Len(content)
<1> DEFINE ends == {i \in 2..budget : content[i] = "nl"}
<1>1. CASE Len(content) <= budget
  BY <1>1 DEF ClipAtLine
<1>2. CASE Len(content) > budget /\ ends = {}
  BY <1>2 DEF ClipAtLine
<1>3. CASE Len(content) > budget /\ ends # {}
  <2>1. Max(ends) \in ends
    BY <1>3, GreatestElement, ends \in SUBSET (1..budget)
  <2>2. ClipAtLine(content, budget) = Max(ends) - 1
    BY <1>3 DEF ClipAtLine
  <2> QED
    BY <1>3, <2>1, <2>2
<1> QED
  BY <1>1, <1>2, <1>3

\* Whole pages aside, a page is a prefix, and the lines it reports are counted on it.
Honest(content, pg) ==
  pg.kind = "head" =>
    /\ content # <<>> /\ pg.shown \in 0..Len(content)
    /\ pg.lines = HeadLines(content, pg.shown)
    /\ pg.next \in Nat \ {0}

\* A reported count is a number.
LEMMA HeadLinesCount ==
  ASSUME NEW S, NEW content \in Seq(S), NEW n \in 0..Len(content)
  PROVE  HeadLines(content, n) \in Nat
<1>1. SubSeq(content, 1, n) \in Seq(S)
  OBVIOUS
<1>2. Newlines(SubSeq(content, 1, n)) \in Nat
  BY <1>1, TextCounts
<1> QED
  BY <1>2 DEF HeadLines

\* A cut at any place of the content is honest, and so is what clip_result() gives.
LEMMA CutIsHonest ==
  ASSUME NEW S, NEW content \in Seq(S), content # <<>>, NEW n \in 0..Len(content), NEW k \in Nat \ {0}
  PROVE  Honest(content, CutAt(content, n, k))
BY DEF Honest, CutAt

LEMMA ClipIsHonest ==
  ASSUME NEW S, NEW content \in Seq(S), NEW c \in Nat \ {0}
  PROVE  Honest(content, Clip(content, c))
<1> DEFINE first == ClipAtLine(content, Budget(c))
           hint  == HeadLines(content, first) + 1
           given == first + (IF first < Len(content) THEN Marker ELSE 0)
           ratio == (given * c * 100) \div (Size(content, first) * 105)
<1> USE ReadingAssumption DEF ReadingAssumption
<1>1. Budget(c) \in Nat \ {0}
  <2>1. CASE c <= Overhead
    BY <2>1 DEF Budget
  <2>2. CASE c > Overhead
    <3> DEFINE b == ((c - Overhead) * 10) \div 11
    <3>1. b \in Nat
      BY <2>2
    <3> HIDE DEF b
    <3>2. Max({b, 1}) \in {b, 1} /\ Max({b, 1}) >= 1
      <4>1. \E x \in {b, 1} : \A y \in {b, 1} : x >= y
        <5>1. CASE b >= 1
          BY <3>1, <5>1
        <5>2. CASE ~ (b >= 1)
          BY <3>1, <5>2
        <5> QED
          BY <5>1, <5>2
      <4> QED
        BY <4>1 DEF Max
    <3>3. Budget(c) = Max({b, 1})
      BY <2>2 DEF Budget, b
    <3> QED
      BY <3>1, <3>2, <3>3
  <2> QED
    BY <2>1, <2>2
<1>2. first \in 0..Len(content) /\ hint \in Nat \ {0}
  <2>1. first \in 0..Len(content)
    BY <1>1, CutIsPrefix
  <2> HIDE DEF first
  <2>2. HeadLines(content, first) \in Nat
    BY <2>1, HeadLinesCount
  <2> QED
    BY <2>1, <2>2
<1>3. Size(content, first) \in Nat
  <2>1. SubSeq(content, 1, first) \in Seq(S)
    BY <1>2
  <2>2. Wide(SubSeq(content, 1, first)) \in Nat
    BY <2>1, TextCounts
  <2> QED
    BY <1>2, <2>2 DEF Size
<1>4. CASE Envelope + Wide(content) <= c
  <2>1. Clip(content, c) = Uncut(content)
    BY <1>4 DEF Clip
  <2> QED
    BY <2>1 DEF Honest, Uncut
<1>5. CASE ~ (Envelope + Wide(content) <= c) /\ Len(content) <= Budget(c)
  <2>1. Clip(content, c) = Garbled(content)
    BY <1>5 DEF Clip
  <2> QED
    BY <2>1 DEF Honest, Garbled
<1>6. ASSUME ~ (Envelope + Wide(content) <= c), ~ (Len(content) <= Budget(c))
      PROVE  Honest(content, Clip(content, c))
  <2>1. content # <<>>
    BY <1>1, <1>6
  <2>2. CASE Size(content, first) <= c
    <3>1. Clip(content, c) = CutAt(content, first, hint)
      BY <1>6, <2>2 DEF Clip
    <3> HIDE DEF first, hint
    <3> QED
      BY <1>2, <2>1, <3>1, CutIsHonest
  <2>3. CASE ~ (Size(content, first) <= c)
    <3>1. Clip(content, c) = CutAt(content, ClipAtLine(content, ratio), hint)
      BY <1>6, <2>3 DEF Clip
    <3>2. ratio \in Nat
      <4> HIDE DEF first
      <4>1. given \in Nat
        BY <1>2
      <4> HIDE DEF given
      <4>2. given * c \in Nat
        BY <4>1
      <4>3. Size(content, first) * 105 \in Nat \ {0}
        BY <1>3, <2>3
      <4> QED
        BY <4>2, <4>3
    <3> HIDE DEF ratio, hint
    <3>3. ClipAtLine(content, ratio) \in 0..Len(content)
      BY <3>2, CutIsPrefix
    <3> QED
      BY <1>2, <2>1, <3>1, <3>3, CutIsHonest
  <2> QED
    BY <2>2, <2>3
<1> QED
  BY <1>4, <1>5, <1>6

\* The lines a page reports are lines it gave whole, unless it stops inside one.
LEMMA ReportedIsGiven ==
  ASSUME NEW S, NEW content \in Seq(S), content # <<>>, NEW n \in 0..Len(content),
         ~Inside(content, n)
  PROVE  1..HeadLines(content, n) \subseteq WholeLines(content, n)
<1> DEFINE within == Newlines(SubSeq(content, 1, n))
<1>0. within \in Nat
  <2>1. SubSeq(content, 1, n) \in Seq(S)
    OBVIOUS
  <2> QED
    BY <2>1, TextCounts
<1>1. CASE n = Len(content)
  <2>1. SubSeq(content, 1, n) = content
    BY <1>1
  <2>2. n > 0 /\ Last(content) = content[n]
    BY <1>1 DEF Last
  <2>3. LineCount(content) = within + (IF content[n] = "nl" THEN 0 ELSE 1)
    BY <2>1, <2>2 DEF LineCount
  <2>4. HeadLines(content, n) = LineCount(content)
    BY <2>2, <2>3 DEF HeadLines
  <2>5. WholeLines(content, n) = 1..(within + (LineCount(content) - within))
    BY <1>1 DEF WholeLines
  <2> HIDE DEF within
  <2> QED
    BY <1>0, <2>3, <2>4, <2>5
<1>2. CASE n < Len(content)
  <2>1. n > 0 /\ (content[n] = "nl" \/ content[n + 1] = "nl")
    BY <1>2 DEF Inside
  <2>2. WholeLines(content, n) = 1..(within + IF content[n + 1] = "nl" THEN 1 ELSE 0)
    BY <1>2 DEF WholeLines
  <2>3. HeadLines(content, n) = within + (IF content[n] = "nl" THEN 0 ELSE 1)
    BY <2>1 DEF HeadLines
  <2> HIDE DEF within
  <2> QED
    BY <1>0, <2>1, <2>2, <2>3
<1> QED
  BY <1>1, <1>2

\* A reader that goes by the count has been given all lines before the one it asks for,
\* and, with a cut page in hand, those the page reports.
Paged ==
  /\ text \in Seq(Char) /\ cap \in Nat \ {0} /\ at \in Nat \ {0}
  /\ page.kind = "head" => page.lines \in Nat /\ page.next \in Nat \ {0}
  /\ by = "count" /\ ~torn =>
       /\ 1..at - 1 \subseteq seen
       /\ page.kind = "head" => 1..at - 1 + page.lines \subseteq seen

LEMMA PagedInit == ReadInit => Paged
<1> SUFFICES ASSUME ReadInit PROVE Paged
  OBVIOUS
<1>1. text \in Seq(Char)
  BY ReadingAssumption DEF ReadInit, ReadingAssumption
<1>2. cap \in Nat \ {0}
  BY ReadingAssumption DEF ReadInit, ReadingAssumption, ResolveCap
<1> QED
  BY <1>1, <1>2 DEF ReadInit, Paged, Unread

LEMMA PagedNext == Paged /\ [Read \/ Continue]_readVars => Paged'
<1> SUFFICES ASSUME Paged, [Read \/ Continue]_readVars PROVE Paged'
  OBVIOUS
<1>1. CASE Read
  <2> DEFINE content == Requested(text, at)
  <2>1. /\ page' = Clip(content, cap)
        /\ seen' = seen \cup {at - 1 + k : k \in WholeLines(content, page'.shown)}
        /\ torn' = (torn \/ (page'.kind = "head" /\ Inside(content, page'.shown)))
        /\ UNCHANGED <<text, cap, by, at>>
    BY <1>1 DEF Read
  <2>2. content \in Seq(Char)
    BY RequestedIsText DEF Paged
  <2> HIDE DEF content
  <2>3. Honest(content, page')
    BY <2>1, <2>2, ClipIsHonest DEF Paged
  <2>4. page'.kind = "head" => page'.lines \in Nat /\ page'.next \in Nat \ {0}
    BY <2>2, <2>3, HeadLinesCount DEF Honest
  <2>5. ASSUME by = "count", ~torn', page'.kind = "head"
        PROVE  1..at - 1 + page'.lines \subseteq seen'
    <3>1. 1..page'.lines \subseteq WholeLines(content, page'.shown)
      BY <2>1, <2>2, <2>3, <2>5, ReportedIsGiven DEF Honest
    <3>2. 1..at - 1 \subseteq seen /\ at \in Nat \ {0} /\ page'.lines \in Nat
      BY <2>1, <2>4, <2>5 DEF Paged
    <3> SUFFICES ASSUME NEW i \in 1..at - 1 + page'.lines PROVE i \in seen'
      OBVIOUS
    <3>3. CASE i \in 1..at - 1
      BY <2>1, <3>2, <3>3
    <3>4. CASE i \notin 1..at - 1
      <4>1. i - (at - 1) \in 1..page'.lines /\ i = at - 1 + (i - (at - 1))
        BY <3>2, <3>4
      <4> QED
        BY <2>1, <3>1, <4>1
    <3> QED
      BY <3>3, <3>4
  <2> QED
    BY <2>1, <2>4, <2>5 DEF Paged
<1>2. CASE Continue
  <2>1. /\ page.kind = "head" /\ page' = Unread /\ UNCHANGED <<text, cap, by, seen, torn>>
        /\ at' = IF by = "count" THEN at + page.lines ELSE page.next
    BY <1>2 DEF Continue
  <2>2. page'.kind # "head"
    BY <2>1 DEF Unread
  <2>3. at' \in Nat \ {0}
    BY <2>1 DEF Paged
  <2>4. by = "count" => at' - 1 = at - 1 + page.lines
    BY <2>1 DEF Paged
  <2> QED
    BY <2>1, <2>2, <2>3, <2>4 DEF Paged
<1>3. CASE UNCHANGED readVars
  BY <1>3 DEF readVars, Paged
<1> QED
  BY <1>1, <1>2, <1>3

\* Whatever the text, the cap and the price of its characters in JSON, a reader that goes
\* on behind the lines a page reports misses none, unless a page stops inside a line
\* (truncation.py, _truncate_envelope and _write_head).
THEOREM NothingSkipped == ReadSpec => []NoLineSkipped
<1>1. Paged => NoLineSkipped
  BY DEF Paged, NoLineSkipped
<1> QED
  BY <1>1, PagedInit, PagedNext, PTL DEF ReadSpec

-------------------------------------------------------------------------------
(* A declaration and its calls.                                            *)

\* The elements of a sequence, and of what is behind its first g.
LEMMA Elements ==
  ASSUME NEW S, NEW s \in Seq(S), NEW g \in 0..Len(s)
  PROVE  ToSet(SubSeq(s, g + 1, Len(s))) = {s[i] : i \in g + 1..Len(s)}
<1> DEFINE r == SubSeq(s, g + 1, Len(s))
<1>1. r \in Seq(S) /\ Len(r) = Len(s) - g /\ \A k \in 1..Len(s) - g : r[k] = s[g + k]
  OBVIOUS
<1> HIDE DEF r
<1>2. DOMAIN r = 1..Len(s) - g
  BY <1>1
<1>3. ASSUME NEW i \in g + 1..Len(s) PROVE \E k \in DOMAIN r : r[k] = s[i]
  <2>1. i - g \in 1..Len(s) - g /\ g + (i - g) = i
    OBVIOUS
  <2> QED
    BY <1>1, <1>2, <2>1
<1>4. ASSUME NEW k \in DOMAIN r PROVE \E i \in g + 1..Len(s) : r[k] = s[i]
  <2>1. g + k \in g + 1..Len(s)
    BY <1>2
  <2> QED
    BY <1>1, <1>2, <2>1
<1>5. ToSet(r) = {s[i] : i \in g + 1..Len(s)}
  BY <1>3, <1>4 DEF ToSet
<1> QED
  BY <1>5 DEF r

\* What is behind the first.
LEMMA TailElements ==
  ASSUME NEW S, NEW s \in Seq(S), s # <<>>
  PROVE  /\ Tail(s) = SubSeq(s, 2, Len(s)) /\ Tail(s) \in Seq(S) /\ Len(Tail(s)) = Len(s) - 1
         /\ \A i \in 1..Len(s) - 1 : Tail(s)[i] = s[i + 1]
OBVIOUS

\* The parameters of the schema are what is behind the positions that are given.
LEMMA Remainder ==
  ASSUME NEW a, Declarable(a), ~Unfit(a)
  PROVE  /\ Given(a) \in 0..Len(a.signature)
         /\ SchemaParameters(a) =
              {p \in ToSet(SubSeq(a.signature, Given(a) + 1, Len(a.signature))) : ~Collects(p)}
         /\ \A i \in 1..Given(a) : Positional(a.signature[i])
<1> DEFINE sig == a.signature
           S == ToSet(sig)
<1>1. sig \in Seq(S) /\ a.inject \in BOOLEAN /\ a.bound \in BOOLEAN
  BY DEF Declarable
<1>2. a.inject => Own(sig) # <<>> /\ Positional(Own(sig)[1])
  BY DEF Unfit
<1>3. Own(sig) = IF a.bound THEN Tail(sig) ELSE sig
  BY DEF Own, Declarable
<1>4. a.bound => sig # <<>> /\ Positional(sig[1])
  BY DEF Declarable
<1>5. SchemaParameters(a) =
        {p \in ToSet(IF a.inject THEN Tail(Own(sig)) ELSE Own(sig)) : ~Collects(p)}
  BY DEF SchemaParameters
<1> HIDE DEF S
<1>6. Len(sig) \in Nat /\ SubSeq(sig, 1, Len(sig)) = sig
  BY <1>1
<1>7. CASE ~a.bound /\ ~a.inject
  <2>1. Given(a) = 0
    BY <1>7 DEF Given
  <2>2. SchemaParameters(a) = {p \in ToSet(SubSeq(sig, 0 + 1, Len(sig))) : ~Collects(p)}
    <3>1. SchemaParameters(a) = {p \in ToSet(sig) : ~Collects(p)}
      BY <1>3, <1>5, <1>7
    <3>2. SubSeq(sig, 0 + 1, Len(sig)) = sig
      BY <1>6
    <3> QED
      BY <3>1, <3>2
  <2> QED
    BY <1>6, <2>1, <2>2
<1>8. CASE a.bound /\ ~a.inject
  <2>1. Given(a) = 1
    BY <1>8 DEF Given
  <2>2. Tail(sig) = SubSeq(sig, 2, Len(sig)) /\ Len(sig) >= 1
    BY <1>1, <1>4, <1>8
  <2>3. SchemaParameters(a) = {p \in ToSet(SubSeq(sig, 2, Len(sig))) : ~Collects(p)}
    BY <1>3, <1>5, <1>8, <2>2
  <2>4. \A i \in 1..1 : Positional(sig[i])
    BY <1>4, <1>8
  <2> QED
    BY <1>6, <2>1, <2>2, <2>3, <2>4
<1>9. CASE ~a.bound /\ a.inject
  <2>1. Given(a) = 1
    BY <1>9 DEF Given
  <2>2. Tail(sig) = SubSeq(sig, 2, Len(sig)) /\ Len(sig) >= 1
    BY <1>1, <1>2, <1>3, <1>9
  <2>3. SchemaParameters(a) = {p \in ToSet(SubSeq(sig, 2, Len(sig))) : ~Collects(p)}
    BY <1>3, <1>5, <1>9, <2>2
  <2>4. \A i \in 1..1 : Positional(sig[i])
    BY <1>2, <1>3, <1>9
  <2> QED
    BY <1>6, <2>1, <2>2, <2>3, <2>4
<1>10. CASE a.bound /\ a.inject
  <2>1. Given(a) = 2
    BY <1>10 DEF Given
  <2>2. sig # <<>> /\ Tail(sig) # <<>> /\ Positional(sig[1]) /\ Positional(Tail(sig)[1])
    BY <1>2, <1>3, <1>4, <1>10
  <2>3. /\ Len(sig) >= 2 /\ Tail(sig)[1] = sig[2]
        /\ Tail(Tail(sig)) = SubSeq(sig, 3, Len(sig))
    <3>1. /\ Tail(sig) \in Seq(S) /\ Len(Tail(sig)) = Len(sig) - 1
          /\ \A i \in 1..Len(sig) - 1 : Tail(sig)[i] = sig[i + 1]
      BY <1>1, <2>2, TailElements
    <3>2. /\ Tail(Tail(sig)) \in Seq(S) /\ Len(Tail(Tail(sig))) = Len(sig) - 2
          /\ \A i \in 1..Len(sig) - 2 : Tail(Tail(sig))[i] = Tail(sig)[i + 1]
      <4> DEFINE t == Tail(sig)
      <4> HIDE DEF t
      <4>1. t \in Seq(S) /\ t # <<>> /\ Len(t) = Len(sig) - 1
        BY <2>2, <3>1 DEF t
      <4>2. /\ Tail(t) \in Seq(S) /\ Len(Tail(t)) = Len(t) - 1
            /\ \A i \in 1..Len(t) - 1 : Tail(t)[i] = t[i + 1]
        BY <4>1, TailElements
      <4>3. Len(t) - 1 = Len(sig) - 2
        BY <1>6, <4>1
      <4> QED
        BY <4>2, <4>3 DEF t
    <3>3. Len(sig) >= 2 /\ Tail(sig)[1] = sig[2]
      BY <1>6, <2>2, <3>1
    <3>4. /\ SubSeq(sig, 3, Len(sig)) \in Seq(S) /\ Len(SubSeq(sig, 3, Len(sig))) = Len(sig) - 2
          /\ \A i \in 1..Len(sig) - 2 : SubSeq(sig, 3, Len(sig))[i] = sig[i + 2]
      BY <1>1, <3>3
    <3>5. ASSUME NEW i \in 1..Len(sig) - 2
          PROVE  Tail(Tail(sig))[i] = SubSeq(sig, 3, Len(sig))[i]
      <4>1. i + 1 \in 1..Len(sig) - 1 /\ (i + 1) + 1 = i + 2
        BY <1>6
      <4> QED
        BY <3>1, <3>2, <3>4, <4>1
    <3> QED
      BY <3>2, <3>3, <3>4, <3>5, SeqEqual
  <2>4. SchemaParameters(a) = {p \in ToSet(SubSeq(sig, 3, Len(sig))) : ~Collects(p)}
    BY <1>3, <1>5, <1>10, <2>3
  <2>5. \A i \in 1..2 : Positional(sig[i])
    BY <2>2, <2>3
  <2> QED
    BY <1>6, <2>1, <2>3, <2>4, <2>5
<1> QED
  BY <1>1, <1>7, <1>8, <1>9, <1>10

\* A tool that was accepted is called in a way its signature takes.
LEMMA AcceptedBinds ==
  ASSUME NEW a, Declarable(a), ~Unfit(a)
  PROVE  Binds(a)
<1> DEFINE sig   == a.signature
           g     == Given(a)
           rest  == ToSet(SubSeq(sig, g + 1, Len(sig)))
           names == {p.name : p \in SchemaParameters(a)}
<1>1. g \in 0..Len(sig) /\ sig \in Seq(ToSet(sig)) /\ Len(sig) \in Nat
  BY Remainder DEF Declarable
<1>2. SchemaParameters(a) = {p \in rest : ~Collects(p)}
  BY Remainder
<1>3. rest = {sig[i] : i \in g + 1..Len(sig)}
  BY <1>1, Elements
<1>4. \A i, j \in 1..Len(sig) : sig[i].name = sig[j].name => i = j
  <2>1. DOMAIN sig = 1..Len(sig)
    BY <1>1
  <2> QED
    BY <2>1 DEF Declarable
<1>5. \A i \in 1..g : Positional(sig[i]) /\ sig[i].name \notin names
  <2> SUFFICES ASSUME NEW i \in 1..g, sig[i].name \in names PROVE FALSE
    BY Remainder
  <2>1. PICK p \in rest : p.name = sig[i].name
    BY <1>2
  <2>2. PICK j \in g + 1..Len(sig) : p = sig[j]
    BY <1>3
  <2>3. i \in 1..Len(sig) /\ j \in 1..Len(sig) /\ i # j
    BY <1>1
  <2> QED
    BY <1>4, <2>1, <2>2, <2>3
<1>6. \A p \in rest : Collects(p) \/ (p.name \in names /\ p.kind # "positional_only")
  BY <1>2 DEF Unfit
<1>7. names \subseteq {p.name : p \in rest}
  BY <1>2
<1>8. Len(sig) >= g
  BY <1>1
<1> QED
  BY <1>5, <1>6, <1>7, <1>8, Zenon DEF Binds


\* What ParameterOf makes of a declaration.
Sane(p) ==
  /\ p.required = (p.default = Omitted)
  /\ p.enum # {} => p.listed
  /\ \A e \in p.enum : e.kind \in JsonKinds \ {"array"}

\* The parameter made of any declaration is.
LEMMA ParameterIsSane == ASSUME NEW a, Declarable(a) PROVE Sane(ParameterOf(a))
BY DEF Declarable, Sane, ParameterOf

\* Neither mark is a JSON value.
LEMMA Kinds == /\ "omitted" \notin JsonKinds /\ "invalid" \notin JsonKinds
               /\ Fails.kind = "invalid" /\ Omitted.kind = "omitted" /\ Null.kind = "null"
BY DEF JsonKinds, Fails, Omitted, Null, Scalar, Value

\* A value of its type goes through the lax conversions as it is.
LEMMA LaxKeeps ==
  ASSUME NEW v, Json(v), NEW type, NEW items, OfType(v, type),
         type = "array" => \A item \in ToSet(v.items) : OfType(item, items)
  PROVE  Lax(v, type, items) = v
<1>1. CASE type # "array"
  BY <1>1 DEF Lax, LaxScalar
<1>2. CASE type = "array"
  <2> DEFINE all == [i \in 1..Len(v.items) |-> LaxScalar(v.items[i], items)]
  <2>1. v.kind = "array" /\ v.n = 0
    BY <1>2 DEF OfType, Json
  <2>2. /\ v.items \in Seq(ToSet(v.items)) /\ DOMAIN v.items = 1..Len(v.items)
        /\ v.items = [i \in 1..Len(v.items) |-> v.items[i]]
    BY DEF Json
  <2>3. ASSUME NEW i \in 1..Len(v.items)
        PROVE  LaxScalar(v.items[i], items) = v.items[i] /\ v.items[i] # Fails
    <3>1. v.items[i] \in ToSet(v.items)
      BY <2>2 DEF ToSet
    <3> QED
      BY <1>2, <3>1, Kinds DEF LaxScalar, Json
  <2>4. all = v.items
    BY <2>2, <2>3
  <2>5. Fails \notin ToSet(all)
    BY <2>2, <2>3, <2>4 DEF ToSet
  <2>6. Lax(v, type, items) = Value("array", 0, all)
    BY <1>2, <2>1, <2>5 DEF Lax
  <2>7. v = Value("array", 0, v.items)
    BY <2>1 DEF Json
  <2> QED
    BY <2>4, <2>6, <2>7
<1> QED
  BY <1>1, <1>2

\* What they give, of whatever came, has the type.
LEMMA LaxScalarTypes ==
  ASSUME NEW v, NEW type, LaxScalar(v, type) # Fails
  PROVE  OfType(LaxScalar(v, type), type)
<1>1. CASE OfType(v, type)
  BY <1>1 DEF LaxScalar
<1>2. CASE ~OfType(v, type) /\ type \in {"integer", "number"} /\ v.kind \in {"digits", "boolean"}
  <2>1. LaxScalar(v, type) = Scalar("integer", v.n)
    BY <1>2 DEF LaxScalar
  <2> QED
    BY <1>2, <2>1 DEF OfType, Scalar, Value
<1>3. CASE ~OfType(v, type) /\ type = "boolean" /\ v.kind \in {"digits", "integer"} /\ v.n \in {0, 1}
  <2>1. LaxScalar(v, type) = Scalar("boolean", v.n)
    BY <1>3 DEF LaxScalar
  <2> QED
    BY <1>3, <2>1 DEF OfType, Scalar, Value
<1> QED
  BY <1>1, <1>2, <1>3 DEF LaxScalar

\* So does a list of them.
LEMMA LaxTypes ==
  ASSUME NEW v, NEW type, NEW items, Lax(v, type, items) # Fails
  PROVE  /\ OfType(Lax(v, type, items), type)
         /\ type = "array" => \A item \in ToSet(Lax(v, type, items).items) : OfType(item, items)
<1>1. CASE type # "array"
  BY <1>1, LaxScalarTypes DEF Lax
<1>2. CASE type = "array"
  <2> DEFINE all == [i \in 1..Len(v.items) |-> LaxScalar(v.items[i], items)]
  <2>1. Fails \notin ToSet(all) /\ Lax(v, type, items) = Value("array", 0, all)
    BY <1>2 DEF Lax
  <2>2. \A item \in ToSet(all) : OfType(item, items)
    BY <2>1, LaxScalarTypes DEF ToSet
  <2> HIDE DEF all
  <2>3. Lax(v, type, items).kind = "array" /\ Lax(v, type, items).items = all
    BY <2>1 DEF Value
  <2> QED
    BY <1>2, <2>2, <2>3 DEF OfType
<1> QED
  BY <1>1, <1>2

\* What the schema admits the validator hands on as it is.
LEMMA AdvertisedPasses ==
  ASSUME NEW p, Sane(p), NEW v, Json(v), Advertised(p, v)
  PROVE  Validated(p, v) = v
<1>1. v # Omitted /\ v # Fails
  BY Kinds DEF Json
<1>2. Typed(p, v) = v
  <2>1. CASE p.enum # {}
    BY <2>1 DEF Typed, Sane, Advertised
  <2>2. CASE p.enum = {}
    BY <2>2, LaxKeeps DEF Typed, Advertised
  <2> QED
    BY <2>1, <2>2
<1> QED
  BY <1>1, <1>2 DEF Validated, Advertised

\* What the validator hands on the schema admits, but for defaults and odd literals.
LEMMA ValidatedIsAdvertised ==
  ASSUME NEW p, Sane(p), NEW v, Validated(p, v) # Fails
  PROVE  \/ Advertised(p, Validated(p, v))
         \/ ~p.required /\ Validated(p, v) = p.default
         \/ p.listed /\ (p.enum = {} \/ \E e \in p.enum : ~OfType(e, p.type))
<1>1. CASE v = Omitted
  BY <1>1 DEF Validated
<1>2. CASE v = Null /\ p.default = Null
  BY <1>2, Kinds DEF Validated, Sane
<1>3. CASE v # Omitted /\ ~(v = Null /\ p.default = Null)
  <2>1. /\ Validated(p, v) = Typed(p, v) /\ Typed(p, v) # Fails
        /\ \A l \in Limits(p) : Meets(Typed(p, v), l)
    BY <1>3 DEF Validated
  <2>2. CASE p.enum # {} /\ \A e \in p.enum : OfType(e, p.type)
    <3>1. Typed(p, v) \in p.enum
      BY <2>1, <2>2 DEF Typed
    <3>2. OfType(Typed(p, v), p.type) /\ p.type # "array"
      BY <2>2, <3>1 DEF OfType, Sane
    <3> QED
      BY <2>1, <3>1, <3>2 DEF Advertised
  <2>3. CASE p.enum = {} /\ ~p.listed
    <3>1. Typed(p, v) = Lax(v, p.type, p.items)
      BY <2>3 DEF Typed
    <3> QED
      BY <2>1, <2>3, <3>1, LaxTypes DEF Advertised
  <2> QED
    BY <2>2, <2>3 DEF Sane
<1> QED
  BY <1>1, <1>2, <1>3

\* The parameter in use is the one made of the declaration, which was accepted.
Accepted ==
  /\ authored \in Authored /\ outcome = [kind |-> outcome.kind, value |-> outcome.value]
  /\ parameter # NoParameter => parameter = ParameterOf(authored) /\ ~Unfit(authored)

\* A call is judged by that parameter.
LEMMA EnforcedNext == Accepted /\ SchemaIsEnforced /\ [DeclarationNext]_declarationVars
                        => Accepted' /\ SchemaIsEnforced'
<1> SUFFICES ASSUME Accepted, SchemaIsEnforced, [DeclarationNext]_declarationVars
             PROVE  Accepted' /\ SchemaIsEnforced'
  OBVIOUS
<1>1. CASE Declare
  <2>1. Accepted'
    BY <1>1 DEF Declare, Accepted
  <2>2. outcome'.kind \in {"none", "refused"}
    BY <1>1 DEF Declare, Accepted
  <2> QED
    BY <2>1, <2>2 DEF SchemaIsEnforced
<1>2. CASE Call
  <2> DEFINE p == ParameterOf(authored)
             v == Validated(p, argument')
  <2>1. /\ parameter = p /\ ~Unfit(authored) /\ Declarable(authored)
        /\ parameter' = p /\ Accepted'
    BY <1>2, DeclarationAssumption DEF Call, Accepted, DeclarationAssumption
  <2>2. Sane(p) /\ Binds(authored)
    BY <2>1, ParameterIsSane, AcceptedBinds
  <2>3. argument' = Omitted \/ Json(argument')
    BY <1>2, DeclarationAssumption DEF Call, DeclarationAssumption
  <2>4. outcome' = [kind |-> IF v = Fails THEN "invalid" ELSE "called", value |-> v]
    BY <1>2, <2>1, <2>2 DEF Call
  <2> HIDE DEF p
  <2>5. argument' # Omitted /\ Advertised(p, argument') => v = argument' /\ v # Fails
    BY <2>2, <2>3, AdvertisedPasses, Kinds DEF Json
  <2>6. v # Fails => \/ Advertised(p, v) \/ (~p.required /\ v = p.default)
                     \/ p.listed /\ (p.enum = {} \/ \E e \in p.enum : ~OfType(e, p.type))
    BY <2>2, ValidatedIsAdvertised
  <2> HIDE DEF v
  <2> QED
    BY <2>1, <2>4, <2>5, <2>6 DEF SchemaIsEnforced
<1>3. CASE UNCHANGED declarationVars
  BY <1>3 DEF declarationVars, Accepted, SchemaIsEnforced
<1> QED
  BY <1>1, <1>2, <1>3 DEF DeclarationNext

\* For every signature, annotation, default and metadata and every JSON value, the validator
\* holds calls to what the schema says, and a valid call fits the signature (models.py,
\* _create_args_model and to_json_schema; decorator.py, tool).
THEOREM SchemaEnforced == DeclarationSpec => []SchemaIsEnforced
<1>1. DeclarationInit => Accepted /\ SchemaIsEnforced
  BY DEF DeclarationInit, Accepted, SchemaIsEnforced
<1> QED
  BY <1>1, EnforcedNext, PTL DEF DeclarationSpec
===============================================================================
