------------------------------ MODULE MemoryStore ------------------------------
(***************************************************************************)
(* The memory feature (features/memory): named notes, one file each, and   *)
(* MEMORY.md, an index of them rebuilt after every change.  A store's lock *)
(* covers the file and its index; two agents that did not share a store    *)
(* have a lock each and one directory.  Every file is replaced whole; the  *)
(* process may die between two replacements.                               *)
(*                                                                         *)
(* The index lies in the directory under the name IndexName, which is also *)
(* a name a memory may have.                                               *)
(***************************************************************************)
EXTENDS Naturals, FiniteSets, FiniteSetsExt

CONSTANTS
  Clients,      \* threads that call the memory tool or render the catalogue
  Stores,       \* MemoryStore objects on the directory
  Installs,     \* who has which store: one shared, or one each
  Names,        \* memory names, in the order the directory is listed
  IndexName,    \* the stem of INDEX_FILENAME
  Types,        \* VALID_TYPES
  Contents         \* contents a call may carry

ASSUME MemoryAssumption ==
  Installs \subseteq [Clients -> Stores] /\ Names \subseteq Nat /\ IndexName \in Names

VARIABLES
  store,     \* the store each client works with
  files,     \* the directory
  job,       \* what each client is doing under its store's lock; of a listing also,
             \* as history, the names that lay there all its time and at some time
  reply,     \* how the last call to return ended
  behind     \* history: the index may be behind the files

memoryVars == <<store, files, job, reply, behind>>

Missing       == [kind |-> "missing"]
Note(t, text) == [kind |-> "memory", type |-> t, text |-> text]
Index(ns)     == [kind |-> "index", entries |-> ns]

NoName     == 1 + Max(Names)   \* any name _validate_name refuses, or none
Idle       == [at |-> "idle"]
Busy(s)    == {c \in Clients : store[c] = s /\ job[c] # Idle}
Present    == {n \in Names : files[n] # Missing}
Memories   == Present \ {IndexName}

\* agent.get(MemoryStore) or a store of its own.
MemoryInit ==
  /\ store \in Installs
  /\ files = [n \in Names |-> Missing]
  /\ job = [c \in Clients |-> Idle]
  /\ reply = "none" /\ behind = FALSE

\* The directory changes under the listings of the other clients.
Put(n, file, c) ==
  /\ files' = [files EXCEPT ![n] = file]
  /\ job' = [d \in Clients |->
       IF d = c THEN [at |-> "changed", rebuild |-> TRUE]
       ELSE IF job[d].at # "listing" THEN job[d]
       ELSE [job[d] EXCEPT !.alone  = @ /\ store[d] = store[c],
                           !.steady = IF file = Missing THEN @ \ {n} ELSE @,
                           !.ever   = IF file = Missing THEN @ ELSE @ \cup {n}]]

Return(how) == reply' = how /\ UNCHANGED <<store, files, job, behind>>

\* The checks of memory() before it reaches the store, and of save().
Refusal(call) ==
  IF call.action \notin {"remember", "recall", "forget", "list"} THEN "unknown action"
  ELSE IF call.action # "list" /\ call.name \notin Names THEN "name_required"
  ELSE IF call.action = "remember" /\ call.text = "" THEN "content_required"
  ELSE IF call.action = "remember" /\ call.type \notin Types \cup {""} THEN "invalid_type"
  ELSE "none"

\* Variant: the lock is not held from the file to the index.
FreeUnlocked(c) == job[c] = Idle

\* The lock of the client's store.
Free(c) == Busy(store[c]) = {}

\* save(): the file is replaced whole, then the index is rebuilt.
Remember(c, call) ==
  /\ Free(c) /\ call.action = "remember" /\ Refusal(call) = "none"
  /\ Put(call.name, Note(IF call.type = "" THEN "user" ELSE call.type, call.text), c)
  /\ UNCHANGED <<store, reply, behind>>

\* delete(): a name that is not there rebuilds nothing.
Forget(c, call) ==
  /\ Free(c) /\ call.action = "forget" /\ Refusal(call) = "none"
  /\ IF files[call.name] = Missing THEN Return("none_such")
     ELSE Put(call.name, Missing, c) /\ UNCHANGED <<store, reply, behind>>

\* load(): the file as it lies there; the index is read like a memory.
Recall(c, call) ==
  /\ Free(c) /\ call.action = "recall" /\ Refusal(call) = "none"
  /\ Return(IF files[call.name] = Missing THEN "none_such" ELSE "recalled")

Rejected(c, call) ==
  /\ job[c] = Idle /\ Refusal(call) # "none" /\ Return("refused")

\* The list action, and the catalogue block of the prompt.
StartList(c) ==
  /\ Free(c)
  /\ job' = [job EXCEPT ![c] = [at |-> "changed", rebuild |-> FALSE]]
  /\ UNCHANGED <<store, files, reply, behind>>

\* list(): the names first, then one file after another.
Glob(c) ==
  /\ job[c].at = "changed"
  /\ job' = [job EXCEPT ![c] = [at |-> "listing", rebuild |-> job[c].rebuild,
                                todo |-> Memories, found |-> {}, alone |-> TRUE,
                                steady |-> Memories, ever |-> Memories]]
  /\ UNCHANGED <<store, files, reply, behind>>

\* Variant: a file that went away ends the listing.
LoadNextOrStop(c) ==
  /\ job[c].at = "listing" /\ job[c].todo # {}
  /\ \E n \in job[c].todo : (\A k \in job[c].todo : n <= k) /\
       job' = [job EXCEPT ![c].todo  = IF files[n] = Missing THEN {} ELSE @ \ {n},
                          ![c].found = IF files[n] = Missing THEN @ ELSE @ \cup {n}]
  /\ UNCHANGED <<store, files, reply, behind>>

LoadNext(c) ==
  /\ job[c].at = "listing" /\ job[c].todo # {}
  /\ \E n \in job[c].todo : (\A k \in job[c].todo : n <= k) /\
       job' = [job EXCEPT ![c].todo = @ \ {n},
                          ![c].found = IF files[n] = Missing THEN @ ELSE @ \cup {n}]
  /\ UNCHANGED <<store, files, reply, behind>>

ReturnList(c) ==
  /\ job[c].at = "listing" /\ job[c].todo = {} /\ ~job[c].rebuild
  /\ reply' = "listed"
  /\ job' = [job EXCEPT ![c] = Idle]
  /\ UNCHANGED <<store, files, behind>>

\* _rebuild_index(): MEMORY.md is replaced whole and the lock released.
WriteIndex(c) ==
  /\ job[c].at = "listing" /\ job[c].todo = {} /\ job[c].rebuild
  /\ files' = [files EXCEPT ![IndexName] = Index(job[c].found)]
  /\ behind' = ~job[c].alone
  /\ reply' = "done"
  /\ job' = [job EXCEPT ![c] = Idle]
  /\ UNCHANGED store

\* The process of a store dies; what it had under way is lost, the directory stays.
Crash(s) ==
  /\ Busy(s) # {}
  /\ behind' = (behind \/ \E c \in Busy(s) : job[c].rebuild)
  /\ job' = [c \in Clients |-> IF store[c] = s THEN Idle ELSE job[c]]
  /\ UNCHANGED <<store, files, reply>>

\* What a call may ask for; only remember reads the type and the content.
Calls ==
  [action : {"remember"}, name : Names \cup {NoName}, type : Types \cup {"", "bad"}, text : Contents]
    \cup [action : {"recall", "forget", "list", "other"}, name : Names \cup {NoName},
          type : {""}, text : {""}]

MemoryNext ==
  \/ \E c \in Clients, call \in Calls :
       Remember(c, call) \/ Forget(c, call) \/ Recall(c, call) \/ Rejected(c, call)
  \/ \E c \in Clients : StartList(c) \/ Glob(c) \/ LoadNext(c) \/ ReturnList(c) \/ WriteIndex(c)
  \/ \E s \in Stores : Crash(s)

MemorySpec == MemoryInit /\ [][MemoryNext]_memoryVars

-------------------------------------------------------------------------------

\* At rest the index lists the memories that are there, unless the process died
\* before it was written, or the last one to write it listed the directory while
\* another store changed it.  (store.py:87, "Create or overwrite a memory and refresh
\* the index": a lock held for both, and the index after the file.)
IndexMatches ==
  (\A c \in Clients : job[c] = Idle) /\ ~behind =>
     files[IndexName] = IF Memories = {} /\ files[IndexName] = Missing THEN Missing
                        ELSE Index(Memories)

\* A listing has every memory that lay there all the time it took, and none that
\* never did, though other stores add and remove files between its reads.
ListingIsHonest ==
  \A c \in Clients : job[c].at = "listing" /\ job[c].todo = {} =>
     job[c].steady \subseteq job[c].found /\ job[c].found \subseteq job[c].ever
===============================================================================
