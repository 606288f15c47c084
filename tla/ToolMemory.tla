------------------------------ MODULE ToolMemory ------------------------------
(***************************************************************************)
(* The two memories a tool call meets before its body, together: the       *)
(* dedupe cache, which answers a repeated call in its place, and behind it *)
(* the loop guard.  Beside them the things the cached answer speaks of:    *)
(* the result in the conversation ("its result is above") and the files    *)
(* the tools read and write ("the same arguments always give the same      *)
(* answer").                                                               *)
(***************************************************************************)
EXTENDS LoopGuard

CONSTANTS
  Files,
  Values,      \* file contents
  Torn,        \* the content a write that failed half way leaves
  FileOf,      \* the file a call is about
  PathOf,      \* the argument that names it
  Writes,      \* the content a call writes; a call outside the domain only reads
  Keyed,       \* the tools whose dedupe policy has an invalidation_key: the path
  Strategy,    \* "summarise" or "ladder", as in RunLoop
  Escapes      \* TRUE: an exception may leave a batch, as in RunLoop

ASSUME ToolMemoryAssumption ==
  /\ Torn \in Values
  /\ FileOf \in [Calls -> Files]
  /\ DOMAIN PathOf = Calls
  /\ DOMAIN Writes \subseteq Calls /\ \A c \in DOMAIN Writes : Writes[c] \in Values
  /\ Keyed \subseteq Tools
  /\ Strategy \in {"summarise", "ladder"}
  /\ Escapes \in BOOLEAN

VARIABLES
  seen,      \* DedupeCache._seen
  shown,     \* where the result of a call's last success is
  content,   \* the files
  observed   \* history: what a call's last run left in or found in its file

memoryVars == <<seen, shown, content, observed>>
vars == <<guardVars, memoryVars>>

IsRead(c) == c \notin DOMAIN Writes

\* The declarations of the file tools: every reader may run again whatever failed before,
\* and is made stale by every tool that writes; a keyed one only by calls that give the
\* path it gave.  A file that two calls spell differently is outside of this.
ReadersRecover == \A c \in Calls : IsRead(c) => ~ErrorChecked(ToolOf[c])
WritersAreHeard ==
  \A c \in Calls, w \in DOMAIN Writes :
    IsRead(c) /\ FileOf[c] = FileOf[w] =>
      /\ ToolOf[c] \in Forgets[ToolOf[w]]
      /\ ToolOf[c] \in Keyed => PathOf[c] = PathOf[w]

Places == {"nowhere", "batch", "full", "stub", "lost"}

Init ==
  /\ GuardInit
  /\ seen = {} /\ shown = [c \in Calls |-> "nowhere"]
  /\ content \in [Files -> Values \ {Torn}]
  /\ observed = [c \in Calls |-> content[FileOf[c]]]

-------------------------------------------------------------------------------
(* A call whose identity is cached is answered by the hint and goes no     *)
(* further.  (A tool with a repeat-exempt role is never cached.)           *)

Gate(c) ==
  /\ c \notin seen
  /\ Admit(c) \/ AdmitApproved(c) \/ AskContinue(c) \/ AskRefuse(c)
  /\ UNCHANGED memoryVars

Rejected == Decline /\ UNCHANGED memoryVars

\* Variant: invalidated_by is read the wrong way round.
StaleReversed(c) ==
  {d \in Calls : /\ ToolOf[c] \in Forgets[ToolOf[d]]
                 /\ ToolOf[d] \in Keyed => PathOf[d] = PathOf[c]}

\* DedupeCache.invalidate: the entries of the tools that name this tool, or
\* those of them that mention its key.
Stale(c) ==
  {d \in Calls : /\ ToolOf[d] \in Forgets[ToolOf[c]]
                 /\ ToolOf[d] \in Keyed => PathOf[d] = PathOf[c]}

\* What the body itself does, and finds.
Effect(c) ==
  /\ content' = IF IsRead(c) THEN content ELSE [content EXCEPT ![FileOf[c]] = Writes[c]]
  /\ observed' = [observed EXCEPT ![c] = content'[FileOf[c]]]

\* The entry is recorded before the invalidation; the guard hears of both last.
BodySucceeds(c) ==
  /\ Succeed(c)
  /\ Effect(c)
  /\ seen' = (IF RepeatChecked(ToolOf[c]) THEN seen \cup {c} ELSE seen) \ Stale(c)
  /\ shown' = [shown EXCEPT ![c] = "batch"]

\* A failed call is not cached and invalidates nothing, although a write that
\* fails half way has changed its file.
BodyFails(c) ==
  /\ Fail(c)
  /\ \/ UNCHANGED content
     \/ ~IsRead(c) /\ content' = [content EXCEPT ![FileOf[c]] = Torn]
  /\ observed' = [observed EXCEPT ![c] = content'[FileOf[c]]]
  /\ UNCHANGED <<seen, shown>>

-------------------------------------------------------------------------------
(* The batch and the conversation.                                         *)

InBatch == {c \in Calls : shown[c] = "batch"}

Settle(place) == [c \in Calls |-> IF c \in InBatch THEN place ELSE shown[c]]

\* The batch, aborted or not, joins the history.
EndBatch ==
  /\ granted = {} /\ InBatch # {}
  /\ shown' = Settle("full")
  /\ UNCHANGED <<guardVars, seen, content, observed>>

\* The next call's tool surface meets two tools of one name: the exception takes
\* the results of the batch along.
BatchEscapes ==
  /\ Escapes /\ granted = {} /\ InBatch # {}
  /\ shown' = Settle("lost")
  /\ UNCHANGED <<guardVars, seen, content, observed>>

\* begin_request: the guard's window is reset, the cache is kept.
NewRequest ==
  /\ InBatch = {}
  /\ OnNewTurn
  /\ UNCHANGED memoryVars

\* The ladder's first rung: older, longer bodies become stubs.  The host hears
\* of a demotion, and leaves both memories alone.
Demote ==
  /\ Strategy = "ladder" /\ granted = {} /\ InBatch = {}
  /\ \E old \in SUBSET {c \in Calls : shown[c] = "full"} \ {{}} :
       shown' = [c \in Calls |-> IF c \in old THEN "stub" ELSE shown[c]]
  /\ UNCHANGED <<guardVars, seen, content, observed>>

\* Variant: the cache is not told.
SummariseUntold ==
  /\ granted = {} /\ InBatch = {}
  /\ \E old \in SUBSET {c \in Calls : shown[c] \in {"full", "stub"}} \ {{}} :
       shown' = [c \in Calls |-> IF c \in old THEN "nowhere" ELSE shown[c]]
  /\ OnCompacted
  /\ UNCHANGED <<seen, content, observed>>

\* A summary replaces the older messages, whatever the strategy.
Summarise ==
  /\ granted = {} /\ InBatch = {}
  /\ \E old \in SUBSET {c \in Calls : shown[c] \in {"full", "stub"}} \ {{}} :
       shown' = [c \in Calls |-> IF c \in old THEN "nowhere" ELSE shown[c]]
  /\ OnCompacted
  /\ seen' = {}
  /\ UNCHANGED <<content, observed>>

\* clear_history, which the host may call at any time: a batch under way
\* still delivers its results afterwards.
Clear ==
  /\ OnCleared
  /\ seen' = {}
  /\ shown' = [c \in Calls |-> IF c \in InBatch THEN "batch" ELSE "nowhere"]
  /\ UNCHANGED <<content, observed>>

-------------------------------------------------------------------------------
Next ==
  \/ \E c \in Calls : Gate(c) \/ BodySucceeds(c) \/ BodyFails(c)
  \/ Rejected \/ EndBatch \/ BatchEscapes \/ NewRequest \/ Demote \/ Summarise \/ Clear

Spec == Init /\ [][Next]_vars

-------------------------------------------------------------------------------
(* Properties.                                                             *)

\* Both memories, the places of the results and the files have their types.
TypeOK ==
  /\ GuardTypeOK
  /\ seen \subseteq Calls
  /\ shown \in [Calls -> Places]
  /\ content \in [Files -> Values]
  /\ observed \in [Calls -> Values]

\* A file that a successful write changed since a read of it last ran can be read
\* again: the read is neither answered from the cache nor refused by the guard, as
\* a repeat or for earlier failures (invalidate and forget_tools, from one
\* traversal; the recovery role of the readers).  A write that failed half way is
\* left out: nothing hears of it.
ChangedFileIsReread ==
  \A c \in Calls :
    IsRead(c) /\ content[FileOf[c]] \notin {observed[c], Torn} =>
      c \notin seen /\ ~Repeating(c) /\ ~FailureLoop(c)

\* No compaction and no clear takes a result away and leaves the cache pointing
\* at it (on_compacted, on_cleared; the batch in flight that survives a clear).
CachedIsKept == \A c \in seen : shown[c] # "nowhere"

\* The result the cache points at can be read in the conversation, or is in the
\* batch on its way there ("its result is above").
ResultIsAbove == \A c \in seen : shown[c] \in {"batch", "full"}

\* Running a cached call again would leave everything as it is ("the same
\* arguments always give the same answer"), writes that failed half way apart.
CachedIsCurrent ==
  \A c \in seen : content[FileOf[c]] \in {observed[c], Torn}
===============================================================================
