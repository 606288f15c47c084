------------------------------- MODULE Exchange -------------------------------
(***************************************************************************)
(* What a chat-completion provider is promised about tool calls, whatever  *)
(* happens inside a run: a request goes out only while no announced call   *)
(* is owed a result.  A run may die owing results; the next one settles    *)
(* the debt before it asks anything.                                       *)
(***************************************************************************)
EXTENDS Naturals

CONSTANT Ids          \* identities of tool calls

VARIABLES phase,      \* "rest": no run; "busy": a run, between requests;
                      \* "asked": a request is with the provider
          owed        \* announced calls with no result in the transcript

vars == <<phase, owed>>

TypeOK ==
  /\ phase \in {"rest", "busy", "asked"}
  /\ owed \subseteq Ids

Init == phase = "rest" /\ owed = {}

\* A run begins by settling what an earlier one left owed.
Begin == phase = "rest" /\ phase' = "busy" /\ owed' = {}

\* Housekeeping at rest (clearing or compacting) never adds a debt.
Forget == phase = "rest" /\ phase' = "rest" /\ owed' \subseteq owed

Ask == phase = "busy" /\ owed = {} /\ phase' = "asked" /\ owed' = {}

\* The provider fails and the loop tries again, or answers with calls or text.
Retry == phase = "asked" /\ phase' = "busy" /\ owed' = {}

Announce == phase = "asked" /\ phase' = "busy" /\ owed' \in SUBSET Ids

Settle == phase = "busy" /\ phase' = "busy" /\ owed' = {}

Finish == phase # "rest" /\ phase' = "rest" /\ owed' = {}

\* An exception escapes: the transcript keeps the debt.
Die == phase # "rest" /\ phase' = "rest" /\ UNCHANGED owed

Next == Begin \/ Forget \/ Ask \/ Retry \/ Announce \/ Settle \/ Finish \/ Die

Spec == Init /\ [][Next]_vars
===============================================================================
