------------------------------- MODULE MCContext -------------------------------
(***************************************************************************)
(* One conversation seen from two sides, one in a behaviour: how its       *)
(* requests are measured and fitted, and how the debug log records them.   *)
(* The machines share nothing, so the states are the sum of theirs.        *)
(***************************************************************************)
EXTENDS Fitting, ConversationLog

VARIABLE view

contextVars == <<view, fittingVars, logVars>>

MCLadder    == <<1, 0>>
MCLanguages == {{2}, {2, 4}}

NoFitting ==
  /\ strategy = "ladder" /\ language = {2} /\ window = 0 /\ usage = [tokens |-> 0, own |-> TRUE]
  /\ tokeniser = 1 /\ mixed = FALSE /\ fit = NoFit
  /\ history = <<>> /\ anchor = -1 /\ ratio = DefaultRatio /\ samples = 0
  /\ phase = "rest" /\ out = <<>> /\ requests = 0 /\ retried = FALSE
  /\ charged = <<>> /\ replaced = FALSE

MCInit ==
  \/ view = "fitting" /\ FittingInit /\ LogInit
  \/ view = "log" /\ NoFitting /\ LogInit

MCNext ==
  \/ view = "fitting" /\ FittingNext /\ UNCHANGED <<view, logVars>>
  \/ view = "log" /\ LogNext /\ UNCHANGED <<view, fittingVars>>

MCSpec == MCInit /\ [][MCNext]_contextVars
===============================================================================
