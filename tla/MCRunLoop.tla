------------------------------- MODULE MCRunLoop -------------------------------
(* RunLoop on small instances; every bound is a constant of the configuration. *)
EXTENDS RunLoop
===============================================================================
