---------------------------- MODULE MCLiveTools ----------------------------
(* LiveTools with two registries that may be mounted, one of them with the *)
(* tool already; every bound is a constant of the cfg.                     *)
EXTENDS LiveTools
===============================================================================
