----------------------------- MODULE MCRunControl -----------------------------
(* Three threads of one host: enough for a run, a second run() and a composing *)
(* call.  The calls are mutators of both kinds, the features whose install      *)
(* chains them, and a feature with every hook and nothing to install.           *)
EXTENDS RunControl, TLC

MCCalls == {Unchecked, Checked, Use(SystemTools, 0), Use(Memory, 0), Use(Skills, 0),
            Use(Files, 0), Use(<<>>, 4)}

ThreadSymmetry == Permutations(Threads)
===============================================================================
