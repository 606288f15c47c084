------------------------------ MODULE MCLoopGuard ------------------------------
(* A shell command with two argument lists on one target, a reader that is   *)
(* used to recover from errors, and a writer that makes the reader's answers *)
(* stale.                                                                    *)
EXTENDS LoopGuard

MCCalls   == {"run_x", "run_y", "read_a", "write_a"}
MCTools   == {"run", "read", "write"}
MCTargets == {"run", "read|a", "write|a"}
MCToolOf ==
  [c \in MCCalls |-> CASE c \in {"run_x", "run_y"} -> "run" [] c = "read_a" -> "read"
                       [] c = "write_a" -> "write"]
MCTargetOf ==
  [c \in MCCalls |-> CASE c \in {"run_x", "run_y"} -> "run" [] c = "read_a" -> "read|a"
                       [] c = "write_a" -> "write|a"]
MCToolAt ==
  [t \in MCTargets |-> CASE t = "run" -> "run" [] t = "read|a" -> "read"
                         [] t = "write|a" -> "write"]
MCRole == [t \in MCTools |-> IF t = "read" THEN "recovery" ELSE "normal"]
MCForgets == [t \in MCTools |-> IF t = "write" THEN {"read"} ELSE {}]
===============================================================================
