----------------------------- MODULE MCToolMemory -----------------------------
(* A keyed reader (read_file) and an unkeyed one (fs), both with the recovery *)
(* role, and a writer that makes the answers of both stale.                   *)
EXTENDS ToolMemory

MCTools   == {"read_file", "fs", "write_file"}
MCForgets == [t \in MCTools |-> IF t = "write_file" THEN {"read_file", "fs"} ELSE {}]
MCRole    == [t \in MCTools |-> IF t = "write_file" THEN "normal" ELSE "recovery"]
MCKeyed   == {"read_file"}

\* A call, its tool, its file, the path it gives and what it writes.
Call(t, f, p, w) == [tool |-> t, file |-> f, path |-> p, writes |-> w]

\* Both readers and the writer, on one file.
MCCalls == {Call("read_file", "a", "a", "-"), Call("fs", "a", "grep a", "-"),
            Call("write_file", "a", "a", "x")}

\* A reader of one file, and two contents for it.
MCRewriteCalls == {Call("write_file", "a", "a", "x"), Call("write_file", "a", "a", "y"),
                   Call("read_file", "a", "a", "-")}

\* The writer gives another path to the reader's file.
MCSpelledCalls == {Call("read_file", "a", "a", "-"), Call("write_file", "a", "./a", "x")}

Key(c) == <<c.tool, c.path>>
MCToolOf   == [c \in Calls |-> c.tool]
MCTargets  == {Key(c) : c \in Calls}
MCTargetOf == [c \in Calls |-> Key(c)]
MCToolAt   == [t \in MCTargets |-> t[1]]
MCFiles    == {c.file : c \in Calls}
MCFileOf   == [c \in Calls |-> c.file]
MCPathOf   == [c \in Calls |-> c.path]
MCWrites   == [c \in {d \in Calls : d.writes # "-"} |-> c.writes]

\* The instances are ones the theorem about re-reading speaks of, but for the last.
ASSUME MCDeclarations == ReadersRecover /\ (Calls # MCSpelledCalls => WritersAreHeard)
===============================================================================
