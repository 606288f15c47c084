------------------------------ MODULE MCFileCalls ------------------------------
(* A project with a repository under its source directory, another project the *)
(* host may move to, a reference directory and a directory outside; one link   *)
(* that leaves the workspace and one that leads to a protected directory.      *)
EXTENDS FileCalls

MCRoots    == {<<"w">>, <<"v">>}
MCReadable == {<<"r">>}
MCDirs     == {<<"w">>, <<"w", "src">>, <<"w", "src", ".git">>, <<"v">>, <<"r">>, <<"x">>}
MCFiles    == {<<"w", "a">>, <<"w", "src", ".git", "c">>, <<"r", "d">>, <<"x", "b">>}
MCLinks    == [l \in {<<"w", "out">>, <<"w", "git">>} |->
                 IF l = <<"w", "out">> THEN <<"x">> ELSE <<"w", "src", ".git">>]

Relative(parts) == [absolute |-> FALSE, parts |-> parts]
Absolute(parts) == [absolute |-> TRUE, parts |-> parts]

\* Every name there is, but those that begin with a dot.
MCWild == [w \in {"*"} |-> {"w", "v", "r", "x", "a", "b", "c", "d", "src", "out", "git"}]

\* A blank in front makes a relative path of an absolute one, for who does not strip it.
PaddedOutside == Relative(<<" ", "x", "b">>)
MCPadded == [a \in {PaddedOutside} |-> Absolute(<<"x", "b">>)]

\* In the workspace, through its links, by "..", denied, by a wildcard, padded, and by
\* absolute paths into each zone.
MCArgs ==
  {Relative(<<"a">>), Relative(<<"out">>), Relative(<<"git", "c">>),
   Relative(<<"src">>), Relative(<<"git", "..", "..", ".env">>), Relative(<<"*", "b">>),
   PaddedOutside, Absolute(<<"x", "b">>), Absolute(<<"r", "d">>)}
MCPaddedArgs == {PaddedOutside}
===============================================================================
