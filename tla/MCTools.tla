-------------------------------- MODULE MCTools --------------------------------
(***************************************************************************)
(* Tools, one in a behaviour: the fs pipeline, a reader of a long file,    *)
(* the memory store, and a tool an author declares.  The machines share    *)
(* nothing, so the states are the sum of theirs.                           *)
(***************************************************************************)
EXTENDS FileSearch, Reading, MemoryStore, Declaration

CONSTANTS c1, c2, s1, s2

VARIABLE tool

toolsVars == <<tool, searchVars, readVars, memoryVars, declarationVars>>

\* A workspace of two levels; 4 is a hidden name, 8 a denied one.
MCFolders == {<<>>, <<1>>, <<1, 2>>, <<1, 3>>, <<4>>}
MCTexts ==
  (<<5>> :> <<{6}, {7}>>) @@ (<<1, 5>> :> <<{6}, {6}>>) @@ (<<1, 2, 6>> :> <<{7}>>)
    @@ (<<1, 3, 5>> :> <<{6}>>) @@ (<<1, 8>> :> <<{6}>>) @@ (<<4, 5>> :> <<{7}>>)
MCSkipped == {<<1, 2, 6>>}
MCNamed == ("." :> <<>>) @@ ("p" :> <<1>>) @@ ("q" :> <<5>>)
MCWord  == ("w" :> 6) @@ ("n" :> 5)

\* Blanks in front of a path: stripped, it is another one.  A wildcard matches a folder,
\* files, a hidden name or a denied one.
MCBare  == (" p" :> "p") @@ (" q" :> "q")
MCGlobs == ("*" :> {<<1>>, <<4>>, <<5>>}) @@ ("p*" :> {<<1, 2>>, <<1, 5>>, <<1, 8>>})

MCTokens == {".", "p", "q", "z", " p", " q", "*", "p*", "w", "n", "f", "d", "one", "two", "-R", "-a", "-x", "-L", "-l", "-c", "-v",
             "-e", "-name", "-type", "-maxdepth"}
TokensUpTo(S, n) == UNION {[1..k -> S] : k \in 0..n}
OneFilter ==
  {[op |-> "head", n |-> 1], [op |-> "head", n |-> 2], [op |-> "tail", n |-> 1], [op |-> "wc"],
   [op |-> "sort", unique |-> TRUE, reverse |-> FALSE],
   [op |-> "sort", unique |-> FALSE, reverse |-> TRUE], [op |-> "uniq", counts |-> TRUE],
   [op |-> "grep", word |-> 5, invert |-> FALSE, counts |-> FALSE],
   [op |-> "grep", word |-> 5, invert |-> TRUE, counts |-> TRUE], [op |-> "bad"]}
TwoFilters ==
  {<<[op |-> "uniq", counts |-> FALSE], [op |-> "head", n |-> 1]>>,
   <<[op |-> "grep", word |-> 5, invert |-> TRUE, counts |-> FALSE], [op |-> "head", n |-> 1]>>,
   <<[op |-> "head", n |-> 2], [op |-> "sort", unique |-> TRUE, reverse |-> TRUE]>>}
MCFilters == {<<>>} \cup {<<f>> : f \in OneFilter} \cup TwoFilters
MCCommands ==
  [source : {"ls"}, argv : TokensUpTo({"p", "q", "z", "-R", "-a", "-x", " p", "*", "p*"}, 2), filters : MCFilters]
    \cup [source : {"tree", "bad"}, argv : TokensUpTo({"p", "-L", "one", "-x"}, 3), filters : MCFilters]
    \cup [source : {"find"},
          argv : TokensUpTo({"p", "z", "-name", "n", "-type", "f", "d"}, 3)
                   \cup {a \o <<"-maxdepth", d>> : a \in TokensUpTo({"p", "-type", "f"}, 3),
                                                   d \in {"one", "two"}}
                   \cup {<<" p">>, <<" q", "-type", "f">>, <<"*">>},
          filters : MCFilters]
    \cup [source : {"grep"},
          argv : TokensUpTo({"p", "q", "z", "w", "-l", "-c", "-v", "-e"}, 3)
                   \cup {<<"w">> \o paths : paths \in {<<" p">>, <<" q", "p">>, <<"*">>}},
          filters : MCFilters]

\* Two clients of one store, or of one each.
MCInstalls == {(c1 :> s1) @@ (c2 :> s1), (c1 :> s1) @@ (c2 :> s2)}

\* Signatures with one parameter the model may fill, or none that can be declared.
Param(name, kind) == [name |-> name, kind |-> kind]
Plain == <<Param("value", "positional")>>
MCSignatures ==
  [signature : {Plain, <<Param("value", "keyword_only")>>, <<Param("value", "positional_only")>>,
                <<Param("value", "positional"), Param("rest", "var_keyword")>>},
   bound : {FALSE}, inject : {FALSE}]
    \cup [signature : {<<Param("self", "positional")>> \o Plain}, bound : {TRUE}, inject : {FALSE}]
    \cup [signature : {<<>>, <<Param("ctx", "keyword_only")>> \o Plain, <<Param("ctx", "positional")>> \o Plain,
                       <<Param("ctx", "positional_only"), Param("value", "keyword_only")>>},
          bound : {FALSE}, inject : {TRUE}]
    \cup [signature : {<<Param("self", "positional"), Param("ctx", "positional")>> \o Plain},
          bound : {TRUE}, inject : {TRUE}]

Word2 == Scalar("word", 2)
Digit == Scalar("digits", 1)
One   == Scalar("integer", 1)
Half  == Scalar("half", 1)
True  == Scalar("boolean", 1)
List(items) == Value("array", 0, items)
MCValues ==
  {Scalar("word", 1), Word2, Digit, One, Scalar("integer", 2), Half, True, Null, Value("object", 0, <<>>)}
    \cup {List(items) : items \in UNION {[1..n -> {Digit, One, True, Word2}] : n \in 0..2}}

MCAnnotations ==
  [base : {"none", "str", "int", "float", "bool", "list", "dict", "any", "other"}, items : {"none"}]
    \cup [base : {"list"}, items : {"int", "bool", "str", "other"}]
Limit(name, n) == [name |-> name, n |-> n]
MCLimits ==
  {{}, {Limit("ge", 2)}, {Limit("gt", 1), Limit("min_length", 2)}, {Limit("le", 1), Limit("max_length", 1)},
   {Limit("min_items", 1), Limit("unique_items", 1)}, {Limit("max_items", 1)}}
MCMeta ==
  [by : {"none"}, helper : {"none"}, listed : {FALSE}, enum : {{}}, limits : {{}}]
    \cup [by : {"annotated", "both"}, helper : {"none"}, listed : {FALSE}, enum : {{}}, limits : MCLimits]
    \cup [by : {"helper"}, helper : {"Str", "Int", "Array"}, listed : {FALSE}, enum : {{}}, limits : MCLimits]
    \cup [by : {"annotated"}, helper : {"none"}, listed : {TRUE}, enum : {{}, {Word2}, {One, Half}}, limits : MCLimits]
    \cup [by : {"unknown name"}, helper : {"none"}, listed : {FALSE}, enum : {{}}, limits : {{}}]

\* Every declaration of a plain function, and every signature with a plain declaration.
MCAuthored ==
  {[annotation |-> a, default |-> d, meta |-> m] @@ [signature |-> Plain, bound |-> FALSE, inject |-> FALSE] :
     a \in MCAnnotations, d \in {Omitted, Null, One, Half, List(<<One, One>>)}, m \in MCMeta}
    \cup {s @@ [annotation |-> [base |-> "int", items |-> "none"], default |-> Omitted,
                meta |-> CHOOSE m \in MCMeta : m.by = "none"] : s \in MCSignatures}

NoAuthor == CHOOSE a \in MCAuthored : TRUE

NoSearch  == command = [source |-> "ls", argv |-> <<>>, filters |-> <<>>] /\ limit = Max(MaxLines) /\ result = Unanswered
NoReading ==
  /\ text = <<>> /\ cap = Max(Caps) /\ by = "hint" /\ at = 1 /\ page = Unread
  /\ seen = {} /\ torn = FALSE
NoDeclaration ==
  /\ authored = NoAuthor /\ parameter = NoParameter
  /\ argument = Omitted /\ outcome = [kind |-> "none", value |-> Omitted]
NoMemory ==
  /\ store = (CHOOSE s \in Installs : TRUE) /\ files = [n \in Names |-> Missing]
  /\ job = [c \in Clients |-> Idle] /\ reply = "none" /\ behind = FALSE

MCInit ==
  \/ tool = "fs" /\ SearchInit /\ NoReading /\ NoMemory /\ NoDeclaration
  \/ tool = "read_file" /\ ReadInit /\ NoSearch /\ NoMemory /\ NoDeclaration
  \/ tool = "memory" /\ MemoryInit /\ NoSearch /\ NoReading /\ NoDeclaration
  \/ tool = "declared" /\ DeclarationInit /\ NoSearch /\ NoReading /\ NoMemory

ReadStep ==
  /\ tool = "read_file" /\ (Read \/ Continue)
  /\ UNCHANGED <<tool, searchVars, memoryVars, declarationVars>>
MCNext ==
  \/ tool = "fs" /\ Fs /\ UNCHANGED <<tool, readVars, memoryVars, declarationVars>>
  \/ ReadStep
  \/ tool = "memory" /\ MemoryNext /\ UNCHANGED <<tool, searchVars, readVars, declarationVars>>
  \/ tool = "declared" /\ DeclarationNext /\ UNCHANGED <<tool, searchVars, readVars, memoryVars>>

\* WF_toolsVars(ReadStep): it is enabled, and changes page, until a page ends the reading.
\* Written out because TLC is slow to find that by trying the step.
ReadFairness ==
  <>[](tool = "read_file" /\ page.kind \in {"unread", "head"}) => []<><<ReadStep>>_toolsVars

MCSpec == MCInit /\ [][MCNext]_toolsVars /\ ReadFairness
===============================================================================
