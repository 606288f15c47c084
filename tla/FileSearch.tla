------------------------------ MODULE FileSearch ------------------------------
(***************************************************************************)
(* The fs tool (features/files/search.py): one pipeline, a source that     *)
(* walks the tree and filters that read each other's lines lazily.  The    *)
(* approval gate judges the paths fs_paths() parses out of the command     *)
(* line; the body parses it again and may be stopped by a ceiling on the   *)
(* entries it visits.                                                      *)
(*                                                                         *)
(* A name is a number and sorts as one, a path the sequence of its names   *)
(* under the workspace, and a line a sequence of names and numbers.        *)
(***************************************************************************)
EXTENDS Naturals, Sequences, SequencesExt, FiniteSetsExt, TLC

CONSTANTS
  Folders,     \* the directories, <<>> the workspace itself
  Texts,       \* the files: the words of each line, by path
  Hidden,      \* names that begin with a dot, and __pycache__
  Forbidden,   \* names the denylist matches
  Skipped,     \* the files grep does not read: above 5 MB, or not UTF-8
  Named,       \* the path a path token names; other tokens name nothing
  Bare,        \* path tokens with blanks around them: what strip() leaves
  Globs,       \* path tokens with a wildcard: what they match in one directory
  Word,        \* the name or word a token stands for
  Ceiling,     \* _SCAN_CEILING
  Tokens,      \* the words a command line is made of
  Commands,    \* the command lines: source, its tokens, the filters behind it
  MaxLines     \* the max_lines a call may ask for

\* A filter as it was built: every count is positive.
Filters ==
  [op : {"head", "tail"}, n : Nat \ {0}] \cup [op : {"wc", "bad"}]
    \cup [op : {"sort"}, unique : BOOLEAN, reverse : BOOLEAN] \cup [op : {"uniq"}, counts : BOOLEAN]
    \cup [op : {"grep"}, word : Nat, invert : BOOLEAN, counts : BOOLEAN]

ASSUME FileSearchAssumption ==
  /\ <<>> \in Folders /\ Folders \cap DOMAIN Texts = {}
  /\ Folders \cup DOMAIN Texts \subseteq Seq(Nat \ {0}) /\ IsFiniteSet(Folders \cup DOMAIN Texts)
  /\ \A p \in (Folders \cup DOMAIN Texts) \ {<<>>} : Front(p) \in Folders
  /\ \A p \in DOMAIN Texts : Texts[p] \in Seq(SUBSET Nat)
  /\ "unknowable" \notin DOMAIN Named \cup DOMAIN Bare \cup DOMAIN Globs
  /\ \A t \in DOMAIN Globs : \E d \in Folders : \A p \in Globs[t] :
       p \in Folders \cup DOMAIN Texts /\ p # <<>> /\ Front(p) = d
  /\ \A c \in Commands : c.argv \in Seq(Tokens) /\ c.filters \in Seq(Filters)
  /\ Ceiling \in Nat \ {0} /\ MaxLines \subseteq Nat \ {0}

VARIABLES
  command,     \* the command line under way
  limit,       \* its max_lines
  result       \* what fs() returned

searchVars == <<command, limit, result>>

Sources   == {"ls", "find", "grep", "tree"}
Slash     == 0       \* what a directory's line ends in
Unlimited == 0       \* no -maxdepth

-------------------------------------------------------------------------------
(* Command lines.  The parsers read the tokens of one source from left to  *)
(* right; both the gate and the body call them.                            *)

Wanting(token, of) == [of EXCEPT !.want = token]
Broken(of)         == [of EXCEPT !.ok = FALSE]
Positive           == [one |-> 1, two |-> 2, three |-> 3]
WithDepth(of, token) ==
  IF token \in DOMAIN Positive THEN [of EXCEPT !.depth = Positive[token], !.want = ""]
                               ELSE Broken(of)
WithPath(of, token) ==
  IF of.paths # <<>> THEN Broken(of) ELSE [of EXCEPT !.paths = <<token>>]

NoOptions == [ok |-> TRUE, want |-> "", paths |-> <<>>, name |-> {}, pattern |-> "",
              kind |-> "any", depth |-> Unlimited, flags |-> {}]

\* ls [-R] [-a] [PATH], one path only.
LsToken(of, token) ==
  CASE token \in {"-R", "-a", "-1"} -> [of EXCEPT !.flags = @ \cup {token}]
    [] token = "-Ra" -> [of EXCEPT !.flags = @ \cup {"-R", "-a"}]
    [] token = "-x"  -> Broken(of)
    [] OTHER         -> WithPath(of, token)

\* find [PATH] with checks that take the token behind them, whatever it is.
FindToken(of, token) ==
  CASE of.want = "-name"     -> [of EXCEPT !.name = {token}, !.want = ""]
    [] of.want = "-type"     -> IF token \in {"f", "d"}
                                THEN [of EXCEPT !.kind = token, !.want = ""] ELSE Broken(of)
    [] of.want = "-maxdepth" -> WithDepth(of, token)
    [] OTHER -> IF token \in {"-name", "-type", "-maxdepth"} THEN Wanting(token, of)
                ELSE IF token \in {"-x", "-R", "-e", "-l", "-v", "-L"} THEN Broken(of)
                ELSE WithPath(of, token)

\* grep: the first bare token is the pattern unless -e gave it, and every bare
\* token behind it is a path.
GrepToken(of, token) ==
  IF of.want = "-e" THEN [of EXCEPT !.pattern = token, !.want = ""]
  ELSE CASE token = "-e" -> Wanting(token, of)
         [] token \in {"-l", "-c", "-v", "-R"} -> [of EXCEPT !.flags = @ \cup {token}]
         [] token = "-x" -> Broken(of)
         [] OTHER -> IF of.pattern = "" THEN [of EXCEPT !.pattern = token]
                     ELSE [of EXCEPT !.paths = Append(@, token)]

TreeToken(of, token) ==
  IF of.want = "-L" THEN WithDepth(of, token)
  ELSE CASE token = "-L" -> Wanting(token, of)
         [] token \in {"-d", "-a"} -> of
         [] token \in {"-x", "-R"} -> Broken(of)
         [] OTHER -> WithPath(of, token)

\* The checks behind the last token; no path means the workspace.
Parsed(source, of) ==
  IF of.want # "" \/ (source = "grep" /\ of.pattern = "") THEN Broken(of)
  ELSE IF of.paths = <<>> THEN [of EXCEPT !.paths = <<".">>] ELSE of

Token(source, of, token) ==
  IF ~of.ok THEN of
  ELSE CASE source = "ls"   -> LsToken(of, token)
         [] source = "find" -> FindToken(of, token)
         [] source = "grep" -> GrepToken(of, token)
         [] OTHER           -> TreeToken(of, token)

Unparsed(source) == [NoOptions EXCEPT !.depth = IF source = "tree" THEN 2 ELSE @]

Parse(source, argv) ==
  LET read[n \in 0..Len(argv)] ==
        IF n = 0 THEN Unparsed(source) ELSE Token(source, read[n - 1], argv[n])
  IN  Parsed(source, read[Len(argv)])

Judged(source, of) == IF source \notin Sources \/ ~of.ok THEN <<"unknowable">> ELSE of.paths

\* Variant: the gate looks at one path per command, as every source but grep has.
FsPathsFirst(c) == <<Judged(c.source, Parse(c.source, c.argv))[1]>>

\* fs_paths(): every path the command would touch, or unknowable.
FsPaths(c) == Judged(c.source, Parse(c.source, c.argv))

-------------------------------------------------------------------------------
(* The walk.                                                               *)

\* Some numbers in their order.
InTurn(K) == [n \in 1..Cardinality(K) |-> CHOOSE k \in K : Cardinality({j \in K : j <= k}) = n]

Denied(path)  == Range(path) \cap Forbidden # {}
Children(d)   == {p \in Folders \cup DOMAIN Texts : p # <<>> /\ Front(p) = d}
InOrder(ps)   == LET names == InTurn({Last(p) : p \in ps})
                 IN  [n \in 1..Len(names) |-> CHOOSE p \in ps : Last(p) = names[n]]
Visible(d)    == {p \in Children(d) : Last(p) \notin Hidden}

\* Variant: the depth limit is off by one.
SubfoldersLate(start, d, depth) ==
  IF depth # Unlimited /\ Len(d) - Len(start) >= depth THEN <<>>
  ELSE InOrder(Visible(d) \cap Folders)

\* os.walk() from the top: at the depth limit the directories are cleared before
\* they are listed, so they are neither shown nor entered.
Subfolders(start, d, depth) ==
  IF depth # Unlimited /\ Len(d) - Len(start) + 1 >= depth THEN <<>>
  ELSE InOrder(Visible(d) \cap Folders)

Readables(d) == InOrder({p \in Visible(d) \cap DOMAIN Texts : ~Denied(p)})

Entries(subs, d, files, dirs, under) ==
  (IF dirs THEN subs ELSE <<>>) \o (IF files THEN Readables(d) ELSE <<>>)
    \o FlattenSeq([i \in 1..Len(subs) |-> under[subs[i]]])

Walk(start, depth, files, dirs) ==
  LET under[d \in Folders] == Entries(Subfolders(start, d, depth), d, files, dirs, under)
  IN  IF start \in Folders THEN under[start]
      ELSE IF files /\ ~Denied(start) THEN <<start>> ELSE <<>>

\* The order of ls and tree: directories first.
Listed(ps) == InOrder(ps \cap Folders) \o InOrder(ps \ Folders)

Branches(here, level, under) ==
  FlattenSeq([i \in 1..Len(here) |->
    IF here[i] \in Folders THEN <<<<level, Last(here[i]), Slash>>>> \o under[here[i]]
                            ELSE <<<<level, Last(here[i])>>>>])

Outline(start, depth) ==
  LET under[d \in Folders] ==
        IF depth # Unlimited /\ Len(d) - Len(start) + 1 > depth THEN <<>>
        ELSE Branches(Listed({p \in Visible(d) : ~Denied(p)}), Len(d) - Len(start) + 1, under)
  IN  IF start \in Folders THEN under[start] ELSE <<start>>

-------------------------------------------------------------------------------
(* Sources.  A source is the sequence of what a reader of its lines makes  *)
(* it do next: visit an entry (which counts against the ceiling) and give  *)
(* the lines found there, or fail on a path.                               *)

Visit(counted, lines) == [counted |-> counted, bad |-> FALSE, lines |-> lines]
Failure               == [counted |-> FALSE, bad |-> TRUE, lines |-> <<>>]
Visits(counted, lines) == [i \in 1..Len(lines) |-> Visit(counted, <<lines[i]>>)]

Shown(p) == IF p \in Folders THEN Append(p, Slash) ELSE p

ShownFrom(n, all) == [i \in 1..Len(all) |-> SubSeq(Shown(all[i]), n + 1, Len(Shown(all[i])))]

LsVisits(of, start) ==
  IF start \notin Folders THEN Visits(FALSE, <<start>>)
  ELSE IF "-R" \in of.flags THEN Visits(TRUE, ShownFrom(0, Walk(start, Unlimited, TRUE, TRUE)))
  ELSE Visits(FALSE, ShownFrom(Len(start),
         Listed({p \in Children(start) :
                   ("-a" \in of.flags \/ p \in Visible(start)) /\ ~Denied(p)})))

\* A wildcard of ls gives what it matches by its whole path; nothing is counted.
GlobVisits(of, ps) ==
  Visits(FALSE, ShownFrom(0,
    InOrder({p \in ps : ~Denied(p) /\ ("-a" \in of.flags \/ Range(p) \cap Hidden = {})})))

HasName(of, p) == of.name = {} \/ \E token \in of.name : token \in DOMAIN Word /\ Last(p) = Word[token]

FindOutput(of, p) ==
  IF HasName(of, p) THEN <<IF of.kind # "f" THEN Shown(p) ELSE p>> ELSE <<>>

FindVisits(of, all) == [i \in 1..Len(all) |-> Visit(TRUE, FindOutput(of, all[i]))]

\* One searched file: its matching lines, its name, or how many there were.
GrepOutput(of, p, numbers) ==
  IF numbers = <<>> THEN <<>>
  ELSE IF "-l" \in of.flags THEN <<p>>
  ELSE IF "-c" \in of.flags THEN <<Append(p, Len(numbers))>>
  ELSE [i \in 1..Len(numbers) |-> Append(p, numbers[i])]

Hits(of, p) ==
  IF p \in Skipped THEN <<>>
  ELSE InTurn({n \in 1..Len(Texts[p]) :
         (of.pattern \in DOMAIN Word /\ Word[of.pattern] \in Texts[p][n]) # ("-v" \in of.flags)})

\* A skipped file was visited all the same.
GrepVisits(of, all) ==
  [i \in 1..Len(all) |-> Visit(TRUE, GrepOutput(of, all[i], Hits(of, all[i])))]

\* _resolve_start() comes first for each path; grep reads its paths in turn.
From(source, of, start) ==
  IF Denied(start) \/ start \notin Folders \cup DOMAIN Texts THEN <<Failure>>
  ELSE CASE source = "ls"   -> LsVisits(of, start)
         [] source = "find" ->
              FindVisits(of, Walk(start, of.depth, of.kind # "d", of.kind # "f"))
         [] source = "grep" -> GrepVisits(of, Walk(start, Unlimited, TRUE, FALSE))
         [] OTHER -> Visits(FALSE, Outline(start, of.depth))

\* _resolve_start() strips its argument; the gate judges it as it stands, and ls
\* matches a wildcard as it stands.
Stripping(token) == IF token \in DOMAIN Bare THEN Bare[token] ELSE token

VisitsAt(source, of, token) ==
  IF source = "ls" /\ token \in DOMAIN Globs THEN GlobVisits(of, Globs[token])
  ELSE IF Stripping(token) \notin DOMAIN Named THEN <<Failure>>
  ELSE From(source, of, Named[Stripping(token)])

VisitsOf(source, of) ==
  IF ~of.ok THEN <<Failure>>
  ELSE FlattenSeq([i \in 1..Len(of.paths) |-> VisitsAt(source, of, of.paths[i])])

SourceVisits(c) == VisitsOf(c.source, Parse(c.source, c.argv))

-------------------------------------------------------------------------------
(* Filters.                                                                *)

Before(s, t) ==
  \/ IsStrictPrefix(s, t)
  \/ \E i \in 1..Len(s) : i <= Len(t) /\ s[i] < t[i] /\ SubSeq(s, 1, i - 1) = SubSeq(t, 1, i - 1)

\* The runs of equal neighbours: where each begins, and how long it is.
Runs(lines) == InTurn({i \in 1..Len(lines) : i = 1 \/ lines[i] # lines[i - 1]})
RunEnd(lines, i) == CHOOSE j \in i..Len(lines) :
                      /\ \A k \in i..j : lines[k] = lines[i]
                      /\ j = Len(lines) \/ lines[j + 1] # lines[i]

Counting(lines, at) == [k \in 1..Len(at) |-> <<RunEnd(lines, at[k]) - at[k] + 1>> \o lines[at[k]]]
Taken(lines, at)    == [k \in 1..Len(at) |-> lines[at[k]]]
\* The lines in order; equal ones keep theirs.
Place(lines, i) == Cardinality({k \in 1..Len(lines) :
                     Before(lines[k], lines[i]) \/ (lines[k] = lines[i] /\ k <= i)})
Sorted(lines)   == [n \in 1..Len(lines) |-> lines[CHOOSE i \in 1..Len(lines) : Place(lines, i) = n]]
Distinct(lines) == Taken(lines, Runs(lines))

Reversed(f, lines)  == IF f.reverse THEN Reverse(lines) ELSE lines
Matches(f, lines)   == {i \in 1..Len(lines) : (f.word \in ToSet(lines[i])) # f.invert}
Matching(f, kept)   == IF f.counts THEN <<<<Len(kept)>>>> ELSE kept

Filter(f, lines) ==
  CASE f.op = "head" -> SubSeq(lines, 1, IF f.n < Len(lines) THEN f.n ELSE Len(lines))
    [] f.op = "tail" -> SubSeq(lines, IF f.n < Len(lines) THEN Len(lines) - f.n + 1 ELSE 1, Len(lines))
    [] f.op = "wc"   -> <<<<Len(lines)>>>>
    [] f.op = "sort" -> Reversed(f, IF f.unique THEN Distinct(Sorted(lines)) ELSE Sorted(lines))
    [] f.op = "uniq" -> IF f.counts THEN Counting(lines, Runs(lines)) ELSE Distinct(lines)
    [] OTHER -> Matching(f, Taken(lines, InTurn(Matches(f, lines))))

\* A filter that reads everything before it gives a line.
Drains(f) == f.op \in {"tail", "wc", "sort"} \/ (f.op = "grep" /\ f.counts)

\* What a lazy filter has given after some lines: uniq holds the last run back.
Held(f, given)     == IF f.op = "uniq" /\ given # <<>> THEN Front(given) ELSE given
Streamed(f, lines) == Held(f, Filter(f, lines))

Piped(filters, lines) ==
  LET through[i \in 0..Len(filters)] == IF i = 0 THEN lines ELSE Filter(filters[i], through[i - 1])
  IN  through[Len(filters)]

\* What reaches the filter behind the first i, after some lines.
Reaching(filters, i, lines) ==
  LET given[k \in 0..i] == IF k = 0 THEN lines ELSE Streamed(filters[k], given[k - 1])
  IN  given[i]

\* Somewhere a head has all it wants: nothing before it is asked for more.
Satisfied(filters, lines) ==
  \E i \in 1..Len(filters) :
    /\ filters[i].op = "head" /\ \A k \in 1..i - 1 : ~Drains(filters[k])
    /\ Len(Reaching(filters, i - 1, lines)) >= filters[i].n

-------------------------------------------------------------------------------
(* fs(): pull lines until the pipeline or the ceiling stops.               *)

Error == [error |-> TRUE, lines |-> <<>>, hint |-> "none", total |-> 0]

LinesOf(visits) == FlattenSeq([i \in 1..Len(visits) |-> visits[i].lines])

\* Visits the ceiling lets through; a later path is still resolved.
Counted(visits, n) == Cardinality({k \in 1..n : visits[k].counted})
Seen(visits, ceiling) ==
  [i \in 1..Len(visits) |->
     IF visits[i].counted /\ Counted(visits, i) > ceiling THEN Visit(FALSE, <<>>) ELSE visits[i]]

\* How many visits the pipeline asks for.
Least(enough, otherwise) == IF enough = {} THEN otherwise ELSE Min(enough)
Pulled(filters, visits) ==
  Least({n \in 0..Len(visits) : Satisfied(filters, LinesOf(SubSeq(visits, 1, n)))}, Len(visits))

\* Variant: only the walk's own count says that the ceiling was met.
StoppedWalking(visits, n, lines, ceiling) == Counted(visits, n) > ceiling

Stopped(visits, n, lines, ceiling) ==
  Counted(visits, n) > ceiling \/ Len(lines) >= ceiling

\* The first max_lines of the lines, and what is said of them.
Reply(lines, stopped, maxLines) ==
  [error |-> FALSE, lines |-> SubSeq(lines, 1, IF maxLines < Len(lines) THEN maxLines ELSE Len(lines)),
   total |-> Len(lines),
   hint |-> IF lines = <<>> THEN "empty" ELSE IF stopped THEN "sample"
            ELSE IF Len(lines) > maxLines THEN "more" ELSE "none"]

Reported(visits, n, lines, ceiling, maxLines) ==
  Reply(lines, Stopped(visits, n, lines, ceiling), maxLines)

Run(filters, visits, seen, n, ceiling, maxLines) ==
  IF \E i \in 1..n : seen[i].bad THEN Error
  ELSE Reported(visits, n, Piped(filters, LinesOf(SubSeq(seen, 1, n))), ceiling, maxLines)

RunSeen(filters, visits, seen, ceiling, maxLines) ==
  Run(filters, visits, seen, Pulled(filters, seen), ceiling, maxLines)

RunVisits(filters, visits, ceiling, maxLines) ==
  RunSeen(filters, visits, Seen(visits, ceiling), ceiling, maxLines)

\* The ceiling is a head behind the last filter.
AnswerTo(c, ceiling, maxLines) ==
  RunVisits(Append(c.filters, [op |-> "head", n |-> ceiling]), SourceVisits(c), ceiling, maxLines)

Unanswered == [error |-> FALSE, lines |-> <<>>, hint |-> "unanswered", total |-> 0]

SearchInit == command \in Commands /\ limit \in MaxLines /\ result = Unanswered

\* A source that is none, or a filter that is not one, refuses the whole line.
Fs ==
  /\ result = Unanswered
  /\ result' = IF command.source \notin Sources \/ \E i \in 1..Len(command.filters) :
                    command.filters[i].op = "bad"
               THEN Error ELSE AnswerTo(command, Ceiling, limit)
  /\ UNCHANGED <<command, limit>>

SearchSpec == SearchInit /\ [][Fs]_searchVars

-------------------------------------------------------------------------------

\* What the pipeline gives of every line of the source.
Whole(c) == Piped(c.filters, LinesOf(SourceVisits(c)))

BeginsWhole(all) ==
  /\ IsPrefix(result.lines, all) /\ result.total = Len(all)
  /\ result.hint = "none" => result.lines = all

\* An answer with lines says that it is a sample, or it gives the first lines of the
\* whole answer and the whole answer's length: what the filters make of every line of
\* the source, however few the pipeline asked for.  (search.py:1054, "so this is a
\* sample and the counts are not totals".)
WholeOrSaid ==
  result.lines # <<>> /\ result.hint # "sample" =>
    BeginsWhole(Whole(command))

Found(of, start) ==
  {p \in Folders \cup DOMAIN Texts :
     /\ IsPrefix(start, p) /\ (p = start => p \notin Folders)
     /\ Range(SubSeq(p, Len(start) + 1, Len(p))) \cap Hidden = {}
     /\ p \in Folders \/ ~Denied(p)
     /\ of.kind = "f" => p \notin Folders
     /\ of.kind = "d" => p \in Folders
     /\ of.depth # Unlimited => Len(p) - Len(start) <= of.depth
     /\ HasName(of, p)}

AllFound(of) ==
  of.depth = Unlimited \/ of.kind = "f" =>
    ToSet(result.lines) = {IF of.kind # "f" THEN Shown(p) ELSE p : p \in Found(of, Named[Stripping(of.paths[1])])}

\* find without a depth, and find for files to a depth, gives exactly the entries
\* that lie there, are not hidden, not denied and carry the name.
FindIsComplete ==
  command.source = "find" /\ command.filters = <<>> /\ result.lines # <<>> /\ result.hint = "none"
    => AllFound(Parse("find", command.argv))

Gated(paths) ==
  /\ paths = <<"unknowable">> => result = Unanswered \/ result.error
  /\ command.source \in {"find", "grep"} /\ command.filters = <<>>
       /\ ToSet(paths) \cap DOMAIN Bare = {} =>
       \A l \in ToSet(result.lines) : \E t \in ToSet(paths) \cap DOMAIN Named : IsPrefix(Named[t], l)

\* No line of find or grep comes from outside the paths the approval gate judged, as
\* long as none of them has blanks around it (the body strips those, the gate does not);
\* and no command the gate could not read is run.  The lines of ls are names, and a
\* wildcard of ls was judged by its anchor alone.  Where the two read a path apart,
\* OutsideIsAsked (FileCalls) does not hold.  (search.py:1067, fs_paths: "Every path
\* fs would touch".)
GateSeesEveryPath == Gated(FsPaths(command))
===============================================================================
