------------------------------ MODULE Workspace ------------------------------
(***************************************************************************)
(* FileSpace (features/files/space.py): how an argument becomes a path,    *)
(* which paths are free, which are refused, and the read grants of one     *)
(* conversation.  A path is the sequence of its components; an argument is *)
(* absolute or taken under the directory the host's root callable names    *)
(* when it is asked, may climb with "..", and may hold a wildcard or be    *)
(* padded with blanks, which the gate and the tools read differently.      *)
(***************************************************************************)
EXTENDS Naturals, Sequences, FiniteSets, SequencesExt

CONSTANTS
  Roots,         \* the directories the host's root callable may name
  Readable,      \* the read-only reference directories
  Links,         \* symbolic links: the path they point at, by their own
  Wild,          \* components with a wildcard: the names each matches
  Padded,        \* arguments with blanks around them: what strip() leaves
  Directories,   \* the paths that are directories while they exist
  Files,         \* the other paths a tree may hold
  DeniedNames,   \* names the denylist matches as a file
  DeniedParts,   \* and as any component
  Protected      \* components the file tools may not modify

NoBase == <<"no base">>   \* what a path outside every zone is shown under

\* A directory is not a link and links do not lead to links.
ASSUME WorkspaceAssumption ==
  /\ Roots # {} /\ NoBase \notin Roots
  /\ DOMAIN Links \cap (Directories \cup Files) = {}
  /\ \A l \in DOMAIN Links : Links[l] \in Directories \cup Files

VARIABLES
  root,    \* what the root callable names now
  disk,    \* the paths that exist
  grants   \* ReadGrants._directories

spaceVars == <<root, disk, grants>>

Up == ".."

\* A path lies under itself.
Within(path, base) == \A i \in DOMAIN base : i \in DOMAIN path /\ path[i] = base[i]

Start(arg) == IF arg.absolute THEN <<>> ELSE root
Below(at)  == SubSeq(at, 1, Len(at) - 1)

\* Path.resolve(): a link that is present is followed as soon as it is met, and ".."
\* climbs from where that led.
Step(present, at, part) ==
  LET path == Append(at, part)
  IN  IF part = Up THEN Below(at)
      ELSE IF path \in DOMAIN Links \cap present THEN Links[path] ELSE path
Followed(present, from, parts) ==
  FoldLeft(LAMBDA at, part : Step(present, at, part), from, parts)
Expanded(arg) == Followed(disk, Start(arg), arg.parts)

\* os.path.abspath(): ".." climbs in the text.  OwnPath is the path itself behind such
\* a text, the last component not followed.
Lexical(arg) ==
  FoldLeft(LAMBDA at, part : IF part = Up THEN Below(at) ELSE Append(at, part),
           Start(arg), arg.parts)
OwnPath(path) == Append(Followed(disk, <<>>, Below(path)), path[Len(path)])

\* _glob_anchor(): what stands before the first wildcard, the current directory when
\* nothing does.  _expand_under() takes it for the path of an argument with one.
HasWild(arg) == Range(arg.parts) \cap DOMAIN Wild # {}
Anchor(arg) ==
  LET literal == {n \in DOMAIN arg.parts : \A i \in 1..n : arg.parts[i] \notin DOMAIN Wild}
  IN  [absolute |-> arg.absolute /\ literal # {},
       parts    |-> SubSeq(arg.parts, 1, Cardinality(literal))]
GatePath(arg)   == IF HasWild(arg) THEN Anchor(arg) ELSE arg
Stripped(arg) == IF arg \in DOMAIN Padded THEN Padded[arg] ELSE arg

IsDenied(path) ==
  \/ path # <<>> /\ Last(path) \in DeniedNames
  \/ Range(path) \cap DeniedParts # {}

-------------------------------------------------------------------------------
(* The free zones: the workspace, and for reads the reference directories  *)
(* and what the user has granted.                                          *)

Zones(write) == {root} \cup (IF write THEN {} ELSE Readable \cup grants)
Free(path, write) == \E zone \in Zones(write) : Within(path, zone)

\* The zone a free path is shown in: the workspace first, then the references.
Base(path, write) ==
  IF Within(path, root) THEN root
  ELSE LET reference == {d \in Readable : Within(path, d)}
       IN  CHOOSE d \in (IF reference # {} THEN reference
                         ELSE {g \in Zones(write) : Within(path, g)}) : TRUE

\* Resolution: "refused" carries no target; an external one has no base.
Refused     == [ok |-> FALSE]
Resolved(t, base) == [ok |-> TRUE, target |-> t, base |-> base]

Resolve(arg, write) ==
  LET t == Expanded(arg) IN
  IF IsDenied(t) \/ (~arg.absolute /\ ~Within(t, root)) THEN Refused
  ELSE Resolved(t, IF ~arg.absolute THEN root
                   ELSE IF Free(t, write) THEN Base(t, write) ELSE NoBase)

\* _resolve_start() of the fs commands: it strips the argument, takes the zone of its
\* anchor and refuses what leaves a zone.
ResolveStart(arg) ==
  LET path   == Stripped(arg)
      t      == Expanded(path)
      anchor == Expanded(Anchor(path))
      base   == IF ~Anchor(path).absolute THEN root
                ELSE IF Free(anchor, FALSE) THEN Base(anchor, FALSE) ELSE NoBase
  IN  IF \/ base = root /\ ~Within(anchor, root)
         \/ IsDenied(t)
         \/ base # NoBase /\ ~Within(t, base)
      THEN Refused ELSE Resolved(t, base)

\* _glob_candidates(): ls expands a wildcard as it is written, from directory to
\* directory, where links and ".." lead.
Matched(arg) ==
  FoldLeft(LAMBDA found, part :
             disk \cap UNION {IF part \in DOMAIN Wild
                             THEN {Step(disk, d, n) : n \in {m \in Wild[part] : Append(d, m) \in disk}}
                             ELSE {Step(disk, d, part)} : d \in found},
           {Start(arg)}, arg.parts)

\* is_free(): what the approval gate asks of one argument, not stripped.
IsFree(arg, write) ==
  ~IsDenied(Expanded(GatePath(arg))) /\ Free(Expanded(GatePath(arg)), write)

\* display_path(): relative to the base when it has one.
Display(path, base) ==
  IF base # NoBase /\ Within(path, base)
  THEN [under |-> TRUE, path |-> SubSeq(path, Len(base) + 1, Len(path))]
  ELSE [under |-> FALSE, path |-> path]

\* Only a route into the workspace is looked at for protected components.
IsProtected(path, base) ==
  base = root /\ Range(Display(path, base).path) \cap Protected # {}

-------------------------------------------------------------------------------
(* What changes a FileSpace and its grants.                                *)

\* remember_read_approval(): behind an approved read_file, its directory.
Remember(tool, arg) ==
  LET path == Expanded(GatePath(arg))
      dir  == IF path \in disk \cap Directories THEN path ELSE SubSeq(path, 1, Len(path) - 1)
  IN  grants' = IF tool = "read_file" /\ ~IsDenied(dir) /\ ~Within(dir, root)
                THEN grants \cup {dir} ELSE grants

\* Variant: begin_request() does not reach the grants.
ForgetNothing == UNCHANGED grants

\* ReadGrants.on_new_turn, on_cleared.
ForgetGrants == grants' = {}
===============================================================================
