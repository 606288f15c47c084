------------------------------ MODULE FileCalls ------------------------------
(***************************************************************************)
(* The file tools behind the approval gate: a call is judged (policy,      *)
(* declaration, safe_when rule), perhaps shown to the application, and     *)
(* then run by a body that resolves its paths again.  Between the two the  *)
(* host may move the workspace (its root callable names another project)   *)
(* and, while a person reads the prompt, so may anything.                  *)
(***************************************************************************)
EXTENDS Workspace

CONSTANTS
  Args,          \* the path arguments a call may name
  Policies,      \* the approval policies a host may have configured
  MaxPaths,      \* bound: paths of one fs call
  MaxWritten,    \* bound: paths one request changes
  MaxWriting,    \* bound: requests that change paths, the first ones
  MaxRequests,   \* bound: requests of one conversation
  MaxMoves       \* bound: changes of the root

FileTools == {"read_file", "fs", "write_file", "edit_file", "delete_file"}
Policy    == {"reject_when_required", "ask_when_required", "ask_for_everything",
              "allow_all"}

ASSUME FileCallsAssumption ==
  /\ Policies \subseteq Policy /\ MaxPaths \in Nat /\ MaxWritten \in Nat
  /\ MaxWriting \in Nat /\ MaxRequests \in Nat \ {0} /\ MaxMoves \in Nat

VARIABLES
  policy,     \* the ApprovalPolicy
  pc,         \* where the call is
  call,       \* the call: its tool, its arguments, the recursive flag
  consent,    \* how it passed the gate
  done,       \* what the body did, and under which judgement, until it has returned
  written,    \* the run output files_written
  requests,   \* requests so far
  moves,      \* changes of the root so far
  judged,     \* history: the zones that were free without asking at the gate
  approved    \* history: directories whose read was approved in this request

callVars == <<pc, call, consent, judged>>
vars == <<spaceVars, policy, callVars, done, written, requests, moves, approved>>

NoCall  == [tool |-> "none", args |-> {}, recursive |-> FALSE]
Nothing == [tool |-> "none", alike |-> TRUE, touched |-> {}, named |-> {},
            consent |-> "none", zones |-> {}, root |-> <<>>]

Init ==
  /\ root \in Roots /\ disk = Directories \cup Files \cup DOMAIN Links /\ grants = {}
  /\ policy \in Policies
  /\ pc = "idle" /\ call = NoCall /\ consent = "none" /\ judged = {}
  /\ done = Nothing /\ written = {}
  /\ requests = 1 /\ moves = 0 /\ approved = {}

-------------------------------------------------------------------------------
(* The gate.                                                               *)

Declaration(tool) == IF tool = "delete_file" THEN "always" ELSE "conditional"
Writing(tool)     == tool \in {"write_file", "edit_file", "delete_file"}

\* safe_when() of the Files feature: every path a call names is free.
IsSafe(c) == \A a \in c.args : IsFree(a, Writing(c.tool))

\* needs_approval(): the policy first, then the declaration, then the rule.
NeedsApproval(c) ==
  CASE policy = "ask_for_everything" -> TRUE
    [] policy = "allow_all"          -> FALSE
    [] OTHER -> Declaration(c.tool) = "conditional" => ~IsSafe(c)

\* The policies without a handler.
Unattended == policy \in {"reject_when_required", "allow_all"}

Announce ==
  /\ pc = "idle"
  /\ \E tool \in FileTools, args \in SUBSET Args, recursive \in BOOLEAN :
       /\ Cardinality(args) \in 1..(IF tool = "fs" THEN MaxPaths ELSE 1)
       /\ recursive => tool = "delete_file"
       /\ Writing(tool) => Cardinality(written) < MaxWritten /\ requests <= MaxWriting
       /\ call' = [tool |-> tool, args |-> args, recursive |-> recursive]
  /\ pc' = "gate" /\ consent' = "none"
  /\ UNCHANGED <<spaceVars, policy, judged, done, written, requests, moves, approved>>

\* The call leaves without its body.
Refuse == pc' = "idle" /\ call' = NoCall /\ consent' = "none" /\ judged' = {}

Judge ==
  /\ pc = "gate"
  /\ \/ ~NeedsApproval(call) /\ pc' = "body" /\ UNCHANGED <<call, consent>>
        /\ judged' = {root} \cup (IF Writing(call.tool) THEN {} ELSE Readable \cup approved)
     \/ NeedsApproval(call) /\ Unattended /\ Refuse
     \/ NeedsApproval(call) /\ ~Unattended /\ pc' = "asked" /\ UNCHANGED <<call, consent, judged>>
  /\ UNCHANGED <<spaceVars, policy, done, written, requests, moves, approved>>

\* Only an explicit APPROVE passes (normalize_approval); a handler that raises,
\* rejects or returns anything else refuses, ABORT ends the run as well.
Answer ==
  /\ pc = "asked"
  /\ \E answer \in {"approve", "reject", "abort", "no decision"} :
       IF answer = "approve"
       THEN /\ pc' = "body" /\ consent' = "asked" /\ UNCHANGED <<call, judged>>
            /\ \E a \in call.args : Remember(call.tool, a)
       ELSE Refuse /\ UNCHANGED grants
  /\ approved' = approved \cup (grants' \ grants)
  /\ UNCHANGED <<root, disk, policy, done, written, requests, moves>>

-------------------------------------------------------------------------------
(* The bodies.  Each resolves its argument again, under the root and the   *)
(* grants of the moment it runs.  A body that returns an error has touched *)
(* nothing, a failed write excepted: it may have made the directories.     *)

\* The gate and the tool find the same path in the argument, or the tool takes it under
\* the workspace: fs strips what it is given, and a wildcard counts by its anchor.
ReadAlike(arg) ==
  LET path == IF call.tool = "fs" THEN Stripped(arg) ELSE arg
  IN  /\ path.absolute => path = arg
      /\ HasWild(arg) => call.tool # "fs" /\ ~arg.absolute

\* Did(touched, named): the paths reached, and those the call itself named.
Did(touched, named) ==
  done' = [tool |-> call.tool, alike |-> \A a \in call.args : ReadAlike(a),
           touched |-> touched, named |-> named,
           consent |-> consent, zones |-> judged \cup {root}, root |-> root]

Body(tool) ==
  /\ pc = "body" /\ call.tool = tool
  /\ pc' = "returned" /\ call' = NoCall /\ consent' = "none" /\ judged' = {}
  /\ UNCHANGED <<root, grants, policy, requests, moves, approved>>

Target(write) == {Resolve(a, write) : a \in call.args}
Fail == UNCHANGED <<disk, done, written>>

ReadBody ==
  /\ Body("read_file")
  /\ \E r \in Target(FALSE) :
       IF r.ok /\ r.target \in disk /\ r.target \in Files
       THEN Did({r.target}, {r.target}) /\ UNCHANGED <<disk, written>>
       ELSE Fail

\* _walk(): what lies under a start, without what the denylist names.
Walked(start) == {p \in disk \ DOMAIN Links : Within(p, start) /\ ~IsDenied(p)}

\* What a wildcard of ls shows, unless its anchor leaves the workspace.
ShownByWildcard(arg) ==
  IF ~Anchor(arg).absolute /\ ~Within(Expanded(Anchor(arg)), root) THEN {}
  ELSE {p \in Matched(arg) : ~IsDenied(p)}

\* A pipeline reads its starts one after the other and stops at a bad one; ls expands
\* a wildcard, which the other commands take for a name.
FsBody ==
  /\ Body("fs")
  /\ \/ \E good \in SUBSET {r \in {ResolveStart(a) : a \in call.args} :
                             r.ok /\ r.target \in disk} :
          LET starts == {r.target : r \in good}
          IN  Did(UNION {Walked(t) : t \in starts}, starts)
     \/ \E a \in call.args : HasWild(a) /\ Did(ShownByWildcard(a), {})
  /\ UNCHANGED <<disk, written>>

\* _after_write(): the chain's first hook records the path; one that raises is
\* passed over.
AfterWrite(path, base) == written' = written \cup {Display(path, base)}

Parents(path) == {SubSeq(path, 1, n) : n \in 1..Len(path) - 1}

\* Variant: the protected components are looked for in the argument as written.
WriteUnresolved ==
  /\ Body("write_file")
  /\ \E a \in call.args : LET r == Resolve(a, TRUE) IN
       IF ~r.ok \/ Range(a.parts) \cap Protected # {} \/ r.target \in Directories THEN Fail
       ELSE /\ disk' = disk \cup Parents(r.target) \cup {r.target}
            /\ Did({r.target}, {r.target}) /\ AfterWrite(r.target, r.base)

WriteBody ==
  /\ Body("write_file")
  /\ \E r \in Target(TRUE) :
       IF ~r.ok \/ IsProtected(r.target, r.base) THEN Fail
       ELSE \E wrote \in BOOLEAN :
              /\ wrote => r.target \notin Directories
              /\ disk' = disk \cup Parents(r.target) \cup (IF wrote THEN {r.target} ELSE {})
              /\ IF wrote THEN Did({r.target}, {r.target}) /\ AfterWrite(r.target, r.base)
                 ELSE UNCHANGED <<done, written>>

EditBody ==
  /\ Body("edit_file")
  /\ \E r \in Target(TRUE), matchesOnce \in BOOLEAN :
       IF ~r.ok \/ IsProtected(r.target, r.base) \/ r.target \notin disk \cap Files
          \/ ~matchesOnce
       THEN Fail
       ELSE /\ Did({r.target}, {r.target}) /\ AfterWrite(r.target, r.base)
            /\ UNCHANGED disk

\* A link is removed itself: the path it is named by is what the denylist and the
\* protected components are looked for in, and its target must resolve.
DeleteBody ==
  /\ Body("delete_file")
  /\ \E a \in call.args : LET r == Resolve(a, TRUE)
                             own == OwnPath(Lexical(a))
                             isLink == Lexical(a) # <<>> /\ own \in DOMAIN Links \cap disk
                             path == IF isLink THEN Lexical(a) ELSE r.target
                             base == IF isLink THEN root ELSE r.base
                             below == IF isLink THEN {own} ELSE {p \in disk : Within(p, path)}
     IN IF \/ IF isLink THEN IsDenied(Links[own]) \/ IsDenied(path)
                        ELSE ~r.ok \/ path = base \/ path \notin disk
           \/ Within(path, root) /\ IsProtected(path, base)
           \/ ~isLink /\ below # {path} /\ ~call.recursive
        THEN Fail
        ELSE /\ disk' = disk \ below
             /\ Did(below, {path}) /\ AfterWrite(path, base)

Return ==
  /\ pc = "returned" /\ pc' = "idle" /\ done' = Nothing
  /\ UNCHANGED <<spaceVars, policy, call, consent, judged, written, requests, moves, approved>>

-------------------------------------------------------------------------------
(* The host: another project, another request, a cleared conversation.     *)

MoveRoot ==
  /\ moves < MaxMoves /\ moves' = moves + 1
  /\ root' \in Roots \ {root}
  /\ UNCHANGED <<disk, grants, policy, callVars, done, written, requests, approved>>

\* A run clears its outputs on entry and tells the conversation's holders.
NewRequest ==
  /\ pc = "idle" /\ requests < MaxRequests /\ requests' = requests + 1
  /\ ForgetGrants /\ approved' = {} /\ written' = {}
  /\ UNCHANGED <<root, disk, policy, callVars, done, moves>>

ClearHistory ==
  /\ ForgetGrants /\ approved' = {}
  /\ UNCHANGED <<root, disk, policy, callVars, done, written, requests, moves>>

Next ==
  \/ Announce \/ Judge \/ Answer
  \/ ReadBody \/ FsBody \/ WriteBody \/ EditBody \/ DeleteBody \/ Return
  \/ MoveRoot \/ NewRequest \/ ClearHistory

Spec == Init /\ [][Next]_vars

-------------------------------------------------------------------------------

TypeOK ==
  /\ root \in Roots /\ approved \subseteq grants
  /\ policy \in Policies
  /\ pc \in {"idle", "gate", "asked", "body", "returned"}
  /\ call.tool \in FileTools \cup {"none"} /\ call.args \subseteq Args
  /\ consent \in {"none", "asked"}
  /\ requests \in 1..MaxRequests /\ moves \in 0..MaxMoves

\* What was done unasked lies in a zone that was free when the gate looked (the
\* workspace of that moment, and for reads a reference directory or a directory whose
\* read was approved in this request) or in the workspace it ran in.
Asked   == done.tool = "none" \/ done.consent = "asked" \/ policy = "allow_all"
Covered == \A p \in done.touched : \E zone \in done.zones : Within(p, zone)

\* A call whose arguments the gate and the tool read alike does unasked only what was
\* free: between the two the root may move, grants may go and a link may be removed.
\* Nothing is said of the arguments they read differently, a padded one that fs makes
\* absolute and a wildcard; there it does not hold (OutsideIsAsked).
\* (approval.py: ask_for_everything "always asks".)
ConsentCovers ==
  \/ Asked
  \/ /\ policy # "ask_for_everything" /\ done.tool # "delete_file"
     /\ done.alike => Covered

\* The same of every argument.  (search.py:967, "an absolute path outside it needs the
\* user's approval"; space.py: "read/written only with the user's approval".)
OutsideIsAsked == Asked \/ Covered

\* Whatever was approved, no tool opens a denied path it was sent to, and none
\* modifies a path with a protected component below the workspace it ran in, also
\* when a link or ".." leads there.  A link that is itself removed is looked at by the
\* path it was named by.  (space.py:18, features/files/feature.py:88.)
BoundariesHold ==
  \A p \in done.named :
    /\ ~IsDenied(p)
    /\ Writing(done.tool) /\ Within(p, done.root)
         => Range(SubSeq(p, Len(done.root) + 1, Len(p))) \cap Protected = {}

\* Nothing with a protected component leaves the workspace, either by itself or
\* with a directory above it.  (space.py:161, "paths file deletion must never remove")
ProtectedSurvives ==
  done.tool = "delete_file" =>
    \A p \in done.touched : Within(p, done.root)
         => Range(SubSeq(p, Len(done.root) + 1, Len(p))) \cap Protected = {}
===============================================================================
