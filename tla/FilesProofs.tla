------------------------------ MODULE FilesProofs ------------------------------
(***************************************************************************)
(* Theorems about the two machines of the files feature.                   *)
(*                                                                         *)
(* FileCalls: what the file tools do without asking was free when the gate *)
(* looked, for every workspace and policy and every argument the gate and  *)
(* the tool read alike.  Between Judge and the body the root may move and  *)
(* the grants may be forgotten, but no body runs, so the disk and with it  *)
(* what an absolute argument leads to stay as they were judged; a relative *)
(* argument leads under the root of the moment or is refused.              *)
(*                                                                         *)
(* FileSearch: what fs() answers, for every tree, command line, ceiling    *)
(* and number of lines.  The recursions of the model (the parsers, the     *)
(* walk, the pipelines) are recursive functions; each is first shown to    *)
(* have the one solution its equations describe, then read off them:       *)
(*   - a lazy filter has given a part of what it will have given (Lazy),   *)
(*     so once a head has all it wants, what its source would still give   *)
(*     changes nothing (HeadOnce): AnswersWhole;                           *)
(*   - what a walk gives stays under the path it began at (FromBelow), and *)
(*     the gate and the body parse alike: GateHolds;                       *)
(*   - from the leaves upwards, a walk gives what lies under its folder    *)
(*     (WalkGives): FindFindsAll.                                          *)
(***************************************************************************)
EXTENDS FileCalls, FileSearch, Integers, TLAPS, FiniteSetTheorems, SequenceTheorems,
        WellFoundedInduction

\* A call on its way to its body without consent was judged free, and every absolute
\* argument without a wildcard still leads into a zone it was judged by.
JudgedFree ==
  pc = "body" /\ consent # "asked" /\ policy # "allow_all" =>
    /\ policy # "ask_for_everything" /\ call.tool # "delete_file"
    /\ \A a \in call.args : a.absolute /\ ~HasWild(a) =>
         \E zone \in judged : Within(Expanded(a), zone)

\* Grants come from approvals and go with them (ReadGrants).
GrantsAreApproved == approved = grants

ConsentInv == GrantsAreApproved /\ JudgedFree /\ ConsentCovers

-------------------------------------------------------------------------------

\* A path under a path under a zone lies in the zone.
LEMMA WithinChains ==
  ASSUME NEW p, NEW q, NEW zone, Within(p, q), Within(q, zone)
  PROVE  Within(p, zone)
BY Zenon DEF Within

\* Resolution leads into the workspace of the moment, or where the argument leads.
LEMMA ResolveLeads ==
  ASSUME NEW a, NEW write, Resolve(a, write).ok
  PROVE  /\ Resolve(a, write).target = Expanded(a) /\ ~IsDenied(Expanded(a))
         /\ ~a.absolute => Within(Expanded(a), root) /\ Resolve(a, write).base = root
         /\ a.absolute => Resolve(a, write).base = IF Free(Expanded(a), write)
                                                   THEN Base(Expanded(a), write) ELSE NoBase
<1> DEFINE t == Expanded(a)
<1>1. ~(IsDenied(t) \/ (~a.absolute /\ ~Within(t, root)))
  BY DEF Resolve, Refused
<1>2. Resolve(a, write) = Resolved(t, IF ~a.absolute THEN root
                                     ELSE IF Free(t, write) THEN Base(t, write) ELSE NoBase)
  BY <1>1 DEF Resolve
<1> HIDE DEF t
<1> QED
  BY <1>1, <1>2 DEF Resolved, t

LEMMA StartLeads ==
  ASSUME root \in Roots, NEW a, ResolveStart(a).ok
  PROVE  LET path == Stripped(a)
         IN  /\ ResolveStart(a).target = Expanded(path) /\ ~IsDenied(Expanded(path))
             /\ ~path.absolute => Within(Expanded(path), root)
<1> DEFINE path == Stripped(a)
           t == Expanded(path)
           anchor == Expanded(Anchor(path))
           base == IF ~Anchor(path).absolute THEN root
                   ELSE IF Free(anchor, FALSE) THEN Base(anchor, FALSE) ELSE NoBase
           bad == \/ base = root /\ ~Within(anchor, root)
                  \/ IsDenied(t)
                  \/ base # NoBase /\ ~Within(t, base)
<1>1. ResolveStart(a) = IF bad THEN Refused ELSE Resolved(t, base)
  BY DEF ResolveStart
<1>2. ~bad /\ ResolveStart(a).target = t
  <2> HIDE DEF bad, base, t
  <2> QED
    BY <1>1 DEF Refused, Resolved
<1>3. ~path.absolute => base = root
  BY DEF Anchor
<1>4. root # NoBase
  BY WorkspaceAssumption
<1> QED
  BY <1>2, <1>3, <1>4

\* What a tool reaches for an argument of a call: where it leads, when the gate asked
\* about that, or something of the workspace.
Leads(t, a) ==
  \E path : /\ t = Expanded(path)
            /\ ~path.absolute => Within(t, root)
            /\ path.absolute => path = a /\ ~HasWild(a)

\* What a call that nobody was asked about reaches lies in a zone it was judged by or in
\* the workspace.
LEMMA TargetIsFree ==
  ASSUME JudgedFree, pc = "body", consent # "asked", policy # "allow_all",
         NEW a \in call.args, NEW t, Leads(t, a)
  PROVE  \E zone \in judged \cup {root} : Within(t, zone)
<1>1. PICK path : /\ t = Expanded(path)
                  /\ ~path.absolute => Within(t, root)
                  /\ path.absolute => path = a /\ ~HasWild(a)
  BY DEF Leads
<1>2. CASE path.absolute
  BY <1>1, <1>2 DEF JudgedFree
<1>3. CASE ~path.absolute
  BY <1>1, <1>3
<1> QED
  BY <1>2, <1>3

\* What an argument leads to depends on the root, if it is relative, and on the links.
LEMMA AbsoluteStays ==
  ASSUME NEW a, a.absolute, UNCHANGED disk
  PROVE  Expanded(a)' = Expanded(a)
<1>1. Start(a)' = Start(a)
  BY DEF Start
<1> QED
  BY <1>1 DEF Expanded

-------------------------------------------------------------------------------

\* An approval takes no grant away.
LEMMA RememberAdds ==
  ASSUME NEW tool, NEW a, Remember(tool, a)
  PROVE  grants \subseteq grants'
<1> DEFINE path == Expanded(GatePath(a))
           dir == IF path \in disk \cap Directories THEN path ELSE SubSeq(path, 1, Len(path) - 1)
           remembers == tool = "read_file" /\ ~IsDenied(dir) /\ ~Within(dir, root)
<1>1. grants' = IF remembers THEN grants \cup {dir} ELSE grants
  BY DEF Remember
<1> HIDE DEF remembers, dir
<1> QED
  BY <1>1

\* What an answer of the application leaves: the call on its way to its body, approved,
\* or no call.
LEMMA AnswerGives ==
  ASSUME Answer
  PROVE  /\ UNCHANGED <<root, disk, policy, done, written, requests, moves>>
         /\ approved' = approved \cup (grants' \ grants) /\ grants \subseteq grants'
         /\ (pc' = "body" /\ consent' = "asked" /\ call' = call) \/ Refuse
<1> DEFINE Given(answer) ==
      IF answer = "approve"
      THEN /\ pc' = "body" /\ consent' = "asked" /\ UNCHANGED <<call, judged>>
           /\ \E a \in call.args : Remember(call.tool, a)
      ELSE Refuse /\ UNCHANGED grants
<1>1. PICK answer \in {"approve", "reject", "abort", "no decision"} : Given(answer)
  BY DEF Answer
<1>2. UNCHANGED <<root, disk, policy, done, written, requests, moves>>
      /\ approved' = approved \cup (grants' \ grants)
  BY DEF Answer
<1>3. CASE answer = "approve"
  <2>1. pc' = "body" /\ consent' = "asked" /\ call' = call
        /\ \E a \in call.args : Remember(call.tool, a)
    BY <1>1, <1>3
  <2>2. grants \subseteq grants'
    <3>1. PICK a \in call.args : Remember(call.tool, a)
      BY <2>1
    <3> QED
      BY <3>1, RememberAdds
  <2> QED
    BY <1>2, <2>1, <2>2
<1>4. CASE answer # "approve"
  <2>1. Refuse /\ grants' = grants
    BY <1>1, <1>4
  <2> QED
    BY <1>2, <2>1
<1> QED
  BY <1>3, <1>4

LEMMA ConsentStarts == Init => ConsentInv
BY DEF Init, ConsentInv, GrantsAreApproved, JudgedFree, ConsentCovers, Asked, Nothing

\* A step that leaves the call at the body where it was keeps its judgement.
LEMMA JudgementStays ==
  ASSUME JudgedFree, UNCHANGED <<policy, pc, call, consent, judged, disk>>
  PROVE  JudgedFree'
<1> SUFFICES ASSUME pc = "body", consent # "asked", policy # "allow_all",
                    NEW a \in call.args, a.absolute, ~HasWild(a)
             PROVE  \E zone \in judged : Within(Expanded(a)', zone)
  BY DEF JudgedFree, HasWild
<1>1. Expanded(a)' = Expanded(a)
  BY AbsoluteStays
<1> QED
  BY <1>1 DEF JudgedFree

\* A step that leaves the last body's record alone keeps what it says.
LEMMA RecordStays ==
  ASSUME ConsentCovers, UNCHANGED <<policy, done>>
  PROVE  ConsentCovers'
BY DEF ConsentCovers, Asked, Covered, Within

\* A body that reaches what lies under what its arguments lead to was free to do so.
LEMMA BodyCovers ==
  ASSUME JudgedFree, NEW tool, Body(tool), NEW touched, NEW named, Did(touched, named),
         tool # "delete_file",
         (\A a \in call.args : ReadAlike(a)) =>
           \A p \in touched : \E a \in call.args : \E t : Leads(t, a) /\ Within(p, t)
  PROVE  ConsentCovers'
<1>1. done' = [tool |-> call.tool, alike |-> \A a \in call.args : ReadAlike(a),
               touched |-> touched, named |-> named,
               consent |-> consent, zones |-> judged \cup {root}, root |-> root]
  BY DEF Did
<1>2. pc = "body" /\ call.tool = tool /\ policy' = policy
  BY DEF Body
<1>3. CASE consent = "asked" \/ policy = "allow_all"
  BY <1>1, <1>2, <1>3 DEF ConsentCovers, Asked
<1>4. CASE consent # "asked" /\ policy # "allow_all"
  <2>1. policy # "ask_for_everything" /\ call.tool # "delete_file"
    BY <1>2, <1>4 DEF JudgedFree
  <2>2. ASSUME NEW p \in touched, \A a \in call.args : ReadAlike(a)
        PROVE  \E zone \in judged \cup {root} : Within(p, zone)
    <3>1. PICK a \in call.args : \E u : Leads(u, a) /\ Within(p, u)
      BY <2>2
    <3>2. PICK u : Leads(u, a) /\ Within(p, u)
      BY <3>1
    <3>3. PICK zone \in judged \cup {root} : Within(u, zone)
      BY <1>2, <1>4, <3>2, TargetIsFree
    <3> QED
      BY <3>2, <3>3, WithinChains
  <2> DEFINE alike == \A a \in call.args : ReadAlike(a)
             zones == judged \cup {root}
  <2>3. alike => \A p \in touched : \E zone \in zones : Within(p, zone)
    BY <2>2
  <2>4. /\ done'.alike = alike /\ done'.touched = touched /\ done'.zones = zones
        /\ done'.tool = call.tool
    BY <1>1
  <2> HIDE DEF alike, zones
  <2>5. Covered' <=> \A p \in touched : \E zone \in zones : Within(p, zone)
    BY <2>4 DEF Covered, Within
  <2> QED
    BY <1>2, <2>1, <2>3, <2>4, <2>5 DEF ConsentCovers
<1> QED
  BY <1>3, <1>4

\* Every path lies under itself.
LEMMA WithinItself == ASSUME NEW p PROVE Within(p, p)
BY DEF Within

\* A body of another tool than fs that reaches one target it resolved was free to.
LEMMA TargetCovers ==
  ASSUME JudgedFree, NEW tool, Body(tool), tool \notin {"fs", "delete_file"},
         NEW a \in call.args, NEW write \in BOOLEAN, Resolve(a, write).ok,
         Did({Resolve(a, write).target}, {Resolve(a, write).target})
  PROVE  ConsentCovers'
<1> DEFINE target == Resolve(a, write).target
           touched == {target}
<1>1. ASSUME ReadAlike(a) PROVE Leads(target, a)
  <2>1. a.absolute => ~HasWild(a)
    BY <1>1 DEF ReadAlike, Body
  <2> QED
    BY <2>1, ResolveLeads DEF Leads
<1>2. Did(touched, touched) /\ Within(target, target)
  BY WithinItself
<1> HIDE DEF target
<1>3. ASSUME \A b \in call.args : ReadAlike(b), NEW p \in touched
      PROVE  \E b \in call.args : \E t : Leads(t, b) /\ Within(p, t)
  BY <1>1, <1>2, <1>3
<1> HIDE DEF touched
<1> QED
  BY <1>2, <1>3, BodyCovers

\* The host's root callable names one of the roots.
LEMMA RootStays == root \in Roots /\ [Next]_vars => root' \in Roots
<1> SUFFICES ASSUME root \in Roots, [Next]_vars PROVE root' \in Roots
  OBVIOUS
<1>1. ASSUME NEW tool, Body(tool) PROVE root' \in Roots
  BY <1>1 DEF Body
<1>2. CASE \/ Announce \/ Judge \/ Answer \/ Return \/ MoveRoot \/ NewRequest
           \/ ClearHistory \/ UNCHANGED vars
  BY <1>2 DEF Announce, Judge, Answer, Return, MoveRoot, NewRequest, ClearHistory, vars,
              spaceVars
<1> QED
  BY <1>1, <1>2 DEF Next, ReadBody, FsBody, WriteBody, EditBody, DeleteBody

LEMMA ConsentSteps == root \in Roots /\ ConsentInv /\ [Next]_vars => ConsentInv'
<1> SUFFICES ASSUME root \in Roots, ConsentInv, [Next]_vars PROVE ConsentInv'
  OBVIOUS
<1> USE DEF ConsentInv, GrantsAreApproved
<1>1. CASE Announce
  <2>1. pc' = "gate" /\ UNCHANGED <<policy, done, approved, grants>>
    BY <1>1 DEF Announce, spaceVars
  <2> QED
    BY <2>1, RecordStays DEF JudgedFree
<1>2. CASE Judge
  <2>1. UNCHANGED <<root, disk, grants, policy, done, approved>>
    BY <1>2 DEF Judge, spaceVars
  <2>2. CASE pc' # "body"
    BY <2>1, <2>2, RecordStays DEF JudgedFree
  <2>3. CASE pc' = "body"
    <3>1. ~NeedsApproval(call) /\ call' = call /\ consent' = consent
          /\ judged' = {root} \cup (IF Writing(call.tool) THEN {} ELSE Readable \cup approved)
      BY <1>2, <2>3 DEF Judge, Refuse
    <3>2. judged' = Zones(Writing(call.tool))
      BY <3>1 DEF Zones
    <3>3. ASSUME policy # "allow_all"
          PROVE  policy # "ask_for_everything" /\ call.tool # "delete_file" /\ IsSafe(call)
      BY <3>1, <3>3 DEF NeedsApproval, Declaration
    <3>4. ASSUME policy # "allow_all", NEW a \in call.args, a.absolute, ~HasWild(a)
          PROVE  \E zone \in judged' : Within(Expanded(a)', zone)
      <4>1. Free(Expanded(a), Writing(call.tool))
        <5>1. IsFree(a, Writing(call.tool)) /\ GatePath(a) = a
          BY <3>3, <3>4 DEF IsSafe, GatePath
        <5> QED
          BY <5>1 DEF IsFree
      <4>2. Expanded(a)' = Expanded(a)
        BY <2>1, <3>4, AbsoluteStays
      <4> QED
        BY <3>2, <4>1, <4>2 DEF Free
    <3>5. JudgedFree'
      BY <2>1, <3>1, <3>3, <3>4 DEF JudgedFree, HasWild
    <3> QED
      BY <2>1, <3>5, RecordStays
  <2> QED
    BY <2>2, <2>3
<1>3. CASE Answer
  <2>1. UNCHANGED <<policy, done>> /\ approved' = grants'
    BY <1>3, AnswerGives
  <2>2. pc' # "body" \/ consent' = "asked"
    BY <1>3, AnswerGives DEF Refuse
  <2> QED
    BY <2>1, <2>2, RecordStays DEF JudgedFree
<1>4. ASSUME NEW tool, Body(tool), done' = done PROVE ConsentInv'
  <2>1. pc' = "returned" /\ UNCHANGED <<policy, grants, approved>>
    BY <1>4 DEF Body
  <2> QED
    BY <1>4, <2>1, RecordStays DEF JudgedFree
<1>5. ASSUME NEW tool, Body(tool), ConsentCovers' PROVE ConsentInv'
  BY <1>5 DEF Body, JudgedFree
<1>6. CASE ReadBody
  <2>1. PICK a \in call.args : LET r == Resolve(a, FALSE) IN
           IF r.ok /\ r.target \in disk /\ r.target \in Files
           THEN Did({r.target}, {r.target}) /\ UNCHANGED <<disk, written>> ELSE Fail
    BY <1>6 DEF ReadBody, Target
  <2>2. Body("read_file")
    BY <1>6 DEF ReadBody
  <2>3. CASE Fail
    BY <1>4, <2>2, <2>3 DEF Fail
  <2>4. CASE Resolve(a, FALSE).ok /\ Did({Resolve(a, FALSE).target}, {Resolve(a, FALSE).target})
    <3>1. ConsentCovers'
      BY <2>2, <2>4, TargetCovers
    <3> QED
      BY <1>5, <2>2, <3>1
  <2> QED
    BY <2>1, <2>3, <2>4
<1>7. CASE FsBody
  <2>1. Body("fs")
    BY <1>7 DEF FsBody
  <2>2. CASE \E good \in SUBSET {r \in {ResolveStart(a) : a \in call.args} :
                                   r.ok /\ r.target \in disk} :
               LET starts == {r.target : r \in good}
               IN  Did(UNION {Walked(t) : t \in starts}, starts)
    <3>1. PICK good \in SUBSET {r \in {ResolveStart(a) : a \in call.args} :
                                  r.ok /\ r.target \in disk} :
             Did(UNION {Walked(t) : t \in {r.target : r \in good}}, {r.target : r \in good})
      BY <2>2
    <3>2. ASSUME \A a \in call.args : ReadAlike(a),
                 NEW p \in UNION {Walked(t) : t \in {r.target : r \in good}}
          PROVE  \E a \in call.args : \E t : Leads(t, a) /\ Within(p, t)
      <4>1. PICK r \in good : p \in Walked(r.target)
        BY <3>2
      <4>2. PICK a \in call.args : r = ResolveStart(a) /\ r.ok
        OBVIOUS
      <4>3. /\ Stripped(a).absolute => Stripped(a) = a
            /\ ~HasWild(a)
        BY <2>1, <3>2 DEF ReadAlike, Body
      <4>4. Leads(r.target, a)
        BY <4>2, <4>3, StartLeads DEF Leads
      <4> QED
        BY <4>1, <4>4 DEF Walked
    <3> QED
      BY <1>5, <2>1, <3>1, <3>2, BodyCovers
  <2>3. CASE \E a \in call.args : HasWild(a) /\ Did(ShownByWildcard(a), {})
    <3>1. PICK a \in call.args : HasWild(a) /\ Did(ShownByWildcard(a), {})
      BY <2>3
    <3>2. ~ReadAlike(a)
      BY <2>1, <3>1 DEF ReadAlike, Body
    <3> QED
      BY <1>5, <2>1, <3>1, <3>2, BodyCovers
  <2>4. (\E a \in call.args : HasWild(a) /\ Did(ShownByWildcard(a), {}))
        \/ \E good \in SUBSET {r \in {ResolveStart(a) : a \in call.args} :
                               r.ok /\ r.target \in disk} :
              LET starts == {r.target : r \in good}
              IN  Did(UNION {Walked(t) : t \in starts}, starts)
    BY <1>7 DEF FsBody
  <2> QED
    BY <2>2, <2>3, <2>4
<1>8. CASE WriteBody
  <2>1. PICK a \in call.args : LET r == Resolve(a, TRUE) IN
           \/ done' = done
           \/ r.ok /\ Did({r.target}, {r.target})
    BY <1>8 DEF WriteBody, Target, Fail
  <2>2. Body("write_file")
    BY <1>8 DEF WriteBody
  <2>3. CASE done' = done
    BY <1>4, <2>2, <2>3
  <2>4. CASE Resolve(a, TRUE).ok /\ Did({Resolve(a, TRUE).target}, {Resolve(a, TRUE).target})
    <3>1. ConsentCovers'
      BY <2>2, <2>4, TargetCovers
    <3> QED
      BY <1>5, <2>2, <3>1
  <2> QED
    BY <2>1, <2>3, <2>4
<1>9. CASE EditBody
  <2>1. PICK a \in call.args : LET r == Resolve(a, TRUE) IN
           \/ done' = done
           \/ r.ok /\ Did({r.target}, {r.target})
    BY <1>9 DEF EditBody, Target, Fail
  <2>2. Body("edit_file")
    BY <1>9 DEF EditBody
  <2>3. CASE done' = done
    BY <1>4, <2>2, <2>3
  <2>4. CASE Resolve(a, TRUE).ok /\ Did({Resolve(a, TRUE).target}, {Resolve(a, TRUE).target})
    <3>1. ConsentCovers'
      BY <2>2, <2>4, TargetCovers
    <3> QED
      BY <1>5, <2>2, <3>1
  <2> QED
    BY <2>1, <2>3, <2>4
<1>10. CASE DeleteBody
  <2>1. Body("delete_file")
    BY <1>10 DEF DeleteBody
  <2>2. done' = done \/ \E touched, named : Did(touched, named)
    BY <1>10 DEF DeleteBody, Fail
  <2>3. consent = "asked" \/ policy = "allow_all"
    BY <2>1 DEF Body, JudgedFree
  <2>4. CASE done' # done
    BY <1>5, <2>1, <2>2, <2>3, <2>4 DEF Did, ConsentCovers, Asked, Body
  <2> QED
    BY <1>4, <2>1, <2>4
<1>11. CASE MoveRoot
  BY <1>11, JudgementStays, RecordStays DEF MoveRoot, callVars
<1>12. CASE NewRequest
  <2>1. pc' = "idle" /\ UNCHANGED <<policy, done>> /\ approved' = grants'
    BY <1>12 DEF NewRequest, ForgetGrants, callVars
  <2> QED
    BY <2>1, RecordStays DEF JudgedFree
<1>13. CASE ClearHistory
  BY <1>13, JudgementStays, RecordStays DEF ClearHistory, ForgetGrants, callVars
<1>14. CASE UNCHANGED vars
  BY <1>14, JudgementStays, RecordStays DEF vars, spaceVars, callVars
<1>15. CASE Return
  <2>1. pc' = "idle" /\ done' = Nothing /\ UNCHANGED <<grants, approved>>
    BY <1>15 DEF Return, spaceVars
  <2> QED
    BY <2>1 DEF JudgedFree, ConsentCovers, Asked, Nothing
<1> QED
  BY <1>1, <1>2, <1>3, <1>6, <1>7, <1>8, <1>9, <1>10, <1>11, <1>12, <1>13, <1>14, <1>15 DEF Next

\* No file tool reaches without consent, for arguments the gate and the tool read alike,
\* a path outside the zones that were free when its call was judged and the workspace it
\* runs in, wherever the root moved and whatever was removed in between (space.py,
\* approval.py).  A padded argument that fs makes absolute and a wildcard of fs, or
\* behind an absolute anchor, are not of these: OutsideIsAsked fails for them.
THEOREM ConsentAlways == Spec => []ConsentCovers
<1>1. Spec => [](root \in Roots /\ ConsentInv)
  <2>1. Init => root \in Roots /\ ConsentInv
    BY ConsentStarts DEF Init
  <2>2. (root \in Roots /\ ConsentInv) /\ [Next]_vars => (root \in Roots /\ ConsentInv)'
    BY RootStays, ConsentSteps
  <2> QED
    BY <2>1, <2>2, PTL DEF Spec
<1>2. root \in Roots /\ ConsentInv => ConsentCovers
  BY DEF ConsentInv
<1> QED
  BY <1>1, <1>2, PTL

-------------------------------------------------------------------------------
(* The boundaries.                                                         *)

\* A target inside the workspace is routed by it, so that its components are looked at.
LEMMA RoutedByRoot ==
  ASSUME NEW a, NEW write, Resolve(a, write).ok,
         Within(Resolve(a, write).target, root)
  PROVE  Resolve(a, write).base = root
<1> DEFINE t == Expanded(a)
<1>1. Within(t, root)
  BY ResolveLeads
<1>2. Free(t, write) /\ Base(t, write) = root
  BY <1>1 DEF Free, Base, Zones
<1> HIDE DEF t
<1> QED
  BY <1>2, ResolveLeads DEF t

\* What a path under the workspace has to keep clear of.
Clear(path) ==
  ~IsDenied(path) /\ (Within(path, root) =>
    Range(SubSeq(path, Len(root) + 1, Len(path))) \cap Protected = {})

\* A route into the workspace that is not protected has no protected component.
LEMMA UnprotectedIsClear ==
  ASSUME root # NoBase, NEW path, NEW base, ~IsDenied(path),
         Within(path, root) => base = root /\ ~IsProtected(path, base)
  PROVE  Clear(path)
<1> SUFFICES ASSUME Within(path, root)
             PROVE  Range(SubSeq(path, Len(root) + 1, Len(path))) \cap Protected = {}
  BY DEF Clear
<1>1. Display(path, root).path = SubSeq(path, Len(root) + 1, Len(path))
  BY DEF Display
<1> QED
  BY <1>1 DEF IsProtected

\* Everything is of its type, and no workspace is taken for a path without base.
BoundaryInv == TypeOK /\ BoundariesHold

LEMMA BoundaryStarts == Init => BoundaryInv
<1> SUFFICES ASSUME Init PROVE BoundaryInv
  OBVIOUS
<1>1. TypeOK
  BY FileCallsAssumption DEF Init, TypeOK, NoCall, FileTools
<1>2. BoundariesHold
  BY DEF Init, BoundariesHold, Nothing
<1> QED
  BY <1>1, <1>2 DEF BoundaryInv

LEMMA TypesKept == TypeOK /\ [Next]_vars => TypeOK'
<1> SUFFICES ASSUME TypeOK, [Next]_vars PROVE TypeOK'
  OBVIOUS
<1> USE FileCallsAssumption DEF TypeOK, spaceVars, callVars, NoCall
<1>1. CASE Announce
  BY <1>1 DEF Announce
<1>2. CASE Judge
  BY <1>2 DEF Judge, Refuse
<1>3. CASE Answer
  <2>1. UNCHANGED <<root, policy, requests, moves>> /\ approved' \subseteq grants'
    BY <1>3, AnswerGives
  <2>2. /\ call'.tool \in FileTools \cup {"none"} /\ call'.args \subseteq Args
        /\ consent' \in {"none", "asked"} /\ pc' \in {"idle", "gate", "asked", "body"}
    BY <1>3, AnswerGives DEF Refuse
  <2> QED
    BY <2>1, <2>2
<1>4. ASSUME NEW tool, Body(tool) PROVE TypeOK'
  BY <1>4 DEF Body
<1>5. CASE MoveRoot
  BY <1>5 DEF MoveRoot
<1>6. CASE NewRequest
  BY <1>6 DEF NewRequest, ForgetGrants
<1>7. CASE ClearHistory
  BY <1>7 DEF ClearHistory, ForgetGrants
<1>8. CASE Return \/ UNCHANGED vars
  BY <1>8 DEF Return, vars
<1> QED
  BY <1>1, <1>2, <1>3, <1>4, <1>5, <1>6, <1>7, <1>8
     DEF Next, ReadBody, FsBody, WriteBody, EditBody, DeleteBody

\* What a body names is clear of the boundaries, those of a write also of the protected
\* components.
LEMMA NamedIsClear ==
  ASSUME NEW tool, Body(tool), NEW touched, NEW named, Did(touched, named),
         \A p \in named : ~IsDenied(p) /\ (Writing(tool) => Clear(p))
  PROVE  BoundariesHold'
<1>1. done'.tool = tool /\ done'.named = named /\ done'.root = root
  BY DEF Did, Body
<1> QED
  BY <1>1 DEF BoundariesHold, Clear, IsDenied, Within, Writing

LEMMA BoundarySteps == BoundaryInv /\ [Next]_vars => BoundaryInv'
<1> SUFFICES ASSUME TypeOK, BoundariesHold, [Next]_vars PROVE BoundariesHold'
  BY TypesKept DEF BoundaryInv
<1>1. root # NoBase
  BY WorkspaceAssumption DEF TypeOK
<1>2. ASSUME done' = done PROVE BoundariesHold'
  BY <1>2 DEF BoundariesHold, IsDenied, Within, Writing
<1>3. ASSUME done' = Nothing PROVE BoundariesHold'
  BY <1>3 DEF BoundariesHold, Nothing
<1>4. ASSUME NEW a, NEW write, Resolve(a, write).ok PROVE ~IsDenied(Resolve(a, write).target)
  BY <1>4, ResolveLeads
<1>5. ASSUME NEW a \in call.args, NEW tool, Body(tool), Resolve(a, TRUE).ok,
             ~IsProtected(Resolve(a, TRUE).target, Resolve(a, TRUE).base),
             Did({Resolve(a, TRUE).target}, {Resolve(a, TRUE).target})
      PROVE  BoundariesHold'
  <2> DEFINE t == Resolve(a, TRUE).target
             base == Resolve(a, TRUE).base
  <2>1. ~IsDenied(t) /\ (Within(t, root) => base = root)
    BY <1>4, <1>5, RoutedByRoot
  <2>2. ~IsProtected(t, base) /\ Did({t}, {t}) /\ Body(tool)
    BY <1>5
  <2> HIDE DEF t, base
  <2>3. Clear(t)
    BY <1>1, <2>1, <2>2, UnprotectedIsClear
  <2> QED
    BY <2>1, <2>2, <2>3, NamedIsClear
<1>6. CASE Return
  BY <1>3, <1>6 DEF Return
<1>7. CASE Announce \/ Judge \/ Answer \/ MoveRoot \/ NewRequest \/ ClearHistory
           \/ UNCHANGED vars
  BY <1>2, <1>7 DEF Announce, Judge, Answer, MoveRoot, NewRequest, ClearHistory, vars
<1>9. CASE ReadBody
  <2>1. Body("read_file") /\ ~Writing("read_file")
    BY <1>9 DEF ReadBody, Writing
  <2>2. PICK r \in Target(FALSE) : done' = done \/ (r.ok /\ Did({r.target}, {r.target}))
    BY <1>9 DEF ReadBody, Fail
  <2>3. PICK a \in call.args : r = Resolve(a, FALSE)
    BY DEF Target
  <2> QED
    BY <1>2, <1>4, <2>1, <2>2, <2>3, NamedIsClear
<1>10. CASE FsBody
  <2>1. Body("fs") /\ ~Writing("fs")
    BY <1>10 DEF FsBody, Writing
  <2>2. CASE \E good \in SUBSET {r \in {ResolveStart(a) : a \in call.args} :
                                   r.ok /\ r.target \in disk} :
               LET starts == {r.target : r \in good}
               IN  Did(UNION {Walked(t) : t \in starts}, starts)
    <3>1. PICK good \in SUBSET {r \in {ResolveStart(a) : a \in call.args} :
                                  r.ok /\ r.target \in disk} :
             Did(UNION {Walked(t) : t \in {r.target : r \in good}}, {r.target : r \in good})
      BY <2>2
    <3>2. root \in Roots
      BY DEF TypeOK
    <3>3. ASSUME NEW r \in good PROVE ~IsDenied(r.target)
      <4>1. PICK a \in call.args : r = ResolveStart(a) /\ r.ok
        OBVIOUS
      <4> QED
        BY <3>2, <4>1, StartLeads
    <3> QED
      BY <2>1, <3>1, <3>3, NamedIsClear
  <2>3. CASE \E a \in call.args : HasWild(a) /\ Did(ShownByWildcard(a), {})
    <3>1. PICK listed : Did(listed, {})
      BY <2>3
    <3> QED
      BY <2>1, <3>1, NamedIsClear
  <2> QED
    BY <1>10, <2>2, <2>3 DEF FsBody
<1>11. CASE WriteBody
  <2>1. Body("write_file")
    BY <1>11 DEF WriteBody
  <2>2. PICK r \in Target(TRUE) :
          done' = done \/ (r.ok /\ ~IsProtected(r.target, r.base) /\ Did({r.target}, {r.target}))
    BY <1>11 DEF WriteBody, Fail
  <2>3. PICK a \in call.args : r = Resolve(a, TRUE)
    BY DEF Target
  <2> QED
    BY <1>2, <1>5, <2>1, <2>2, <2>3
<1>12. CASE EditBody
  <2>1. Body("edit_file")
    BY <1>12 DEF EditBody
  <2>2. PICK r \in Target(TRUE) :
          done' = done \/ (r.ok /\ ~IsProtected(r.target, r.base) /\ Did({r.target}, {r.target}))
    BY <1>12 DEF EditBody, Fail
  <2>3. PICK a \in call.args : r = Resolve(a, TRUE)
    BY DEF Target
  <2> QED
    BY <1>2, <1>5, <2>1, <2>2, <2>3
<1>13. CASE DeleteBody
  <2>1. Body("delete_file")
    BY <1>13 DEF DeleteBody
  <2> DEFINE isLink(a) == Lexical(a) # <<>> /\ OwnPath(Lexical(a)) \in DOMAIN Links \cap disk
             path(a) == IF isLink(a) THEN Lexical(a) ELSE Resolve(a, TRUE).target
             base(a) == IF isLink(a) THEN root ELSE Resolve(a, TRUE).base
  <2>2. PICK a \in call.args :
          \/ done' = done
          \/ /\ IF isLink(a) THEN ~IsDenied(path(a)) ELSE Resolve(a, TRUE).ok
             /\ ~(Within(path(a), root) /\ IsProtected(path(a), base(a)))
             /\ \E below : Did(below, {path(a)})
    BY <1>13 DEF DeleteBody, Fail
  <2>3. CASE done' = done
    BY <1>2, <2>3
  <2>4. CASE done' # done
    <3>1. ~IsDenied(path(a)) /\ (Within(path(a), root) => base(a) = root)
      BY <1>4, <2>2, <2>4, RoutedByRoot
    <3>2. ~(Within(path(a), root) /\ IsProtected(path(a), base(a)))
      BY <2>2, <2>4
    <3>3. PICK below : Did(below, {path(a)})
      BY <2>2, <2>4
    <3> HIDE DEF path, base
    <3>4. Clear(path(a))
      BY <1>1, <3>1, <3>2, UnprotectedIsClear
    <3> QED
      BY <2>1, <3>1, <3>3, <3>4, NamedIsClear
  <2> QED
    BY <2>3, <2>4
<1> QED
  BY <1>6, <1>7, <1>9, <1>10, <1>11, <1>12, <1>13 DEF Next

LEMMA BoundaryAlways == Spec => []BoundaryInv
BY BoundaryStarts, BoundarySteps, PTL DEF Spec

\* Every variable of the file calls keeps its type.
THEOREM Typed == Spec => []TypeOK
<1>1. BoundaryInv => TypeOK
  BY DEF BoundaryInv
<1> QED
  BY <1>1, BoundaryAlways, PTL

\* Whatever is approved, no tool opens a denied path it was sent to, and none changes
\* a protected component of the workspace it runs in by naming a path through it, a
\* link that is itself removed excepted (space.py: is_denied; write.py: the refusals of
\* each tool).
THEOREM BoundariesAlwaysHold == Spec => []BoundariesHold
<1>1. BoundaryInv => BoundariesHold
  BY DEF BoundaryInv
<1> QED
  BY <1>1, BoundaryAlways, PTL

-------------------------------------------------------------------------------
(* fs(): numbers, sequences and what is built step by step.                *)

\* Every non-empty set of positions has a first one.
LEMMA LeastElement ==
  ASSUME NEW T \in SUBSET Nat, T # {}
  PROVE  \E x \in T : \A y \in T : x <= y
<1>1. IsWellFoundedOn(OpToRel(<, Nat), Nat)
  BY NatLessThanWellFounded
<1>2. PICK x \in T : \A y \in T : ~ (<<y, x>> \in OpToRel(<, Nat))
  BY <1>1, WFMin
<1>3. \A y \in T : ~(y < x)
  BY <1>2 DEF OpToRel
<1> QED
  BY <1>3

\* The first place, if any, at which something goes wrong: not at 0, and nowhere before.
LEMMA FirstWrong ==
  ASSUME NEW wrong \in SUBSET Nat, 0 \notin wrong,
         \A n \in wrong : n - 1 \in wrong \/ n = 0
  PROVE  wrong = {}
<1> SUFFICES ASSUME wrong # {} PROVE FALSE
  OBVIOUS
<1>1. PICK n \in wrong : \A k \in wrong : n <= k
  BY LeastElement
<1> QED
  BY <1>1

\* What is built step by step exists: f starts at a and goes on by step.
Built(f, a, step, n) == f[0] = a /\ \A k \in 1..n : f[k] = step[<<f[k - 1], k>>]

LEMMA Iterates ==
  ASSUME NEW S, NEW a \in S, NEW step \in [S \X Nat -> S], NEW m \in Nat
  PROVE  \E f \in [0..m -> S] : Built(f, a, step, m)
<1> DEFINE Upto(n) == \E f \in [0..n -> S] : Built(f, a, step, n)
           wrong == {n \in 0..m : ~Upto(n)}
<1>1. Upto(0)
  <2>1. [n \in 0..0 |-> a] \in [0..0 -> S] /\ Built([n \in 0..0 |-> a], a, step, 0)
    BY DEF Built
  <2> QED
    BY <2>1
<1>2. ASSUME NEW n \in 1..m, Upto(n - 1)
      PROVE  Upto(n)
  <2>1. PICK f \in [0..n - 1 -> S] : Built(f, a, step, n - 1)
    BY <1>2
  <2> DEFINE g == [k \in 0..n |-> IF k = n THEN step[<<f[n - 1], n>>] ELSE f[k]]
  <2>2. n - 1 \in 0..n - 1 /\ n \in Nat
    OBVIOUS
  <2>3. f[n - 1] \in S /\ step[<<f[n - 1], n>>] \in S
    BY <2>2
  <2>4. g \in [0..n -> S]
    BY <2>3
  <2>5. ASSUME NEW k \in 1..n
        PROVE  g[k] = step[<<g[k - 1], k>>]
    <3>1. CASE k = n
      <4>1. g[n] = step[<<f[n - 1], n>>] /\ g[n - 1] = f[n - 1]
        BY <2>2
      <4> QED
        BY <3>1, <4>1
    <3>2. CASE k # n
      <4>1. k \in 1..n - 1 /\ k \in 0..n /\ k - 1 \in 0..n /\ k - 1 # n
        BY <3>2
      <4> QED
        BY <2>1, <3>2, <4>1 DEF Built
    <3> QED
      BY <3>1, <3>2
  <2>6. g[0] = a
    BY <2>1 DEF Built
  <2> HIDE DEF g
  <2> QED
    BY <2>4, <2>5, <2>6 DEF Built
<1> HIDE DEF Upto
<1>3. wrong \in SUBSET Nat /\ 0 \notin wrong
  BY <1>1
<1>4. ASSUME NEW n \in wrong
      PROVE  n - 1 \in wrong \/ n = 0
  BY <1>1, <1>2
<1>5. wrong = {}
  <2> HIDE DEF wrong
  <2> QED
    BY <1>3, <1>4, FirstWrong
<1>6. Upto(m)
  BY <1>5
<1> QED
  BY <1>6 DEF Upto

\* g collects the parts of q one after the other.
Collects(g, q) ==
  \A i \in 1..Len(q) : g[i] = IF i = 1 THEN q[i] ELSE g[i - 1] \o q[i]

LEMMA CollectsOnce ==
  ASSUME NEW q, Len(q) \in Nat, NEW f, NEW g, Collects(f, q), Collects(g, q)
  PROVE  \A i \in 1..Len(q) : f[i] = g[i]
<1> DEFINE differ == {i \in 1..Len(q) : f[i] # g[i]}
<1> SUFFICES ASSUME differ # {} PROVE FALSE
  OBVIOUS
<1>0. differ \in SUBSET Nat /\ \A i \in differ : i \in 1..Len(q) /\ f[i] # g[i]
  OBVIOUS
<1>1. \A i \in 1..Len(q) : i \notin differ => f[i] = g[i]
  OBVIOUS
<1> HIDE DEF differ
<1>2. PICK x \in differ : \A y \in differ : x <= y
  BY <1>0, LeastElement
<1>3. x \in 1..Len(q) /\ f[x] # g[x]
  BY <1>0
<1>4. CASE x = 1
  BY <1>3, <1>4 DEF Collects
<1>5. CASE x # 1
  <2>1. x - 1 \in 1..Len(q) /\ x - 1 \notin differ
    BY <1>2, <1>3, <1>5
  <2>2. f[x - 1] = g[x - 1]
    BY <1>1, <2>1
  <2>3. f[x] = f[x - 1] \o q[x] /\ g[x] = g[x - 1] \o q[x]
    BY <1>3, <1>5 DEF Collects
  <2> QED
    BY <1>3, <2>2, <2>3
<1> QED
  BY <1>4, <1>5

LEMMA FlattenCollects ==
  ASSUME NEW q, Len(q) \in Nat \ {0}, NEW g, Collects(g, q)
  PROVE  FlattenSeq(q) = g[Len(q)]
<1> DEFINE n == Len(q)
           F(f) == [i \in 1..n |-> IF i = 1 THEN q[i] ELSE f[i - 1] \o q[i]]
           f == CHOOSE e : e = F(e)
           e == [i \in 1..n |-> g[i]]
<1>1. FlattenSeq(q) = f[n]
  BY DEF FlattenSeq
<1>2. e = F(e)
  <2>1. \A i \in 1..n : g[i] = IF i = 1 THEN q[i] ELSE e[i - 1] \o q[i]
    BY DEF Collects
  <2> HIDE DEF n
  <2> QED
    BY <2>1
<1>3. f = F(f)
  <2> HIDE DEF F, e
  <2> QED
    BY <1>2
<1> HIDE DEF f
<1>4. Collects(f, q)
  BY <1>3 DEF Collects
<1>5. f[n] = g[n]
  BY <1>4, CollectsOnce
<1> QED
  BY <1>1, <1>5

LEMMA Single ==
  ASSUME NEW S, NEW x \in S
  PROVE  <<x>> \in Seq(S) /\ Len(<<x>>) = 1 /\ <<x>> # <<>> /\ <<x>>[1] = x
OBVIOUS

LEMMA Widen ==
  ASSUME NEW S, NEW T, S \subseteq T, NEW s \in Seq(S)
  PROVE  s \in Seq(T)
<1>1. Len(s) \in Nat /\ s \in [1..Len(s) -> T]
  OBVIOUS
<1> QED
  BY <1>1, SeqDef

\* A prefix, place by place.
LEMMA PrefixMeans ==
  ASSUME NEW S, NEW s \in Seq(S), NEW t \in Seq(S)
  PROVE  IsPrefix(s, t) <=> Len(s) <= Len(t) /\ \A i \in 1..Len(s) : s[i] = t[i]
<1>1. SubSeq(s, 1, Len(s)) = s
  OBVIOUS
<1>2. CASE Len(s) <= Len(t)
  <2> DEFINE u == SubSeq(t, 1, Len(s))
  <2>1. u \in Seq(S) /\ Len(u) = Len(s) /\ \A i \in 1..Len(s) : u[i] = t[i]
    BY <1>2
  <2> HIDE DEF u
  <2>2. s = u <=> \A i \in 1..Len(s) : s[i] = t[i]
    BY <2>1, SeqEqual
  <2> QED
    BY <1>1, <1>2, <2>2 DEF IsPrefix, u
<1> QED
  BY <1>2 DEF IsPrefix

LEMMA PrefixChain ==
  ASSUME NEW S, NEW s \in Seq(S), NEW t \in Seq(S), NEW u \in Seq(S),
         IsPrefix(s, t), IsPrefix(t, u)
  PROVE  IsPrefix(s, u)
<1>1. Len(s) <= Len(t) /\ Len(t) <= Len(u) /\ Len(s) \in Nat /\ Len(t) \in Nat /\ Len(u) \in Nat
  BY PrefixMeans
<1>2. \A i \in 1..Len(s) : s[i] = t[i] /\ i \in 1..Len(t) /\ t[i] = u[i]
  BY <1>1, PrefixMeans
<1> QED
  BY <1>1, <1>2, PrefixMeans

\* The first of two sequences put together, and a prefix of one as long.
LEMMA PrefixOfBoth ==
  ASSUME NEW S, NEW s \in Seq(S), NEW t \in Seq(S)
  PROVE  IsPrefix(s, s \o t) /\ s \o t \in Seq(S)
<1>1. /\ s \o t \in Seq(S) /\ Len(s \o t) = Len(s) + Len(t) /\ Len(s) \in Nat /\ Len(t) \in Nat
      /\ \A i \in 1..Len(s) + Len(t) : (s \o t)[i] = IF i <= Len(s) THEN s[i] ELSE t[i - Len(s)]
  BY ConcatProperties
<1> DEFINE u == s \o t
<1>2. u \in Seq(S) /\ Len(s) <= Len(u) /\ \A i \in 1..Len(s) : s[i] = u[i]
  BY <1>1
<1> HIDE DEF u
<1>3. IsPrefix(s, u)
  BY <1>2, PrefixMeans
<1> QED
  BY <1>2, <1>3 DEF u

LEMMA EmptyPrefix ==
  ASSUME NEW S, NEW s \in Seq(S)
  PROVE  IsPrefix(<<>>, s)
<1>1. <<>> \in Seq(S) /\ Len(<<>>) = 0 /\ Len(s) \in Nat
  OBVIOUS
<1>2. Len(<<>>) <= Len(s) /\ \A i \in 1..Len(<<>>) : <<>>[i] = s[i]
  BY <1>1
<1> QED
  BY <1>1, <1>2, PrefixMeans

LEMMA WholePrefix ==
  ASSUME NEW S, NEW s \in Seq(S), NEW t \in Seq(S), IsPrefix(s, t), Len(s) >= Len(t)
  PROVE  s = t
<1>1. Len(s) = Len(t) /\ \A i \in 1..Len(s) : s[i] = t[i]
  BY PrefixMeans
<1> QED
  BY <1>1, SeqEqual

LEMMA SetOfBoth ==
  ASSUME NEW S, NEW s \in Seq(S), NEW t \in Seq(S)
  PROVE  ToSet(s \o t) = ToSet(s) \cup ToSet(t)
<1> DEFINE u == s \o t
<1>1. /\ u \in Seq(S) /\ Len(u) = Len(s) + Len(t) /\ Len(s) \in Nat /\ Len(t) \in Nat
      /\ \A i \in 1..Len(s) + Len(t) : u[i] = IF i <= Len(s) THEN s[i] ELSE t[i - Len(s)]
  BY ConcatProperties
<1>2. DOMAIN u = 1..Len(s) + Len(t) /\ DOMAIN s = 1..Len(s) /\ DOMAIN t = 1..Len(t)
  BY <1>1
<1> HIDE DEF u
<1>3. \A i \in DOMAIN s : i \in DOMAIN u /\ u[i] = s[i]
  BY <1>1, <1>2
<1>4. ASSUME NEW i \in DOMAIN t PROVE \E k \in DOMAIN u : u[k] = t[i]
  <2>1. i + Len(s) \in DOMAIN u /\ u[i + Len(s)] = t[i]
    BY <1>1, <1>2
  <2> QED
    BY <2>1
<1>5. ASSUME NEW i \in DOMAIN u PROVE (\E k \in DOMAIN s : s[k] = u[i]) \/
               (\E k \in DOMAIN t : t[k] = u[i])
  <2>1. CASE i <= Len(s)
    <3>1. i \in DOMAIN s
      BY <1>1, <1>2, <2>1
    <3> QED
      BY <1>1, <1>2, <2>1, <3>1
  <2>2. CASE ~(i <= Len(s))
    <3>1. i - Len(s) \in DOMAIN t
      BY <1>1, <1>2, <2>2
    <3> QED
      BY <1>1, <1>2, <2>2, <3>1
  <2> QED
    BY <2>1, <2>2
<1> QED
  BY <1>3, <1>4, <1>5 DEF ToSet, u

\* What flattening collects exists, and grows.
LEMMA CollectsExists ==
  ASSUME NEW S, NEW q \in Seq(Seq(S))
  PROVE  \E g \in [1..Len(q) -> Seq(S)] :
           /\ Collects(g, q)
           /\ \A n \in 1..Len(q) : \A m \in n..Len(q) : IsPrefix(g[n], g[m])
           /\ \A n \in 1..Len(q) : ToSet(g[n]) = UNION {ToSet(q[i]) : i \in 1..n}
<1> DEFINE T == Seq(S)
           Add(x, n) == IF n \in 1..Len(q) THEN x \o q[n] ELSE x
           step == [p \in T \X Nat |-> Add(p[1], p[2])]
<1>1. Len(q) \in Nat /\ (\A n \in 1..Len(q) : q[n] \in T) /\ <<>> \in T
  OBVIOUS
<1>2. \A x \in T, y \in T : x \o y \in T /\ <<>> \o x = x
  OBVIOUS
<1> HIDE DEF T
<1>3. step \in [T \X Nat -> T]
  BY <1>1, <1>2
<1>4. ASSUME NEW x \in T, NEW n \in 1..Len(q) PROVE step[<<x, n>>] = x \o q[n]
  <2>1. <<x, n>> \in T \X Nat
    OBVIOUS
  <2> QED
    BY <2>1
<1> HIDE DEF step
<1>5. PICK f \in [0..Len(q) -> T] : Built(f, <<>>, step, Len(q))
  BY <1>1, <1>3, Iterates
<1>6. f[0] = <<>> /\ \A n \in 1..Len(q) : f[n] = f[n - 1] \o q[n] /\ f[n] \in T /\ f[n - 1] \in T
  <2>1. \A n \in 1..Len(q) : n \in Nat /\ n - 1 \in 0..Len(q) /\ n \in 0..Len(q)
    BY <1>1
  <2> QED
    BY <1>4, <1>5, <2>1 DEF Built
<1> DEFINE g == [n \in 1..Len(q) |-> f[n]]
<1>7. g \in [1..Len(q) -> T]
  BY <1>6
<1>8. \A n \in 1..Len(q) : g[n] = f[n]
  OBVIOUS
<1> HIDE DEF g
<1>9. Collects(g, q)
  <2> SUFFICES ASSUME NEW n \in 1..Len(q) PROVE g[n] = IF n = 1 THEN q[n] ELSE g[n - 1] \o q[n]
    BY DEF Collects
  <2>1. n # 1 => n - 1 \in 1..Len(q)
    BY <1>1
  <2> QED
    BY <1>1, <1>2, <1>6, <1>8, <2>1
<1>10. ASSUME NEW n \in 1..Len(q)
       PROVE  \A m \in n..Len(q) : IsPrefix(g[n], g[m])
  <2> DEFINE wrong == {k \in 0..Len(q) - n : ~IsPrefix(g[n], g[n + k])}
  <2>1. g[n] \in Seq(S)
    BY <1>7 DEF T
  <2>2. wrong \in SUBSET Nat /\ 0 \notin wrong
    <3>1. IsPrefix(g[n], g[n])
      BY <2>1, PrefixMeans
    <3> QED
      BY <1>1, <3>1
  <2>3. ASSUME NEW k \in wrong PROVE k - 1 \in wrong \/ k = 0
    <3> SUFFICES ASSUME k # 0, k - 1 \notin wrong PROVE FALSE
      OBVIOUS
    <3>1. k \in 1..Len(q) - n /\ k - 1 \in 0..Len(q) - n /\ n + k \in 1..Len(q) /\
            n + (k - 1) \in 1..Len(q)
      BY <1>1, <2>3
    <3>2. IsPrefix(g[n], g[n + (k - 1)])
      BY <3>1
    <3>3. n + k \in 1..Len(q) /\ (n + k) - 1 = n + (k - 1)
      BY <3>1
    <3>4. g[n + k] = g[n + (k - 1)] \o q[n + k]
      BY <1>6, <1>8, <3>1, <3>3
    <3>5. g[n + (k - 1)] \in Seq(S) /\ q[n + k] \in Seq(S)
      BY <1>1, <1>7, <3>1 DEF T
    <3>6. IsPrefix(g[n + (k - 1)], g[n + k]) /\ g[n + k] \in Seq(S)
      BY <3>4, <3>5, PrefixOfBoth
    <3>7. IsPrefix(g[n], g[n + k])
      BY <2>1, <3>2, <3>5, <3>6, PrefixChain
    <3> QED
      BY <2>3, <3>7
  <2>4. wrong = {}
    <3> HIDE DEF wrong
    <3> QED
      BY <2>2, <2>3, FirstWrong
  <2>5. ASSUME NEW m \in n..Len(q) PROVE IsPrefix(g[n], g[m])
    <3>1. m - n \in 0..Len(q) - n /\ n + (m - n) = m
      BY <1>1
    <3> QED
      BY <2>4, <3>1
  <2> QED
    BY <2>5
<1>11. \A n \in 1..Len(q) : ToSet(g[n]) = UNION {ToSet(q[i]) : i \in 1..n}
  <2> DEFINE U(n) == UNION {ToSet(q[i]) : i \in 1..n}
             wrong == {n \in 0..Len(q) : ToSet(f[n]) # U(n)}
  <2>1. wrong \in SUBSET Nat /\ 0 \notin wrong
    <3>1. ToSet(<<>>) = {}
      BY DEF ToSet
    <3>2. U(0) = {}
      OBVIOUS
    <3> QED
      BY <1>1, <1>6, <3>1, <3>2
  <2>2. ASSUME NEW n \in wrong PROVE n - 1 \in wrong \/ n = 0
    <3> SUFFICES ASSUME n # 0, n - 1 \notin wrong PROVE FALSE
      OBVIOUS
    <3>1. n \in 1..Len(q) /\ n - 1 \in 0..Len(q)
      BY <1>1, <2>2
    <3>2. ToSet(f[n - 1]) = U(n - 1)
      BY <3>1
    <3>3. f[n - 1] \in Seq(S) /\ q[n] \in Seq(S) /\ f[n] = f[n - 1] \o q[n]
      BY <1>1, <1>6, <3>1 DEF T
    <3>4. ToSet(f[n]) = ToSet(f[n - 1]) \cup ToSet(q[n])
      BY <3>3, SetOfBoth
    <3>5. 1..n = (1..n - 1) \cup {n}
      BY <3>1
    <3>6. U(n) = U(n - 1) \cup ToSet(q[n])
      BY <3>5
    <3> HIDE DEF U
    <3> QED
      BY <2>2, <3>2, <3>4, <3>6
  <2>3. wrong = {}
    <3> HIDE DEF wrong
    <3> QED
      BY <2>1, <2>2, FirstWrong
  <2>4. \A n \in 1..Len(q) : n \in 0..Len(q)
    OBVIOUS
  <2> QED
    BY <1>8, <2>3, <2>4
<1> QED
  BY <1>7, <1>9, <1>10, <1>11 DEF T

\* A flattened sequence: its elements are those of the parts, and what the first parts
\* give comes first.
LEMMA Flattened ==
  ASSUME NEW S, NEW q \in Seq(Seq(S))
  PROVE  /\ FlattenSeq(q) \in Seq(S)
         /\ ToSet(FlattenSeq(q)) = UNION {ToSet(q[i]) : i \in 1..Len(q)}
         /\ \A n \in 0..Len(q) : IsPrefix(FlattenSeq(SubSeq(q, 1, n)), FlattenSeq(q))
<1>1. PICK g \in [1..Len(q) -> Seq(S)] :
           /\ Collects(g, q)
           /\ \A n \in 1..Len(q) : \A m \in n..Len(q) : IsPrefix(g[n], g[m])
           /\ \A n \in 1..Len(q) : ToSet(g[n]) = UNION {ToSet(q[i]) : i \in 1..n}
  BY CollectsExists
<1>2. FlattenSeq(<<>>) = <<>>
  BY DEF FlattenSeq
<1>3. Len(q) \in Nat
  OBVIOUS
<1>4. ASSUME NEW n \in 1..Len(q) PROVE FlattenSeq(SubSeq(q, 1, n)) = g[n]
  <2> DEFINE r == SubSeq(q, 1, n)
  <2>1. r \in Seq(Seq(S)) /\ Len(r) = n /\ \A i \in 1..n : r[i] = q[i]
    OBVIOUS
  <2> HIDE DEF r
  <2>2. Collects(g, r)
    <3> SUFFICES ASSUME NEW i \in 1..n PROVE g[i] = IF i = 1 THEN r[i] ELSE g[i - 1] \o r[i]
      BY <2>1 DEF Collects
    <3>1. i \in 1..Len(q)
      BY <1>3
    <3> QED
      BY <1>1, <2>1, <3>1 DEF Collects
  <2>3. Len(r) \in Nat \ {0}
    BY <2>1
  <2>4. FlattenSeq(r) = g[n]
    BY <2>1, <2>2, <2>3, FlattenCollects
  <2> QED
    BY <2>4 DEF r
<1>5. SubSeq(q, 1, Len(q)) = q
  OBVIOUS
<1>6. CASE Len(q) = 0
  <2>1. q = <<>>
    BY <1>6
  <2>2. \A n \in 0..Len(q) : SubSeq(q, 1, n) = <<>>
    BY <1>6, <2>1
  <2>3. FlattenSeq(q) = <<>> /\ <<>> \in Seq(S)
    BY <1>2, <2>1
  <2>4. ToSet(<<>>) = {} /\ UNION {ToSet(q[i]) : i \in 1..Len(q)} = {}
    BY <1>6 DEF ToSet
  <2>5. IsPrefix(<<>>, <<>>)
    BY <2>3, EmptyPrefix
  <2> QED
    BY <1>2, <2>2, <2>3, <2>4, <2>5
<1>7. CASE Len(q) # 0
  <2>1. Len(q) \in 1..Len(q)
    BY <1>3, <1>7
  <2>2. FlattenSeq(q) = g[Len(q)]
    BY <1>4, <1>5, <2>1
  <2>3. FlattenSeq(q) \in Seq(S)
    BY <2>1, <2>2
  <2>4. ASSUME NEW n \in 0..Len(q) PROVE IsPrefix(FlattenSeq(SubSeq(q, 1, n)), FlattenSeq(q))
    <3>1. CASE n = 0
      <4>1. SubSeq(q, 1, n) = <<>>
        BY <3>1
      <4>2. IsPrefix(<<>>, FlattenSeq(q))
        BY <2>3, EmptyPrefix
      <4> QED
        BY <1>2, <4>1, <4>2
    <3>2. CASE n # 0
      <4>1. n \in 1..Len(q) /\ Len(q) \in n..Len(q)
        BY <1>3, <3>2
      <4> QED
        BY <1>1, <1>4, <2>2, <4>1
    <3> QED
      BY <3>1, <3>2
  <2> QED
    BY <1>1, <2>1, <2>2, <2>3, <2>4
<1> QED
  BY <1>6, <1>7

-------------------------------------------------------------------------------
(* Numbers in their order.                                                 *)

\* How many of some numbers come up to k.
Rank(K, k) == Cardinality({j \in K : j <= k})

LEMMA Ranks ==
  ASSUME NEW K \in SUBSET Nat, IsFiniteSet(K)
  PROVE  /\ Cardinality(K) \in Nat
         /\ \A k \in K : Rank(K, k) \in 1..Cardinality(K)
         /\ \A j, k \in K : j < k <=> Rank(K, j) < Rank(K, k)
         /\ \A n \in 1..Cardinality(K) : \E k \in K : Rank(K, k) = n
<1> DEFINE upto(k) == {j \in K : j <= k}
<1>1. \A k \in K : upto(k) \in SUBSET K /\ k \in upto(k)
  OBVIOUS
<1>2. ASSUME NEW k \in K
      PROVE  Rank(K, k) \in 1..Cardinality(K) /\ IsFiniteSet(upto(k)) /\
        Rank(K, k) = Cardinality(upto(k))
  <2>1. IsFiniteSet(upto(k)) /\ Cardinality(upto(k)) <= Cardinality(K)
    BY <1>1, FS_Subset
  <2>2. Cardinality(upto(k)) \in Nat /\ Cardinality(upto(k)) # 0 /\ Cardinality(K) \in Nat
    <3> HIDE DEF upto
    <3> QED
      BY <1>1, <2>1, FS_CardinalityType, FS_EmptySet
  <2>3. Rank(K, k) = Cardinality(upto(k))
    BY DEF Rank
  <2> HIDE DEF upto
  <2> QED
    BY <2>1, <2>2, <2>3
<1>3. ASSUME NEW j \in K, NEW k \in K, j < k
      PROVE  Rank(K, j) < Rank(K, k)
  <2>1. upto(j) \in SUBSET upto(k) /\ k \notin upto(j) /\ k \in upto(k)
    <3>1. j \in Nat /\ k \in Nat /\ \A i \in K : i \in Nat
      OBVIOUS
    <3>2. \A i \in K : i <= j => i <= k
      BY <1>3, <3>1
    <3>3. ~(k <= j) /\ k <= k
      BY <1>3, <3>1
    <3> QED
      BY <3>2, <3>3
  <2> HIDE DEF upto
  <2>2. Cardinality(upto(j)) <= Cardinality(upto(k)) /\ Cardinality(upto(j)) # Cardinality(upto(k))
    BY <1>2, <2>1, FS_Subset
  <2>3. Cardinality(upto(j)) \in Nat /\ Cardinality(upto(k)) \in Nat
    BY <1>2, FS_CardinalityType
  <2> QED
    BY <1>2, <2>2, <2>3
<1> HIDE DEF upto
<1>4. Cardinality(K) \in Nat
  BY FS_CardinalityType
<1> DEFINE n == Cardinality(K)
           rank == [k \in K |-> Rank(K, k)]
<1>5. rank \in [K -> 1..n] /\ IsInjective(rank)
  <2>1. \A j, k \in K : Rank(K, j) = Rank(K, k) => j = k
    <3> SUFFICES ASSUME NEW j \in K, NEW k \in K, Rank(K, j) = Rank(K, k), j # k PROVE FALSE
      OBVIOUS
    <3>1. j < k \/ k < j
      OBVIOUS
    <3>2. Rank(K, j) \in Nat /\ Rank(K, k) \in Nat
      BY <1>2
    <3> QED
      BY <1>3, <3>1, <3>2
  <2> QED
    BY <1>2, <2>1 DEF IsInjective
<1>6. rank \in Surjection(K, 1..n)
  <2>1. rank \in Injection(K, 1..n)
    BY <1>5 DEF Injection
  <2>2. IsFiniteSet(1..n) /\ Cardinality(1..n) = n
    BY <1>4, FS_Interval
  <2> HIDE DEF rank
  <2> QED
    BY <2>1, <2>2, FS_Injection
<1>7. \A m \in 1..n : \E k \in K : rank[k] = m
  <2> HIDE DEF rank, n
  <2> QED
    BY <1>6 DEF Surjection
<1>8. \A j, k \in K : j < k <=> Rank(K, j) < Rank(K, k)
  <2> SUFFICES ASSUME NEW j \in K, NEW k \in K, Rank(K, j) < Rank(K, k), ~(j < k) PROVE FALSE
    BY <1>3
  <2>1. j = k \/ k < j
    OBVIOUS
  <2>2. Rank(K, j) \in Nat /\ Rank(K, k) \in Nat
    BY <1>2
  <2> QED
    BY <1>3, <2>1, <2>2
<1> QED
  BY <1>2, <1>4, <1>7, <1>8

\* Every number once, each behind the smaller ones.
LEMMA TurnsAre ==
  ASSUME NEW K \in SUBSET Nat, IsFiniteSet(K)
  PROVE  /\ InTurn(K) \in Seq(K) /\ Len(InTurn(K)) = Cardinality(K) /\ Cardinality(K) \in Nat
         /\ ToSet(InTurn(K)) = K
         /\ \A n \in 1..Cardinality(K) : InTurn(K)[n] \in K /\ Rank(K, InTurn(K)[n]) = n
         /\ \A k \in K : InTurn(K)[Rank(K, k)] = k /\ Rank(K, k) \in 1..Cardinality(K)
<1> DEFINE c == Cardinality(K)
           s == InTurn(K)
<1>1. c \in Nat /\ s = [n \in 1..c |-> CHOOSE k \in K : Rank(K, k) = n]
  BY Ranks DEF InTurn, Rank
<1>2. \A n \in 1..c : s[n] \in K /\ Rank(K, s[n]) = n
  <2> SUFFICES ASSUME NEW n \in 1..c PROVE s[n] \in K /\ Rank(K, s[n]) = n
    OBVIOUS
  <2>1. \E k \in K : Rank(K, k) = n
    BY Ranks
  <2>2. s[n] = CHOOSE k \in K : Rank(K, k) = n
    BY <1>1
  <2> HIDE DEF s, c
  <2> QED
    BY <2>1, <2>2
<1>3. s \in Seq(K) /\ Len(s) = c /\ DOMAIN s = 1..c
  <2> HIDE DEF s, c
  <2> QED
    BY <1>1, <1>2
<1>4. ASSUME NEW k \in K PROVE Rank(K, k) \in 1..c /\ s[Rank(K, k)] = k
  <2> DEFINE n == Rank(K, k)
  <2>1. n \in 1..c
    BY Ranks
  <2>2. s[n] \in K /\ Rank(K, s[n]) = n
    BY <1>2, <2>1
  <2> HIDE DEF s, c, n
  <2>3. s[n] \in Nat /\ k \in Nat /\ n \in Nat /\ ~(n < n)
    <3>1. n \in Nat
      BY <1>1, <2>1
    <3>2. s[n] \in Nat /\ k \in Nat
      BY <2>2
    <3> QED
      BY <3>1, <3>2
  <2>4. ~(s[n] < k) /\ ~(k < s[n])
    BY <2>2, <2>3, Ranks DEF n
  <2> QED
    BY <2>1, <2>3, <2>4 DEF n
<1>5. ToSet(s) = K
  <2> HIDE DEF s, c
  <2> QED
    BY <1>2, <1>3, <1>4 DEF ToSet
<1> HIDE DEF s
<1> QED
  BY <1>1, <1>2, <1>3, <1>4, <1>5 DEF s

\* The numbers up to a bound come first.
LEMMA TurnsBegin ==
  ASSUME NEW K \in SUBSET Nat, IsFiniteSet(K), NEW J \in SUBSET K,
         \A j \in J : \A k \in K : k <= j => k \in J
  PROVE  IsPrefix(InTurn(J), InTurn(K)) /\ Cardinality(J) <= Cardinality(K)
<1>1. IsFiniteSet(J) /\ Cardinality(J) <= Cardinality(K) /\ J \in SUBSET Nat
  BY FS_Subset
<1>2. \A j \in J : Rank(J, j) = Rank(K, j)
  <2> SUFFICES ASSUME NEW j \in J PROVE Rank(J, j) = Rank(K, j)
    OBVIOUS
  <2>1. {k \in J : k <= j} = {k \in K : k <= j}
    OBVIOUS
  <2> QED
    BY <2>1 DEF Rank
<1>3. InTurn(J) \in Seq(K) /\ Len(InTurn(J)) = Cardinality(J) /\ Cardinality(J) \in Nat
  <2>1. InTurn(J) \in Seq(J) /\ Len(InTurn(J)) = Cardinality(J) /\ Cardinality(J) \in Nat
    BY <1>1, TurnsAre
  <2> QED
    BY <2>1, Widen
<1>4. InTurn(K) \in Seq(K) /\ Len(InTurn(K)) = Cardinality(K)
  BY TurnsAre
<1>5. ASSUME NEW n \in 1..Cardinality(J) PROVE InTurn(J)[n] = InTurn(K)[n]
  <2>1. InTurn(J)[n] \in J /\ Rank(J, InTurn(J)[n]) = n
    BY <1>1, TurnsAre
  <2>2. InTurn(K)[Rank(K, InTurn(J)[n])] = InTurn(J)[n]
    BY <2>1, TurnsAre
  <2> QED
    BY <1>2, <2>1, <2>2
<1>6. IsPrefix(InTurn(J), InTurn(K))
  BY <1>1, <1>3, <1>4, <1>5, PrefixMeans
<1> QED
  BY <1>1, <1>6

-------------------------------------------------------------------------------
(* Command lines.                                                          *)

EntryKinds == {"any", "f", "d"}
Spelled == Tokens \cup {"", ".", "-R", "-a"}
Options ==
  [ok : BOOLEAN, want : Spelled, paths : Seq(Spelled), name : SUBSET Spelled, pattern : Spelled,
   kind : EntryKinds, depth : Nat, flags : SUBSET Spelled]

\* Every source but grep takes one path.
Understood(source, of) == of \in Options /\ (source \in {"ls", "find"} => Len(of.paths) <= 1)

LEMMA Spellings ==
  /\ "" \in Spelled /\ "." \in Spelled /\ "-R" \in Spelled /\ "-a" \in Spelled
  /\ \A token \in Tokens : token \in Spelled
BY DEF Spelled

LEMMA UnparsedIs ==
  ASSUME NEW source
  PROVE  Unparsed(source) \in Options /\ Unparsed(source).paths = <<>>
<1>1. <<>> \in Seq(Spelled) /\ {} \in SUBSET Spelled
  OBVIOUS
<1>2. NoOptions \in Options /\ NoOptions.paths = <<>>
  BY <1>1, Spellings DEF NoOptions, Options, Unlimited, EntryKinds
<1> QED
  BY <1>2 DEF Unparsed, Options

\* The changes the readers make.
LEMMA Changes ==
  ASSUME NEW of \in Options, NEW token \in Tokens
  PROVE  /\ Broken(of) \in Options /\ Broken(of).paths = of.paths
         /\ Wanting(token, of) \in Options /\ Wanting(token, of).paths = of.paths
         /\ WithDepth(of, token) \in Options /\ WithDepth(of, token).paths = of.paths
         /\ WithPath(of, token) \in Options /\ (Len(of.paths) <= 1 =>
              Len(WithPath(of, token).paths) <= 1)
<1>1. Broken(of) \in Options /\ Broken(of).paths = of.paths
  BY Spellings DEF Broken, Options
<1>2. Wanting(token, of) \in Options /\ Wanting(token, of).paths = of.paths
  BY Spellings DEF Wanting, Options
<1>3. WithDepth(of, token) \in Options /\ WithDepth(of, token).paths = of.paths
  <2>1. token \in DOMAIN Positive => Positive[token] \in Nat
    BY DEF Positive
  <2>2. token \in DOMAIN Positive =>
          /\ [of EXCEPT !.depth = Positive[token], !.want = ""] \in Options
          /\ [of EXCEPT !.depth = Positive[token], !.want = ""].paths = of.paths
    BY <2>1, Spellings DEF Options
  <2> QED
    BY <1>1, <2>2 DEF WithDepth
<1>4. WithPath(of, token) \in Options /\ (Len(of.paths) <= 1 => Len(WithPath(of, token).paths) <= 1)
  <2>1. <<token>> \in Seq(Spelled) /\ Len(<<token>>) = 1
    <3>1. token \in Spelled
      BY Spellings
    <3> QED
      BY <3>1
  <2>2. /\ [of EXCEPT !.paths = <<token>>] \in Options
        /\ [of EXCEPT !.paths = <<token>>].paths = <<token>>
    BY <2>1, Spellings DEF Options
  <2> QED
    BY <1>1, <2>1, <2>2 DEF WithPath
<1> QED
  BY <1>1, <1>2, <1>3, <1>4

LEMMA FindTokenTyped ==
  ASSUME NEW of \in Options, Len(of.paths) <= 1, NEW token \in Tokens
  PROVE  FindToken(of, token) \in Options /\ Len(FindToken(of, token).paths) <= 1
<1>1. /\ [of EXCEPT !.name = {token}, !.want = ""] \in Options
      /\ [of EXCEPT !.name = {token}, !.want = ""].paths = of.paths
  BY Spellings DEF Options
<1>2. /\ token \in {"f", "d"} => [of EXCEPT !.kind = token, !.want = ""] \in Options
      /\ [of EXCEPT !.kind = token, !.want = ""].paths = of.paths
  BY Spellings DEF Options, EntryKinds
<1> QED
  BY <1>1, <1>2, Changes DEF FindToken

LEMMA LsTokenTyped ==
  ASSUME NEW of \in Options, Len(of.paths) <= 1, NEW token \in Tokens
  PROVE  LsToken(of, token) \in Options /\ Len(LsToken(of, token).paths) <= 1
<1>1. \A more \in SUBSET Spelled :
        /\ [of EXCEPT !.flags = @ \cup more] \in Options
        /\ [of EXCEPT !.flags = @ \cup more].paths = of.paths
  BY Spellings DEF Options
<1>2. {token} \in SUBSET Spelled /\ {"-R", "-a"} \in SUBSET Spelled
  BY Spellings
<1> QED
  BY <1>1, <1>2, Changes DEF LsToken

LEMMA GrepTokenTyped ==
  ASSUME NEW of \in Options, NEW token \in Tokens
  PROVE  GrepToken(of, token) \in Options
<1>1. /\ [of EXCEPT !.pattern = token, !.want = ""] \in Options
      /\ [of EXCEPT !.pattern = token] \in Options
      /\ [of EXCEPT !.flags = @ \cup {token}] \in Options
  BY Spellings DEF Options
<1>2. Append(of.paths, token) \in Seq(Spelled)
  <2>1. token \in Spelled /\ of.paths \in Seq(Spelled)
    BY Spellings DEF Options
  <2> QED
    BY <2>1
<1>3. [of EXCEPT !.paths = Append(@, token)] \in Options
  BY <1>2 DEF Options
<1> QED
  BY <1>1, <1>3, Changes DEF GrepToken

LEMMA TreeTokenTyped ==
  ASSUME NEW of \in Options, NEW token \in Tokens
  PROVE  TreeToken(of, token) \in Options
BY Changes DEF TreeToken

LEMMA TokenTyped ==
  ASSUME NEW source, NEW of, Understood(source, of), NEW token \in Tokens
  PROVE  Understood(source, Token(source, of, token))
<1>1. of \in Options /\ (source \in {"ls", "find"} => Len(of.paths) <= 1)
  BY DEF Understood
<1>2. CASE ~of.ok
  BY <1>1, <1>2 DEF Token, Understood
<1>3. CASE of.ok /\ source = "ls"
  BY <1>1, <1>3, LsTokenTyped DEF Token, Understood
<1>4. CASE of.ok /\ source = "find"
  BY <1>1, <1>4, FindTokenTyped DEF Token, Understood
<1>5. CASE of.ok /\ source \notin {"ls", "find"}
  BY <1>1, <1>5, GrepTokenTyped, TreeTokenTyped DEF Token, Understood
<1> QED
  BY <1>2, <1>3, <1>4, <1>5

\* read[n] is what the first n tokens say.
Reads(read, source, argv) ==
  /\ read[0] = Unparsed(source)
  /\ \A n \in 1..Len(argv) : read[n] = Token(source, read[n - 1], argv[n])

LEMMA ParseReads ==
  ASSUME NEW source, NEW argv \in Seq(Tokens)
  PROVE  \E read : Reads(read, source, argv) /\ Parse(source, argv) = Parsed(source, read[Len(argv)])
<1> DEFINE T == {of \in Options : Understood(source, of)}
           OneOn(of, n) == IF n \in 1..Len(argv) THEN Token(source, of, argv[n]) ELSE of
           step == [p \in T \X Nat |-> OneOn(p[1], p[2])]
           F(f) == [n \in 0..Len(argv) |->
                      IF n = 0 THEN Unparsed(source) ELSE Token(source, f[n - 1], argv[n])]
           r == CHOOSE e : e = F(e)
<1>1. Len(argv) \in Nat /\ \A n \in 1..Len(argv) : argv[n] \in Tokens
  OBVIOUS
<1>2. Unparsed(source) \in T
  <2>1. Unparsed(source) \in Options /\ Unparsed(source).paths = <<>>
    BY UnparsedIs
  <2> QED
    BY <2>1 DEF Understood
<1>3. \A of \in T, n \in Nat : OneOn(of, n) \in T
  <2> SUFFICES ASSUME NEW of \in T, NEW n \in Nat PROVE OneOn(of, n) \in T
    OBVIOUS
  <2>1. CASE n \in 1..Len(argv)
    <3>1. Understood(source, Token(source, of, argv[n]))
      BY <1>1, <2>1, TokenTyped
    <3> QED
      BY <2>1, <3>1 DEF Understood
  <2>2. CASE n \notin 1..Len(argv)
    BY <2>2
  <2> QED
    BY <2>1, <2>2
<1> HIDE DEF T
<1>4. step \in [T \X Nat -> T]
  BY <1>3
<1>5. ASSUME NEW of \in T, NEW n \in 1..Len(argv) PROVE step[<<of, n>>] = Token(source, of, argv[n])
  <2>1. <<of, n>> \in T \X Nat
    OBVIOUS
  <2> QED
    BY <2>1
<1> HIDE DEF step, OneOn
<1>6. PICK f \in [0..Len(argv) -> T] : Built(f, Unparsed(source), step, Len(argv))
  BY <1>1, <1>2, <1>4, Iterates
<1>7. f = F(f)
  <2>1. ASSUME NEW n \in 0..Len(argv) PROVE f[n] = F(f)[n]
    <3>1. CASE n = 0
      BY <1>6, <3>1 DEF Built
    <3>2. CASE n # 0
      <4>1. n \in 1..Len(argv) /\ n - 1 \in 0..Len(argv)
        BY <1>1, <3>2
      <4>2. f[n] = step[<<f[n - 1], n>>] /\ f[n - 1] \in T
        BY <1>6, <4>1 DEF Built
      <4> QED
        BY <1>5, <3>2, <4>1, <4>2
    <3> QED
      BY <3>1, <3>2
  <2> QED
    BY <2>1
<1>8. r = F(r)
  <2> HIDE DEF F
  <2> QED
    BY <1>7
<1>9. Parse(source, argv) = Parsed(source, r[Len(argv)])
  BY DEF Parse
<1> HIDE DEF r
<1>10. Reads(r, source, argv)
  <2>1. r[0] = Unparsed(source)
    BY <1>1, <1>8
  <2>2. ASSUME NEW n \in 1..Len(argv) PROVE r[n] = Token(source, r[n - 1], argv[n])
    <3>1. n \in 0..Len(argv) /\ n # 0
      BY <1>1
    <3> QED
      BY <1>8, <3>1
  <2> QED
    BY <2>1, <2>2 DEF Reads
<1> QED
  BY <1>9, <1>10

\* What a command line is understood as; understood, it names a path.
LEMMA ParseTyped ==
  ASSUME NEW source, NEW argv \in Seq(Tokens)
  PROVE  /\ Understood(source, Parse(source, argv))
         /\ Parse(source, argv).ok => Parse(source, argv).paths # <<>>
<1>1. PICK read : Reads(read, source, argv) /\ Parse(source, argv) = Parsed(source, read[Len(argv)])
  BY ParseReads
<1> DEFINE wrong == {n \in 0..Len(argv) : ~Understood(source, read[n])}
<1>2. wrong \in SUBSET Nat /\ 0 \notin wrong
  <2>1. Unparsed(source) \in Options /\ Unparsed(source).paths = <<>>
    BY UnparsedIs
  <2> QED
    BY <1>1, <2>1 DEF Reads, Understood
<1>3. ASSUME NEW n \in wrong PROVE n - 1 \in wrong \/ n = 0
  <2> SUFFICES ASSUME n # 0, n - 1 \notin wrong PROVE FALSE
    OBVIOUS
  <2>1. n \in 1..Len(argv) /\ n - 1 \in 0..Len(argv) /\ argv[n] \in Tokens
    BY <1>3
  <2>2. Understood(source, read[n - 1]) /\ read[n] = Token(source, read[n - 1], argv[n])
    BY <1>1, <2>1 DEF Reads
  <2> QED
    BY <1>3, <2>1, <2>2, TokenTyped
<1>4. wrong = {}
  <2> HIDE DEF wrong
  <2> QED
    BY <1>2, <1>3, FirstWrong
<1> DEFINE of == read[Len(argv)]
<1>5. Understood(source, of)
  <2>1. Len(argv) \in 0..Len(argv)
    OBVIOUS
  <2> QED
    BY <1>4, <2>1
<1> HIDE DEF of
<1>6. CASE of.want # "" \/ (source = "grep" /\ of.pattern = "")
  <2>1. Parsed(source, of) = Broken(of)
    BY <1>6 DEF Parsed
  <2>2. Broken(of) \in Options /\ Broken(of).paths = of.paths /\ ~Broken(of).ok
    BY <1>5 DEF Understood, Broken, Options
  <2>3. Parse(source, argv) = Broken(of)
    BY <1>1, <2>1 DEF of
  <2> QED
    BY <1>5, <2>2, <2>3 DEF Understood
<1>7. CASE ~(of.want # "" \/ (source = "grep" /\ of.pattern = ""))
  <2>1. Parsed(source, of) = IF of.paths = <<>> THEN [of EXCEPT !.paths = <<".">>] ELSE of
    BY <1>7 DEF Parsed
  <2>2. <<".">> \in Seq(Spelled) /\ Len(<<".">>) = 1 /\ <<".">> # <<>>
    BY Spellings, Single
  <2>3. of.paths = <<>> => [of EXCEPT !.paths = <<".">>] \in Options /\
          [of EXCEPT !.paths = <<".">>].paths = <<".">>
    BY <1>5, <2>2 DEF Understood, Options
  <2> QED
    BY <1>1, <1>5, <2>1, <2>2, <2>3 DEF Understood, of
<1> QED
  BY <1>6, <1>7

-------------------------------------------------------------------------------
(* The tree.                                                               *)

AllPaths == Folders \cup DOMAIN Texts

LEMMA PathsAre ==
  /\ IsFiniteSet(AllPaths) /\ <<>> \in Folders
  /\ \A p \in AllPaths :
       /\ p \in Seq(Nat) /\ \A i \in 1..Len(p) : p[i] \in Nat \ {0}
       /\ p # <<>> => /\ Front(p) \in Folders /\ Front(p) \in Seq(Nat)
                      /\ Len(p) \in Nat \ {0} /\ Len(Front(p)) = Len(p) - 1
                      /\ \A i \in 1..Len(p) - 1 : Front(p)[i] = p[i]
                      /\ Last(p) = p[Len(p)] /\ Last(p) \in Nat \ {0}
<1>1. IsFiniteSet(AllPaths) /\ <<>> \in Folders
  BY FileSearchAssumption DEF AllPaths
<1>2. ASSUME NEW p \in AllPaths
      PROVE  /\ p \in Seq(Nat) /\ \A i \in 1..Len(p) : p[i] \in Nat \ {0}
             /\ p # <<>> => /\ Front(p) \in Folders /\ Front(p) \in Seq(Nat)
                            /\ Len(p) \in Nat \ {0} /\ Len(Front(p)) = Len(p) - 1
                            /\ \A i \in 1..Len(p) - 1 : Front(p)[i] = p[i]
                            /\ Last(p) = p[Len(p)] /\ Last(p) \in Nat \ {0}
  <2>1. p \in Seq(Nat \ {0})
    BY FileSearchAssumption DEF AllPaths
  <2>2. (\A i \in 1..Len(p) : p[i] \in Nat \ {0}) /\ p \in Seq(Nat)
    <3>1. Nat \ {0} \subseteq Nat
      OBVIOUS
    <3> QED
      BY <2>1, <3>1, Widen
  <2>3. CASE p # <<>>
    <3>1. Front(p) \in Folders
      BY <2>3, FileSearchAssumption DEF AllPaths
    <3>2. Len(p) \in Nat \ {0} /\ Len(p) \in 1..Len(p)
      BY <2>2, <2>3
    <3>3. Front(p) \in Seq(Nat) /\ Len(Front(p)) = Len(p) - 1 /\
            \A i \in 1..Len(p) - 1 : Front(p)[i] = p[i]
      <4> DEFINE n == Len(p) - 1
      <4>1. Front(p) = SubSeq(p, 1, n) /\ n \in Nat /\ n <= Len(p)
        BY <3>2 DEF Front
      <4>2. SubSeq(p, 1, n) \in Seq(Nat) /\ Len(SubSeq(p, 1, n)) = n /\
              \A i \in 1..n : SubSeq(p, 1, n)[i] = p[i]
        <5> HIDE DEF n
        <5> QED
          BY <2>2, <4>1
      <4> QED
        BY <4>1, <4>2
    <3>4. Last(p) = p[Len(p)]
      BY DEF Last
    <3> QED
      BY <2>2, <3>1, <3>2, <3>3, <3>4
  <2> QED
    BY <2>2, <2>3
<1> QED
  BY <1>1, <1>2

LEMMA ChildrenAre ==
  ASSUME NEW d \in AllPaths
  PROVE  /\ Children(d) \subseteq AllPaths /\ IsFiniteSet(Children(d))
         /\ \A p \in Children(d) :
              /\ Len(p) = Len(d) + 1 /\ p[Len(p)] = Last(p) /\ Last(p) \in Nat \ {0}
              /\ \A i \in 1..Len(d) : p[i] = d[i]
              /\ IsPrefix(d, p) /\ p # <<>> /\ Front(p) = d
         /\ \A p, q \in Children(d) : Last(p) = Last(q) => p = q
<1>1. Children(d) \subseteq AllPaths
  BY DEF Children, AllPaths
<1>2. d \in Seq(Nat) /\ Len(d) \in Nat
  BY PathsAre
<1>3. ASSUME NEW p \in Children(d)
      PROVE  /\ p \in Seq(Nat) /\ Len(p) = Len(d) + 1 /\ p[Len(p)] = Last(p) /\ Last(p) \in Nat \ {0}
             /\ \A i \in 1..Len(d) : p[i] = d[i]
             /\ IsPrefix(d, p) /\ p # <<>> /\ Front(p) = d
  <2>1. p \in AllPaths /\ p # <<>> /\ Front(p) = d
    BY DEF Children, AllPaths
  <2>2. /\ p \in Seq(Nat) /\ Len(p) \in Nat \ {0} /\ Len(d) = Len(p) - 1
        /\ \A i \in 1..Len(p) - 1 : d[i] = p[i]
        /\ Last(p) = p[Len(p)] /\ Last(p) \in Nat \ {0}
    BY <2>1, PathsAre
  <2>3. Len(d) <= Len(p) /\ \A i \in 1..Len(d) : d[i] = p[i]
    BY <2>2
  <2>4. IsPrefix(d, p)
    BY <1>2, <2>2, <2>3, PrefixMeans
  <2> QED
    BY <1>2, <2>1, <2>2, <2>3, <2>4
<1>4. ASSUME NEW p \in Children(d), NEW q \in Children(d), Last(p) = Last(q)
      PROVE  p = q
  <2>1. p \in Seq(Nat) /\ q \in Seq(Nat) /\ Len(p) = Len(d) + 1 /\ Len(q) = Len(p)
    BY <1>3
  <2>2. ASSUME NEW i \in 1..Len(p) PROVE p[i] = q[i]
    <3>1. CASE i = Len(p)
      BY <1>3, <1>4, <2>1, <3>1
    <3>2. CASE i # Len(p)
      <4>1. i \in 1..Len(d)
        BY <1>2, <2>1, <3>2
      <4> QED
        BY <1>3, <4>1
    <3> QED
      BY <3>1, <3>2
  <2> QED
    BY <2>1, <2>2, SeqEqual
<1>5. IsFiniteSet(Children(d))
  BY <1>1, PathsAre, FS_Subset
<1> QED
  BY <1>1, <1>3, <1>4, <1>5

\* Siblings in their order: each of them, and nothing else.
LEMMA InOrderIs ==
  ASSUME NEW d \in AllPaths, NEW ps \in SUBSET Children(d)
  PROVE  InOrder(ps) \in Seq(ps) /\ ToSet(InOrder(ps)) = ps
<1> DEFINE names == {Last(p) : p \in ps}
           turn == InTurn(names)
           last == [p \in ps |-> Last(p)]
           s == InOrder(ps)
<1>1. IsFiniteSet(ps) /\ names \in SUBSET Nat
  <2>1. \A p \in ps : p \in Children(d) /\ Last(p) \in Nat
    BY ChildrenAre
  <2>2. IsFiniteSet(ps)
    BY ChildrenAre, FS_Subset
  <2> QED
    BY <2>1, <2>2
<1>2. IsFiniteSet(names)
  <2>1. last \in Surjection(ps, names)
    BY DEF Surjection
  <2> QED
    BY <1>1, <2>1, FS_Surjection
<1>3. turn \in Seq(names) /\ ToSet(turn) = names /\ Len(turn) \in Nat
  <2> HIDE DEF names
  <2> QED
    BY <1>1, <1>2, TurnsAre
<1>4. s = [n \in 1..Len(turn) |-> CHOOSE p \in ps : Last(p) = turn[n]]
  BY DEF InOrder
<1>5. \A n \in 1..Len(turn) : \E p \in ps : Last(p) = turn[n]
  <2>1. \A n \in 1..Len(turn) : turn[n] \in names
    <3> HIDE DEF names, turn
    <3> QED
      BY <1>3
  <2> HIDE DEF turn
  <2> QED
    BY <2>1
<1>6. \A p \in ps : \E n \in 1..Len(turn) : turn[n] = Last(p)
  <2>1. \A x \in names : \E n \in 1..Len(turn) : turn[n] = x
    <3> HIDE DEF names, turn
    <3> QED
      BY <1>3 DEF ToSet
  <2> HIDE DEF turn
  <2> QED
    BY <2>1
<1> HIDE DEF names, turn, s, last
<1>7. \A n \in 1..Len(turn) : s[n] \in ps /\ Last(s[n]) = turn[n]
  BY <1>4, <1>5
<1>8. s \in Seq(ps) /\ Len(s) = Len(turn) /\ DOMAIN s = 1..Len(turn)
  BY <1>3, <1>4, <1>7
<1>9. \A p \in ps : \E n \in 1..Len(turn) : s[n] = p
  <2> SUFFICES ASSUME NEW p \in ps PROVE \E n \in 1..Len(turn) : s[n] = p
    OBVIOUS
  <2>1. PICK n \in 1..Len(turn) : turn[n] = Last(p)
    BY <1>6
  <2>2. s[n] \in ps /\ Last(s[n]) = Last(p)
    BY <1>7, <2>1
  <2>3. s[n] \in Children(d) /\ p \in Children(d)
    BY <2>2
  <2>4. s[n] = p
    BY <2>2, <2>3, ChildrenAre
  <2> QED
    BY <2>4
<1>10. ToSet(s) = ps
  BY <1>7, <1>8, <1>9 DEF ToSet
<1> QED
  BY <1>8, <1>10 DEF s

\* There is a deepest path.
LEMMA Deepest ==
  \E m \in Nat : \A p \in AllPaths : Len(p) <= m
<1> DEFINE n == Cardinality(AllPaths)
<1>1. IsFiniteSet(AllPaths) /\ \A p \in AllPaths : Len(p) \in Nat
  BY PathsAre
<1>2. n \in Nat /\ ExistsBijection(1..n, AllPaths)
  BY <1>1, FS_CardinalityType
<1>3. PICK f : f \in Bijection(1..n, AllPaths)
  BY <1>2 DEF ExistsBijection
<1> HIDE DEF n
<1>4. f \in [1..n -> AllPaths] /\ \A p \in AllPaths : \E i \in 1..n : f[i] = p
  BY <1>3 DEF Bijection, Surjection
<1> DEFINE Bounded(k) == \E m \in Nat : \A i \in 1..k : Len(f[i]) <= m
           wrong == {k \in 0..n : ~Bounded(k)}
<1>5. wrong \in SUBSET Nat /\ 0 \notin wrong
  <2>1. 0 \in Nat /\ \A i \in 1..0 : Len(f[i]) <= 0
    OBVIOUS
  <2>2. Bounded(0)
    BY <2>1
  <2> HIDE DEF Bounded
  <2> QED
    BY <2>2
<1>6. ASSUME NEW k \in wrong PROVE k - 1 \in wrong \/ k = 0
  <2> SUFFICES ASSUME k # 0, k - 1 \notin wrong PROVE FALSE
    OBVIOUS
  <2>1. k \in 1..n /\ k - 1 \in 0..n
    BY <1>2, <1>6
  <2>2. PICK m \in Nat : \A i \in 1..k - 1 : Len(f[i]) <= m
    BY <2>1
  <2>3. Len(f[k]) \in Nat
    BY <1>1, <1>4, <2>1
  <2>4. PICK b \in Nat : m <= b /\ Len(f[k]) <= b
    <3> DEFINE l == Len(f[k])
    <3>1. l \in Nat
      BY <2>3
    <3> HIDE DEF l
    <3>2. m <= m + l /\ l <= m + l /\ m + l \in Nat
      BY <2>2, <3>1
    <3> QED
      BY <3>2 DEF l
  <2>5. ASSUME NEW i \in 1..k PROVE Len(f[i]) <= b
    <3>1. CASE i = k
      BY <2>4, <3>1
    <3>2. CASE i # k
      <4>1. i \in 1..k - 1 /\ i \in 1..n
        BY <1>2, <2>1, <3>2
      <4>2. Len(f[i]) \in Nat
        BY <1>1, <1>4, <4>1
      <4>3. Len(f[i]) <= m /\ m <= b
        BY <2>2, <2>4, <4>1
      <4> DEFINE l == Len(f[i])
      <4> HIDE DEF l
      <4>4. l \in Nat /\ l <= m
        BY <4>2, <4>3 DEF l
      <4>5. l <= b
        BY <2>2, <2>4, <4>3, <4>4
      <4> QED
        BY <4>5 DEF l
    <3> QED
      BY <3>1, <3>2
  <2>6. Bounded(k)
    BY <2>5
  <2> HIDE DEF Bounded
  <2> QED
    BY <1>6, <2>6
<1>7. wrong = {}
  <2> HIDE DEF wrong
  <2> QED
    BY <1>5, <1>6, FirstWrong
<1>8. Bounded(n)
  <2> HIDE DEF Bounded
  <2> QED
    BY <1>2, <1>7
<1>9. PICK m \in Nat : \A i \in 1..n : Len(f[i]) <= m
  BY <1>8
<1> QED
  BY <1>4, <1>9

\* What holds of a folder when it holds of the folders in it, holds of every folder.
LEMMA FromTheLeaves ==
  ASSUME NEW good \in SUBSET Folders,
         \A d \in Folders : (\A e \in Folders \cap Children(d) : e \in good) => d \in good
  PROVE  good = Folders
<1>1. PICK m \in Nat : \A p \in AllPaths : Len(p) <= m
  BY Deepest
<1> DEFINE wrong == {k \in 0..m : \E d \in Folders \ good : Len(d) = m - k}
<1>2. \A d \in Folders : d \in AllPaths /\ Len(d) \in Nat /\ Len(d) <= m
  BY <1>1, PathsAre DEF AllPaths
<1>3. ASSUME NEW d \in Folders \ good
      PROVE  \E e \in Folders \ good : Len(e) = Len(d) + 1
  <2>1. PICK e \in Folders \cap Children(d) : e \notin good
    OBVIOUS
  <2>2. Len(e) = Len(d) + 1
    BY <1>2, <2>1, ChildrenAre
  <2> QED
    BY <2>1, <2>2
<1>4. wrong \in SUBSET Nat /\ 0 \notin wrong
  <2>1. 0 \notin wrong
    <3> SUFFICES ASSUME NEW d \in Folders \ good, Len(d) = m - 0 PROVE FALSE
      OBVIOUS
    <3>1. PICK e \in Folders \ good : Len(e) = Len(d) + 1
      BY <1>3
    <3> QED
      BY <1>2, <3>1
  <2> QED
    BY <2>1
<1>5. ASSUME NEW k \in wrong PROVE k - 1 \in wrong \/ k = 0
  <2> SUFFICES ASSUME k # 0 PROVE k - 1 \in wrong
    OBVIOUS
  <2>1. PICK d \in Folders \ good : Len(d) = m - k
    BY <1>5
  <2>2. PICK e \in Folders \ good : Len(e) = Len(d) + 1
    BY <1>3
  <2>3. Len(e) = m - (k - 1) /\ k - 1 \in 0..m
    BY <1>5, <2>1, <2>2
  <2> QED
    BY <2>3
<1>6. wrong = {}
  <2> HIDE DEF wrong
  <2> QED
    BY <1>4, <1>5, FirstWrong
<1>7. \A d \in Folders : d \in good
  <2> SUFFICES ASSUME NEW d \in Folders \ good PROVE FALSE
    OBVIOUS
  <2>1. m - Len(d) \in 0..m /\ Len(d) = m - (m - Len(d))
    BY <1>2
  <2> QED
    BY <1>6, <2>1
<1> QED
  BY <1>7

\* A recursion over the folders, where each looks at the folders in it, has a solution.
LEMMA Grown ==
  ASSUME NEW S, NEW a \in S, NEW G \in [[Folders -> S] -> [Folders -> S]],
         \A f, g \in [Folders -> S] : \A d \in Folders :
           (\A e \in Folders \cap Children(d) : f[e] = g[e]) => G[f][d] = G[g][d]
  PROVE  \E f \in [Folders -> S] : f = G[f]
<1>1. PICK m \in Nat : \A p \in AllPaths : Len(p) <= m
  BY Deepest
<1> DEFINE T == [Folders -> S]
           step == [p \in T \X Nat |-> G[p[1]]]
<1>2. /\ [d \in Folders |-> a] \in T /\ m + 2 \in Nat
      /\ \A f \in T : G[f] \in T
  BY <1>1
<1> HIDE DEF T
<1>3. step \in [T \X Nat -> T]
  BY <1>2
<1>4. ASSUME NEW f \in T, NEW n \in Nat PROVE step[<<f, n>>] = G[f]
  <2>1. <<f, n>> \in T \X Nat
    OBVIOUS
  <2> QED
    BY <2>1
<1> HIDE DEF step
<1>5. PICK h \in [0..m + 2 -> T] : Built(h, [d \in Folders |-> a], step, m + 2)
  BY <1>2, <1>3, Iterates
<1>6. \A k \in 1..m + 2 : h[k - 1] \in T /\ h[k] \in T /\ h[k] = G[h[k - 1]]
  <2> SUFFICES ASSUME NEW k \in 1..m + 2
               PROVE  h[k - 1] \in T /\ h[k] \in T /\ h[k] = G[h[k - 1]]
    OBVIOUS
  <2>1. k - 1 \in 0..m + 2 /\ k \in 0..m + 2 /\ k \in Nat
    BY <1>1
  <2>2. h[k] = step[<<h[k - 1], k>>]
    BY <1>5 DEF Built
  <2> QED
    BY <1>4, <1>5, <2>1, <2>2
<1> DEFINE wrong == {k \in 0..m + 1 : \E d \in Folders : Len(d) > m - k /\ h[k][d] # h[k + 1][d]}
<1>7. \A d \in Folders : d \in AllPaths /\ Len(d) \in Nat /\ Len(d) <= m
  BY <1>1, PathsAre DEF AllPaths
<1>8. wrong \in SUBSET Nat /\ 0 \notin wrong
  BY <1>1, <1>7
<1>9. ASSUME NEW k \in wrong PROVE k - 1 \in wrong \/ k = 0
  <2> SUFFICES ASSUME k # 0, k - 1 \notin wrong PROVE FALSE
    OBVIOUS
  <2>1. PICK d \in Folders : Len(d) > m - k /\ h[k][d] # h[k + 1][d]
    BY <1>9
  <2>2. /\ k \in 1..m + 2 /\ k + 1 \in 1..m + 2 /\ k - 1 \in 0..m + 1
        /\ (k + 1) - 1 = k /\ (k - 1) + 1 = k /\ k \in Nat
    BY <1>1, <1>9
  <2>3. ASSUME NEW e \in Folders \cap Children(d) PROVE h[k - 1][e] = h[k][e]
    <3>1. Len(e) = Len(d) + 1 /\ Len(d) \in Nat
      BY <1>7, ChildrenAre
    <3>2. Len(e) > m - (k - 1)
      BY <1>1, <2>1, <2>2, <3>1
    <3> QED
      BY <2>2, <3>2
  <2>4. h[k - 1] \in T /\ h[k] \in T /\ h[k] = G[h[k - 1]] /\ h[k + 1] = G[h[k]]
    BY <1>6, <2>2
  <2>5. G[h[k - 1]][d] = G[h[k]][d]
    BY <2>3, <2>4 DEF T
  <2> QED
    BY <2>1, <2>4, <2>5
<1>10. wrong = {}
  <2> HIDE DEF wrong
  <2> QED
    BY <1>8, <1>9, FirstWrong
<1>11. m + 1 \in 0..m + 1 /\ m + 2 \in 1..m + 2 /\ (m + 2) - 1 = m + 1 /\ (m + 1) + 1 = m + 2
  BY <1>1
<1>12. h[m + 1] \in T /\ h[m + 2] \in T /\ h[m + 2] = G[h[m + 1]]
  BY <1>6, <1>11
<1>13. \A d \in Folders : h[m + 1][d] = h[m + 2][d]
  <2> SUFFICES ASSUME NEW d \in Folders PROVE h[m + 1][d] = h[m + 2][d]
    OBVIOUS
  <2>1. Len(d) > m - (m + 1)
    BY <1>1, <1>7
  <2> QED
    BY <1>10, <1>11, <2>1
<1>14. h[m + 1] = h[m + 2]
  BY <1>12, <1>13 DEF T
<1> QED
  BY <1>12, <1>14 DEF T

\* The folders a walk enters from a folder, and the files it gives there.
Entered(start, d, depth) ==
  IF depth # Unlimited /\ Len(d) - Len(start) + 1 >= depth THEN {} ELSE Visible(d) \cap Folders
FilesIn(d) == {p \in Visible(d) \cap DOMAIN Texts : ~Denied(p)}

\* The folders to enter and the files to read are children.
LEMMA SubfoldersAre ==
  ASSUME NEW start, NEW d \in Folders, NEW depth
  PROVE  /\ Subfolders(start, d, depth) \in Seq(Folders \cap Children(d))
         /\ ToSet(Subfolders(start, d, depth)) = Entered(start, d, depth)
<1> DEFINE ps == Visible(d) \cap Folders
<1>1. d \in AllPaths /\ ps \in SUBSET Children(d) /\ ps \subseteq Folders \cap Children(d)
  BY DEF AllPaths, Visible
<1>2. InOrder(ps) \in Seq(ps) /\ ToSet(InOrder(ps)) = ps
  <2> HIDE DEF ps
  <2> QED
    BY <1>1, InOrderIs
<1>3. InOrder(ps) \in Seq(Folders \cap Children(d))
  <2> HIDE DEF ps
  <2> QED
    BY <1>1, <1>2, Widen
<1>4. <<>> \in Seq(Folders \cap Children(d)) /\ ToSet(<<>>) = {}
  BY DEF ToSet
<1> QED
  BY <1>2, <1>3, <1>4 DEF Subfolders, Entered

LEMMA ReadablesAre ==
  ASSUME NEW d \in Folders
  PROVE  /\ Readables(d) \in Seq(AllPaths)
         /\ ToSet(Readables(d)) = FilesIn(d)
<1> DEFINE ps == {p \in Visible(d) \cap DOMAIN Texts : ~Denied(p)}
<1>1. d \in AllPaths /\ ps \in SUBSET Children(d) /\ ps \subseteq AllPaths
  BY DEF AllPaths, Visible
<1>2. InOrder(ps) \in Seq(ps) /\ ToSet(InOrder(ps)) = ps
  <2> HIDE DEF ps
  <2> QED
    BY <1>1, InOrderIs
<1>3. InOrder(ps) \in Seq(AllPaths)
  <2> HIDE DEF ps
  <2> QED
    BY <1>1, <1>2, Widen
<1> QED
  BY <1>2, <1>3 DEF Readables, FilesIn

\* What one folder adds to the walk.
LEMMA EntriesAre ==
  ASSUME NEW d \in Folders, NEW subs \in Seq(Folders \cap Children(d)), NEW files \in BOOLEAN,
         NEW dirs \in BOOLEAN, NEW under, \A e \in Folders \cap Children(d) : under[e] \in Seq(AllPaths)
  PROVE  /\ Entries(subs, d, files, dirs, under) \in Seq(AllPaths)
         /\ ToSet(Entries(subs, d, files, dirs, under)) =
              (IF dirs THEN ToSet(subs) ELSE {})
                \cup (IF files THEN FilesIn(d) ELSE {})
                \cup UNION {ToSet(under[e]) : e \in ToSet(subs)}
<1> DEFINE a == IF dirs THEN subs ELSE <<>>
           b == IF files THEN Readables(d) ELSE <<>>
           q == [i \in 1..Len(subs) |-> under[subs[i]]]
           below == UNION {ToSet(under[e]) : e \in ToSet(subs)}
<1>1. <<>> \in Seq(AllPaths) /\ ToSet(<<>>) = {}
  BY DEF ToSet
<1>2. a \in Seq(AllPaths) /\ ToSet(a) = IF dirs THEN ToSet(subs) ELSE {}
  <2>1. Folders \cap Children(d) \subseteq AllPaths
    BY DEF AllPaths
  <2>2. subs \in Seq(AllPaths)
    BY <2>1, Widen
  <2> QED
    BY <1>1, <2>2
<1>3. b \in Seq(AllPaths) /\ ToSet(b) = IF files THEN FilesIn(d) ELSE {}
  BY <1>1, ReadablesAre
<1>4. Len(subs) \in Nat /\ DOMAIN subs = 1..Len(subs) /\
        \A i \in 1..Len(subs) : subs[i] \in Folders \cap Children(d)
  OBVIOUS
<1>5. q \in Seq(Seq(AllPaths)) /\ Len(q) = Len(subs)
  BY <1>4
<1>6. FlattenSeq(q) \in Seq(AllPaths) /\ ToSet(FlattenSeq(q)) = UNION {ToSet(q[i]) : i \in 1..Len(q)}
  <2> HIDE DEF q
  <2> QED
    BY <1>5, Flattened
<1>7. UNION {ToSet(q[i]) : i \in 1..Len(q)} = below
  <2>1. \A i \in 1..Len(subs) : q[i] = under[subs[i]]
    OBVIOUS
  <2>2. \A e : e \in ToSet(subs) <=> \E i \in 1..Len(subs) : e = subs[i]
    BY <1>4 DEF ToSet
  <2> HIDE DEF q
  <2>3. {ToSet(q[i]) : i \in 1..Len(q)} = {ToSet(under[e]) : e \in ToSet(subs)}
    <3>1. \A i \in 1..Len(q) : subs[i] \in ToSet(subs) /\ ToSet(q[i]) = ToSet(under[subs[i]])
      BY <1>5, <2>1, <2>2
    <3>2. ASSUME NEW e \in ToSet(subs) PROVE \E i \in 1..Len(q) : ToSet(under[e]) = ToSet(q[i])
      <4>1. PICK i \in 1..Len(subs) : e = subs[i]
        BY <2>2
      <4>2. i \in 1..Len(q)
        BY <1>5
      <4>3. q[i] = under[e]
        BY <2>1, <4>1
      <4> QED
        BY <4>2, <4>3
    <3> QED
      BY <3>1, <3>2
  <2> QED
    BY <2>3
<1> HIDE DEF a, b, q, below
<1>8. a \o b \in Seq(AllPaths) /\ ToSet(a \o b) = ToSet(a) \cup ToSet(b)
  BY <1>2, <1>3, SetOfBoth
<1>9. (a \o b) \o FlattenSeq(q) \in Seq(AllPaths)
      /\ ToSet((a \o b) \o FlattenSeq(q)) = ToSet(a) \cup ToSet(b) \cup ToSet(FlattenSeq(q))
  <2> DEFINE c == a \o b
             e == FlattenSeq(q)
  <2>1. c \in Seq(AllPaths) /\ e \in Seq(AllPaths)
    BY <1>6, <1>8
  <2> HIDE DEF c, e
  <2>2. c \o e \in Seq(AllPaths) /\ ToSet(c \o e) = ToSet(c) \cup ToSet(e)
    BY <2>1, SetOfBoth
  <2> QED
    BY <1>8, <2>2 DEF c, e
<1>10. Entries(subs, d, files, dirs, under) = (a \o b) \o FlattenSeq(q)
  BY DEF Entries, a, b, q
<1> QED
  BY <1>2, <1>3, <1>6, <1>7, <1>9, <1>10 DEF below

\* under[d] is the walk from d, for a walk that began at start.
Walks(under, start, depth, files, dirs) ==
  \A d \in Folders :
    /\ under[d] = Entries(Subfolders(start, d, depth), d, files, dirs, under)
    /\ under[d] \in Seq(AllPaths)

LEMMA WalkExists ==
  ASSUME NEW start \in Folders, NEW depth, NEW files \in BOOLEAN, NEW dirs \in BOOLEAN
  PROVE  \E under : Walks(under, start, depth, files, dirs)
                    /\ Walk(start, depth, files, dirs) = under[start]
<1> DEFINE S == Seq(AllPaths)
           F(f) == [d \in Folders |-> Entries(Subfolders(start, d, depth), d, files, dirs, f)]
           G == [f \in [Folders -> S] |-> F(f)]
           u == CHOOSE e : e = F(e)
<1>1. ASSUME NEW f, NEW d \in Folders, \A e \in Folders \cap Children(d) : f[e] \in S
      PROVE  Entries(Subfolders(start, d, depth), d, files, dirs, f) \in S
  <2>1. Subfolders(start, d, depth) \in Seq(Folders \cap Children(d))
    BY SubfoldersAre
  <2> QED
    BY <1>1, <2>1, EntriesAre
<1>2. ASSUME NEW f, NEW g, NEW d \in Folders, \A e \in Folders \cap Children(d) : f[e] = g[e]
      PROVE  Entries(Subfolders(start, d, depth), d, files, dirs, f)
               = Entries(Subfolders(start, d, depth), d, files, dirs, g)
  <2> DEFINE subs == Subfolders(start, d, depth)
  <2>1. subs \in Seq(Folders \cap Children(d))
    BY SubfoldersAre
  <2> HIDE DEF subs
  <2>2. \A i \in 1..Len(subs) : f[subs[i]] = g[subs[i]]
    BY <1>2, <2>1
  <2>3. [i \in 1..Len(subs) |-> f[subs[i]]] = [i \in 1..Len(subs) |-> g[subs[i]]]
    BY <2>2
  <2> QED
    BY <2>3 DEF Entries, subs
<1>3. \A f \in [Folders -> S] : G[f] = F(f) /\ F(f) \in [Folders -> S]
  BY <1>1
<1> HIDE DEF S
<1>4. G \in [[Folders -> S] -> [Folders -> S]]
  BY <1>3
<1>5. ASSUME NEW f \in [Folders -> S], NEW g \in [Folders -> S], NEW d \in Folders,
             \A e \in Folders \cap Children(d) : f[e] = g[e]
      PROVE  G[f][d] = G[g][d]
  BY <1>2, <1>3, <1>5
<1>6. <<>> \in S
  BY DEF S
<1>7. PICK f \in [Folders -> S] : f = G[f]
  <2> HIDE DEF G
  <2> QED
    BY <1>4, <1>5, <1>6, Grown
<1>8. f = F(f)
  BY <1>3, <1>7
<1>9. u = F(u)
  <2> HIDE DEF F
  <2> QED
    BY <1>8
<1>10. Walk(start, depth, files, dirs) = u[start]
  BY DEF Walk
<1> HIDE DEF u
<1>11. \A d \in Folders : u[d] = Entries(Subfolders(start, d, depth), d, files, dirs, u)
  BY <1>9
<1> DEFINE good == {d \in Folders : u[d] \in S}
<1>12. \A d \in Folders : (\A e \in Folders \cap Children(d) : e \in good) => d \in good
  BY <1>1, <1>11
<1>13. good = Folders
  <2> HIDE DEF good
  <2>1. good \in SUBSET Folders
    BY DEF good
  <2> QED
    BY <1>12, <2>1, FromTheLeaves
<1>14. Walks(u, start, depth, files, dirs)
  BY <1>11, <1>13 DEF Walks, S
<1> QED
  BY <1>10, <1>14

\* What a walk gives of a folder.
LEMMA WalkStep ==
  ASSUME NEW under, NEW start, NEW depth, NEW files \in BOOLEAN, NEW dirs \in BOOLEAN,
         Walks(under, start, depth, files, dirs), NEW d \in Folders
  PROVE  \A p : p \in ToSet(under[d]) <=>
           \/ dirs /\ p \in Entered(start, d, depth)
           \/ files /\ p \in FilesIn(d)
           \/ \E e \in Entered(start, d, depth) : p \in ToSet(under[e])
<1> DEFINE s == Subfolders(start, d, depth)
<1>1. s \in Seq(Folders \cap Children(d))
      /\ ToSet(s) = Entered(start, d, depth)
  BY SubfoldersAre
<1>2. \A e \in Folders \cap Children(d) : under[e] \in Seq(AllPaths)
  BY DEF Walks
<1>3. under[d] = Entries(s, d, files, dirs, under)
  BY DEF Walks
<1> HIDE DEF s
<1>4. ToSet(Entries(s, d, files, dirs, under)) =
        (IF dirs THEN ToSet(s) ELSE {})
          \cup (IF files THEN FilesIn(d) ELSE {})
          \cup UNION {ToSet(under[e]) : e \in ToSet(s)}
  BY <1>1, <1>2, EntriesAre
<1> QED
  BY <1>1, <1>3, <1>4

\* A walk stays under the path it began at.
LEMMA WalkBelow ==
  ASSUME NEW start \in AllPaths, NEW depth, NEW files \in BOOLEAN, NEW dirs \in BOOLEAN
  PROVE  /\ Walk(start, depth, files, dirs) \in Seq(AllPaths)
         /\ \A p \in ToSet(Walk(start, depth, files, dirs)) : p \in AllPaths /\
              IsPrefix(start, p) /\ (p \in Folders => dirs)
<1>1. CASE start \in Folders
  <2>1. PICK under : Walks(under, start, depth, files, dirs)
                     /\ Walk(start, depth, files, dirs) = under[start]
    BY <1>1, WalkExists
  <2> DEFINE good == {d \in Folders : \A p \in ToSet(under[d]) : p \in AllPaths /\
                       IsPrefix(d, p) /\ (p \in Folders => dirs)}
  <2>2. ASSUME NEW d \in Folders, \A e \in Folders \cap Children(d) : e \in good
        PROVE  d \in good
    <3>1. d \in AllPaths /\ d \in Seq(Nat)
      BY PathsAre DEF AllPaths
    <3>2. ASSUME NEW p \in ToSet(under[d]) PROVE p \in AllPaths /\ IsPrefix(d, p) /\
                   (p \in Folders => dirs)
      <4>1. \/ p \in Children(d) /\ (p \in Folders => dirs)
            \/ \E e \in Folders \cap Children(d) : p \in ToSet(under[e])
        <5>1. Visible(d) \subseteq Children(d)
          BY DEF Visible
        <5>2. \/ p \in Entered(start, d, depth) /\ dirs
              \/ p \in FilesIn(d)
              \/ \E e \in Entered(start, d, depth) : p \in ToSet(under[e])
          BY <2>1, WalkStep
        <5>3. Entered(start, d, depth) \subseteq Folders \cap Children(d) /\
                FilesIn(d) \subseteq Children(d) \ Folders
          BY <5>1, FileSearchAssumption DEF Entered, FilesIn
        <5> HIDE DEF good
        <5> QED
          BY <5>2, <5>3
      <4>2. CASE p \in Children(d) /\ (p \in Folders => dirs)
        BY <3>1, <4>2, ChildrenAre
      <4>3. ASSUME NEW e \in Folders \cap Children(d), p \in ToSet(under[e])
            PROVE  p \in AllPaths /\ IsPrefix(d, p) /\ (p \in Folders => dirs)
        <5>1. p \in AllPaths /\ IsPrefix(e, p) /\ (p \in Folders => dirs)
          BY <2>2, <4>3
        <5>2. IsPrefix(d, e)
          BY <3>1, ChildrenAre
        <5>3. e \in Seq(Nat) /\ p \in Seq(Nat)
          BY <5>1, PathsAre DEF AllPaths
        <5> QED
          BY <3>1, <5>1, <5>2, <5>3, PrefixChain
      <4> QED
        BY <4>1, <4>2, <4>3
    <3> QED
      BY <3>2
  <2>3. good = Folders
    <3> HIDE DEF good
    <3>1. good \in SUBSET Folders
      BY DEF good
    <3> QED
      BY <2>2, <3>1, FromTheLeaves
  <2>4. under[start] \in Seq(AllPaths)
    BY <1>1, <2>1 DEF Walks
  <2> QED
    BY <1>1, <2>1, <2>3, <2>4
<1>2. CASE start \notin Folders
  <2>1. Walk(start, depth, files, dirs) = IF files /\ ~Denied(start) THEN <<start>> ELSE <<>>
    BY <1>2 DEF Walk
  <2>2. /\ <<start>> \in Seq(AllPaths) /\ ToSet(<<start>>) = {start}
        /\ <<>> \in Seq(AllPaths) /\ ToSet(<<>>) = {}
    BY Single DEF ToSet
  <2>3. start \in Seq(Nat) /\ IsPrefix(start, start)
    BY PathsAre, PrefixMeans
  <2> QED
    BY <1>2, <2>1, <2>2, <2>3
<1> QED
  BY <1>1, <1>2

-------------------------------------------------------------------------------
(* Sources.                                                                *)

Line   == Seq(Int)
Visited == [counted : BOOLEAN, bad : BOOLEAN, lines : Seq(Line)]

LEMMA PathIsLine ==
  ASSUME NEW p \in AllPaths
  PROVE  p \in Line /\ Shown(p) \in Line /\ IsPrefix(p, Shown(p)) /\ IsPrefix(p, p)
         /\ Len(p) \in Nat /\ Len(Shown(p)) \in Nat /\ Len(p) <= Len(Shown(p))
<1>1. p \in Seq(Nat) /\ Nat \subseteq Int
  BY PathsAre
<1>2. p \in Seq(Int)
  BY <1>1, Widen
<1>3. Append(p, 0) \in Seq(Int) /\ Len(Append(p, 0)) = Len(p) + 1 /\ Len(p) \in Nat
      /\ \A i \in 1..Len(p) : Append(p, 0)[i] = p[i]
  BY <1>2
<1>4. IsPrefix(p, Append(p, 0)) /\ IsPrefix(p, p)
  <2> DEFINE s == Append(p, 0)
  <2>1. s \in Seq(Int) /\ Len(p) <= Len(s) /\ \A i \in 1..Len(p) : p[i] = s[i]
    BY <1>3
  <2> HIDE DEF s
  <2>2. IsPrefix(p, s) /\ IsPrefix(p, p)
    BY <1>2, <2>1, PrefixMeans
  <2> QED
    BY <2>2 DEF s
<1> QED
  BY <1>2, <1>3, <1>4 DEF Shown, Slash, Line

\* Siblings as ls and tree show them.
LEMMA ListedAre ==
  ASSUME NEW d \in AllPaths, NEW ps \in SUBSET Children(d)
  PROVE  Listed(ps) \in Seq(Children(d)) /\ Listed(ps) \in Seq(AllPaths)
<1> DEFINE a == ps \cap Folders
           b == ps \ Folders
<1>1. a \in SUBSET Children(d) /\ b \in SUBSET Children(d)
  OBVIOUS
<1> HIDE DEF a, b
<1>2. InOrder(a) \in Seq(a) /\ InOrder(b) \in Seq(b)
  BY <1>1, InOrderIs
<1>3. InOrder(a) \in Seq(Children(d)) /\ InOrder(b) \in Seq(Children(d))
  BY <1>1, <1>2, Widen
<1>4. InOrder(a) \o InOrder(b) \in Seq(Children(d))
  BY <1>3
<1>5. Listed(ps) \in Seq(Children(d))
  BY <1>4 DEF Listed, a, b
<1>6. Children(d) \subseteq AllPaths
  BY ChildrenAre
<1> QED
  BY <1>5, <1>6, Widen

LEMMA BranchesTyped ==
  ASSUME NEW d \in Folders, NEW here \in Seq(Children(d)), NEW level \in Int, NEW under,
         \A e \in Folders \cap Children(d) : under[e] \in Seq(Line)
  PROVE  Branches(here, level, under) \in Seq(Line)
<1> DEFINE Part(p) == IF p \in Folders THEN <<<<level, Last(p), Slash>>>> \o under[p]
                                        ELSE <<<<level, Last(p)>>>>
           q == [i \in 1..Len(here) |-> Part(here[i])]
<1>1. ASSUME NEW p \in Children(d) PROVE Part(p) \in Seq(Line)
  <2>1. d \in AllPaths
    BY DEF AllPaths
  <2>2. Last(p) \in Int /\ Slash \in Int
    BY <2>1, ChildrenAre DEF Slash
  <2>3. <<level, Last(p), Slash>> \in Line /\ <<level, Last(p)>> \in Line
    BY <2>2 DEF Line
  <2>4. <<<<level, Last(p), Slash>>>> \in Seq(Line) /\ <<<<level, Last(p)>>>> \in Seq(Line)
    BY <2>3, Single
  <2>5. ASSUME p \in Folders PROVE <<<<level, Last(p), Slash>>>> \o under[p] \in Seq(Line)
    <3> DEFINE x == <<<<level, Last(p), Slash>>>>
               y == under[p]
    <3>1. x \in Seq(Line) /\ y \in Seq(Line)
      BY <2>4, <2>5
    <3> HIDE DEF x, y
    <3>2. x \o y \in Seq(Line)
      BY <3>1
    <3> QED
      BY <3>2 DEF x, y
  <2> QED
    BY <2>4, <2>5
<1> HIDE DEF Part
<1>2. \A i \in 1..Len(here) : here[i] \in Children(d)
  OBVIOUS
<1>3. q \in Seq(Seq(Line))
  BY <1>1, <1>2
<1>4. FlattenSeq(q) \in Seq(Line)
  <2> HIDE DEF q
  <2> QED
    BY <1>3, Flattened
<1> QED
  BY <1>4 DEF Branches, Part

LEMMA OutlineTyped ==
  ASSUME NEW start \in AllPaths, NEW depth \in Nat
  PROVE  Outline(start, depth) \in Seq(Line)
<1>1. CASE start \notin Folders
  <2>1. Outline(start, depth) = <<start>> /\ start \in Line
    BY <1>1, PathIsLine DEF Outline
  <2> QED
    BY <2>1, Single
<1>2. CASE start \in Folders
  <2> DEFINE S == Seq(Line)
             Here(d) == Listed({p \in Visible(d) : ~Denied(p)})
             Level(d) == Len(d) - Len(start) + 1
             Part(d, f) == IF depth # Unlimited /\ Level(d) > depth THEN <<>>
                           ELSE Branches(Here(d), Level(d), f)
             F(f) == [d \in Folders |-> Part(d, f)]
             G == [f \in [Folders -> S] |-> F(f)]
             u == CHOOSE e : e = F(e)
  <2>1. ASSUME NEW d \in Folders
        PROVE  Here(d) \in Seq(Children(d)) /\ Level(d) \in Int
    <3>1. d \in AllPaths /\ {p \in Visible(d) : ~Denied(p)} \in SUBSET Children(d)
      BY DEF AllPaths, Visible
    <3>2. Len(d) \in Nat /\ Len(start) \in Nat
      BY <3>1, PathsAre
    <3> QED
      BY <3>1, <3>2, ListedAre
  <2> HIDE DEF Here, Level
  <2>2. <<>> \in S
    OBVIOUS
  <2>3. ASSUME NEW f, NEW d \in Folders, \A e \in Folders \cap Children(d) : f[e] \in S
        PROVE  Part(d, f) \in S
    BY <2>1, <2>2, <2>3, BranchesTyped
  <2>4. ASSUME NEW f, NEW g, NEW d \in Folders, \A e \in Folders \cap Children(d) : f[e] = g[e]
        PROVE  Part(d, f) = Part(d, g)
    <3> DEFINE here == Here(d)
    <3>1. here \in Seq(Children(d))
      BY <2>1
    <3> HIDE DEF here
    <3> DEFINE One(h, i) == IF here[i] \in Folders
                            THEN <<<<Level(d), Last(here[i]), Slash>>>> \o h[here[i]]
                            ELSE <<<<Level(d), Last(here[i])>>>>
    <3>2. \A i \in 1..Len(here) : here[i] \in Folders => f[here[i]] = g[here[i]]
      BY <2>4, <3>1
    <3>3. \A i \in 1..Len(here) : One(f, i) = One(g, i)
      BY <3>2
    <3> HIDE DEF One
    <3>4. [i \in 1..Len(here) |-> One(f, i)] = [i \in 1..Len(here) |-> One(g, i)]
      BY <3>3
    <3>5. Branches(here, Level(d), f) = Branches(here, Level(d), g)
      BY <3>4 DEF Branches, One
    <3> QED
      BY <3>5 DEF here
  <2> HIDE DEF Part
  <2>5. \A f \in [Folders -> S] : G[f] = F(f) /\ F(f) \in [Folders -> S]
    BY <2>3
  <2> HIDE DEF S
  <2>6. G \in [[Folders -> S] -> [Folders -> S]]
    BY <2>5
  <2>7. ASSUME NEW f \in [Folders -> S], NEW g \in [Folders -> S], NEW d \in Folders,
               \A e \in Folders \cap Children(d) : f[e] = g[e]
        PROVE  G[f][d] = G[g][d]
    BY <2>4, <2>5, <2>7
  <2>8. PICK f \in [Folders -> S] : f = G[f]
    <3> HIDE DEF G
    <3> QED
      BY <2>2, <2>6, <2>7, Grown
  <2>9. f = F(f)
    BY <2>5, <2>8
  <2>10. u = F(u)
    <3> HIDE DEF F
    <3> QED
      BY <2>9
  <2>11. Outline(start, depth) = u[start]
    BY <1>2 DEF Outline, Part, Here, Level
  <2> HIDE DEF u
  <2>12. \A d \in Folders : u[d] = Part(d, u)
    BY <2>10
  <2> DEFINE good == {d \in Folders : u[d] \in S}
  <2>13. \A d \in Folders : (\A e \in Folders \cap Children(d) : e \in good) => d \in good
    BY <2>3, <2>12
  <2>14. good = Folders
    <3> HIDE DEF good
    <3>1. good \in SUBSET Folders
      BY DEF good
    <3> QED
      BY <2>13, <3>1, FromTheLeaves
  <2> QED
    BY <1>2, <2>11, <2>14 DEF S
<1> QED
  BY <1>1, <1>2

LEMMA VisitsTyped ==
  ASSUME NEW counted \in BOOLEAN, NEW lines \in Seq(Line)
  PROVE  Visits(counted, lines) \in Seq(Visited)
<1>1. Len(lines) \in Nat /\ \A i \in 1..Len(lines) : lines[i] \in Line
  OBVIOUS
<1>2. \A i \in 1..Len(lines) : <<lines[i]>> \in Seq(Line)
  BY <1>1, Single
<1>3. \A i \in 1..Len(lines) : Visit(counted, <<lines[i]>>) \in Visited
  BY <1>2 DEF Visit, Visited
<1> QED
  BY <1>1, <1>3 DEF Visits

LEMMA ShownFromTyped ==
  ASSUME NEW all \in Seq(AllPaths), NEW n \in Nat
  PROVE  ShownFrom(n, all) \in Seq(Line)
<1>1. Len(all) \in Nat
  OBVIOUS
<1>2. ASSUME NEW i \in 1..Len(all)
      PROVE  SubSeq(Shown(all[i]), n + 1, Len(Shown(all[i]))) \in Line
  <2> DEFINE s == Shown(all[i])
  <2>1. s \in Seq(Int) /\ Len(s) \in Nat
    BY PathIsLine DEF Line
  <2> HIDE DEF s
  <2>2. \A k \in n + 1..Len(s) : s[k] \in Int
    BY <2>1
  <2>3. SubSeq(s, n + 1, Len(s)) \in Seq(Int)
    <3>1. n + 1 \in Int /\ Len(s) \in Int
      BY <2>1
    <3> QED
      BY <2>2, <3>1, SubSeqProperties
  <2> QED
    BY <2>3 DEF s, Line
<1> QED
  BY <1>1, <1>2 DEF ShownFrom

LEMMA LsTyped ==
  ASSUME NEW of \in Options, NEW start \in AllPaths
  PROVE  LsVisits(of, start) \in Seq(Visited)
<1>1. CASE start \notin Folders
  <2>1. <<start>> \in Seq(Line)
    BY PathIsLine, Single
  <2> QED
    BY <1>1, <2>1, VisitsTyped DEF LsVisits
<1>2. CASE start \in Folders /\ "-R" \in of.flags
  <2>1. Walk(start, Unlimited, TRUE, TRUE) \in Seq(AllPaths)
    BY WalkBelow
  <2>2. ShownFrom(0, Walk(start, Unlimited, TRUE, TRUE)) \in Seq(Line)
    BY <2>1, ShownFromTyped
  <2> QED
    BY <1>2, <2>2, VisitsTyped DEF LsVisits
<1>3. CASE start \in Folders /\ "-R" \notin of.flags
  <2> DEFINE ps == {p \in Children(start) : ("-a" \in of.flags \/ p \in Visible(start)) /\ ~Denied(p)}
  <2>1. ps \in SUBSET Children(start)
    OBVIOUS
  <2> HIDE DEF ps
  <2>2. Listed(ps) \in Seq(AllPaths) /\ Len(start) \in Nat
    BY <2>1, ListedAre, PathIsLine
  <2>3. ShownFrom(Len(start), Listed(ps)) \in Seq(Line)
    BY <2>2, ShownFromTyped
  <2> QED
    BY <1>3, <2>3, VisitsTyped DEF LsVisits, ps
<1> QED
  BY <1>1, <1>2, <1>3

LEMMA GlobTyped ==
  ASSUME NEW of, NEW t \in DOMAIN Globs
  PROVE  GlobVisits(of, Globs[t]) \in Seq(Visited)
<1> DEFINE ps == {p \in Globs[t] : ~Denied(p) /\ ("-a" \in of.flags \/ Range(p) \cap Hidden = {})}
<1>1. PICK d \in Folders : \A p \in Globs[t] : p \in Folders \cup DOMAIN Texts /\ p # <<>> /\ Front(p) = d
  BY FileSearchAssumption
<1>2. ps \in SUBSET Children(d) /\ d \in AllPaths
  BY <1>1 DEF Children, AllPaths
<1>3. GlobVisits(of, Globs[t]) = Visits(FALSE, ShownFrom(0, InOrder(ps)))
  BY DEF GlobVisits
<1> HIDE DEF ps
<1>4. InOrder(ps) \in Seq(ps) /\ ps \subseteq AllPaths
  BY <1>2, InOrderIs, ChildrenAre
<1>5. InOrder(ps) \in Seq(AllPaths)
  BY <1>4, Widen
<1>6. ShownFrom(0, InOrder(ps)) \in Seq(Line)
  BY <1>5, ShownFromTyped
<1> QED
  BY <1>3, <1>6, VisitsTyped

LEMMA FindTyped ==
  ASSUME NEW of, NEW all \in Seq(AllPaths)
  PROVE  /\ FindVisits(of, all) \in Seq(Visited) /\ Len(FindVisits(of, all)) = Len(all)
         /\ \A i \in 1..Len(all) :
              /\ FindVisits(of, all)[i] = Visit(TRUE, FindOutput(of, all[i]))
              /\ FindVisits(of, all)[i].lines = FindOutput(of, all[i])
              /\ FindOutput(of, all[i]) \in Seq(Line)
<1>1. Len(all) \in Nat /\ \A i \in 1..Len(all) : all[i] \in AllPaths
  OBVIOUS
<1>2. ASSUME NEW p \in AllPaths PROVE FindOutput(of, p) \in Seq(Line)
  <2>1. p \in Line /\ Shown(p) \in Line
    BY PathIsLine
  <2>2. <<p>> \in Seq(Line) /\ <<Shown(p)>> \in Seq(Line) /\ <<>> \in Seq(Line)
    BY <2>1, Single
  <2> QED
    BY <2>2 DEF FindOutput
<1>3. \A i \in 1..Len(all) : /\ Visit(TRUE, FindOutput(of, all[i])) \in Visited
                             /\ Visit(TRUE, FindOutput(of, all[i])).lines = FindOutput(of, all[i])
  BY <1>1, <1>2 DEF Visit, Visited
<1> DEFINE v(i) == Visit(TRUE, FindOutput(of, all[i]))
           q == [i \in 1..Len(all) |-> v(i)]
<1>4. FindVisits(of, all) = q
  BY DEF FindVisits
<1>5. \A i \in 1..Len(all) : v(i) \in Visited /\ v(i).lines = FindOutput(of, all[i])
                             /\ v(i) = Visit(TRUE, FindOutput(of, all[i]))
  BY <1>3
<1> HIDE DEF v
<1>5a. Len(all) \in Nat /\ \A i \in 1..Len(all) : v(i) \in Visited
  BY <1>1, <1>5
<1>6. q \in Seq(Visited) /\ Len(q) = Len(all) /\ \A i \in 1..Len(all) : q[i] = v(i)
  BY <1>5a
<1>7. \A i \in 1..Len(all) : FindOutput(of, all[i]) \in Seq(Line)
  BY <1>1, <1>2
<1> HIDE DEF q
<1> QED
  BY <1>4, <1>5, <1>6, <1>7

LEMMA HitsTyped ==
  ASSUME NEW of, NEW p \in DOMAIN Texts
  PROVE  Hits(of, p) \in Seq(Nat)
<1> DEFINE K == {n \in 1..Len(Texts[p]) :
                   (of.pattern \in DOMAIN Word /\
                     Word[of.pattern] \in Texts[p][n]) # ("-v" \in of.flags)}
<1>1. Len(Texts[p]) \in Nat
  <2>1. Texts[p] \in Seq(SUBSET Nat)
    BY FileSearchAssumption
  <2> QED
    BY <2>1
<1>2. K \in SUBSET (1..Len(Texts[p])) /\ IsFiniteSet(1..Len(Texts[p]))
  BY <1>1, FS_Interval
<1>3. IsFiniteSet(K)
  <2> HIDE DEF K
  <2> QED
    BY <1>2, FS_Subset
<1>4. K \in SUBSET Nat
  BY <1>1, <1>2
<1>5. InTurn(K) \in Seq(Nat)
  <2> HIDE DEF K
  <2>1. InTurn(K) \in Seq(K) /\ K \subseteq Nat
    BY <1>3, <1>4, TurnsAre
  <2> QED
    BY <2>1, Widen
<1>6. <<>> \in Seq(Nat)
  OBVIOUS
<1> QED
  BY <1>5, <1>6 DEF Hits

\* What grep prints of a file begins with the file.
LEMMA GrepOutputIs ==
  ASSUME NEW of, NEW p \in AllPaths, NEW numbers \in Seq(Nat)
  PROVE  /\ GrepOutput(of, p, numbers) \in Seq(Line)
         /\ \A l \in ToSet(GrepOutput(of, p, numbers)) : l \in Line /\ IsPrefix(p, l)
<1>1. p \in Seq(Int) /\ Len(p) \in Nat /\ IsPrefix(p, p)
  BY PathIsLine DEF Line
<1>2. ASSUME NEW n \in Nat PROVE Append(p, n) \in Line /\ IsPrefix(p, Append(p, n))
  <2> DEFINE s == Append(p, n)
  <2>1. n \in Int
    OBVIOUS
  <2>2. s \in Seq(Int) /\ Len(p) <= Len(s) /\ \A i \in 1..Len(p) : p[i] = s[i]
    BY <1>1, <2>1
  <2> HIDE DEF s
  <2>3. IsPrefix(p, s)
    BY <1>1, <2>2, PrefixMeans
  <2> QED
    BY <2>2, <2>3 DEF s, Line
<1>3. Len(numbers) \in Nat /\ \A i \in 1..Len(numbers) : numbers[i] \in Nat
  OBVIOUS
<1>4. CASE GrepOutput(of, p, numbers) = <<>>
  BY <1>4 DEF ToSet
<1>5. CASE GrepOutput(of, p, numbers) = <<p>>
  <2>1. <<p>> \in Seq(Line) /\ ToSet(<<p>>) = {p}
    BY <1>1, Single DEF ToSet, Line
  <2> QED
    BY <1>1, <1>5, <2>1 DEF Line
<1>6. CASE GrepOutput(of, p, numbers) = <<Append(p, Len(numbers))>>
  <2> DEFINE l == Append(p, Len(numbers))
  <2>1. l \in Line /\ IsPrefix(p, l)
    BY <1>2, <1>3
  <2> HIDE DEF l
  <2>2. <<l>> \in Seq(Line) /\ ToSet(<<l>>) = {l}
    BY <2>1, Single DEF ToSet
  <2> QED
    BY <1>6, <2>1, <2>2 DEF l
<1>7. CASE GrepOutput(of, p, numbers) = [i \in 1..Len(numbers) |-> Append(p, numbers[i])]
  <2> DEFINE q == [i \in 1..Len(numbers) |-> Append(p, numbers[i])]
  <2>1. \A i \in 1..Len(numbers) : Append(p, numbers[i]) \in Line /\ IsPrefix(p, Append(p, numbers[i]))
    BY <1>2, <1>3
  <2>2. q \in Seq(Line) /\ DOMAIN q = 1..Len(numbers) /\
          \A i \in 1..Len(numbers) : q[i] \in Line /\ IsPrefix(p, q[i])
    BY <1>3, <2>1
  <2> HIDE DEF q
  <2>3. \A l \in ToSet(q) : l \in Line /\ IsPrefix(p, l)
    BY <2>2 DEF ToSet
  <2> QED
    BY <1>7, <2>2, <2>3 DEF q
<1> QED
  BY <1>4, <1>5, <1>6, <1>7 DEF GrepOutput

LEMMA GrepTyped ==
  ASSUME NEW of, NEW all \in Seq(AllPaths), \A p \in ToSet(all) : p \in DOMAIN Texts
  PROVE  /\ GrepVisits(of, all) \in Seq(Visited) /\ Len(GrepVisits(of, all)) = Len(all)
         /\ \A i \in 1..Len(all) :
              GrepVisits(of, all)[i].lines = GrepOutput(of, all[i], Hits(of, all[i]))
<1>1. Len(all) \in Nat /\ \A i \in 1..Len(all) : all[i] \in AllPaths /\ all[i] \in DOMAIN Texts
  <2>1. \A i \in 1..Len(all) : all[i] \in ToSet(all)
    BY DEF ToSet
  <2> QED
    BY <2>1
<1>2. \A i \in 1..Len(all) : GrepOutput(of, all[i], Hits(of, all[i])) \in Seq(Line)
  BY <1>1, HitsTyped, GrepOutputIs
<1>3. \A i \in 1..Len(all) :
        /\ Visit(TRUE, GrepOutput(of, all[i], Hits(of, all[i]))) \in Visited
        /\ Visit(TRUE, GrepOutput(of, all[i], Hits(of, all[i]))).lines = GrepOutput(of, all[i], Hits(of, all[i]))
  BY <1>2 DEF Visit, Visited
<1> DEFINE v(i) == Visit(TRUE, GrepOutput(of, all[i], Hits(of, all[i])))
           q == [i \in 1..Len(all) |-> v(i)]
<1>4. GrepVisits(of, all) = q
  BY DEF GrepVisits
<1>5. \A i \in 1..Len(all) : v(i) \in Visited /\ v(i).lines = GrepOutput(of, all[i], Hits(of, all[i]))
  BY <1>3
<1> HIDE DEF v
<1>6. q \in Seq(Visited) /\ Len(q) = Len(all) /\ \A i \in 1..Len(all) : q[i] = v(i)
  BY <1>1, <1>5
<1> HIDE DEF q
<1> QED
  BY <1>4, <1>5, <1>6

\* The visits of one path.
LEMMA FromTyped ==
  ASSUME NEW source, NEW of \in Options, NEW start
  PROVE  From(source, of, start) \in Seq(Visited)
<1>1. CASE Denied(start) \/ start \notin Folders \cup DOMAIN Texts
  <2>1. Failure \in Visited
    BY DEF Failure, Visited
  <2>2. <<Failure>> \in Seq(Visited)
    BY <2>1, Single
  <2> QED
    BY <1>1, <2>2 DEF From
<1>2. CASE ~(Denied(start) \/ start \notin Folders \cup DOMAIN Texts)
  <2>1. start \in AllPaths
    BY <1>2 DEF AllPaths
  <2>2. CASE source = "ls"
    BY <1>2, <2>1, <2>2, LsTyped DEF From
  <2>3. CASE source = "find"
    <3> DEFINE all == Walk(start, of.depth, of.kind # "d", of.kind # "f")
    <3>1. all \in Seq(AllPaths)
      BY <2>1, WalkBelow
    <3>2. From(source, of, start) = FindVisits(of, all)
      BY <1>2, <2>3 DEF From
    <3> HIDE DEF all
    <3> QED
      BY <3>1, <3>2, FindTyped
  <2>4. CASE source = "grep"
    <3> DEFINE all == Walk(start, Unlimited, TRUE, FALSE)
    <3>1. all \in Seq(AllPaths) /\ \A p \in ToSet(all) : p \in DOMAIN Texts
      BY <2>1, WalkBelow DEF AllPaths
    <3>2. From(source, of, start) = GrepVisits(of, all)
      BY <1>2, <2>4 DEF From
    <3> HIDE DEF all
    <3> QED
      BY <3>1, <3>2, GrepTyped
  <2>5. CASE source \notin {"ls", "find", "grep"}
    <3>1. of.depth \in Nat
      BY DEF Options
    <3>2. Outline(start, of.depth) \in Seq(Line)
      BY <2>1, <3>1, OutlineTyped
    <3>3. From(source, of, start) = Visits(FALSE, Outline(start, of.depth))
      BY <1>2, <2>5 DEF From
    <3> QED
      BY <3>2, <3>3, VisitsTyped
  <2> QED
    BY <2>2, <2>3, <2>4, <2>5
<1> QED
  BY <1>1, <1>2

\* Whatever find and grep give of a path begins with it.
LEMMA FromBelow ==
  ASSUME NEW source \in {"find", "grep"}, NEW of \in Options, NEW start,
         NEW visit \in ToSet(From(source, of, start)), NEW l \in ToSet(visit.lines)
  PROVE  IsPrefix(start, l)
<1>1. CASE Denied(start) \/ start \notin Folders \cup DOMAIN Texts
  <2>1. visit = Failure
    <3>1. From(source, of, start) = <<Failure>>
      BY <1>1 DEF From
    <3>2. ToSet(<<Failure>>) = {Failure}
      BY DEF ToSet
    <3> QED
      BY <3>1, <3>2
  <2> QED
    BY <2>1 DEF Failure, ToSet
<1>2. CASE ~(Denied(start) \/ start \notin Folders \cup DOMAIN Texts)
  <2>1. start \in AllPaths /\ start \in Line
    BY <1>2, PathIsLine DEF AllPaths
  <2>2. CASE source = "find"
    <3> DEFINE all == Walk(start, of.depth, of.kind # "d", of.kind # "f")
    <3>1. all \in Seq(AllPaths) /\ \A p \in ToSet(all) : p \in AllPaths /\ IsPrefix(start, p)
      BY <2>1, WalkBelow
    <3>2. From(source, of, start) = FindVisits(of, all)
      BY <1>2, <2>2 DEF From
    <3> HIDE DEF all
    <3>3. PICK i \in 1..Len(all) : visit.lines = FindOutput(of, all[i])
      <4>1. /\ FindVisits(of, all) \in Seq(Visited) /\ Len(FindVisits(of, all)) = Len(all)
            /\ \A i \in 1..Len(all) : FindVisits(of, all)[i].lines = FindOutput(of, all[i])
        BY <3>1, FindTyped
      <4>2. DOMAIN FindVisits(of, all) = 1..Len(all)
        BY <4>1
      <4>3. \E i \in 1..Len(all) : visit = FindVisits(of, all)[i]
        BY <3>2, <4>2 DEF ToSet
      <4> QED
        BY <4>1, <4>3
    <3> DEFINE p == all[i]
    <3>4. p \in AllPaths /\ IsPrefix(start, p)
      <4>1. all[i] \in ToSet(all)
        BY <3>1 DEF ToSet
      <4> QED
        BY <3>1, <4>1
    <3> HIDE DEF p
    <3>5. l = p \/ l = Shown(p)
      <4>1. l \in ToSet(FindOutput(of, p))
        BY <3>3 DEF p
      <4> QED
        BY <4>1 DEF FindOutput, ToSet
    <3>6. p \in Line /\ Shown(p) \in Line /\ IsPrefix(p, Shown(p))
      BY <3>4, PathIsLine
    <3>7. IsPrefix(start, Shown(p))
      BY <2>1, <3>4, <3>6, PrefixChain DEF Line
    <3> QED
      BY <3>4, <3>5, <3>7
  <2>3. CASE source = "grep"
    <3> DEFINE all == Walk(start, Unlimited, TRUE, FALSE)
    <3>1. /\ all \in Seq(AllPaths)
          /\ \A p \in ToSet(all) : p \in DOMAIN Texts /\ p \in AllPaths /\ IsPrefix(start, p)
      BY <2>1, WalkBelow DEF AllPaths
    <3>2. From(source, of, start) = GrepVisits(of, all)
      BY <1>2, <2>3 DEF From
    <3> HIDE DEF all
    <3>3. PICK i \in 1..Len(all) : visit.lines = GrepOutput(of, all[i], Hits(of, all[i]))
      <4>1. /\ GrepVisits(of, all) \in Seq(Visited) /\ Len(GrepVisits(of, all)) = Len(all)
            /\ \A i \in 1..Len(all) : GrepVisits(of, all)[i].lines = GrepOutput(of, all[i], Hits(of, all[i]))
        BY <3>1, GrepTyped
      <4>2. DOMAIN GrepVisits(of, all) = 1..Len(all)
        BY <4>1
      <4>3. \E i \in 1..Len(all) : visit = GrepVisits(of, all)[i]
        BY <3>2, <4>2 DEF ToSet
      <4> QED
        BY <4>1, <4>3
    <3> DEFINE p == all[i]
    <3>4. p \in DOMAIN Texts /\ p \in AllPaths /\ IsPrefix(start, p)
      <4>1. all[i] \in ToSet(all)
        BY <3>1 DEF ToSet
      <4> QED
        BY <3>1, <4>1
    <3>5. l \in ToSet(GrepOutput(of, p, Hits(of, p)))
      BY <3>3
    <3> HIDE DEF p
    <3>6. l \in Line /\ IsPrefix(p, l) /\ p \in Line
      BY <3>4, <3>5, HitsTyped, GrepOutputIs, PathIsLine
    <3> QED
      BY <2>1, <3>4, <3>6, PrefixChain DEF Line
  <2> QED
    BY <2>2, <2>3
<1> QED
  BY <1>1, <1>2

\* The visits of a command line come from its paths.
LEMMA VisitsOfAre ==
  ASSUME NEW source, NEW of \in Options
  PROVE  /\ VisitsOf(source, of) \in Seq(Visited)
         /\ \A visit \in ToSet(VisitsOf(source, of)) :
              visit = Failure \/ \E i \in 1..Len(of.paths) :
                visit \in ToSet(VisitsAt(source, of, of.paths[i]))
<1>1. Failure \in Visited
  BY DEF Failure, Visited
<1>2. <<Failure>> \in Seq(Visited) /\ ToSet(<<Failure>>) = {Failure}
  BY <1>1, Single DEF ToSet
<1>3. CASE ~of.ok
  BY <1>2, <1>3 DEF VisitsOf
<1>4. CASE of.ok
  <2> DEFINE Part(t) == VisitsAt(source, of, t)
             q == [i \in 1..Len(of.paths) |-> Part(of.paths[i])]
  <2>1. VisitsOf(source, of) = FlattenSeq(q)
    BY <1>4 DEF VisitsOf
  <2>2. \A t : Part(t) \in Seq(Visited)
    BY <1>2, FromTyped, GlobTyped DEF VisitsAt
  <2>4. of.paths \in Seq(Spelled) /\ Len(of.paths) \in Nat
    BY DEF Options
  <2> HIDE DEF Part
  <2>5. q \in Seq(Seq(Visited)) /\ Len(q) = Len(of.paths) /\
          \A i \in 1..Len(q) : q[i] = Part(of.paths[i])
    BY <2>2, <2>4
  <2> HIDE DEF q
  <2>6. FlattenSeq(q) \in Seq(Visited) /\ ToSet(FlattenSeq(q)) = UNION {ToSet(q[i]) : i \in 1..Len(q)}
    BY <2>5, Flattened
  <2> QED
    BY <2>1, <2>5, <2>6 DEF Part
<1> QED
  BY <1>3, <1>4

LEMMA LinesAre ==
  ASSUME NEW visits \in Seq(Visited)
  PROVE  /\ LinesOf(visits) \in Seq(Line)
         /\ ToSet(LinesOf(visits)) = UNION {ToSet(visits[i].lines) : i \in 1..Len(visits)}
         /\ \A n \in 0..Len(visits) : IsPrefix(LinesOf(SubSeq(visits, 1, n)), LinesOf(visits))
<1> DEFINE q == [i \in 1..Len(visits) |-> visits[i].lines]
<1>1. Len(visits) \in Nat /\ \A i \in 1..Len(visits) : visits[i].lines \in Seq(Line)
  <2>1. Len(visits) \in Nat /\ \A i \in 1..Len(visits) : visits[i] \in Visited
    OBVIOUS
  <2>2. \A v \in Visited : v.lines \in Seq(Line)
    BY DEF Visited
  <2> QED
    BY <2>1, <2>2
<1>2. q \in Seq(Seq(Line)) /\ Len(q) = Len(visits) /\ \A i \in 1..Len(visits) : q[i] = visits[i].lines
  BY <1>1
<1>3. LinesOf(visits) = FlattenSeq(q)
  BY DEF LinesOf
<1>4. ASSUME NEW n \in 0..Len(visits) PROVE LinesOf(SubSeq(visits, 1, n)) = FlattenSeq(SubSeq(q, 1, n))
  <2> DEFINE r == SubSeq(visits, 1, n)
             s == SubSeq(q, 1, n)
  <2>1. Len(r) = n /\ \A i \in 1..n : r[i] = visits[i]
    BY <1>1
  <2> HIDE DEF q, r
  <2>2. s \in Seq(Seq(Line)) /\ Len(s) = n /\ \A i \in 1..n : s[i] = q[i]
    BY <1>2
  <2> HIDE DEF s
  <2>3. ASSUME NEW i \in 1..n PROVE s[i] = r[i].lines
    <3>1. i \in 1..Len(visits)
      BY <1>1
    <3>2. q[i] = visits[i].lines
      BY <1>2, <3>1
    <3> QED
      BY <2>1, <2>2, <3>2
  <2>4. s = [i \in 1..Len(r) |-> r[i].lines]
    BY <2>1, <2>2, <2>3
  <2> QED
    BY <2>4 DEF LinesOf, r, s
<1> HIDE DEF q
<1>5. /\ FlattenSeq(q) \in Seq(Line)
      /\ ToSet(FlattenSeq(q)) = UNION {ToSet(q[i]) : i \in 1..Len(q)}
      /\ \A n \in 0..Len(q) : IsPrefix(FlattenSeq(SubSeq(q, 1, n)), FlattenSeq(q))
  BY <1>2, Flattened
<1> QED
  BY <1>2, <1>3, <1>4, <1>5

-------------------------------------------------------------------------------
(* Filters.                                                                *)

\* A sequence, whatever it is of.
Sequence(s) == Len(s) \in Nat /\ s = [i \in 1..Len(s) |-> s[i]]

LEMMA SequencesAre ==
  ASSUME NEW s, NEW t, Sequence(s), Sequence(t)
  PROVE  \E S : s \in Seq(S) /\ t \in Seq(S)
<1> DEFINE A == {s[i] : i \in 1..Len(s)}
           B == {t[i] : i \in 1..Len(t)}
           S == A \cup B
<1>1. \A i \in 1..Len(s) : s[i] \in S
  OBVIOUS
<1>2. \A i \in 1..Len(t) : t[i] \in S
  OBVIOUS
<1> HIDE DEF S
<1>3. s \in [1..Len(s) -> S] /\ t \in [1..Len(t) -> S]
  BY <1>1, <1>2 DEF Sequence
<1>4. s \in Seq(S) /\ t \in Seq(S)
  BY <1>3, SeqDef DEF Sequence
<1> QED
  BY <1>4

LEMMA SeqIsSequence ==
  ASSUME NEW S, NEW s \in Seq(S)
  PROVE  Sequence(s)
BY DEF Sequence

LEMMA Tabled ==
  ASSUME NEW n \in Nat, NEW s, s = [i \in 1..n |-> s[i]]
  PROVE  Sequence(s) /\ Len(s) = n
<1> DEFINE S == {s[i] : i \in 1..n}
<1>1. s \in [1..n -> S]
  OBVIOUS
<1> HIDE DEF S
<1>2. s \in Seq(S) /\ Len(s) = n
  BY <1>1
<1> QED
  BY <1>2 DEF Sequence

LEMMA PrefixIs ==
  ASSUME NEW s, NEW t, Sequence(s), Sequence(t)
  PROVE  /\ IsPrefix(s, t) <=> Len(s) <= Len(t) /\ \A i \in 1..Len(s) : s[i] = t[i]
         /\ Len(s) = Len(t) /\ (\A i \in 1..Len(s) : s[i] = t[i]) => s = t
<1>1. PICK S : s \in Seq(S) /\ t \in Seq(S)
  BY SequencesAre
<1> QED
  BY <1>1, PrefixMeans, SeqEqual

\* The first of a sequence.
LEMMA Firsts ==
  ASSUME NEW s, Sequence(s), NEW n \in 0..Len(s)
  PROVE  /\ Sequence(SubSeq(s, 1, n)) /\ Len(SubSeq(s, 1, n)) = n
         /\ \A i \in 1..n : SubSeq(s, 1, n)[i] = s[i]
         /\ n = Len(s) => SubSeq(s, 1, n) = s
<1>1. PICK S : s \in Seq(S)
  BY SequencesAre
<1>2. /\ SubSeq(s, 1, n) \in Seq(S) /\ Len(SubSeq(s, 1, n)) = n
      /\ \A i \in 1..n : SubSeq(s, 1, n)[i] = s[i]
      /\ n = Len(s) => SubSeq(s, 1, n) = s
  BY <1>1
<1> QED
  BY <1>2, SeqIsSequence

\* What is taken at some places of a sequence.
LEMMA TakenIs ==
  ASSUME NEW s, NEW at, Len(at) \in Nat
  PROVE  /\ Sequence(Taken(s, at)) /\ Len(Taken(s, at)) = Len(at)
         /\ \A k \in 1..Len(at) : Taken(s, at)[k] = s[at[k]]
<1> DEFINE t == [k \in 1..Len(at) |-> s[at[k]]]
<1>1. Taken(s, at) = t
  BY DEF Taken
<1>2. t = [i \in 1..Len(at) |-> t[i]] /\ \A k \in 1..Len(at) : t[k] = s[at[k]]
  OBVIOUS
<1> HIDE DEF t
<1>3. Sequence(t) /\ Len(t) = Len(at)
  BY <1>2, Tabled
<1> QED
  BY <1>1, <1>2, <1>3

LEMMA CountingIs ==
  ASSUME NEW s, NEW at, Len(at) \in Nat
  PROVE  /\ Sequence(Counting(s, at)) /\ Len(Counting(s, at)) = Len(at)
         /\ \A k \in 1..Len(at) : Counting(s, at)[k] = <<RunEnd(s, at[k]) - at[k] + 1>> \o s[at[k]]
<1> DEFINE v(k) == <<RunEnd(s, at[k]) - at[k] + 1>> \o s[at[k]]
           t == [k \in 1..Len(at) |-> v(k)]
<1>1. Counting(s, at) = t
  BY DEF Counting
<1> HIDE DEF v
<1>2. t = [i \in 1..Len(at) |-> t[i]] /\ \A k \in 1..Len(at) : t[k] = v(k)
  OBVIOUS
<1> HIDE DEF t
<1>3. Sequence(t) /\ Len(t) = Len(at)
  BY <1>2, Tabled
<1> QED
  BY <1>1, <1>2, <1>3 DEF v

\* Where the runs of equal neighbours begin.
Begins(s) == {i \in 1..Len(s) : i = 1 \/ s[i] # s[i - 1]}

LEMMA TurnsOf ==
  ASSUME NEW n \in Nat, NEW K \in SUBSET (1..n)
  PROVE  /\ K \in SUBSET Nat /\ IsFiniteSet(K) /\ Sequence(InTurn(K)) /\ InTurn(K) \in Seq(K)
         /\ Len(InTurn(K)) \in Nat /\ Len(InTurn(K)) <= n /\ Len(InTurn(K)) = Cardinality(K)
<1>1. IsFiniteSet(1..n) /\ Cardinality(1..n) = n
  BY FS_Interval
<1>2. IsFiniteSet(K) /\ Cardinality(K) <= n
  BY <1>1, FS_Subset
<1>3. K \in SUBSET Nat
  OBVIOUS
<1>4. InTurn(K) \in Seq(K) /\ Len(InTurn(K)) = Cardinality(K) /\ Cardinality(K) \in Nat
  BY <1>2, <1>3, TurnsAre
<1> QED
  BY <1>2, <1>3, <1>4, SeqIsSequence

LEMMA RunsAre ==
  ASSUME NEW s, Sequence(s)
  PROVE  /\ Runs(s) = InTurn(Begins(s)) /\ Begins(s) \in SUBSET (1..Len(s))
         /\ Len(Runs(s)) \in Nat /\ Len(Runs(s)) <= Len(s)
<1>1. Runs(s) = InTurn(Begins(s)) /\ Begins(s) \in SUBSET (1..Len(s)) /\ Len(s) \in Nat
  BY DEF Runs, Begins, Sequence
<1> QED
  BY <1>1, TurnsOf

\* Every filter gives a sequence; one that does not drain gives no more than it reads.
LEMMA FilterGives ==
  ASSUME NEW f \in Filters, NEW s, Sequence(s)
  PROVE  /\ Sequence(Filter(f, s))
         /\ f.op # "bad" /\ ~Drains(f) => Len(Filter(f, s)) <= Len(s)
         /\ f.op = "head" => f.n \in Nat \ {0}
<1>0. Len(s) \in Nat
  BY DEF Sequence
<1>1. CASE f.op = "head"
  <2>1. f.n \in Nat \ {0}
    BY <1>1 DEF Filters
  <2> DEFINE n == IF f.n < Len(s) THEN f.n ELSE Len(s)
  <2>2. n \in 0..Len(s)
    BY <1>0, <2>1
  <2>3. Filter(f, s) = SubSeq(s, 1, n)
    BY <1>1 DEF Filter
  <2> HIDE DEF n
  <2>4. Sequence(SubSeq(s, 1, n)) /\ Len(SubSeq(s, 1, n)) = n /\ n <= Len(s)
    BY <2>2, Firsts, <1>0
  <2> QED
    BY <2>1, <2>3, <2>4
<1>2. CASE f.op = "tail"
  <2>1. f.n \in Nat
    BY <1>2 DEF Filters
  <2> DEFINE m == IF f.n < Len(s) THEN Len(s) - f.n + 1 ELSE 1
  <2>2. m \in Nat \ {0}
    BY <1>0, <2>1
  <2>3. Filter(f, s) = SubSeq(s, m, Len(s))
    BY <1>2 DEF Filter
  <2> HIDE DEF m
  <2>4. PICK S : s \in Seq(S)
    BY SequencesAre
  <2>5. SubSeq(s, m, Len(s)) \in Seq(S)
    <3>1. \A i \in m..Len(s) : s[i] \in S
      BY <2>2, <2>4
    <3>2. m \in Int /\ Len(s) \in Int
      BY <1>0, <2>2
    <3> QED
      BY <3>1, <3>2, SubSeqProperties
  <2>6. Sequence(SubSeq(s, m, Len(s)))
    BY <2>5, SeqIsSequence
  <2> QED
    BY <1>2, <2>3, <2>6 DEF Drains
<1>3. CASE f.op = "wc"
  <2>1. Filter(f, s) = <<<<Len(s)>>>> /\ <<<<Len(s)>>>> \in Seq({<<Len(s)>>})
    BY <1>3, Single DEF Filter
  <2>2. Sequence(<<<<Len(s)>>>>)
    BY <2>1, SeqIsSequence
  <2> QED
    BY <1>3, <2>1, <2>2 DEF Drains
<1>4. CASE f.op = "sort"
  <2> DEFINE v(n) == s[CHOOSE i \in 1..Len(s) : Place(s, i) = n]
             t == [n \in 1..Len(s) |-> v(n)]
  <2>1. Sorted(s) = t
    BY DEF Sorted
  <2>2. Sequence(t)
    <3> HIDE DEF v
    <3>1. t = [i \in 1..Len(s) |-> t[i]]
      OBVIOUS
    <3> HIDE DEF t
    <3> QED
      BY <1>0, <3>1, Tabled
  <2> HIDE DEF t
  <2>3. Sequence(Distinct(t))
    <3>1. Len(Runs(t)) \in Nat
      BY <2>2, RunsAre
    <3> QED
      BY <3>1, TakenIs DEF Distinct
  <2>4. ASSUME NEW r, Sequence(r) PROVE Sequence(Reverse(r))
    <3> DEFINE q == [i \in 1..Len(r) |-> r[(Len(r) - i) + 1]]
    <3>1. Reverse(r) = q
      BY DEF Reverse
    <3>2. q = [i \in 1..Len(r) |-> q[i]] /\ Len(r) \in Nat
      BY <2>4 DEF Sequence
    <3> HIDE DEF q
    <3> QED
      BY <3>1, <3>2, Tabled
  <2>5. Filter(f, s) = Reversed(f, IF f.unique THEN Distinct(t) ELSE t)
    BY <1>4, <2>1 DEF Filter
  <2> QED
    BY <1>4, <2>2, <2>3, <2>4, <2>5 DEF Reversed, Drains
<1>5. CASE f.op = "uniq"
  <2>1. Filter(f, s) = IF f.counts THEN Counting(s, Runs(s)) ELSE Taken(s, Runs(s))
    BY <1>5 DEF Filter, Distinct
  <2>2. Len(Runs(s)) \in Nat /\ Len(Runs(s)) <= Len(s)
    BY RunsAre
  <2> QED
    BY <1>5, <2>1, <2>2, TakenIs, CountingIs
<1>6. CASE f.op \notin {"head", "tail", "wc", "sort", "uniq"}
  <2> DEFINE K == Matches(f, s)
             kept == Taken(s, InTurn(K))
  <2>1. Filter(f, s) = IF f.counts THEN <<<<Len(kept)>>>> ELSE kept
    BY <1>6 DEF Filter, Matching
  <2>2. K \in SUBSET (1..Len(s))
    BY DEF Matches
  <2> HIDE DEF K
  <2>3. Len(InTurn(K)) \in Nat /\ Len(InTurn(K)) <= Len(s)
    BY <1>0, <2>2, TurnsOf
  <2>4. Sequence(kept) /\ Len(kept) <= Len(s)
    BY <2>3, TakenIs
  <2> HIDE DEF kept
  <2>5. <<<<Len(kept)>>>> \in Seq({<<Len(kept)>>})
    BY Single
  <2>6. Sequence(<<<<Len(kept)>>>>)
    BY <2>5, SeqIsSequence
  <2>7. f.op = "grep" \/ f.op = "bad"
    BY <1>6 DEF Filters
  <2> QED
    BY <1>6, <2>1, <2>4, <2>6, <2>7 DEF Drains
<1> QED
  BY <1>1, <1>2, <1>3, <1>4, <1>5, <1>6

\* A run that another one follows ends where it does, whatever comes behind that.
LEMMA RunEnds ==
  ASSUME NEW s, Sequence(s), NEW i \in 1..Len(s), NEW e \in i..Len(s),
         \A k \in i..e : s[k] = s[i],
         e = Len(s) \/ s[e + 1] # s[i]
  PROVE  RunEnd(s, i) = e
<1>0. Len(s) \in Nat /\ i \in Nat /\ e \in Nat
  BY DEF Sequence
<1> DEFINE Ends(j) == (\A k \in i..j : s[k] = s[i]) /\ (j = Len(s) \/ s[j + 1] # s[i])
<1>1. RunEnd(s, i) = CHOOSE j \in i..Len(s) : Ends(j)
  BY DEF RunEnd
<1>2. ASSUME NEW j \in i..Len(s), Ends(j) PROVE j = e
  <2>1. CASE j < e
    <3>1. j + 1 \in i..e /\ j # Len(s)
      BY <1>0, <2>1
    <3> QED
      BY <1>2, <3>1
  <2>2. CASE e < j
    <3>1. e + 1 \in i..j /\ e # Len(s)
      BY <1>0, <2>2
    <3> QED
      BY <1>2, <3>1
  <2> QED
    BY <1>0, <2>1, <2>2
<1>3. Ends(e)
  OBVIOUS
<1> HIDE DEF Ends
<1> QED
  BY <1>1, <1>2, <1>3

LEMMA RunEndStays ==
  ASSUME NEW a, NEW b, Sequence(a), Sequence(b), IsPrefix(a, b),
         NEW i \in Begins(a), NEW j \in Begins(a), i < j
  PROVE  RunEnd(a, i) = RunEnd(b, i)
<1>0. /\ Len(a) \in Nat /\ Len(b) \in Nat /\ Len(a) <= Len(b) /\ \A k \in 1..Len(a) : a[k] = b[k]
      /\ i \in 1..Len(a) /\ j \in 1..Len(a) /\ a[j] # a[j - 1]
  BY PrefixIs DEF Sequence, Begins
<1> DEFINE other == {k \in i..Len(a) : a[k] # a[i]}
<1>1. other \in SUBSET Nat /\ other # {} /\ \A k \in other : k \in i..Len(a) /\ a[k] # a[i]
  <2>1. j \in i..Len(a) /\ j - 1 \in i..Len(a)
    BY <1>0
  <2>2. j \in other \/ j - 1 \in other
    BY <1>0, <2>1
  <2> QED
    BY <1>0, <2>2
<1>2. \A k \in i..Len(a) : k \in other \/ a[k] = a[i]
  OBVIOUS
<1> HIDE DEF other
<1>3. PICK w \in other : \A k \in other : w <= k
  BY <1>1, LeastElement
<1>4. w \in i..Len(a) /\ a[w] # a[i] /\ w # i
  BY <1>1
<1> DEFINE e == w - 1
<1>5. /\ e \in i..Len(a) /\ e \in i..Len(b) /\ i \in 1..Len(b) /\ e # Len(a) /\ e + 1 = w /\
           w \in 1..Len(a)
  BY <1>0, <1>4
<1>6. \A k \in i..e : k \in i..Len(a) /\ k \in 1..Len(a) /\ k \notin other
  BY <1>0, <1>3, <1>4
<1> HIDE DEF e
<1>7. \A k \in i..e : a[k] = a[i] /\ b[k] = b[i]
  BY <1>0, <1>2, <1>6
<1>8. a[e + 1] # a[i] /\ b[e + 1] # b[i]
  BY <1>0, <1>4, <1>5
<1>9. RunEnd(a, i) = e
  BY <1>0, <1>5, <1>7, <1>8, RunEnds
<1>10. RunEnd(b, i) = e
  BY <1>0, <1>5, <1>7, <1>8, RunEnds
<1> QED
  BY <1>9, <1>10

\* A lazy filter has given a part of what it will have given.
LEMMA LazyUniq ==
  ASSUME NEW f \in Filters, f.op = "uniq", NEW a, NEW b, Sequence(a), Sequence(b), IsPrefix(a, b)
  PROVE  /\ Sequence(Streamed(f, a)) /\ IsPrefix(Streamed(f, a), Filter(f, b))
         /\ Len(Streamed(f, a)) <= Len(a)
<1> DEFINE K == Begins(b)
           J == Begins(a)
           at == Runs(a)
           bt == Runs(b)
           u == Filter(f, a)
           v == Filter(f, b)
<1>0. Len(a) \in Nat /\ Len(b) \in Nat /\ Len(a) <= Len(b) /\ \A k \in 1..Len(a) : a[k] = b[k]
  BY PrefixIs DEF Sequence
<1>1. at = InTurn(J) /\ bt = InTurn(K) /\ J \in SUBSET (1..Len(a)) /\ K \in SUBSET (1..Len(b))
  BY RunsAre
<1>2. /\ J \in SUBSET Nat /\ IsFiniteSet(J) /\ at \in Seq(J) /\ Len(at) \in Nat /\ Len(at) <= Len(a)
      /\ Len(at) = Cardinality(J)
      /\ K \in SUBSET Nat /\ IsFiniteSet(K) /\ bt \in Seq(K) /\ Len(bt) \in Nat
  BY <1>0, <1>1, TurnsOf
<1>3. J = K \cap 1..Len(a)
  <2>1. \A i \in 1..Len(a) : i \in 1..Len(b) /\ (i # 1 => i - 1 \in 1..Len(a))
    BY <1>0
  <2> QED
    BY <1>0, <2>1 DEF Begins
<1>4. u = (IF f.counts THEN Counting(a, at) ELSE Taken(a, at)) /\
        v = (IF f.counts THEN Counting(b, bt) ELSE Taken(b, bt))
  BY DEF Filter, Distinct
<1>5. Streamed(f, a) = IF u # <<>> THEN Front(u) ELSE u
  BY DEF Streamed, Held
<1> HIDE DEF K, J, at, bt, u, v
<1>6. J \in SUBSET K /\ \A j \in J : \A k \in K : k <= j => k \in J
  BY <1>0, <1>1, <1>3
<1>7. IsPrefix(at, bt)
  BY <1>1, <1>2, <1>6, TurnsBegin
<1>8. Len(at) <= Len(bt) /\ \A k \in 1..Len(at) : at[k] = bt[k]
  <2>1. Sequence(at) /\ Sequence(bt)
    BY <1>2, SeqIsSequence
  <2> QED
    BY <1>7, <2>1, PrefixIs
<1>9. Sequence(u) /\ Sequence(v) /\ Len(u) = Len(at) /\ Len(v) = Len(bt)
  BY <1>2, <1>4, TakenIs, CountingIs
<1>10. ASSUME NEW k \in 1..Len(u) - 1 PROVE u[k] = v[k]
  <2>1. k \in 1..Len(at) /\ k + 1 \in 1..Len(at) /\ k \in 1..Len(bt)
    BY <1>2, <1>8, <1>9
  <2>2. at[k] \in J /\ at[k + 1] \in J /\ at[k] = bt[k] /\ at[k] \in 1..Len(a)
    <3>1. \A i \in 1..Len(at) : at[i] \in J
      BY <1>2
    <3>2. at[k] \in J /\ at[k + 1] \in J
      BY <2>1, <3>1
    <3> QED
      BY <1>1, <1>8, <2>1, <3>2
  <2>3. a[at[k]] = b[bt[k]]
    BY <1>0, <2>2
  <2>4. CASE ~f.counts
    BY <1>2, <1>4, <2>1, <2>3, <2>4, TakenIs
  <2>5. CASE f.counts
    <3>1. at[k] < at[k + 1]
      <4>1. Rank(J, at[k]) = k /\ Rank(J, at[k + 1]) = k + 1
        BY <1>1, <1>2, <2>1, TurnsAre
      <4>2. k < k + 1
        BY <2>1
      <4>3. \A i, j \in J : i < j <=> Rank(J, i) < Rank(J, j)
        BY <1>2, Ranks
      <4> QED
        BY <2>2, <4>1, <4>2, <4>3
    <3>2. RunEnd(a, at[k]) = RunEnd(b, at[k])
      BY <2>2, <3>1, RunEndStays DEF J
    <3>3. u[k] = <<RunEnd(a, at[k]) - at[k] + 1>> \o a[at[k]]
      BY <1>2, <1>4, <2>1, <2>5, CountingIs
    <3>4. v[k] = <<RunEnd(b, bt[k]) - bt[k] + 1>> \o b[bt[k]]
      BY <1>2, <1>4, <2>1, <2>5, CountingIs
    <3> QED
      BY <2>2, <2>3, <3>2, <3>3, <3>4
  <2> QED
    BY <2>4, <2>5
<1>11. Len(u) \in Nat /\ Len(v) \in Nat /\ Len(u) <= Len(v)
  BY <1>2, <1>8, <1>9
<1>12. CASE u = <<>>
  <2>1. Streamed(f, a) = u /\ Len(u) = 0
    BY <1>5, <1>12
  <2>2. Len(u) <= Len(v) /\ \A i \in 1..Len(u) : u[i] = v[i]
    BY <1>11, <2>1
  <2>3. IsPrefix(u, v)
    BY <1>9, <2>2, PrefixIs
  <2>4. Streamed(f, a) = u /\ Len(u) <= Len(a)
    BY <1>0, <2>1
  <2> QED
    BY <1>9, <2>3, <2>4 DEF v
<1>13. CASE u # <<>>
  <2>1. Len(u) # 0
    <3>1. PICK S : u \in Seq(S)
      BY <1>9, SequencesAre
    <3> QED
      BY <1>13, <3>1
  <2> DEFINE w == SubSeq(u, 1, Len(u) - 1)
             m == Len(u) - 1
  <2>2. Streamed(f, a) = w
    BY <1>5, <1>13 DEF Front
  <2>3. m \in 0..Len(u)
    BY <1>11, <2>1
  <2>4. Sequence(w) /\ Len(w) = m /\ \A i \in 1..m : w[i] = u[i]
    <3> HIDE DEF m
    <3>1. Sequence(SubSeq(u, 1, m)) /\ Len(SubSeq(u, 1, m)) = m /\
            \A i \in 1..m : SubSeq(u, 1, m)[i] = u[i]
      BY <1>9, <2>3, Firsts
    <3> QED
      BY <3>1 DEF m
  <2> HIDE DEF w
  <2>5. Len(w) <= Len(v) /\ \A i \in 1..Len(w) : w[i] = v[i]
    BY <1>10, <1>11, <2>1, <2>4
  <2>6. Len(w) <= Len(a)
    BY <1>0, <1>2, <1>9, <1>11, <2>1, <2>4
  <2>7. IsPrefix(w, v)
    BY <1>9, <2>4, <2>5, PrefixIs
  <2> QED
    BY <2>2, <2>4, <2>6, <2>7 DEF v
<1> QED
  BY <1>12, <1>13

LEMMA Lazy ==
  ASSUME NEW f \in Filters, f.op # "bad", ~Drains(f),
         NEW a, NEW b, Sequence(a), Sequence(b), IsPrefix(a, b)
  PROVE  /\ Sequence(Streamed(f, a)) /\ IsPrefix(Streamed(f, a), Filter(f, b))
         /\ Len(Streamed(f, a)) <= Len(a)
<1>0. Len(a) \in Nat /\ Len(b) \in Nat /\ Len(a) <= Len(b) /\ \A k \in 1..Len(a) : a[k] = b[k]
  BY PrefixIs DEF Sequence
<1>1. f.op \in {"head", "uniq"} \/ (f.op = "grep" /\ ~f.counts)
  BY DEF Filters, Drains
<1>2. CASE f.op = "head"
  <2>1. f.n \in Nat \ {0}
    BY <1>2 DEF Filters
  <2> DEFINE n == IF f.n < Len(a) THEN f.n ELSE Len(a)
             m == IF f.n < Len(b) THEN f.n ELSE Len(b)
  <2>2. n \in 0..Len(a) /\ m \in 0..Len(b) /\ n <= m /\ n <= Len(a) /\ n \in Nat /\ m \in Nat
    BY <1>0, <2>1
  <2>3. Filter(f, b) = SubSeq(b, 1, m) /\ Filter(f, a) = SubSeq(a, 1, n) /\
          Streamed(f, a) = SubSeq(a, 1, n)
    BY <1>2 DEF Filter, Streamed, Held
  <2> HIDE DEF n, m
  <2> DEFINE u == SubSeq(a, 1, n)
             v == SubSeq(b, 1, m)
  <2>4. /\ Sequence(u) /\ Len(u) = n /\ \A i \in 1..n : u[i] = a[i]
        /\ Sequence(v) /\ Len(v) = m /\ \A i \in 1..m : v[i] = b[i]
    BY <2>2, Firsts
  <2> HIDE DEF u, v
  <2>5. Len(u) <= Len(v) /\ \A i \in 1..Len(u) : u[i] = v[i]
    BY <1>0, <2>2, <2>4
  <2>6. IsPrefix(u, v)
    BY <2>4, <2>5, PrefixIs
  <2> QED
    BY <2>2, <2>3, <2>4, <2>6 DEF u, v
<1>3. CASE f.op = "uniq"
  BY <1>3, LazyUniq
<1>4. CASE f.op = "grep" /\ ~f.counts
  <2> DEFINE K == Matches(f, b)
             J == Matches(f, a)
             u == Taken(a, InTurn(J))
             v == Taken(b, InTurn(K))
  <2>1. K \in SUBSET (1..Len(b)) /\ J \in SUBSET (1..Len(a))
    BY DEF Matches
  <2>2. J = K \cap 1..Len(a)
    <3>1. \A i \in 1..Len(a) : i \in 1..Len(b)
      BY <1>0
    <3> QED
      BY <1>0, <3>1 DEF Matches
  <2>3. Filter(f, b) = v /\ Streamed(f, a) = u
    BY <1>4 DEF Filter, Matching, Streamed, Held
  <2> HIDE DEF K, J
  <2>4. J \in SUBSET K /\ \A j \in J : \A k \in K : k <= j => k \in J
    BY <1>0, <2>1, <2>2
  <2>5. /\ J \in SUBSET Nat /\ IsFiniteSet(J) /\ InTurn(J) \in Seq(J) /\ Len(InTurn(J)) \in Nat
        /\ Len(InTurn(J)) <= Len(a) /\ Sequence(InTurn(J))
        /\ K \in SUBSET Nat /\ IsFiniteSet(K) /\ Len(InTurn(K)) \in Nat /\ Sequence(InTurn(K))
    BY <1>0, <2>1, TurnsOf
  <2>6. IsPrefix(InTurn(J), InTurn(K))
    BY <2>4, <2>5, TurnsBegin
  <2>7. Len(InTurn(J)) <= Len(InTurn(K)) /\ \A k \in 1..Len(InTurn(J)) : InTurn(J)[k] = InTurn(K)[k]
    BY <2>5, <2>6, PrefixIs
  <2>8. /\ Sequence(u) /\ Len(u) = Len(InTurn(J)) /\ \A k \in 1..Len(InTurn(J)) : u[k] = a[InTurn(J)[k]]
        /\ Sequence(v) /\ Len(v) = Len(InTurn(K)) /\ \A k \in 1..Len(InTurn(K)) : v[k] = b[InTurn(K)[k]]
    BY <2>5, TakenIs
  <2> HIDE DEF u, v
  <2>9. \A k \in 1..Len(InTurn(J)) : InTurn(J)[k] \in 1..Len(a) /\ k \in 1..Len(InTurn(K))
    <3>1. \A k \in 1..Len(InTurn(J)) : InTurn(J)[k] \in J
      BY <2>5
    <3>2. \A k \in 1..Len(InTurn(J)) : InTurn(J)[k] \in 1..Len(a)
      BY <2>1, <3>1
    <3>3. \A k \in 1..Len(InTurn(J)) : k \in 1..Len(InTurn(K))
      BY <2>5, <2>7
    <3> QED
      BY <3>2, <3>3
  <2>10. Len(u) <= Len(v) /\ \A i \in 1..Len(u) : u[i] = v[i]
    BY <1>0, <2>7, <2>8, <2>9
  <2>11. IsPrefix(u, v)
    BY <2>8, <2>10, PrefixIs
  <2> QED
    BY <2>3, <2>5, <2>8, <2>11
<1> QED
  BY <1>1, <1>2, <1>3, <1>4

-------------------------------------------------------------------------------
(* Pipelines.                                                              *)

\* What a filter makes of lines: all it gives, or what it has given so far.
Given(when, f, lines) == IF when = "yet" THEN Streamed(f, lines) ELSE Filter(f, lines)

\* The stages of a pipeline: g[k] is what comes out of the first k filters.
Stages(g, when, filters, n, lines) ==
  g[0] = lines /\ \A k \in 1..n : g[k] = Given(when, filters[k], g[k - 1])

LEMMA StagesExist ==
  ASSUME NEW when, NEW filters, NEW n \in Nat, NEW lines
  PROVE  \E g : Stages(g, when, filters, n, lines)
<1> DEFINE Upto(m) == \E g : Stages(g, when, filters, m, lines)
           wrong == {m \in 0..n : ~Upto(m)}
<1>1. Upto(0)
  <2>1. Stages([k \in 0..0 |-> lines], when, filters, 0, lines)
    BY DEF Stages
  <2> QED
    BY <2>1
<1>2. ASSUME NEW m \in 1..n, Upto(m - 1)
      PROVE  Upto(m)
  <2>1. PICK f : Stages(f, when, filters, m - 1, lines)
    BY <1>2
  <2> DEFINE OneOn(k) == Given(when, filters[m], f[m - 1])
             g == [k \in 0..m |-> IF k = m THEN OneOn(k) ELSE f[k]]
  <2>2. m - 1 \in 0..m /\ m \in 0..m /\ 0 \in 0..m /\ m - 1 # m /\ m # 0
    OBVIOUS
  <2>3. g[m] = Given(when, filters[m], f[m - 1]) /\ g[0] = f[0] /\ \A k \in 0..m : k # m => g[k] = f[k]
    BY <2>2
  <2> HIDE DEF g
  <2>4. ASSUME NEW k \in 1..m
        PROVE  g[k] = Given(when, filters[k], g[k - 1])
    <3>1. CASE k = m
      BY <2>2, <2>3, <3>1
    <3>2. CASE k # m
      <4>1. k \in 1..m - 1 /\ k \in 0..m /\ k - 1 \in 0..m /\ k - 1 # m
        BY <3>2
      <4>2. f[k] = Given(when, filters[k], f[k - 1])
        BY <2>1, <4>1 DEF Stages
      <4> QED
        BY <2>3, <3>2, <4>1, <4>2
    <3> QED
      BY <3>1, <3>2
  <2>5. g[0] = lines
    BY <2>1, <2>3 DEF Stages
  <2> QED
    BY <2>4, <2>5 DEF Stages
<1> HIDE DEF Upto
<1>3. wrong \in SUBSET Nat /\ 0 \notin wrong
  BY <1>1
<1>4. ASSUME NEW m \in wrong
      PROVE  m - 1 \in wrong \/ m = 0
  BY <1>1, <1>2
<1>5. wrong = {}
  <2> HIDE DEF wrong
  <2> QED
    BY <1>3, <1>4, FirstWrong
<1>6. Upto(n)
  BY <1>5
<1> QED
  BY <1>6 DEF Upto

LEMMA StagesOnce ==
  ASSUME NEW when, NEW filters, NEW n \in Nat, NEW lines, NEW f, NEW g,
         Stages(f, when, filters, n, lines), Stages(g, when, filters, n, lines)
  PROVE  \A k \in 0..n : f[k] = g[k]
<1> DEFINE differ == {k \in 0..n : f[k] # g[k]}
<1>1. differ \in SUBSET Nat /\ 0 \notin differ
  BY DEF Stages
<1>2. ASSUME NEW k \in differ
      PROVE  k - 1 \in differ \/ k = 0
  <2>1. k # 0 => k \in 1..n /\ k - 1 \in 0..n
    OBVIOUS
  <2> QED
    BY <2>1 DEF Stages
<1>3. \A k \in 0..n : k \notin differ => f[k] = g[k]
  OBVIOUS
<1> HIDE DEF differ
<1>4. differ = {}
  BY <1>1, <1>2, FirstWrong
<1> QED
  BY <1>3, <1>4

LEMMA PipedIs ==
  ASSUME NEW filters, Len(filters) \in Nat, NEW lines, NEW g,
         Stages(g, "ever", filters, Len(filters), lines)
  PROVE  Piped(filters, lines) = g[Len(filters)]
<1> DEFINE n == Len(filters)
           F(e) == [i \in 0..n |-> IF i = 0 THEN lines ELSE Filter(filters[i], e[i - 1])]
           f == CHOOSE e : e = F(e)
           h == [i \in 0..n |-> g[i]]
<1>0. n \in 0..n /\ n \in Nat
  OBVIOUS
<1>1. Piped(filters, lines) = f[n]
  BY DEF Piped
<1>2. h = F(h)
  <2>1. \A i \in 0..n : g[i] = IF i = 0 THEN lines ELSE Filter(filters[i], h[i - 1])
    <3>1. \A i \in 1..n : i - 1 \in 0..n /\ h[i - 1] = g[i - 1]
      BY <1>0
    <3> HIDE DEF h
    <3> QED
      BY <1>0, <3>1 DEF Stages, Given
  <2> HIDE DEF n
  <2> QED
    BY <2>1
<1>3. f = F(f)
  <2> HIDE DEF F, h
  <2> QED
    BY <1>2
<1> HIDE DEF f
<1>4. f[0] = lines /\ \A i \in 1..n : f[i] = Filter(filters[i], f[i - 1])
  <2>1. \A i \in 0..n : f[i] = IF i = 0 THEN lines ELSE Filter(filters[i], f[i - 1])
    BY <1>3
  <2> QED
    BY <1>0, <2>1
<1>5. Stages(f, "ever", filters, n, lines)
  BY <1>4 DEF Stages, Given
<1>6. \A k \in 0..n : f[k] = g[k]
  <2>1. Stages(g, "ever", filters, n, lines)
    OBVIOUS
  <2> HIDE DEF n
  <2> QED
    BY <1>0, <1>5, <2>1, StagesOnce
<1> QED
  BY <1>0, <1>1, <1>6

LEMMA ReachingIs ==
  ASSUME NEW filters, NEW n \in Nat, NEW lines, NEW g, Stages(g, "yet", filters, n, lines)
  PROVE  Reaching(filters, n, lines) = g[n]
<1> DEFINE F(e) == [i \in 0..n |-> IF i = 0 THEN lines ELSE Streamed(filters[i], e[i - 1])]
           f == CHOOSE e : e = F(e)
           h == [i \in 0..n |-> g[i]]
<1>0. n \in 0..n
  OBVIOUS
<1>1. Reaching(filters, n, lines) = f[n]
  BY DEF Reaching
<1>2. h = F(h)
  <2>1. \A i \in 0..n : g[i] = IF i = 0 THEN lines ELSE Streamed(filters[i], h[i - 1])
    <3>1. \A i \in 1..n : i - 1 \in 0..n /\ h[i - 1] = g[i - 1]
      BY <1>0
    <3> HIDE DEF h
    <3> QED
      BY <1>0, <3>1 DEF Stages, Given
  <2> QED
    BY <2>1
<1>3. f = F(f)
  <2> HIDE DEF F, h
  <2> QED
    BY <1>2
<1> HIDE DEF f
<1>4. f[0] = lines /\ \A i \in 1..n : f[i] = Streamed(filters[i], f[i - 1])
  <2>1. \A i \in 0..n : f[i] = IF i = 0 THEN lines ELSE Streamed(filters[i], f[i - 1])
    BY <1>3
  <2> QED
    BY <1>0, <2>1
<1>5. Stages(f, "yet", filters, n, lines)
  BY <1>4 DEF Stages, Given
<1>6. \A k \in 0..n : f[k] = g[k]
  BY <1>5, StagesOnce
<1> QED
  BY <1>0, <1>1, <1>6

\* One filter more behind a pipeline.
LEMMA PipedOneMore ==
  ASSUME NEW filters \in Seq(Filters), NEW f \in Filters, NEW lines
  PROVE  Piped(Append(filters, f), lines) = Filter(f, Piped(filters, lines))
<1> DEFINE n == Len(filters)
           more == Append(filters, f)
<1>1. /\ n \in Nat /\ n + 1 \in Nat /\ Len(more) = n + 1 /\ Len(more) \in Nat
      /\ more[n + 1] = f /\ \A k \in 1..n : more[k] = filters[k]
  OBVIOUS
<1> HIDE DEF more, n
<1>2. PICK g : Stages(g, "ever", more, n + 1, lines)
  BY <1>1, StagesExist
<1>3. Stages(g, "ever", filters, n, lines) /\ g[n + 1] = Filter(f, g[n])
  <2>1. n + 1 \in 1..n + 1 /\ (n + 1) - 1 = n /\ \A k \in 1..n : k \in 1..n + 1
    BY <1>1
  <2>2. \A k \in 1..n : g[k] = Given("ever", filters[k], g[k - 1])
    BY <1>1, <1>2, <2>1 DEF Stages
  <2> QED
    BY <1>1, <1>2, <2>1, <2>2 DEF Stages, Given
<1>4. Piped(more, lines) = g[n + 1]
  <2>1. Stages(g, "ever", more, Len(more), lines)
    BY <1>1, <1>2
  <2>2. Piped(more, lines) = g[Len(more)]
    BY <1>1, <2>1, PipedIs
  <2> QED
    BY <1>1, <2>2
<1>5. Piped(filters, lines) = g[n]
  BY <1>1, <1>3, PipedIs DEF n
<1> QED
  BY <1>3, <1>4, <1>5 DEF more

\* A pipeline gives a sequence.
LEMMA PipedGives ==
  ASSUME NEW filters \in Seq(Filters), NEW lines, Sequence(lines)
  PROVE  Sequence(Piped(filters, lines)) /\ (Len(filters) = 0 => Piped(filters, lines) = lines)
<1> DEFINE n == Len(filters)
<1>1. n \in Nat /\ \A k \in 1..n : filters[k] \in Filters
  OBVIOUS
<1>2. PICK g : Stages(g, "ever", filters, n, lines)
  BY <1>1, StagesExist
<1> DEFINE wrong == {k \in 0..n : ~Sequence(g[k])}
<1>3. wrong \in SUBSET Nat /\ 0 \notin wrong
  BY <1>2 DEF Stages
<1>4. ASSUME NEW k \in wrong PROVE k - 1 \in wrong \/ k = 0
  <2> SUFFICES ASSUME k # 0, Sequence(g[k - 1]) PROVE FALSE
    OBVIOUS
  <2>1. k \in 1..n /\ g[k] = Filter(filters[k], g[k - 1])
    BY <1>2 DEF Stages, Given
  <2>2. Sequence(g[k])
    BY <1>1, <2>1, FilterGives
  <2> QED
    BY <2>2
<1>5. \A k \in 0..n : k \notin wrong => Sequence(g[k])
  OBVIOUS
<1> HIDE DEF wrong
<1>6. wrong = {}
  BY <1>3, <1>4, FirstWrong
<1>7. Piped(filters, lines) = g[n]
  BY <1>1, <1>2, PipedIs
<1>8. n \in 0..n
  BY <1>1
<1> QED
  BY <1>2, <1>5, <1>6, <1>7, <1>8 DEF Stages

\* What has come through some lazy filters is a part of what will come through them.
LEMMA LazyStages ==
  ASSUME NEW filters, NEW m \in Nat,
         \A k \in 1..m : filters[k] \in Filters /\ filters[k].op # "bad" /\ ~Drains(filters[k]),
         NEW a, NEW b, Sequence(a), Sequence(b), IsPrefix(a, b),
         NEW r, Stages(r, "yet", filters, m, a), NEW h, Stages(h, "ever", filters, m, b)
  PROVE  \A k \in 0..m : /\ Sequence(r[k]) /\ Sequence(h[k]) /\ IsPrefix(r[k], h[k])
                         /\ Len(r[k]) <= Len(a)
<1> DEFINE Fine(k) == /\ Sequence(r[k]) /\ Sequence(h[k]) /\ IsPrefix(r[k], h[k])
                      /\ Len(r[k]) <= Len(a)
           wrong == {k \in 0..m : ~Fine(k)}
<1>1. Fine(0)
  <2>1. r[0] = a /\ h[0] = b /\ Len(a) <= Len(a)
    BY DEF Stages, Sequence
  <2> QED
    BY <2>1
<1>2. ASSUME NEW k \in 1..m, Fine(k - 1) PROVE Fine(k)
  <2>1. r[k] = Streamed(filters[k], r[k - 1]) /\ h[k] = Filter(filters[k], h[k - 1])
    BY DEF Stages, Given
  <2> DEFINE s == r[k - 1]
             t == h[k - 1]
             f == filters[k]
  <2>2. Sequence(s) /\ Sequence(t) /\ IsPrefix(s, t) /\ Len(s) <= Len(a)
    BY <1>2
  <2>3. f \in Filters /\ f.op # "bad" /\ ~Drains(f)
    OBVIOUS
  <2>4. r[k] = Streamed(f, s) /\ h[k] = Filter(f, t)
    BY <2>1
  <2> HIDE DEF s, t, f
  <2>5. Sequence(Streamed(f, s)) /\ IsPrefix(Streamed(f, s), Filter(f, t)) /\
          Len(Streamed(f, s)) <= Len(s)
    BY <2>2, <2>3, Lazy
  <2>6. Sequence(Filter(f, t))
    BY <2>2, <2>3, FilterGives
  <2>7. Len(Streamed(f, s)) <= Len(a)
    BY <2>2, <2>5 DEF Sequence
  <2> QED
    BY <2>4, <2>5, <2>6, <2>7
<1> HIDE DEF Fine
<1>3. wrong \in SUBSET Nat /\ 0 \notin wrong
  BY <1>1
<1>4. ASSUME NEW k \in wrong PROVE k - 1 \in wrong \/ k = 0
  <2> SUFFICES ASSUME k # 0, k - 1 \notin wrong PROVE FALSE
    OBVIOUS
  <2>1. k \in 1..m /\ k - 1 \in 0..m
    OBVIOUS
  <2> QED
    BY <1>2, <2>1
<1>5. \A k \in 0..m : k \notin wrong => Fine(k)
  OBVIOUS
<1> HIDE DEF wrong
<1>6. wrong = {}
  BY <1>3, <1>4, FirstWrong
<1> QED
  BY <1>5, <1>6 DEF Fine

LEMMA OwnPrefix ==
  ASSUME NEW s, Sequence(s)
  PROVE  IsPrefix(s, s)
<1>1. Len(s) <= Len(s) /\ \A i \in 1..Len(s) : s[i] = s[i]
  BY DEF Sequence
<1> QED
  BY <1>1, PrefixIs

\* A head takes the same from two sequences that begin alike as far as it reads.
LEMMA HeadTakes ==
  ASSUME NEW f \in Filters, f.op = "head", NEW r, NEW s, Sequence(r), Sequence(s), IsPrefix(r, s),
         Len(r) >= f.n
  PROVE  Filter(f, s) = SubSeq(r, 1, f.n)
<1>1. f.n \in Nat \ {0}
  BY DEF Filters
<1>2. Len(r) \in Nat /\ Len(s) \in Nat /\ Len(r) <= Len(s) /\ \A i \in 1..Len(r) : r[i] = s[i]
  BY PrefixIs DEF Sequence
<1> DEFINE n == f.n
           m == IF n < Len(s) THEN n ELSE Len(s)
           u == SubSeq(s, 1, n)
           v == SubSeq(r, 1, n)
<1>3. m = n /\ n \in 0..Len(s) /\ n \in 0..Len(r)
  BY <1>1, <1>2
<1>4. Filter(f, s) = SubSeq(s, 1, m)
  BY DEF Filter
<1>5. Filter(f, s) = u
  <2> HIDE DEF m
  <2> QED
    BY <1>3, <1>4
<1> HIDE DEF n, m
<1>6. /\ Sequence(u) /\ Len(u) = n /\ \A i \in 1..n : u[i] = s[i]
      /\ Sequence(v) /\ Len(v) = n /\ \A i \in 1..n : v[i] = r[i]
  BY <1>3, Firsts
<1> HIDE DEF u, v
<1>7. \A i \in 1..n : u[i] = v[i]
  BY <1>2, <1>3, <1>6
<1>8. u = v
  BY <1>6, <1>7, PrefixIs
<1> QED
  BY <1>5, <1>8 DEF v, n

\* Once a head has all it wants, what its source would still give changes nothing.
LEMMA HeadOnce ==
  ASSUME NEW filters \in Seq(Filters), \A k \in 1..Len(filters) : filters[k].op # "bad",
         NEW a, NEW b, Sequence(a), Sequence(b), IsPrefix(a, b), Satisfied(filters, a)
  PROVE  Piped(filters, a) = Piped(filters, b) /\ Len(a) > 0
<1> DEFINE n == Len(filters)
<1>0. n \in Nat /\ \A k \in 1..n : filters[k] \in Filters
  OBVIOUS
<1>1. PICK i \in 1..n : /\ filters[i].op = "head" /\ \A k \in 1..i - 1 : ~Drains(filters[k])
                        /\ Len(Reaching(filters, i - 1, a)) >= filters[i].n
  BY DEF Satisfied
<1> DEFINE m == i - 1
<1>2. m \in Nat /\ \A k \in 1..m : k \in 1..n /\ filters[k] \in Filters /\
        filters[k].op # "bad" /\ ~Drains(filters[k])
  <2>1. m \in Nat /\ \A k \in 1..m : k \in 1..n
    BY <1>0
  <2> QED
    BY <1>0, <1>1, <2>1
<1>3. m \in 0..m /\ m + 1 = i /\ \A k \in 1..m : k \in 1..n
  BY <1>0, <1>2
<1>4. Len(Reaching(filters, m, a)) >= filters[i].n
  BY <1>1
<1>5. \A k \in 1..n : filters[k].op # "bad"
  OBVIOUS
<1> HIDE DEF m, n
<1>6. PICK r : Stages(r, "yet", filters, m, a)
  BY <1>2, StagesExist
<1>7. PICK g : Stages(g, "ever", filters, n, a)
  BY <1>0, StagesExist
<1>8. PICK h : Stages(h, "ever", filters, n, b)
  BY <1>0, StagesExist
<1>9. Stages(g, "ever", filters, m, a) /\ Stages(h, "ever", filters, m, b)
  BY <1>3, <1>7, <1>8 DEF Stages
<1>10. Reaching(filters, m, a) = r[m]
  BY <1>2, <1>6, ReachingIs
<1>11. Sequence(r[m]) /\ Sequence(g[m]) /\ IsPrefix(r[m], g[m]) /\ Len(r[m]) <= Len(a)
  <2>1. IsPrefix(a, a)
    BY OwnPrefix
  <2> QED
    BY <1>2, <1>3, <1>6, <1>9, <2>1, LazyStages
<1>12. Sequence(h[m]) /\ IsPrefix(r[m], h[m])
  BY <1>2, <1>3, <1>6, <1>9, LazyStages
<1>13. filters[i] \in Filters /\ filters[i].n \in Nat \ {0}
  <2>1. filters[i] \in Filters
    BY <1>0
  <2> QED
    BY <1>1, <2>1 DEF Filters
<1>14. Len(r[m]) >= filters[i].n
  BY <1>4, <1>10
<1>15. g[i] = h[i]
  <2>1. i - 1 = m
    BY DEF m
  <2>2. g[i] = Filter(filters[i], g[m]) /\ h[i] = Filter(filters[i], h[m])
    BY <1>7, <1>8, <2>1 DEF Stages, Given
  <2>3. Filter(filters[i], g[m]) = SubSeq(r[m], 1, filters[i].n)
    BY <1>1, <1>11, <1>13, <1>14, HeadTakes
  <2>4. Filter(filters[i], h[m]) = SubSeq(r[m], 1, filters[i].n)
    BY <1>1, <1>11, <1>12, <1>13, <1>14, HeadTakes
  <2> QED
    BY <2>2, <2>3, <2>4
<1>16. \A k \in i..n : g[k] = h[k]
  <2> DEFINE wrong == {k \in i..n : g[k] # h[k]}
  <2>1. wrong \in SUBSET Nat /\ 0 \notin wrong /\ \A k \in wrong : k \in i..n /\ g[k] # h[k]
    BY <1>0
  <2>2. \A k \in i..n : k \notin wrong => g[k] = h[k]
    OBVIOUS
  <2> HIDE DEF wrong
  <2>3. ASSUME NEW k \in wrong PROVE k - 1 \in wrong \/ k = 0
    <3>1. k \in i..n /\ k # i /\ g[k] # h[k]
      BY <1>15, <2>1
    <3>2. k \in 1..n /\ k - 1 \in i..n
      BY <1>0, <3>1
    <3>3. g[k] = Filter(filters[k], g[k - 1]) /\ h[k] = Filter(filters[k], h[k - 1])
      BY <1>7, <1>8, <3>2 DEF Stages, Given
    <3>4. g[k - 1] # h[k - 1]
      BY <3>1, <3>3
    <3> QED
      BY <2>2, <3>2, <3>4
  <2>4. wrong = {}
    BY <2>1, <2>3, FirstWrong
  <2> QED
    BY <2>2, <2>4
<1>17. n \in i..n
  BY <1>0
<1>18. Piped(filters, a) = g[n]
  BY <1>0, <1>7, PipedIs DEF n
<1>19. Piped(filters, b) = h[n]
  BY <1>0, <1>8, PipedIs DEF n
<1>20. Len(a) > 0
  BY <1>11, <1>13, <1>14 DEF Sequence
<1> QED
  BY <1>16, <1>17, <1>18, <1>19, <1>20

-------------------------------------------------------------------------------
(* Answers.                                                                *)

LEMMA SourceTyped ==
  ASSUME NEW c \in Commands
  PROVE  SourceVisits(c) \in Seq(Visited)
<1>1. c.argv \in Seq(Tokens)
  BY FileSearchAssumption
<1>2. Parse(c.source, c.argv) \in Options
  BY <1>1, ParseTyped DEF Understood
<1> QED
  BY <1>2, VisitsOfAre DEF SourceVisits

\* A visit is cut off only when it counts, and only beyond the ceiling.
LEMMA SeenIs ==
  ASSUME NEW visits \in Seq(Visited), NEW ceiling \in Nat
  PROVE  /\ Seen(visits, ceiling) \in Seq(Visited) /\ Len(Seen(visits, ceiling)) = Len(visits)
         /\ \A i \in 1..Len(visits) :
              \/ Seen(visits, ceiling)[i] = visits[i]
              \/ visits[i].counted /\ Seen(visits, ceiling)[i] = Visit(FALSE, <<>>)
         /\ \A n \in 0..Len(visits) :
              Counted(visits, n) <= ceiling =>
                SubSeq(Seen(visits, ceiling), 1, n) = SubSeq(visits, 1, n)
<1> DEFINE over(i) == visits[i].counted /\ Counted(visits, i) > ceiling
           v(i) == IF over(i) THEN Visit(FALSE, <<>>) ELSE visits[i]
           q == [i \in 1..Len(visits) |-> v(i)]
<1>0. Len(visits) \in Nat /\ \A i \in 1..Len(visits) : visits[i] \in Visited
  OBVIOUS
<1>1. Seen(visits, ceiling) = q
  BY DEF Seen
<1>2. Visit(FALSE, <<>>) \in Visited
  <2>1. <<>> \in Seq(Line)
    OBVIOUS
  <2> QED
    BY <2>1 DEF Visit, Visited
<1>3. \A i \in 1..Len(visits) : v(i) \in Visited
  BY <1>0, <1>2
<1>4. ASSUME NEW i \in 1..Len(visits)
      PROVE  v(i) = visits[i] \/ (visits[i].counted /\ v(i) = Visit(FALSE, <<>>))
  <2>1. CASE over(i)
    <3>1. v(i) = Visit(FALSE, <<>>) /\ visits[i].counted
      BY <2>1
    <3> HIDE DEF v
    <3> QED
      BY <3>1
  <2>2. CASE ~over(i)
    <3>1. v(i) = visits[i]
      BY <2>2
    <3> HIDE DEF v
    <3> QED
      BY <3>1
  <2> QED
    BY <2>1, <2>2
<1>5. \A i \in 1..Len(visits) : ~(Counted(visits, i) > ceiling) => v(i) = visits[i]
  OBVIOUS
<1> HIDE DEF v
<1>6. q \in Seq(Visited) /\ Len(q) = Len(visits) /\ \A i \in 1..Len(visits) : q[i] = v(i)
  BY <1>0, <1>3
<1> HIDE DEF q
<1>7. ASSUME NEW n \in 0..Len(visits), Counted(visits, n) <= ceiling
      PROVE  SubSeq(q, 1, n) = SubSeq(visits, 1, n)
  <2>1. ASSUME NEW i \in 1..n PROVE q[i] = visits[i]
    <3> DEFINE K(m) == {k \in 1..m : visits[k].counted}
    <3>1. K(i) \in SUBSET K(n) /\ K(n) \in SUBSET (1..n) /\ n \in Nat /\ i \in 1..Len(visits)
      <4>1. i \in Nat /\ i <= n /\ n \in Nat /\ n <= Len(visits)
        BY <1>0
      <4>2. \A k \in 1..i : k \in 1..n
        BY <4>1
      <4> QED
        BY <1>0, <4>1, <4>2
    <3>2. Counted(visits, i) = Cardinality(K(i)) /\ Counted(visits, n) = Cardinality(K(n))
      BY DEF Counted
    <3> HIDE DEF K
    <3>3. IsFiniteSet(1..n)
      BY <3>1, FS_Interval
    <3>4. IsFiniteSet(K(n))
      BY <3>1, <3>3, FS_Subset
    <3>5. IsFiniteSet(K(i)) /\ Cardinality(K(i)) <= Cardinality(K(n))
      BY <3>1, <3>4, FS_Subset
    <3>6. Cardinality(K(i)) \in Nat /\ Cardinality(K(n)) \in Nat
      BY <3>4, <3>5, FS_CardinalityType
    <3>7. ~(Counted(visits, i) > ceiling)
      BY <1>7, <3>2, <3>5, <3>6
    <3> QED
      BY <1>5, <1>6, <3>1, <3>7
  <2>2. Sequence(q) /\ Sequence(visits) /\ n \in 0..Len(q)
    BY <1>6, SeqIsSequence
  <2> DEFINE s == SubSeq(q, 1, n)
             t == SubSeq(visits, 1, n)
  <2>3. /\ Sequence(s) /\ Len(s) = n /\ \A i \in 1..n : s[i] = q[i]
        /\ Sequence(t) /\ Len(t) = n /\ \A i \in 1..n : t[i] = visits[i]
    BY <2>2, Firsts
  <2> HIDE DEF s, t
  <2>4. s = t
    BY <2>1, <2>3, PrefixIs
  <2> QED
    BY <2>4 DEF s, t
<1> QED
  BY <1>1, <1>4, <1>6, <1>7

\* The pipeline asks for every visit, or for as many as satisfy it.
LEMMA PulledIs ==
  ASSUME NEW filters, NEW visits, Len(visits) \in Nat
  PROVE  /\ Pulled(filters, visits) \in 0..Len(visits)
         /\ \/ Pulled(filters, visits) = Len(visits)
            \/ Satisfied(filters, LinesOf(SubSeq(visits, 1, Pulled(filters, visits))))
<1> DEFINE Enough(n) == Satisfied(filters, LinesOf(SubSeq(visits, 1, n)))
           enough == {n \in 0..Len(visits) : Enough(n)}
<1>1. Pulled(filters, visits) = IF enough = {} THEN Len(visits) ELSE Min(enough)
  BY DEF Pulled, Least
<1>2. \A n \in enough : n \in 0..Len(visits) /\ Enough(n)
  OBVIOUS
<1>3. enough \in SUBSET Nat
  OBVIOUS
<1> HIDE DEF enough, Enough
<1>4. CASE enough = {}
  BY <1>1, <1>4
<1>5. CASE enough # {}
  <2>1. \E x \in enough : \A y \in enough : x <= y
    BY <1>3, <1>5, LeastElement
  <2>2. Min(enough) = CHOOSE x \in enough : \A y \in enough : x <= y
    BY DEF Min
  <2>3. Min(enough) \in enough
    BY <2>1, <2>2
  <2>4. Pulled(filters, visits) = Min(enough)
    BY <1>1, <1>5
  <2> QED
    BY <1>2, <2>3, <2>4 DEF Enough
<1> QED
  BY <1>4, <1>5

\* The pipeline fs() runs: the filters, and a head for the ceiling behind them.
Pipeline(c) == Append(c.filters, [op |-> "head", n |-> Ceiling])
Seens(c)    == Seen(SourceVisits(c), Ceiling)
Reach(c)    == Pulled(Pipeline(c), Seens(c))
Answered(c) == Piped(Pipeline(c), LinesOf(SubSeq(Seens(c), 1, Reach(c))))
Fits(c)     == Counted(SourceVisits(c), Reach(c)) <= Ceiling /\ Len(Answered(c)) < Ceiling

LEMMA PipelineIs ==
  ASSUME NEW c \in Commands
  PROVE  /\ c.filters \in Seq(Filters) /\ Pipeline(c) \in Seq(Filters) /\ Ceiling \in Nat \ {0}
         /\ Len(Pipeline(c)) = Len(c.filters) + 1 /\
              Pipeline(c)[Len(c.filters) + 1] = [op |-> "head", n |-> Ceiling]
         /\ (\A k \in 1..Len(c.filters) : c.filters[k].op # "bad") =>
              \A k \in 1..Len(Pipeline(c)) : Pipeline(c)[k].op # "bad"
         /\ \A lines : Piped(Pipeline(c), lines) = Filter([op |-> "head", n |-> Ceiling], Piped(c.filters, lines))
<1> DEFINE f == [op |-> "head", n |-> Ceiling]
           fs == c.filters
           p == Append(fs, f)
<1>1. fs \in Seq(Filters) /\ Ceiling \in Nat \ {0}
  BY FileSearchAssumption
<1>2. f \in Filters /\ f.op # "bad"
  BY <1>1 DEF Filters
<1>3. Pipeline(c) = p
  BY DEF Pipeline
<1> HIDE DEF f, fs
<1>4. /\ p \in Seq(Filters) /\ Len(p) = Len(fs) + 1 /\ p[Len(fs) + 1] = f /\ Len(fs) \in Nat
      /\ \A k \in 1..Len(fs) : p[k] = fs[k]
  BY <1>1, <1>2
<1>5. \A lines : Piped(p, lines) = Filter(f, Piped(fs, lines))
  BY <1>1, <1>2, PipedOneMore
<1> HIDE DEF p
<1>6. (\A k \in 1..Len(fs) : fs[k].op # "bad") => \A k \in 1..Len(p) : p[k].op # "bad"
  <2> SUFFICES ASSUME \A k \in 1..Len(fs) : fs[k].op # "bad", NEW k \in 1..Len(p) PROVE p[k].op # "bad"
    OBVIOUS
  <2>1. k = Len(fs) + 1 \/ k \in 1..Len(fs)
    BY <1>4
  <2> QED
    BY <1>2, <1>4, <2>1
<1> QED
  BY <1>1, <1>3, <1>4, <1>5, <1>6 DEF f, fs

LEMMA AnswerIs ==
  ASSUME NEW c \in Commands, NEW maxLines
  PROVE  AnswerTo(c, Ceiling, maxLines) =
           IF \E i \in 1..Reach(c) : Seens(c)[i].bad THEN Error
           ELSE Reply(Answered(c), Counted(SourceVisits(c), Reach(c)) > Ceiling \/
             Len(Answered(c)) >= Ceiling,
                      maxLines)
BY DEF AnswerTo, RunVisits, RunSeen, Run, Reported, Stopped, Pipeline, Seens, Reach, Answered

\* What a record of an answer says of the whole one.
AnswerBegins(r, all) ==
  /\ IsPrefix(r.lines, all) /\ r.total = Len(all)
  /\ r.hint = "none" => r.lines = all

LEMMA ReplyIs ==
  ASSUME NEW lines, Sequence(lines), NEW stopped \in BOOLEAN, NEW maxLines \in Nat,
         NEW r, r = Reply(lines, stopped, maxLines), r.lines # <<>>
  PROVE  /\ ~r.error /\ lines # <<>> /\ AnswerBegins(r, lines)
         /\ r.hint # "sample" => ~stopped /\ r.hint \in {"more", "none"}
         /\ \A k \in 1..Len(r.lines) : k \in 1..Len(lines) /\ r.lines[k] = lines[k]
         /\ Sequence(r.lines)
<1> DEFINE n == IF maxLines < Len(lines) THEN maxLines ELSE Len(lines)
           u == SubSeq(lines, 1, n)
           hint == IF lines = <<>> THEN "empty" ELSE IF stopped THEN "sample"
                   ELSE IF Len(lines) > maxLines THEN "more" ELSE "none"
<1>1. r.error = FALSE /\ r.lines = u /\ r.total = Len(lines) /\ r.hint = hint
  BY DEF Reply
<1>2. n \in 0..Len(lines) /\ Len(lines) \in Nat /\ (~(Len(lines) > maxLines) => n = Len(lines))
  BY DEF Sequence
<1> HIDE DEF u
<1>3. hint # "sample" => lines = <<>> \/ (~stopped /\ hint \in {"more", "none"})
  OBVIOUS
<1>4. hint = "none" => ~(Len(lines) > maxLines)
  OBVIOUS
<1> HIDE DEF n, hint
<1>5. /\ Sequence(u) /\ Len(u) = n /\ \A i \in 1..n : u[i] = lines[i]
      /\ n = Len(lines) => u = lines
  BY <1>2, Firsts DEF u
<1>6. IsPrefix(u, lines)
  <2>1. Len(u) <= Len(lines) /\ \A i \in 1..Len(u) : u[i] = lines[i]
    BY <1>2, <1>5
  <2> QED
    BY <1>5, <2>1, PrefixIs
<1>7. lines # <<>>
  <2> SUFFICES ASSUME lines = <<>> PROVE FALSE
    OBVIOUS
  <2>1. Len(lines) = 0
    OBVIOUS
  <2>2. n = Len(lines)
    BY <1>2, <2>1
  <2>3. u = <<>>
    BY <1>5, <2>2
  <2> QED
    BY <1>1, <2>3
<1>8. AnswerBegins(r, lines)
  BY <1>1, <1>2, <1>4, <1>5, <1>6 DEF AnswerBegins
<1>9. \A k \in 1..Len(u) : k \in 1..Len(lines) /\ u[k] = lines[k]
  BY <1>2, <1>5
<1> QED
  BY <1>1, <1>2, <1>3, <1>5, <1>7, <1>8, <1>9

\* An answer with lines that is not said to be a sample was not cut by the ceiling.
LEMMA AnswerFits ==
  ASSUME NEW c \in Commands, NEW maxLines \in MaxLines,
         \A k \in 1..Len(c.filters) : c.filters[k].op # "bad",
         NEW r, r = AnswerTo(c, Ceiling, maxLines), r.lines # <<>>
  PROVE  /\ Sequence(Answered(c)) /\ AnswerBegins(r, Answered(c))
         /\ \A i \in 1..Reach(c) : ~Seens(c)[i].bad
         /\ \A k \in 1..Len(r.lines) : k \in 1..Len(Answered(c)) /\ r.lines[k] = Answered(c)[k]
         /\ Sequence(r.lines)
         /\ r.hint # "sample" => Fits(c) /\ r.hint \in {"more", "none"}
<1> DEFINE lines == Answered(c)
           stopped == Counted(SourceVisits(c), Reach(c)) > Ceiling \/ Len(lines) >= Ceiling
<1>1. SourceVisits(c) \in Seq(Visited) /\ Ceiling \in Nat \ {0}
  BY SourceTyped, PipelineIs
<1>2. Seens(c) \in Seq(Visited) /\ Len(Seens(c)) \in Nat /\ Len(Seens(c)) = Len(SourceVisits(c))
  <2>1. Seens(c) \in Seq(Visited) /\ Len(Seens(c)) = Len(SourceVisits(c))
    BY <1>1, SeenIs DEF Seens
  <2> QED
    BY <2>1
<1>3. Reach(c) \in 0..Len(Seens(c))
  BY <1>2, PulledIs DEF Reach
<1>4. Sequence(lines)
  <2> DEFINE s == SubSeq(Seens(c), 1, Reach(c))
  <2>1. s \in Seq(Visited)
    <3>1. \A i \in 1..Reach(c) : Seens(c)[i] \in Visited
      BY <1>2, <1>3
    <3> QED
      BY <1>2, <1>3, <3>1, SubSeqProperties
  <2> HIDE DEF s
  <2>2. Sequence(LinesOf(s))
    BY <2>1, LinesAre, SeqIsSequence
  <2> QED
    BY <2>2, PipelineIs, PipedGives DEF Answered, s
<1>5. \A i \in 1..Reach(c) : ~Seens(c)[i].bad
  <2> SUFFICES ASSUME NEW i \in 1..Reach(c), Seens(c)[i].bad PROVE FALSE
    OBVIOUS
  <2>1. r = Error
    BY AnswerIs
  <2> QED
    BY <2>1 DEF Error
<1>6. r = Reply(lines, stopped, maxLines)
  BY <1>5, AnswerIs
<1>7. maxLines \in Nat
  BY FileSearchAssumption
<1>8. stopped \in BOOLEAN
  OBVIOUS
<1>9. ~stopped => Fits(c)
  <2>1. Counted(SourceVisits(c), Reach(c)) \in Nat
    <3>1. Reach(c) \in Nat
      BY <1>2, <1>3
    <3> DEFINE K == {k \in 1..Reach(c) : SourceVisits(c)[k].counted}
    <3>2. K \in SUBSET (1..Reach(c)) /\ IsFiniteSet(1..Reach(c))
      BY <3>1, FS_Interval
    <3>3. Counted(SourceVisits(c), Reach(c)) = Cardinality(K)
      BY DEF Counted
    <3> HIDE DEF K
    <3> QED
      BY <3>2, <3>3, FS_Subset, FS_CardinalityType
  <2>2. Len(lines) \in Nat
    BY <1>4 DEF Sequence
  <2> HIDE DEF lines
  <2> QED
    BY <1>1, <2>1, <2>2 DEF Fits, lines
<1> HIDE DEF stopped, lines
<1>10. /\ AnswerBegins(r, lines) /\ Sequence(r.lines)
       /\ r.hint # "sample" => ~stopped /\ r.hint \in {"more", "none"}
       /\ \A k \in 1..Len(r.lines) : k \in 1..Len(lines) /\ r.lines[k] = lines[k]
  BY <1>4, <1>6, <1>7, <1>8, ReplyIs
<1> QED
  BY <1>4, <1>5, <1>9, <1>10 DEF lines

\* When the ceiling was not met the pipeline gave what it gives of every line of the source.
LEMMA FittingIsWhole ==
  ASSUME NEW c \in Commands, \A k \in 1..Len(c.filters) : c.filters[k].op # "bad", Fits(c)
  PROVE  /\ Answered(c) = Piped(c.filters, LinesOf(SourceVisits(c)))
         /\ Reach(c) \in 0..Len(SourceVisits(c))
         /\ Reach(c) = Len(SourceVisits(c)) \/
              Satisfied(Pipeline(c), LinesOf(SubSeq(SourceVisits(c), 1, Reach(c))))
         /\ SubSeq(Seens(c), 1, Reach(c)) = SubSeq(SourceVisits(c), 1, Reach(c))
<1> DEFINE visits == SourceVisits(c)
           seen == Seens(c)
           n == Reach(c)
           s == SubSeq(visits, 1, n)
           a == LinesOf(s)
           b == LinesOf(visits)
           p == Pipeline(c)
           f == [op |-> "head", n |-> Ceiling]
<1>1. visits \in Seq(Visited) /\ Ceiling \in Nat \ {0} /\ Len(visits) \in Nat
  BY SourceTyped, PipelineIs
<1>2. seen \in Seq(Visited) /\ Len(seen) = Len(visits)
  BY <1>1, SeenIs DEF Seens
<1>3. n \in 0..Len(visits) /\ (n = Len(visits) \/ Satisfied(p, LinesOf(SubSeq(seen, 1, n))))
  BY <1>1, <1>2, PulledIs DEF Reach
<1>4. SubSeq(seen, 1, n) = s
  BY <1>1, <1>3, SeenIs DEF Fits, Seens
<1>5. Answered(c) = Piped(p, a) /\ (n = Len(visits) \/ Satisfied(p, a))
  BY <1>3, <1>4 DEF Answered
<1>6. /\ p \in Seq(Filters) /\ c.filters \in Seq(Filters)
      /\ \A k \in 1..Len(p) : p[k].op # "bad"
      /\ \A lines : Piped(p, lines) = Filter(f, Piped(c.filters, lines))
  BY PipelineIs
<1>7. s \in Seq(Visited)
  <2>1. \A i \in 1..n : visits[i] \in Visited
    BY <1>1, <1>3
  <2> QED
    BY <1>1, <1>3, <2>1, SubSeqProperties
<1>8. Sequence(a) /\ Sequence(b) /\ IsPrefix(a, b)
  <2> HIDE DEF visits, n
  <2>1. a \in Seq(Line) /\ b \in Seq(Line) /\ IsPrefix(a, b)
    <3>1. LinesOf(s) \in Seq(Line)
      <4> HIDE DEF s
      <4> QED
        BY <1>7, LinesAre
    <3> QED
      BY <1>1, <1>3, <3>1, LinesAre
  <2> QED
    BY <2>1, SeqIsSequence
<1>9. n = Len(visits) => a = b
  <2>1. n = Len(visits) => s = visits
    <3> HIDE DEF visits, n
    <3> QED
      BY <1>1, <1>3, Firsts, SeqIsSequence
  <2> QED
    BY <2>1
<1>10. Len(Answered(c)) < Ceiling
  BY DEF Fits
<1> HIDE DEF p, a, b, s, n, visits, seen
<1>11. Piped(p, a) = Piped(p, b)
  BY <1>5, <1>6, <1>8, <1>9, HeadOnce
<1> DEFINE u == Piped(c.filters, b)
<1>12. Answered(c) = Filter(f, u)
  BY <1>5, <1>6, <1>11
<1>13. Sequence(u)
  BY <1>6, <1>8, PipedGives
<1> HIDE DEF u
<1>14. Filter(f, u) = u
  <2> DEFINE m == IF Ceiling < Len(u) THEN Ceiling ELSE Len(u)
  <2>1. Filter(f, u) = SubSeq(u, 1, m)
    BY DEF Filter
  <2>2. m \in 0..Len(u) /\ (m = Ceiling \/ m = Len(u))
    BY <1>1, <1>13 DEF Sequence
  <2> HIDE DEF m
  <2>3. Len(SubSeq(u, 1, m)) = m /\ (m = Len(u) => SubSeq(u, 1, m) = u)
    BY <1>13, <2>2, Firsts
  <2>4. m # Ceiling
    BY <1>1, <1>10, <1>12, <2>1, <2>3
  <2> QED
    BY <2>1, <2>2, <2>3, <2>4
<1> QED
  BY <1>3, <1>4, <1>5, <1>12, <1>14 DEF u, b, visits, seen, n, s, a, p

-------------------------------------------------------------------------------
(* The tool.                                                               *)

\* What was returned is the answer to the command line under way.
SearchInv ==
  /\ command \in Commands /\ limit \in MaxLines
  /\ \/ result = Unanswered
     \/ result = Error
     \/ /\ command.source \in Sources
        /\ \A k \in 1..Len(command.filters) : command.filters[k].op # "bad"
        /\ result = AnswerTo(command, Ceiling, limit)

LEMMA SearchIsInductive == SearchSpec => []SearchInv
<1>1. SearchInit => SearchInv
  BY DEF SearchInit, SearchInv
<1>2. SearchInv /\ [Fs]_searchVars => SearchInv'
  <2> SUFFICES ASSUME SearchInv, [Fs]_searchVars PROVE SearchInv'
    OBVIOUS
  <2>1. CASE Fs
    BY <2>1 DEF SearchInv, Fs
  <2>2. CASE UNCHANGED searchVars
    BY <2>2 DEF SearchInv, searchVars
  <2> QED
    BY <2>1, <2>2
<1> QED
  BY <1>1, <1>2, PTL DEF SearchSpec

\* Whatever fs() answers with lines is said to be a sample, or begins the whole
\* answer: what the pipeline gives of every line of the source.
THEOREM AnswersWhole == SearchSpec => []WholeOrSaid
<1>1. SearchInv => WholeOrSaid
  <2> SUFFICES ASSUME SearchInv, result.lines # <<>>, result.hint # "sample"
               PROVE  BeginsWhole(Whole(command))
    BY DEF WholeOrSaid
  <2>1. result # Unanswered /\ result # Error
    BY DEF Unanswered, Error
  <2>2. /\ command \in Commands /\ limit \in MaxLines
        /\ \A k \in 1..Len(command.filters) : command.filters[k].op # "bad"
        /\ result = AnswerTo(command, Ceiling, limit)
    BY <2>1 DEF SearchInv
  <2>3. AnswerBegins(result, Answered(command)) /\ Fits(command)
    BY <2>2, AnswerFits
  <2>4. Answered(command) = Whole(command)
    BY <2>2, <2>3, FittingIsWhole DEF Whole
  <2> QED
    BY <2>3, <2>4 DEF AnswerBegins, BeginsWhole
<1> QED
  BY <1>1, SearchIsInductive, PTL

\* Lines that no filter has touched come from a visit.
LEMMA AnswerLines ==
  ASSUME NEW c \in Commands, NEW maxLines \in MaxLines, c.filters = <<>>,
         NEW r, r = AnswerTo(c, Ceiling, maxLines), NEW l \in ToSet(r.lines)
  PROVE  \E i \in 1..Len(SourceVisits(c)) : l \in ToSet(SourceVisits(c)[i].lines)
<1> DEFINE visits == SourceVisits(c)
           seen == Seens(c)
           n == Reach(c)
           s == SubSeq(seen, 1, n)
           x == LinesOf(s)
           f == [op |-> "head", n |-> Ceiling]
<1>1. visits \in Seq(Visited) /\ Ceiling \in Nat \ {0} /\ Len(visits) \in Nat
  BY SourceTyped, PipelineIs
<1>2. /\ seen \in Seq(Visited) /\ Len(seen) = Len(visits)
      /\ \A i \in 1..Len(visits) : seen[i] = visits[i] \/ seen[i] = Visit(FALSE, <<>>)
  BY <1>1, SeenIs DEF Seens
<1>3. n \in 0..Len(visits)
  BY <1>1, <1>2, PulledIs DEF Reach
<1> HIDE DEF visits, seen, n
<1>4. s \in Seq(Visited) /\ Len(s) = n /\ \A i \in 1..n : s[i] = seen[i]
  <2>1. \A i \in 1..n : seen[i] \in Visited
    BY <1>1, <1>2, <1>3
  <2> QED
    BY <1>1, <1>2, <1>3, <2>1, SubSeqProperties
<1> HIDE DEF s
<1>5. x \in Seq(Line) /\ ToSet(x) = UNION {ToSet(s[i].lines) : i \in 1..Len(s)}
  BY <1>4, LinesAre
<1>6. Sequence(x)
  BY <1>5, SeqIsSequence
<1> HIDE DEF x
<1>7. Answered(c) = Filter(f, x)
  <2>1. Piped(c.filters, x) = x /\ c.filters \in Seq(Filters)
    <3>1. Len(c.filters) = 0 /\ c.filters \in Seq(Filters)
      BY PipelineIs
    <3> QED
      BY <1>6, <3>1, PipedGives
  <2>2. Answered(c) = Piped(Pipeline(c), x)
    BY DEF Answered, x, s, seen, n
  <2> QED
    BY <2>1, <2>2, PipelineIs
<1>8. r.lines # <<>>
  BY DEF ToSet
<1>9. \A k \in 1..Len(c.filters) : c.filters[k].op # "bad"
  OBVIOUS
<1>10. /\ Sequence(Answered(c)) /\ Sequence(r.lines)
       /\ \A k \in 1..Len(r.lines) : k \in 1..Len(Answered(c)) /\ r.lines[k] = Answered(c)[k]
  BY <1>8, <1>9, AnswerFits
<1>11. PICK k \in 1..Len(r.lines) : l = r.lines[k]
  <2>1. PICK S : r.lines \in Seq(S)
    BY <1>10, SequencesAre
  <2> QED
    BY <2>1 DEF ToSet
<1>12. k \in 1..Len(x) /\ l = x[k]
  <2> DEFINE m == IF Ceiling < Len(x) THEN Ceiling ELSE Len(x)
  <2>1. Filter(f, x) = SubSeq(x, 1, m)
    BY DEF Filter
  <2>2. m \in 0..Len(x)
    BY <1>1, <1>6 DEF Sequence
  <2> HIDE DEF m
  <2>3. Len(SubSeq(x, 1, m)) = m /\ \A i \in 1..m : SubSeq(x, 1, m)[i] = x[i]
    BY <1>6, <2>2, Firsts
  <2>4. k \in 1..m /\ l = SubSeq(x, 1, m)[k]
    BY <1>7, <1>10, <1>11, <2>1, <2>3
  <2>5. k \in 1..Len(x)
    BY <1>6, <2>2, <2>4 DEF Sequence
  <2> QED
    BY <2>3, <2>4, <2>5
<1>13. l \in ToSet(x)
  BY <1>5, <1>12 DEF ToSet
<1>14. PICK i \in 1..n : l \in ToSet(s[i].lines)
  BY <1>4, <1>5, <1>13
<1>15. i \in 1..Len(visits) /\ s[i] = seen[i]
  BY <1>1, <1>3, <1>4
<1>16. ToSet(Visit(FALSE, <<>>).lines) = {}
  BY DEF Visit, ToSet
<1>17. l \in ToSet(visits[i].lines)
  BY <1>2, <1>14, <1>15, <1>16
<1> QED
  BY <1>15, <1>17 DEF visits

\* What the gate could not read is not run.
LEMMA AnswerUnknowable ==
  ASSUME NEW c \in Commands, NEW maxLines \in MaxLines, c.source \in Sources,
         \A k \in 1..Len(c.filters) : c.filters[k].op # "bad", FsPaths(c) = <<"unknowable">>
  PROVE  AnswerTo(c, Ceiling, maxLines) = Error
<1> DEFINE visits == SourceVisits(c)
           seen == Seens(c)
           n == Reach(c)
           s == SubSeq(seen, 1, n)
           x == LinesOf(s)
           of == Parse(c.source, c.argv)
<1>1. visits \in Seq(Visited) /\ Ceiling \in Nat \ {0} /\ Len(visits) \in Nat
  BY SourceTyped, PipelineIs
<1>2. Failure.bad /\ ~Failure.counted /\ Failure \in Visited
  BY DEF Failure, Visited
<1>3. visits = <<Failure>>
  <2>1. CASE ~of.ok
    BY <2>1 DEF SourceVisits, VisitsOf
  <2>2. CASE of.ok
    <3>1. of.paths = <<"unknowable">>
      BY <2>2 DEF FsPaths, Judged
    <3> HIDE DEF of
    <3>2. Len(of.paths) = 1 /\ VisitsAt(c.source, of, of.paths[1]) = <<Failure>>
      BY <3>1, FileSearchAssumption DEF VisitsAt, Stripping
    <3> DEFINE q == [i \in 1..Len(of.paths) |-> VisitsAt(c.source, of, of.paths[i])]
    <3>3. visits = FlattenSeq(q)
      BY <2>2 DEF SourceVisits, VisitsOf, of
    <3>4. q = [i \in 1..1 |-> <<Failure>>]
      BY <3>2
    <3> HIDE DEF q
    <3>5. <<Failure>> \in Seq(Visited)
      BY <1>2, Single
    <3>6. Len(q) = 1 /\ q[1] = <<Failure>>
      <4>1. q[1] = <<Failure>> /\ q = [i \in 1..1 |-> q[i]]
        BY <3>4
      <4> QED
        BY <4>1, Tabled
    <3>7. Collects(q, q)
      BY <3>6 DEF Collects
    <3>8. FlattenSeq(q) = q[1]
      BY <3>6, <3>7, FlattenCollects
    <3> QED
      BY <3>3, <3>6, <3>8
  <2> QED
    BY <2>1, <2>2
<1>4. Len(visits) = 1 /\ visits[1] = Failure
  BY <1>3
<1>5. seen \in Seq(Visited) /\ Len(seen) = 1 /\ seen[1] = Failure
  <2>1. seen \in Seq(Visited) /\ Len(seen) = Len(visits)
    BY <1>1, SeenIs DEF Seens
  <2>2. \A i \in 1..Len(visits) : seen[i] = visits[i] \/ visits[i].counted
    BY <1>1, SeenIs DEF Seens
  <2> HIDE DEF seen, visits
  <2> QED
    BY <1>2, <1>4, <2>1, <2>2
<1>6. n \in 0..1 /\ (n = 1 \/ Satisfied(Pipeline(c), x))
  <2>1. Len(seen) \in Nat
    BY <1>5
  <2> QED
    BY <1>5, <2>1, PulledIs DEF Reach
<1> HIDE DEF visits, seen, n
<1>7. ASSUME n # 1 PROVE FALSE
  <2>1. n = 0
    BY <1>6, <1>7
  <2>2. s \in Seq(Visited) /\ Len(s) = 0
    BY <1>5, <2>1
  <2> HIDE DEF s
  <2>3. x \in Seq(Line) /\ ToSet(x) = UNION {ToSet(s[i].lines) : i \in 1..Len(s)}
    BY <2>2, LinesAre
  <2>4. Satisfied(Pipeline(c), x)
    BY <1>6, <1>7
  <2> HIDE DEF x
  <2>5. ToSet(x) = {} /\ Len(x) \in Nat
    BY <2>2, <2>3
  <2>6. Sequence(x) /\ IsPrefix(x, x)
    BY <2>3, SeqIsSequence, OwnPrefix
  <2>7. Len(x) > 0
    BY <2>4, <2>6, HeadOnce, PipelineIs
  <2>8. x[1] \in ToSet(x)
    BY <2>3, <2>7 DEF ToSet
  <2> QED
    BY <2>5, <2>8
<1>8. n = 1
  BY <1>7
<1>9. \E i \in 1..n : seen[i].bad
  BY <1>2, <1>5, <1>8
<1> QED
  BY <1>9, AnswerIs DEF n, seen

\* The gate judged every path a line of find or grep comes from, as long as no path has
\* blanks around it, and what it could not read is refused.
THEOREM GateHolds == SearchSpec => []GateSeesEveryPath
<1>1. SearchInv => GateSeesEveryPath
  <2> SUFFICES ASSUME SearchInv PROVE GateSeesEveryPath
    OBVIOUS
  <2> DEFINE c == command
             of == Parse(c.source, c.argv)
  <2>1. CASE result = Unanswered \/ result = Error
    <3>1. ToSet(result.lines) = {} /\ (result = Unanswered \/ result.error)
      BY <2>1 DEF Unanswered, Error, ToSet
    <3> QED
      BY <3>1 DEF GateSeesEveryPath, Gated
  <2>2. CASE ~(result = Unanswered \/ result = Error)
    <3>1. /\ c \in Commands /\ limit \in MaxLines /\ c.source \in Sources
          /\ \A k \in 1..Len(c.filters) : c.filters[k].op # "bad"
          /\ result = AnswerTo(c, Ceiling, limit)
      BY <2>2 DEF SearchInv
    <3>2. FsPaths(c) # <<"unknowable">>
      BY <2>2, <3>1, AnswerUnknowable
    <3>3. of.ok /\ FsPaths(c) = of.paths
      BY <3>1, <3>2 DEF FsPaths, Judged
    <3>4. ASSUME c.source \in {"find", "grep"}, c.filters = <<>>,
                 ToSet(FsPaths(c)) \cap DOMAIN Bare = {}, NEW l \in ToSet(result.lines)
          PROVE  \E t \in ToSet(FsPaths(c)) \cap DOMAIN Named : IsPrefix(Named[t], l)
      <4>1. of \in Options
        BY <3>1, ParseTyped, FileSearchAssumption DEF Understood
      <4>2. PICK i \in 1..Len(SourceVisits(c)) : l \in ToSet(SourceVisits(c)[i].lines)
        BY <3>1, <3>4, AnswerLines
      <4> DEFINE visit == SourceVisits(c)[i]
      <4>3. visit \in ToSet(SourceVisits(c))
        <5>1. SourceVisits(c) \in Seq(Visited)
          BY <3>1, SourceTyped
        <5> QED
          BY <5>1 DEF ToSet
      <4>4. l \in ToSet(visit.lines)
        BY <4>2
      <4> HIDE DEF visit, of
      <4>5. SourceVisits(c) = VisitsOf(c.source, of)
        BY DEF SourceVisits, of
      <4>6. visit # Failure
        BY <4>4 DEF Failure, ToSet
      <4>7. PICK j \in 1..Len(of.paths) : visit \in ToSet(VisitsAt(c.source, of, of.paths[j]))
        BY <4>1, <4>3, <4>5, <4>6, VisitsOfAre
      <4> DEFINE t == of.paths[j]
      <4>8. t \in ToSet(FsPaths(c))
        <5>1. of.paths \in Seq(Spelled)
          BY <4>1 DEF Options
        <5> QED
          BY <3>3, <4>7, <5>1 DEF ToSet
      <4> HIDE DEF t
      <4>9. Stripping(t) = t
        BY <3>4, <4>8 DEF Stripping
      <4>10. t \in DOMAIN Named /\ visit \in ToSet(From(c.source, of, Named[t]))
        <5>1. ToSet(<<Failure>>) = {Failure}
          BY DEF ToSet
        <5> QED
          BY <3>4, <4>6, <4>7, <4>9, <5>1 DEF VisitsAt, t
      <4>11. IsPrefix(Named[t], l)
        BY <3>4, <4>1, <4>4, <4>10, FromBelow
      <4> QED
        BY <4>8, <4>10, <4>11
    <3> QED
      BY <3>2, <3>4 DEF GateSeesEveryPath, Gated
  <2> QED
    BY <2>1, <2>2
<1> QED
  BY <1>1, SearchIsInductive, PTL

-------------------------------------------------------------------------------
(* What find finds.                                                        *)

\* The way to a path leads through folders only.
LEMMA WayThrough ==
  ASSUME NEW p \in AllPaths, NEW n \in Nat, n < Len(p)
  PROVE  SubSeq(p, 1, n) \in Folders
<1> DEFINE way(k) == SubSeq(p, 1, k)
           wrong == {k \in 0..Len(p) - 1 : way(Len(p) - 1 - k) \notin Folders}
<1>1. p \in Seq(Nat) /\ Len(p) \in Nat \ {0} /\ p # <<>>
  <2>1. p \in Seq(Nat) /\ Len(p) \in Nat
    BY PathsAre
  <2> QED
    BY <2>1
<1>2. way(Len(p) - 1) \in Folders
  BY <1>1, PathsAre DEF Front
<1>3. ASSUME NEW k \in 1..Len(p) - 1, way(k) \in Folders
      PROVE  way(k - 1) \in Folders
  <2> DEFINE q == way(k)
             r == SubSeq(q, 1, k - 1)
             t == way(k - 1)
  <2>1. q \in Seq(Nat) /\ Len(q) = k /\ \A i \in 1..k : q[i] = p[i]
    BY <1>1
  <2>2. Front(q) \in Folders
    <3>1. q # <<>>
      <4> HIDE DEF q
      <4> QED
        BY <2>1
    <3> QED
      BY <1>3, <3>1, PathsAre DEF AllPaths
  <2>3. t \in Seq(Nat) /\ Len(t) = k - 1 /\ \A i \in 1..k - 1 : t[i] = p[i]
    BY <1>1
  <2> HIDE DEF q, t
  <2>4. r \in Seq(Nat) /\ Len(r) = k - 1 /\ \A i \in 1..k - 1 : r[i] = q[i]
    BY <2>1
  <2>5. Front(q) = r
    BY <2>1 DEF Front
  <2> HIDE DEF r
  <2>6. \A i \in 1..k - 1 : r[i] = t[i]
    <3>1. \A i \in 1..k - 1 : i \in 1..k
      OBVIOUS
    <3> QED
      BY <2>1, <2>3, <2>4, <3>1
  <2>7. r = t
    BY <2>3, <2>4, <2>6, SeqEqual
  <2> QED
    BY <2>2, <2>5, <2>7 DEF t
<1>4. wrong \in SUBSET Nat /\ 0 \notin wrong
  BY <1>1, <1>2
<1>5. ASSUME NEW k \in wrong PROVE k - 1 \in wrong \/ k = 0
  <2> SUFFICES ASSUME k # 0, k - 1 \notin wrong PROVE FALSE
    OBVIOUS
  <2>1. k \in 0..Len(p) - 1 /\ way(Len(p) - 1 - k) \notin Folders
    OBVIOUS
  <2> DEFINE m == Len(p) - 1 - (k - 1)
  <2>2. k - 1 \in 0..Len(p) - 1 /\ m \in 1..Len(p) - 1 /\ m - 1 = Len(p) - 1 - k
    BY <1>1, <2>1
  <2>3. way(m) \in Folders
    BY <2>2
  <2> HIDE DEF way, m
  <2>4. way(m - 1) \in Folders
    BY <1>3, <2>2, <2>3
  <2> QED
    BY <2>1, <2>2, <2>4
<1>6. \A k \in 0..Len(p) - 1 : k \notin wrong => way(Len(p) - 1 - k) \in Folders
  OBVIOUS
<1> HIDE DEF wrong, way
<1>7. wrong = {}
  BY <1>4, <1>5, FirstWrong
<1>8. Len(p) - 1 - n \in 0..Len(p) - 1 /\ Len(p) - 1 - (Len(p) - 1 - n) = n
  BY <1>1
<1>9. way(n) \in Folders
  BY <1>6, <1>7, <1>8
<1> QED
  BY <1>9 DEF way

\* A walk that began at start looks into d.
Live(d, start, depth) == depth # Unlimited => Len(d) - Len(start) + 1 <= depth

\* p lies under d, where such a walk gives it.
Lies(p, d, start, depth, files, dirs) ==
  /\ p \in AllPaths /\ IsPrefix(d, p) /\ p # d
  /\ \A i \in Len(d) + 1..Len(p) : p[i] \notin Hidden
  /\ p \in Folders => dirs /\ (depth # Unlimited => Len(p) - Len(start) < depth)
  /\ p \notin Folders => files /\ ~Denied(p) /\ (depth # Unlimited => Len(p) - Len(start) <= depth)

\* The folder through which the way from d to p leads, or p itself.
LEMMA NextOnTheWay ==
  ASSUME NEW d \in Folders, NEW p \in AllPaths, IsPrefix(d, p), p # d
  PROVE  /\ Len(d) \in Nat /\ Len(p) \in Nat /\ Len(p) > Len(d)
         /\ Len(p) = Len(d) + 1 => p \in Children(d) /\ Last(p) = p[Len(d) + 1]
         /\ Len(p) > Len(d) + 1 =>
              \E e \in Folders \cap Children(d) :
                IsPrefix(e, p) /\ p # e /\ Last(e) = p[Len(d) + 1] /\ Len(e) = Len(d) + 1
<1>1. d \in AllPaths /\ d \in Seq(Nat) /\ p \in Seq(Nat) /\ Len(d) \in Nat /\ Len(p) \in Nat
  BY PathsAre DEF AllPaths
<1>2. Len(d) <= Len(p) /\ \A i \in 1..Len(d) : d[i] = p[i]
  BY <1>1, PrefixMeans
<1>3. Len(p) > Len(d)
  <2>1. Len(p) # Len(d)
    BY <1>1, <1>2, SeqEqual
  <2> QED
    BY <1>1, <1>2, <2>1
<1>4. ASSUME NEW e \in AllPaths, Len(e) = Len(d) + 1, \A i \in 1..Len(d) + 1 : e[i] = p[i]
      PROVE  e \in Children(d) /\ Last(e) = p[Len(d) + 1]
  <2>1. e \in Seq(Nat) /\ e # <<>>
    <3>1. e \in Seq(Nat)
      BY PathsAre
    <3> QED
      BY <1>1, <1>4, <3>1
  <2>2. /\ Front(e) \in Seq(Nat) /\ Len(Front(e)) = Len(e) - 1
        /\ \A i \in 1..Len(e) - 1 : Front(e)[i] = e[i]
        /\ Last(e) = e[Len(e)]
    BY <2>1, PathsAre
  <2>3. Len(Front(e)) = Len(d) /\ \A i \in 1..Len(d) : Front(e)[i] = d[i]
    <3>1. Len(e) - 1 = Len(d) /\ \A i \in 1..Len(d) : i \in 1..Len(d) + 1
      BY <1>1, <1>4
    <3> QED
      BY <1>2, <1>4, <2>2, <3>1
  <2>4. Front(e) = d
    BY <1>1, <2>2, <2>3, SeqEqual
  <2>5. Last(e) = p[Len(d) + 1]
    BY <1>1, <1>4, <2>2
  <2> QED
    BY <2>1, <2>4, <2>5 DEF Children, AllPaths
<1>5. Len(p) = Len(d) + 1 => p \in Children(d) /\ Last(p) = p[Len(d) + 1]
  BY <1>4
<1>6. ASSUME Len(p) > Len(d) + 1
      PROVE  \E e \in Folders \cap Children(d) :
               IsPrefix(e, p) /\ p # e /\ Last(e) = p[Len(d) + 1] /\ Len(e) = Len(d) + 1
  <2> DEFINE n == Len(d) + 1
             e == SubSeq(p, 1, n)
  <2>1. n \in Nat /\ n < Len(p)
    BY <1>1, <1>6
  <2>2. e \in Folders
    BY <2>1, WayThrough
  <2>3. e \in Seq(Nat) /\ Len(e) = n /\ \A i \in 1..n : e[i] = p[i]
    <3> HIDE DEF n
    <3> QED
      BY <1>1, <2>1
  <2> HIDE DEF e
  <2>4. e \in Children(d) /\ Last(e) = p[n]
    BY <1>4, <2>2, <2>3 DEF AllPaths
  <2>5. Len(e) <= Len(p) /\ Len(e) # Len(p)
    BY <1>1, <2>1, <2>3
  <2>6. IsPrefix(e, p)
    BY <1>1, <2>3, <2>5, PrefixMeans
  <2> QED
    BY <2>2, <2>3, <2>4, <2>5, <2>6
<1> QED
  BY <1>1, <1>3, <1>5, <1>6

LEMMA LiesStep ==
  ASSUME NEW start \in AllPaths, NEW depth \in Nat, NEW files \in BOOLEAN, NEW dirs \in BOOLEAN,
         NEW d \in Folders, Live(d, start, depth), NEW p
  PROVE  /\ Lies(p, d, start, depth, files, dirs) <=>
              \/ dirs /\ p \in Entered(start, d, depth)
              \/ files /\ p \in FilesIn(d)
              \/ \E e \in Entered(start, d, depth) : Lies(p, e, start, depth, files, dirs)
         /\ \A e \in Entered(start, d, depth) : e \in Folders \cap Children(d) /\ Live(e, start, depth)
<1>1. /\ d \in AllPaths /\ d \in Seq(Nat) /\ Len(d) \in Nat /\ Len(start) \in Nat
      /\ \A q \in AllPaths : q \in Seq(Nat) /\ Len(q) \in Nat
      /\ \A q \in Folders : q \in AllPaths
  <2>1. \A q \in AllPaths : q \in Seq(Nat)
    BY PathsAre
  <2> QED
    BY <2>1 DEF AllPaths
<1> DEFINE deep == depth # Unlimited /\ Len(d) - Len(start) + 1 >= depth
<1>2. \A e : e \in Entered(start, d, depth) <=> e \in Children(d) /\ Last(e) \notin Hidden /\
        e \in Folders /\ ~deep
  BY DEF Entered, Visible
<1>3. \A e : e \in FilesIn(d) <=> e \in Children(d) /\ Last(e) \notin Hidden /\
        e \notin Folders /\ ~Denied(e)
  BY FileSearchAssumption DEF FilesIn, Visible, Children
<1>4. \A e \in Children(d) : /\ e \in AllPaths /\ Len(e) = Len(d) + 1 /\ e[Len(d) + 1] = Last(e)
                             /\ IsPrefix(d, e) /\ e # d
  <2> SUFFICES ASSUME NEW e \in Children(d)
               PROVE  /\ e \in AllPaths /\ Len(e) = Len(d) + 1 /\ e[Len(d) + 1] = Last(e)
                      /\ IsPrefix(d, e) /\ e # d
    OBVIOUS
  <2>1. e \in AllPaths /\ Len(e) = Len(d) + 1 /\ e[Len(e)] = Last(e) /\ IsPrefix(d, e)
    BY <1>1, ChildrenAre
  <2>2. Len(e) # Len(d)
    BY <1>1, <2>1
  <2> QED
    BY <2>1, <2>2
<1>5. ASSUME NEW e \in Entered(start, d, depth)
      PROVE  e \in Folders \cap Children(d) /\ Live(e, start, depth)
  <2>1. e \in Folders \cap Children(d) /\ Len(e) = Len(d) + 1 /\ ~deep
    BY <1>2, <1>4
  <2>2. depth # Unlimited => Len(e) - Len(start) + 1 <= depth
    BY <1>1, <2>1
  <2> QED
    BY <2>1, <2>2 DEF Live
<1>6. ASSUME dirs, p \in Entered(start, d, depth)
      PROVE  Lies(p, d, start, depth, files, dirs)
  <2>1. p \in Children(d) /\ Last(p) \notin Hidden /\ p \in Folders /\ ~deep
    BY <1>2, <1>6
  <2>2. p \in AllPaths /\ Len(p) = Len(d) + 1 /\ p[Len(d) + 1] = Last(p) /\ IsPrefix(d, p) /\ p # d
    BY <1>4, <2>1
  <2>3. \A i \in Len(d) + 1..Len(p) : p[i] \notin Hidden
    <3>1. \A i \in Len(d) + 1..Len(p) : i = Len(d) + 1
      BY <1>1, <2>2
    <3> QED
      BY <2>1, <2>2, <3>1
  <2>4. depth # Unlimited => Len(p) - Len(start) < depth
    BY <1>1, <2>1, <2>2
  <2> QED
    BY <1>6, <2>1, <2>2, <2>3, <2>4 DEF Lies
<1>7. ASSUME files, p \in FilesIn(d)
      PROVE  Lies(p, d, start, depth, files, dirs)
  <2>1. p \in Children(d) /\ Last(p) \notin Hidden /\ p \notin Folders /\ ~Denied(p)
    BY <1>3, <1>7
  <2>2. p \in AllPaths /\ Len(p) = Len(d) + 1 /\ p[Len(d) + 1] = Last(p) /\ IsPrefix(d, p) /\ p # d
    BY <1>4, <2>1
  <2>3. \A i \in Len(d) + 1..Len(p) : p[i] \notin Hidden
    <3>1. \A i \in Len(d) + 1..Len(p) : i = Len(d) + 1
      BY <1>1, <2>2
    <3> QED
      BY <2>1, <2>2, <3>1
  <2>4. depth # Unlimited => Len(p) - Len(start) <= depth
    BY <1>1, <2>2 DEF Live
  <2> QED
    BY <1>7, <2>1, <2>2, <2>3, <2>4 DEF Lies
<1>8. ASSUME NEW e \in Entered(start, d, depth), Lies(p, e, start, depth, files, dirs)
      PROVE  Lies(p, d, start, depth, files, dirs)
  <2>1. e \in Children(d) /\ Last(e) \notin Hidden
    BY <1>2
  <2>2. e \in AllPaths /\ Len(e) = Len(d) + 1 /\ e[Len(d) + 1] = Last(e) /\ IsPrefix(d, e)
    BY <1>4, <2>1
  <2>3. p \in AllPaths /\ IsPrefix(e, p) /\ \A i \in Len(e) + 1..Len(p) : p[i] \notin Hidden
    BY <1>8 DEF Lies
  <2>4. e \in Seq(Nat) /\ p \in Seq(Nat) /\ Len(p) \in Nat
    BY <1>1, <2>2, <2>3
  <2>5. Len(e) <= Len(p) /\ \A i \in 1..Len(e) : e[i] = p[i]
    BY <2>3, <2>4, PrefixMeans
  <2>6. IsPrefix(d, p)
    BY <1>1, <2>2, <2>3, <2>4, PrefixChain
  <2>7. p # d
    <3>1. Len(p) # Len(d)
      BY <1>1, <2>2, <2>4, <2>5
    <3> QED
      BY <3>1
  <2>8. p[Len(d) + 1] \notin Hidden
    <3>1. Len(d) + 1 \in 1..Len(e)
      BY <1>1, <2>2
    <3> QED
      BY <2>1, <2>2, <2>5, <3>1
  <2>9. \A i \in Len(d) + 1..Len(p) : p[i] \notin Hidden
    <3>1. \A i \in Len(d) + 1..Len(p) : i = Len(d) + 1 \/ i \in Len(e) + 1..Len(p)
      BY <1>1, <2>2, <2>4
    <3> QED
      BY <2>3, <2>8, <3>1
  <2> QED
    BY <1>8, <2>3, <2>6, <2>7, <2>9 DEF Lies
<1>9. ASSUME Lies(p, d, start, depth, files, dirs)
      PROVE  \/ dirs /\ p \in Entered(start, d, depth)
             \/ files /\ p \in FilesIn(d)
             \/ \E e \in Entered(start, d, depth) : Lies(p, e, start, depth, files, dirs)
  <2>1. p \in AllPaths /\ IsPrefix(d, p) /\ p # d /\ \A i \in Len(d) + 1..Len(p) : p[i] \notin Hidden
    BY <1>9 DEF Lies
  <2>2. Len(p) \in Nat /\ Len(p) > Len(d) /\ p[Len(d) + 1] \notin Hidden
    <3>1. Len(p) \in Nat /\ Len(p) > Len(d)
      BY <2>1, NextOnTheWay
    <3>2. Len(d) + 1 \in Len(d) + 1..Len(p)
      BY <1>1, <3>1
    <3> QED
      BY <2>1, <3>1, <3>2
  <2>3. CASE Len(p) = Len(d) + 1
    <3>1. p \in Children(d) /\ Last(p) \notin Hidden
      BY <2>1, <2>2, <2>3, NextOnTheWay
    <3>2. CASE p \in Folders
      <4>1. dirs /\ (depth # Unlimited => Len(p) - Len(start) < depth)
        BY <1>9, <3>2 DEF Lies
      <4>2. ~deep
        BY <1>1, <2>3, <4>1
      <4> QED
        BY <1>2, <3>1, <3>2, <4>1, <4>2
    <3>3. CASE p \notin Folders
      <4>1. files /\ ~Denied(p)
        BY <1>9, <3>3 DEF Lies
      <4> QED
        BY <1>3, <3>1, <3>3, <4>1
    <3> QED
      BY <3>2, <3>3
  <2>4. CASE Len(p) > Len(d) + 1
    <3>1. PICK e \in Folders \cap Children(d) :
                 IsPrefix(e, p) /\ p # e /\ Last(e) = p[Len(d) + 1] /\ Len(e) = Len(d) + 1
      BY <2>1, <2>4, NextOnTheWay
    <3>2. depth # Unlimited => Len(p) - Len(start) <= depth
      <4>1. depth # Unlimited => Len(p) - Len(start) < depth \/ Len(p) - Len(start) <= depth
        BY <1>9 DEF Lies
      <4> QED
        BY <1>1, <2>2, <4>1
    <3>3. ~deep
      BY <1>1, <2>2, <2>4, <3>2
    <3>4. e \in Entered(start, d, depth)
      BY <1>2, <2>2, <3>1, <3>3
    <3>5. \A i \in Len(e) + 1..Len(p) : i \in Len(d) + 1..Len(p)
      BY <1>1, <2>2, <3>1
    <3>6. Lies(p, e, start, depth, files, dirs)
      BY <1>9, <2>1, <3>1, <3>5 DEF Lies
    <3> QED
      BY <3>4, <3>6
  <2> QED
    BY <1>1, <2>2, <2>3, <2>4
<1> HIDE DEF deep
<1> QED
  BY <1>5, <1>6, <1>7, <1>8, <1>9

\* A walk gives what lies under the folder it began at.
LEMMA WalkGives ==
  ASSUME NEW start \in Folders, NEW depth \in Nat, NEW files \in BOOLEAN, NEW dirs \in BOOLEAN
  PROVE  \A p : p \in ToSet(Walk(start, depth, files, dirs)) <=>
    Lies(p, start, start, depth, files, dirs)
<1>1. PICK under : Walks(under, start, depth, files, dirs)
                   /\ Walk(start, depth, files, dirs) = under[start]
  BY WalkExists
<1> DEFINE Right(d) == Live(d, start, depth) =>
             \A p : p \in ToSet(under[d]) <=> Lies(p, d, start, depth, files, dirs)
           good == {d \in Folders : Right(d)}
<1>0. start \in AllPaths
  BY DEF AllPaths
<1>2. ASSUME NEW d \in Folders, \A e \in Folders \cap Children(d) : Right(e)
      PROVE  Right(d)
  <2> SUFFICES ASSUME Live(d, start, depth), NEW p
               PROVE  p \in ToSet(under[d]) <=> Lies(p, d, start, depth, files, dirs)
    OBVIOUS
  <2>1. p \in ToSet(under[d]) <=>
          \/ dirs /\ p \in Entered(start, d, depth)
          \/ files /\ p \in FilesIn(d)
          \/ \E e \in Entered(start, d, depth) : p \in ToSet(under[e])
    BY <1>1, WalkStep
  <2>2. Lies(p, d, start, depth, files, dirs) <=>
          \/ dirs /\ p \in Entered(start, d, depth)
          \/ files /\ p \in FilesIn(d)
          \/ \E e \in Entered(start, d, depth) : Lies(p, e, start, depth, files, dirs)
    BY <1>0, LiesStep
  <2>3. \A e \in Entered(start, d, depth) : e \in Folders \cap Children(d) /\ Live(e, start, depth)
    BY <1>0, LiesStep
  <2>4. \A e \in Entered(start, d, depth) :
          p \in ToSet(under[e]) <=> Lies(p, e, start, depth, files, dirs)
    BY <1>2, <2>3
  <2> QED
    BY <2>1, <2>2, <2>4
<1> HIDE DEF Right
<1>3. \A d \in Folders : (\A e \in Folders \cap Children(d) : e \in good) => d \in good
  BY <1>2
<1>4. good \in SUBSET Folders /\ \A d \in good : Right(d)
  OBVIOUS
<1>5. good = Folders
  <2> HIDE DEF good
  <2> QED
    BY <1>3, <1>4, FromTheLeaves
<1>6. Live(start, start, depth)
  <2>1. Len(start) \in Nat
    <3>1. start \in Seq(Nat)
      BY <1>0, PathsAre
    <3> QED
      BY <3>1
  <2> QED
    BY <2>1 DEF Live, Unlimited
<1> QED
  BY <1>1, <1>4, <1>5, <1>6 DEF Right

\* The rest of a path behind another.
LEMMA RestIs ==
  ASSUME NEW p \in AllPaths, NEW d \in AllPaths, IsPrefix(d, p)
  PROVE  Range(SubSeq(p, Len(d) + 1, Len(p))) \cap Hidden = {}
           <=> \A i \in Len(d) + 1..Len(p) : p[i] \notin Hidden
<1>1. p \in Seq(Nat) /\ Len(p) \in Nat /\ Len(d) \in Nat /\ Len(d) <= Len(p)
  <2>1. p \in Seq(Nat) /\ d \in Seq(Nat)
    BY PathsAre
  <2> QED
    BY <2>1, PrefixMeans
<1> DEFINE m == Len(d) + 1
           s == SubSeq(p, m, Len(p))
<1>2. m \in 1..Len(p) + 1
  BY <1>1
<1> HIDE DEF m
<1>3. Len(s) = Len(p) + 1 - m /\ s \in Seq(Nat) /\ \A i \in 1..Len(p) + 1 - m : s[i] = p[m + i - 1]
  <2>1. \A i \in m..Len(p) : p[i] \in Nat
    BY <1>1, <1>2
  <2>2. m \in Int /\ Len(p) \in Int
    BY <1>1, <1>2
  <2>3. /\ s \in Seq(Nat) /\ Len(s) = IF m <= Len(p) THEN Len(p) - m + 1 ELSE 0
        /\ \A i \in 1..Len(p) - m + 1 : s[i] = p[m + i - 1]
    BY <2>1, <2>2, SubSeqProperties
  <2> HIDE DEF s
  <2> QED
    BY <1>1, <1>2, <2>3
<1> HIDE DEF s
<1>4. DOMAIN s = 1..Len(p) + 1 - m
  BY <1>3
<1>5. \A i \in DOMAIN s : m + i - 1 \in m..Len(p) /\ s[i] = p[m + i - 1]
  <2>1. \A i \in 1..Len(p) + 1 - m : m + i - 1 \in m..Len(p)
    BY <1>1, <1>2
  <2> QED
    BY <1>3, <1>4, <2>1
<1>6. \A i \in m..Len(p) : i - m + 1 \in DOMAIN s /\ s[i - m + 1] = p[i]
  <2> SUFFICES ASSUME NEW i \in m..Len(p) PROVE i - m + 1 \in DOMAIN s /\ s[i - m + 1] = p[i]
    OBVIOUS
  <2>1. i - m + 1 \in DOMAIN s /\ m + (i - m + 1) - 1 = i
    BY <1>1, <1>2, <1>4
  <2> QED
    BY <1>5, <2>1
<1>7. Range(s) \cap Hidden = {} <=> \A i \in m..Len(p) : p[i] \notin Hidden
  BY <1>5, <1>6 DEF Range
<1> QED
  BY <1>7 DEF m, s

\* What find walks over, and what it should find.
LEMMA WalkFinds ==
  ASSUME NEW of \in Options, NEW start \in AllPaths, ~Denied(start),
         of.depth = Unlimited \/ of.kind = "f", NEW p
  PROVE  p \in Found(of, start) <=>
           p \in ToSet(Walk(start, of.depth, of.kind # "d", of.kind # "f")) /\ HasName(of, p)
<1> DEFINE files == of.kind # "d"
           dirs == of.kind # "f"
           all == Walk(start, of.depth, files, dirs)
<1>0. of.depth \in Nat /\ files \in BOOLEAN /\ dirs \in BOOLEAN /\ (~files => dirs)
  BY DEF Options
<1>1. p \in Found(of, start) <=>
        /\ p \in AllPaths /\ IsPrefix(start, p) /\ (p = start => p \notin Folders)
        /\ \A i \in Len(start) + 1..Len(p) : p[i] \notin Hidden
        /\ p \in Folders \/ ~Denied(p)
        /\ p \in Folders => dirs
        /\ p \notin Folders => files
        /\ of.depth # Unlimited => Len(p) - Len(start) <= of.depth
        /\ HasName(of, p)
  <2>1. p \in AllPaths /\ IsPrefix(start, p) =>
          (Range(SubSeq(p, Len(start) + 1, Len(p))) \cap Hidden = {}
             <=> \A i \in Len(start) + 1..Len(p) : p[i] \notin Hidden)
    BY RestIs
  <2> QED
    BY <2>1 DEF Found, AllPaths
<1>2. CASE start \in Folders
  <2>1. p \in ToSet(all) <=> Lies(p, start, start, of.depth, files, dirs)
    BY <1>0, <1>2, WalkGives
  <2>2. of.depth # Unlimited => ~dirs
    OBVIOUS
  <2> HIDE DEF files, dirs, all
  <2>3. Lies(p, start, start, of.depth, files, dirs) <=>
          /\ p \in AllPaths /\ IsPrefix(start, p) /\ (p = start => p \notin Folders)
          /\ \A i \in Len(start) + 1..Len(p) : p[i] \notin Hidden
          /\ p \in Folders \/ ~Denied(p)
          /\ p \in Folders => dirs
          /\ p \notin Folders => files
          /\ of.depth # Unlimited => Len(p) - Len(start) <= of.depth
    BY <1>2, <2>2 DEF Lies
  <2> QED
    BY <1>1, <2>1, <2>3 DEF files, dirs, all
<1>3. CASE start \notin Folders
  <2>1. all = IF files THEN <<start>> ELSE <<>>
    BY <1>3 DEF Walk
  <2>2. p \in ToSet(all) <=> files /\ p = start
    <3>1. ToSet(<<start>>) = {start} /\ ToSet(<<>>) = {}
      BY DEF ToSet
    <3> HIDE DEF files, all
    <3> QED
      BY <2>1, <3>1
  <2>3. p \in AllPaths /\ IsPrefix(start, p) => p = start
    <3> SUFFICES ASSUME p \in AllPaths, IsPrefix(start, p), p # start PROVE FALSE
      OBVIOUS
    <3>1. start \in Seq(Nat) /\ p \in Seq(Nat) /\ Len(start) \in Nat
      <4>1. start \in Seq(Nat) /\ p \in Seq(Nat)
        BY PathsAre
      <4> QED
        BY <4>1
    <3>2. Len(start) < Len(p)
      BY <3>1, WholePrefix
    <3>3. SubSeq(p, 1, Len(start)) \in Folders
      BY <3>1, <3>2, WayThrough
    <3>4. SubSeq(p, 1, Len(start)) = start
      <4>1. SubSeq(start, 1, Len(start)) = start
        BY <3>1
      <4> QED
        BY <4>1 DEF IsPrefix
    <3> QED
      BY <1>3, <3>3, <3>4
  <2>4. start \in AllPaths /\ IsPrefix(start, start)
    <3>1. start \in Seq(Nat)
      BY PathsAre
    <3> QED
      BY <3>1, PrefixMeans
  <2>5. (\A i \in Len(start) + 1..Len(start) : start[i] \notin Hidden) /\
          Len(start) - Len(start) <= of.depth
    <3>1. start \in Seq(Nat)
      BY PathsAre
    <3>2. Len(start) \in Nat
      BY <3>1
    <3> QED
      BY <1>0, <3>2
  <2> HIDE DEF files, dirs, all
  <2>6. p \in Found(of, start) <=> files /\ p = start /\ HasName(of, p)
    BY <1>1, <1>3, <2>3, <2>4, <2>5
  <2> QED
    BY <2>2, <2>6 DEF files, dirs, all
<1> QED
  BY <1>2, <1>3

\* The lines of find, path by path.
LEMMA FindLines ==
  ASSUME NEW of, NEW all \in Seq(AllPaths)
  PROVE  ToSet(LinesOf(FindVisits(of, all))) =
           {IF of.kind # "f" THEN Shown(p) ELSE p : p \in {q \in ToSet(all) : HasName(of, q)}}
<1> DEFINE visits == FindVisits(of, all)
           Told(p) == IF of.kind # "f" THEN Shown(p) ELSE p
<1>1. /\ visits \in Seq(Visited) /\ Len(visits) = Len(all)
      /\ \A i \in 1..Len(all) : visits[i].lines = FindOutput(of, all[i])
  BY FindTyped
<1> HIDE DEF visits
<1>2. ToSet(LinesOf(visits)) = UNION {ToSet(visits[i].lines) : i \in 1..Len(visits)}
  BY <1>1, LinesAre
<1>3. \A p : FindOutput(of, p) = IF HasName(of, p) THEN <<Told(p)>> ELSE <<>>
  BY DEF FindOutput
<1> HIDE DEF Told
<1>4. \A p : ToSet(FindOutput(of, p)) = IF HasName(of, p) THEN {Told(p)} ELSE {}
  BY <1>3 DEF ToSet
<1>5. ToSet(all) = {all[i] : i \in 1..Len(all)}
  BY DEF ToSet
<1>6. \A l : l \in ToSet(LinesOf(visits)) <=> \E i \in 1..Len(all) : HasName(of, all[i]) /\
        l = Told(all[i])
  <2>1. \A i \in 1..Len(all) : \A l : l \in ToSet(visits[i].lines) <=> HasName(of, all[i]) /\
          l = Told(all[i])
    BY <1>1, <1>4
  <2> QED
    BY <1>1, <1>2, <2>1
<1>7. ToSet(LinesOf(visits)) = {Told(p) : p \in {q \in ToSet(all) : HasName(of, q)}}
  BY <1>5, <1>6
<1> QED
  BY <1>7 DEF Told, visits

\* The one path of find gives all its lines.
LEMMA FindSource ==
  ASSUME NEW c \in Commands, c.source = "find", LinesOf(SourceVisits(c)) # <<>>
  PROVE  LET of == Parse("find", c.argv)
             start == Named[Stripping(of.paths[1])]
         IN  /\ of \in Options /\ start \in AllPaths /\ ~Denied(start)
             /\ SourceVisits(c) = FindVisits(of, Walk(start, of.depth, of.kind # "d", of.kind # "f"))
<1> DEFINE of == Parse("find", c.argv)
           start == Named[Stripping(of.paths[1])]
           visits == SourceVisits(c)
<1>1. of \in Options /\ Len(of.paths) <= 1 /\ (of.ok => of.paths # <<>>)
  BY ParseTyped, FileSearchAssumption DEF Understood
<1>2. visits = VisitsOf("find", of)
  BY DEF SourceVisits
<1>3. LinesOf(<<Failure>>) = <<>>
  <2>1. Failure \in Visited
    BY DEF Failure, Visited
  <2> DEFINE v == <<Failure>>
  <2>2. v \in Seq(Visited) /\ Len(v) = 1 /\ v[1] = Failure
    BY <2>1, Single
  <2> HIDE DEF v
  <2>3. LinesOf(v) \in Seq(Line) /\ ToSet(LinesOf(v)) = UNION {ToSet(v[i].lines) : i \in 1..Len(v)}
    BY <2>2, LinesAre
  <2>4. ToSet(Failure.lines) = {}
    BY DEF Failure, ToSet
  <2>5. \A i \in 1..Len(v) : ToSet(v[i].lines) = {}
    <3>1. \A i \in 1..Len(v) : i = 1
      BY <2>2
    <3> QED
      BY <2>2, <2>4, <3>1
  <2>6. ToSet(LinesOf(v)) = {}
    BY <2>3, <2>5
  <2> DEFINE x == LinesOf(v)
  <2>7. x \in Seq(Line) /\ ToSet(x) = {}
    BY <2>3, <2>6
  <2> HIDE DEF x
  <2>8. x = <<>>
    <3>1. \A i \in 1..Len(x) : x[i] \in ToSet(x)
      BY <2>7 DEF ToSet
    <3>2. Len(x) \in Nat /\ (Len(x) # 0 => 1 \in 1..Len(x))
      BY <2>7
    <3>3. Len(x) = 0
      BY <2>7, <3>1, <3>2
    <3> QED
      BY <2>7, <3>3
  <2> QED
    BY <2>8 DEF x, v
<1>4. visits # <<Failure>>
  BY <1>3
<1>5. of.ok
  BY <1>2, <1>4 DEF VisitsOf
<1> HIDE DEF visits, of
<1>6. of.paths \in Seq(Spelled) /\ Len(of.paths) = 1
  <2>1. of.paths \in Seq(Spelled) /\ of.paths # <<>>
    BY <1>1, <1>5 DEF Options
  <2> DEFINE s == of.paths
  <2>2. s \in Seq(Spelled) /\ s # <<>> /\ Len(s) <= 1
    BY <1>1, <2>1
  <2> HIDE DEF s
  <2>3. s \in Seq(Spelled) /\ Len(s) = 1
    <3>1. s \in Seq(Spelled) => Len(s) \in Nat /\ (s # <<>> => Len(s) # 0)
      OBVIOUS
    <3>2. Len(s) \in Nat /\ Len(s) # 0 /\ Len(s) <= 1
      BY <2>2, <3>1
    <3>3. \A n \in Nat : n # 0 /\ n <= 1 => n = 1
      OBVIOUS
    <3> QED
      BY <2>2, <3>2, <3>3
  <2> QED
    BY <2>3 DEF s
<1> DEFINE Part(t) == VisitsAt("find", of, t)
           q == [i \in 1..Len(of.paths) |-> Part(of.paths[i])]
<1>7. visits = FlattenSeq(q)
  BY <1>2, <1>5 DEF VisitsOf
<1> HIDE DEF Part
<1>8. q[1] = Part(of.paths[1]) /\ q = [i \in 1..1 |-> q[i]]
  BY <1>6
<1> HIDE DEF q
<1>9. Len(q) = 1
  BY <1>8, Tabled
<1>10. Collects(q, q)
  BY <1>9 DEF Collects
<1>11. visits = Part(of.paths[1])
  BY <1>7, <1>8, <1>9, <1>10, FlattenCollects
<1>12. visits = From("find", of, start)
  BY <1>4, <1>11 DEF Part, VisitsAt
<1>13. ~Denied(start) /\ start \in AllPaths
  BY <1>4, <1>12 DEF From, AllPaths
<1>14. visits = FindVisits(of, Walk(start, of.depth, of.kind # "d", of.kind # "f"))
  BY <1>12, <1>13 DEF From, AllPaths
<1> QED
  BY <1>1, <1>13, <1>14 DEF visits, of

\* find to no depth, and find for files, gives exactly what lies there.
THEOREM FindFindsAll == SearchSpec => []FindIsComplete
<1>1. SearchInv => FindIsComplete
  <2> DEFINE of == Parse("find", command.argv)
             start == Named[Stripping(of.paths[1])]
             visits == SourceVisits(command)
             all == Walk(start, of.depth, of.kind # "d", of.kind # "f")
             Told(p) == IF of.kind # "f" THEN Shown(p) ELSE p
  <2> SUFFICES ASSUME SearchInv, command.source = "find", command.filters = <<>>,
                      result.lines # <<>>, result.hint = "none",
                      of.depth = Unlimited \/ of.kind = "f"
               PROVE  ToSet(result.lines) = {Told(p) : p \in Found(of, start)}
    BY DEF FindIsComplete, AllFound
  <2>1. result # Unanswered /\ result # Error
    BY DEF Unanswered, Error
  <2>2. command \in Commands /\ limit \in MaxLines /\ result = AnswerTo(command, Ceiling, limit)
    BY <2>1 DEF SearchInv
  <2>3. \A k \in 1..Len(command.filters) : command.filters[k].op # "bad"
    OBVIOUS
  <2>4. Fits(command) /\ result.lines = Answered(command)
    BY <2>2, <2>3, AnswerFits DEF AnswerBegins
  <2>5. visits \in Seq(Visited)
    BY <2>2, SourceTyped
  <2>6. result.lines = LinesOf(visits)
    <3>1. Answered(command) = Piped(command.filters, LinesOf(visits))
      BY <2>2, <2>3, <2>4, FittingIsWhole
    <3>2. Sequence(LinesOf(visits))
      BY <2>5, LinesAre, SeqIsSequence
    <3>3. command.filters \in Seq(Filters) /\ Len(command.filters) = 0
      BY <2>2, PipelineIs
    <3>4. Piped(command.filters, LinesOf(visits)) = LinesOf(visits)
      BY <3>2, <3>3, PipedGives
    <3> QED
      BY <2>4, <3>1, <3>4
  <2>7. of \in Options /\ start \in AllPaths /\ ~Denied(start) /\ visits = FindVisits(of, all)
    BY <2>2, <2>6, FindSource
  <2>8. all \in Seq(AllPaths)
    BY <2>7, WalkBelow
  <2>9. ToSet(result.lines) = {Told(p) : p \in {q \in ToSet(all) : HasName(of, q)}}
    <3> HIDE DEF all, of, visits
    <3> QED
      BY <2>6, <2>7, <2>8, FindLines
  <2>10. Found(of, start) = {q \in ToSet(all) : HasName(of, q)}
    <3>1. \A p : p \in Found(of, start) <=> p \in ToSet(all) /\ HasName(of, p)
      BY <2>7, WalkFinds
    <3> HIDE DEF all, of
    <3> QED
      BY <3>1
  <2> HIDE DEF all, of
  <2> QED
    BY <2>9, <2>10
<1> QED
  BY <1>1, SearchIsInductive, PTL
===============================================================================
