------------------------------ MODULE Transcript ------------------------------
(***************************************************************************)
(* The conversation transcript as a sequence of messages, and the          *)
(* operations that repair or shorten it: Conversation.sanitize,            *)
(* strip_orphan_tool_messages, and the cut points of the two shipped       *)
(* compaction strategies.  A message keeps its role, the ids of the calls  *)
(* it announces and the id of the call it answers; bodies are left out,    *)
(* except for one bit of a tool result: whether its text says that the     *)
(* call ran.                                                               *)
(***************************************************************************)
EXTENDS Naturals, SequencesExt

NoId == 0   \* the id of a message that answers no call; real ids are positive

User        == [role |-> "user", calls |-> <<>>, id |-> NoId, ran |-> FALSE]
Reply       == [role |-> "assistant", calls |-> <<>>, id |-> NoId, ran |-> FALSE]
Announce(s) == [role |-> "assistant", calls |-> s, id |-> NoId, ran |-> FALSE]
Result(c)   == [role |-> "tool", calls |-> <<>>, id |-> c, ran |-> TRUE]
NotRun(c)   == [role |-> "tool", calls |-> <<>>, id |-> c, ran |-> FALSE]

\* A framed summary travels as an ordinary user message.
Record == User

Message(Ids) ==
  [role : {"user", "assistant", "tool"}, calls : Seq(Ids), id : Ids \cup {NoId},
   ran : BOOLEAN]

IsResult(m) == m.role = "tool"
IsCaller(m) == m.role = "assistant" /\ m.calls # <<>>

CallIds(m)   == {m.calls[k] : k \in DOMAIN m.calls}
Announced(h) == UNION {CallIds(h[i]) : i \in {j \in DOMAIN h : IsCaller(h[j])}}
Answered(h)  == {h[i].id : i \in {j \in DOMAIN h : IsResult(h[j])}}

-------------------------------------------------------------------------------
(* Repair.                                                                 *)

\* A result survives only when some earlier message announced its id.
StripOrphans(h) ==
  LET owned(i) == \E a \in 1..(i - 1) : IsCaller(h[a]) /\ h[i].id \in CallIds(h[a])
  IN  FlattenSeq([i \in DOMAIN h |->
        IF IsResult(h[i]) /\ ~owned(i) THEN <<>> ELSE <<h[i]>>])

\* The callers whose run of results ends at position i (one at most).
ClosedAt(h, i) ==
  {a \in 1..i : /\ IsCaller(h[a])
                /\ \A k \in (a + 1)..i : IsResult(h[k])
                /\ i = Len(h) \/ ~IsResult(h[i + 1])}

\* A call counts as answered when a result for its id exists anywhere, so the
\* synthetic results go behind the caller's own block.  Python leaves their
\* order open (they come out of a set); no property tells two orders apart.
Patch(h) ==
  LET missing(a) == CallIds(h[a]) \ Answered(h)
      patch(i)   == LET ids == UNION {missing(a) : a \in ClosedAt(h, i)}
                        s   == SetToSeq(ids)
                    IN  [k \in DOMAIN s |-> NotRun(s[k])]
  IN  FlattenSeq([i \in DOMAIN h |-> <<h[i]>> \o patch(i)])

Sanitize(h) == StripOrphans(Patch(h))

-------------------------------------------------------------------------------
(* Compaction: one old prefix becomes a record, a recent tail stays.  The  *)
(* token arithmetic that picks the first candidate position is abstracted  *)
(* to any position; the alignment that follows it is the code's.           *)

\* "summarise": move the tail's start to the next user message; with none left,
\* only past the results whose caller the cut has separated from them.
SafeStart(h, s) ==
  LET users   == {i \in s..Len(h) : h[i].role = "user"}
      nonTool == {i \in s..Len(h) : ~IsResult(h[i])} \cup {Len(h) + 1}
      least(S) == CHOOSE i \in S : \A j \in S : i <= j
  IN  IF users # {} THEN least(users) ELSE least(nonTool)

SummariseFrom(h, s) == <<Record>> \o SubSeq(h, SafeStart(h, s), Len(h))

\* The tail is at most `keep` messages long; with nothing old there is no record.
Summarised(h, keep) ==
  {SummariseFrom(h, s) :
     s \in {t \in 1..(Len(h) + 1) : t + keep > Len(h) /\ SafeStart(h, t) > 1}}

\* "ladder": keep k messages, then drop leading results whose caller is not kept.
OrphanRepairStart(h, k) ==
  LET first == Len(h) - k + 1
      kept  == UNION {CallIds(h[i]) : i \in {j \in first..Len(h) : IsCaller(h[j])}}
      stops == {i \in first..Len(h) : ~IsResult(h[i]) \/ h[i].id \in kept}
               \cup {Len(h) + 1}
  IN  CHOOSE i \in stops : \A j \in stops : i <= j

MinKeepRecent == 2

\* The tail shrinks from `keep` towards MinKeepRecent when it does not fit; a
\* transcript no longer than `keep` is at most demoted, which changes bodies only.
Laddered(h, keep) ==
  IF Len(h) <= keep THEN {}
  ELSE {<<Record>> \o SubSeq(h, OrphanRepairStart(h, k), Len(h)) :
          k \in MinKeepRecent..keep}

-------------------------------------------------------------------------------
(* What a provider accepts: right after each caller come results for       *)
(* exactly its calls, one each, and there is no other result.              *)

BlockOf(h, a) ==
  {i \in (a + 1)..Len(h) : \A k \in (a + 1)..i : IsResult(h[k])}

Paired(h) ==
  /\ \A a \in DOMAIN h : IsCaller(h[a]) =>
       /\ {h[i].id : i \in BlockOf(h, a)} = CallIds(h[a])
       /\ \A i, j \in BlockOf(h, a) : h[i].id = h[j].id => i = j
  /\ \A i \in DOMAIN h : IsResult(h[i]) =>
       \E a \in 1..(i - 1) : IsCaller(h[a]) /\ i \in BlockOf(h, a)

\* The calls a transcript still owes a result for.
Unanswered(h) == Announced(h) \ Answered(h)
===============================================================================
