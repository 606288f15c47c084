------------------------------- MODULE Reading -------------------------------
(***************************************************************************)
(* read_file and the clip its result gets on the way into the history      *)
(* (features/files/read.py, history/truncation.py): a file longer than the *)
(* cap is shown from the requested line on, as far as the cap allows, with *)
(* a count of the lines given and a hint where to go on.  A model reads    *)
(* the file page by page, going by the count or by the hint.               *)
(*                                                                         *)
(* A character is "plain", "wide" (escaped in JSON, two characters there)  *)
(* or the newline "nl"; sizes are small numbers in place of the 1,000      *)
(* characters allowed for the metadata.                                    *)
(***************************************************************************)
EXTENDS Naturals, Sequences, SequencesExt, FiniteSetsExt

CONSTANTS
  TextSizes,   \* lengths of the files read
  Caps,        \* caps a result may meet
  Overhead,    \* OVERHEAD: what is allowed for the metadata
  Envelope,    \* the metadata of an uncut result
  Marker,      \* the marker behind a cut content
  Added        \* what the marker, the counts and the hint add to a cut result

ASSUME ReadingAssumption ==
  /\ TextSizes \subseteq Nat /\ Caps \subseteq Nat \ {0}
  /\ Overhead \in Nat /\ Envelope \in Nat /\ Marker \in Nat /\ Added \in Nat

VARIABLES
  text,    \* the file
  cap,     \* the resolved cap
  by,      \* what the reader goes by
  at,      \* the start_line it asks for next
  page,    \* what the last call gave
  seen,    \* history: the lines it has been given whole
  torn     \* history: a page stopped inside a line

readVars == <<text, cap, by, at, page, seen, torn>>

Char  == {"plain", "wide", "nl"}
\* What a text is in JSON.
Wide(s)  == Len(s) + Cardinality({i \in 1..Len(s) : s[i] # "plain"})

-------------------------------------------------------------------------------
(* Lines.                                                                  *)

Newlines(s)  == Cardinality({i \in 1..Len(s) : s[i] = "nl"})
LineCount(s) == Newlines(s) + (IF s = <<>> \/ Last(s) = "nl" THEN 0 ELSE 1)

\* Where a line begins: at the first character with n - 1 newlines before it.
LineStart(s, n) == Min({i \in 1..Len(s) : Newlines(SubSeq(s, 1, i - 1)) >= n - 1} \cup {Len(s) + 1})

\* read_file() from a start_line on; 0 and 1 are the whole file.
Requested(s, start) == SubSeq(s, LineStart(s, start), Len(s))

\* The lines of a content that its first n characters give whole, a newline aside.
WholeLines(content, n) ==
  LET within == Newlines(SubSeq(content, 1, n))
  IN  1..(within + IF n = Len(content) THEN LineCount(content) - within
                   ELSE IF content[n + 1] = "nl" THEN 1 ELSE 0)
\* A page that stops inside a line.
Inside(content, n) == n < Len(content) /\ (n = 0 \/ "nl" \notin {content[n], content[n + 1]})

-------------------------------------------------------------------------------
(* Clipping.                                                               *)

\* _resolve_cap(): the call, then the tool, then the runtime, then the module.
ResolveCap(explicit, declared, runtime, default) ==
  IF explicit > 0 THEN explicit ELSE IF declared > 0 THEN declared
  ELSE IF runtime > 0 THEN runtime ELSE default

\* _clip_at_line(): how many characters a budget keeps; the newline a cut falls
\* behind is not among them, and a first line longer than the budget is cut inside.
ClipAtLine(content, budget) ==
  LET ends == {i \in 2..budget : content[i] = "nl"}
  IN  IF Len(content) <= budget THEN Len(content)
      ELSE IF ends # {} THEN Max(ends) - 1 ELSE budget

\* Variant: only the newlines of the head are counted.
HeadNewlines(content, n) == Newlines(SubSeq(content, 1, n))

\* _write_head(): the line count it reports for a head of n characters.
HeadLines(content, n) ==
  Newlines(SubSeq(content, 1, n)) + (IF n > 0 /\ content[n] = "nl" THEN 0 ELSE 1)

Size(content, n) == Envelope + Wide(SubSeq(content, 1, n)) + (IF n < Len(content) THEN Added ELSE 0)

\* max(int((cap - OVERHEAD) / EXPANSION), 1)
Budget(c) == IF c <= Overhead THEN 1
             ELSE Max({((c - Overhead) * 10) \div 11, 1})

\* Variant: the tighter cut leaves the line count as well as the hint.
CutAtFirst(content, n, hinted) ==
  [kind |-> "head", shown |-> n, lines |-> hinted - 1, next |-> hinted,
   remaining |-> Len(content) - n]

\* A cut page: the content shown, the lines reported, the line the hint names.
CutAt(content, n, hinted) ==
  [kind |-> "head", shown |-> n, lines |-> HeadLines(content, n), next |-> hinted,
   remaining |-> Len(content) - n]
Uncut(content)   == [kind |-> "whole", shown |-> Len(content), lines |-> LineCount(content),
                     next |-> 0, remaining |-> 0]
\* The middle cut of the serialised text: no JSON, no count, no line hint.
Garbled(content) == [kind |-> "garbled", shown |-> 0, lines |-> 0, next |-> 0, remaining |-> 0]

\* clip_result() with _truncate_envelope(): a prefix within the budget and, when it
\* still serialises to more than the cap, one smaller in proportion, which leaves the
\* hint of the first.  A content within the budget takes the middle cut.
Clip(content, c) ==
  LET first == ClipAtLine(content, Budget(c))
      hint  == HeadLines(content, first) + 1
      ratio == ((first + (IF first < Len(content) THEN Marker ELSE 0)) * c * 100)
                 \div (Size(content, first) * 105)
  IN  IF Envelope + Wide(content) <= c THEN Uncut(content)
      ELSE IF Len(content) <= Budget(c) THEN Garbled(content)
      ELSE IF Size(content, first) <= c THEN CutAt(content, first, hint)
      ELSE CutAt(content, ClipAtLine(content, ratio), hint)

-------------------------------------------------------------------------------
(* A reader.                                                               *)

Unread == [kind |-> "unread", shown |-> 0, lines |-> 0, next |-> 0, remaining |-> 0]

ReadInit ==
  /\ \E n \in TextSizes : text \in [1..n -> Char]
  /\ cap \in {ResolveCap(0, c, 0, 0) : c \in Caps}
  /\ by \in {"count", "hint"} /\ at = 1 /\ page = Unread
  /\ seen = {} /\ torn = FALSE

Read ==
  /\ page.kind = "unread"
  /\ LET content == Requested(text, at) IN
       /\ page' = Clip(content, cap)
       /\ seen' = seen \cup {at - 1 + k : k \in WholeLines(content, page'.shown)}
       /\ torn' = (torn \/ (page'.kind = "head" /\ Inside(content, page'.shown)))
  /\ UNCHANGED <<text, cap, by, at>>

\* The next call: past the lines reported, or from the line the hint names.
Continue ==
  /\ page.kind = "head"
  /\ at' = IF by = "count" THEN at + page.lines ELSE page.next
  /\ page' = Unread
  /\ UNCHANGED <<text, cap, by, seen, torn>>

ReadSpec == ReadInit /\ [][Read \/ Continue]_readVars /\ WF_readVars(Read \/ Continue)

-------------------------------------------------------------------------------

\* Going on behind the lines a page reports loses no line, whatever the page costs
\* in JSON, unless a line is longer than a page.  (truncation.py:136,
\* "truncated_after_local_line", which the second, tighter cut corrects.)
NoLineSkipped == by = "count" /\ ~torn => 1..at - 1 \subseteq seen

\* Nor does it call forever: every page moves on, so the reader comes to the end of
\* the file, or to a page without a count.
CountReaderEnds == by = "count" ~> page.kind \in {"whole", "garbled"}

\* The line a page's hint names is the first the page did not give.
\* (truncation.py:142, "To continue, re-call read_file with start_line=".)
HintContinues == page.kind = "head" /\ ~torn => page.next = at + page.lines

\* What is cut stays the content envelope, a prefix of the file with its count.
\* (truncation.py:48, "A content-envelope tool keeps a true prefix".)
PrefixIsKept == page.kind # "garbled"
===============================================================================
