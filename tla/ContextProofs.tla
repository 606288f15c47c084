----------------------------- MODULE ContextProofs -----------------------------
(***************************************************************************)
(* Theorems about ConversationLog and Fitting for transcripts of any       *)
(* length, any number of turns, any sizes, languages and windows.          *)
(*                                                                         *)
(* LogReplays speaks of the moment a request is out.  What carries it      *)
(* there is Follows: what a session's records replay to is what it counted *)
(* of the transcript, behind the system message.  A transcript that grows  *)
(* keeps it, a compaction is told of, and a cleared transcript (BegunAnew) *)
(* is no longer than any snapshot of the old one, so that the next is full.*)
(*                                                                         *)
(* SentFits and RefusedCannotFit are about sums of rounded quotients: the  *)
(* estimate rounds a whole history down, a summary is planned with every   *)
(* message rounded down by itself, and the provider rounds each one up.    *)
(* LinearTotals carries a bound on each item to the totals; Rounding,      *)
(* RoundingBehind and ChargedIsEstimated are the three comparisons, and    *)
(* FittingInv the invariant: what is out was within the window by the      *)
(* estimate, a ratio learned from one tokeniser is no larger than its      *)
(* largest density, and what a pending fit will leave keeps its bound      *)
(* (FitIsEstimated), since a host only makes a history smaller (StillFits).*)
(***************************************************************************)
EXTENDS ConversationLog, Fitting, TLAPS, SequenceTheorems, WellFoundedInduction

-------------------------------------------------------------------------------
(* The debug log.                                                          *)

SessionType ==
  [on : BOOLEAN, count : Nat, prompt : Nat, thinking : SUBSET Nat, turn : Nat,
   replay : Seq(Nat), shown : Nat, begun : BOOLEAN, sure : BOOLEAN]

LogTyped ==
  /\ transcript \in Seq(Nat) /\ made \in Nat
  /\ stage \in {"rest", "prepare", "out"} /\ turn \in Nat
  /\ sent \in [prompt : Nat, messages : Seq(Nat)]
  /\ logger \in [Loggers -> SessionType]

\* A logger that is off knows nothing; the prompt last shown is the last one sent; a
\* snapshot has more than the system message.
Tidy(s) ==
  /\ ~s.on => s.count = 0 /\ s.turn = 0 /\ s.thinking = {}
  /\ s.shown = s.prompt
  /\ s.count # 1 /\ (s.count > 0 => Len(s.replay) = s.count)

\* What the records of a session replay to is what it counted of the transcript, behind
\* the system message.
Follows(s, h) ==
  /\ s.count <= Len(h) + 1
  /\ \A i \in 1..s.count : s.replay[i] = IF i = 1 THEN 0 ELSE h[i - 1]

\* A cleared transcript has begun anew and is no longer than any snapshot of the
\* old one: the next is logged in full.
BegunAnew ==
  \/ stage = "rest" /\ transcript = <<>>
  \/ stage = "prepare" /\ Len(transcript) = 1

Aligned(s, h, anew) == s.sure /\ s.count > 0 => Follows(s, h) \/ anew

\* While a request is out, what was recorded of it.
Recorded(s) ==
  s.on /\ s.begun /\ s.sure => s.replay = sent.messages /\ s.shown = sent.prompt

LogInv ==
  /\ LogTyped
  /\ \A l \in Loggers : Tidy(logger[l]) /\ Aligned(logger[l], transcript, BegunAnew)
  /\ stage = "out" /\ sent.messages # <<>> => \A l \in Loggers : Recorded(logger[l])
  /\ stage = "prepare" => transcript # <<>>

LEMMA FreshTyped == Fresh \in SessionType /\ [Fresh EXCEPT !.on = FALSE] \in SessionType
<1>1. <<>> \in Seq(Nat) /\ {} \in SUBSET Nat /\ 0 \in Nat
  OBVIOUS
<1> QED
  BY <1>1 DEF Fresh, SessionType, NoPrompt

LEMMA LogInitInv == LogInit => LogInv
<1> SUFFICES ASSUME LogInit PROVE LogInv
  OBVIOUS
<1>1. \A l \in Loggers : /\ logger[l] \in SessionType /\ logger[l].count = 0
                         /\ logger[l].turn = 0 /\ logger[l].thinking = {}
                         /\ logger[l].shown = NoPrompt /\ logger[l].prompt = NoPrompt
  BY FreshTyped DEF LogInit, Fresh, Loggers
<1>2. logger \in [Loggers -> SessionType]
  BY <1>1 DEF LogInit
<1>3. LogTyped
  <2>1. <<>> \in Seq(Nat)
    OBVIOUS
  <2> QED
    BY <1>2, <2>1 DEF LogInit, LogTyped, NoPrompt
<1>4. \A l \in Loggers : Tidy(logger[l]) /\ Aligned(logger[l], transcript, BegunAnew)
  BY <1>1 DEF Tidy, Aligned
<1> QED
  BY <1>3, <1>4 DEF LogInit, LogInv

\* A session is what its parts make it.
LEMMA SessionMade ==
  ASSUME NEW on \in BOOLEAN, NEW count \in Nat, NEW prompt \in Nat,
         NEW thinking \in SUBSET Nat, NEW at \in Nat, NEW replay \in Seq(Nat),
         NEW shown \in Nat, NEW sure \in BOOLEAN
  PROVE  [on |-> on, count |-> count, prompt |-> prompt, thinking |-> thinking, turn |-> at,
          replay |-> replay, shown |-> shown, begun |-> TRUE, sure |-> sure] \in SessionType
BY DEF SessionType

\* An update of a session touches only what it names.
Untouched(s, o) ==
  /\ s.on = o.on /\ s.replay = o.replay /\ s.shown = o.shown /\ s.prompt = o.prompt
  /\ s.sure = o.sure /\ s.begun = o.begun

LEMMA CountUpdate ==
  ASSUME NEW o \in SessionType, NEW n \in Nat, NEW s, s = [o EXCEPT !.count = n]
  PROVE  /\ s \in SessionType /\ Untouched(s, o) /\ s.count = n
         /\ s.turn = o.turn /\ s.thinking = o.thinking
BY DEF SessionType, Untouched

\* A session that logged a snapshot m with the prompt p, and the session it was.
Snapshot(s, o, p, m) ==
  /\ s \in SessionType /\ s.on = o.on /\ s.turn = o.turn /\ s.thinking = o.thinking
  /\ s.count = Len(transcript) + 1 /\ s.shown = p /\ s.prompt = p
  /\ Len(s.replay) = s.count /\ (s.sure => s.replay = m /\ Follows(s, transcript))

\* A delta behind what was counted, or the whole, brings the replay to the snapshot.
LEMMA SnapshotReplays ==
  ASSUME LogTyped, NEW l \in Loggers, Tidy(logger[l]), Aligned(logger[l], transcript, BegunAnew), stage = "prepare",
         transcript # <<>>, NEW p \in Nat, NEW m \in Seq(Nat), m = << 0 >> \o transcript,
         NEW s, s = LogMessagesSent(l, p, m)
  PROVE  Snapshot(s, logger[l], p, m)
<1> DEFINE o == logger[l]
           from == DeltaFrom(l, m)
           replay == SubSeq(o.replay, 1, from) \o SubSeq(m, from + 1, Len(m))
<1>1. /\ o \in SessionType /\ o.count \in Nat /\ o.replay \in Seq(Nat) /\ o.sure \in BOOLEAN
      /\ o.prompt \in Nat
      /\ transcript \in Seq(Nat) /\ Len(transcript) \in Nat \ {0}
  BY DEF LogTyped, SessionType
<1>2. /\ Len(m) = Len(transcript) + 1
      /\ \A i \in 1..Len(m) : m[i] = IF i = 1 THEN 0 ELSE transcript[i - 1]
  BY <1>1
<1>3. from \in Nat /\ from < Len(m) /\ (from = 0 \/ (from = o.count /\ o.count < Len(m)))
  BY <1>1, <1>2 DEF DeltaFrom
<1>4. s = [o EXCEPT !.count = Len(m), !.prompt = p, !.shown = IF p # o.prompt THEN p ELSE @,
             !.replay = replay, !.begun = TRUE, !.sure = @ \/ from = 0]
  BY DEF LogMessagesSent
<1>5. o.sure /\ from # 0 => Follows(o, transcript)
  <2>1. SUFFICES ASSUME o.sure, from # 0 PROVE Follows(o, transcript)
    OBVIOUS
  <2>2. from = o.count /\ o.count > 1 /\ o.count < Len(m)
    BY <1>1, <1>3, <2>1 DEF Tidy
  <2>3. Len(transcript) # 1
    <3>1. o.count \in Nat /\ Len(transcript) \in Nat /\ Len(m) = Len(transcript) + 1
      BY <1>1, <1>2
    <3> HIDE DEF o, from
    <3> QED
      BY <2>2, <3>1
  <2>4. ~BegunAnew
    BY <2>3 DEF BegunAnew
  <2> QED
    BY <1>1, <2>1, <2>2, <2>4 DEF Aligned
<1>6. from # 0 => from = Len(o.replay)
  <2>1. o.count > 0 => Len(o.replay) = o.count
    BY DEF Tidy
  <2>2. from = 0 \/ from = o.count
    BY <1>3
  <2>3. from \in Nat
    BY <1>3
  <2> HIDE DEF o, from
  <2> QED
    BY <1>1, <2>1, <2>2, <2>3
<1> HIDE DEF o, from
<1>7. /\ SubSeq(o.replay, 1, from) \in Seq(Nat) /\ Len(SubSeq(o.replay, 1, from)) = from
      /\ \A i \in 1..from : SubSeq(o.replay, 1, from)[i] = o.replay[i]
  <2>1. from = 0 \/ from = Len(o.replay)
    BY <1>6
  <2>2. o.replay \in Seq(Nat) /\ Len(o.replay) \in Nat /\ from \in Nat
    BY <1>1, <1>3
  <2>3. 1 \in Int /\ from \in Int /\ 1 <= from + 1 /\ from <= Len(o.replay)
    BY <2>1, <2>2
  <2>4. \A i \in 1..from : o.replay[i] \in Nat
    BY <2>2, <2>3
  <2>5. /\ SubSeq(o.replay, 1, from) \in Seq(Nat) /\ Len(SubSeq(o.replay, 1, from)) = from - 1 + 1
        /\ \A i \in 1..from - 1 + 1 : SubSeq(o.replay, 1, from)[i] = o.replay[1 + i - 1]
    BY <2>2, <2>3, <2>4, SubSeqProperties
  <2>6. from - 1 + 1 = from /\ \A i \in 1..from : 1 + i - 1 = i
    BY <2>2
  <2> QED
    BY <2>5, <2>6
<1>8. /\ SubSeq(m, from + 1, Len(m)) \in Seq(Nat)
      /\ Len(SubSeq(m, from + 1, Len(m))) = Len(m) - from
      /\ \A i \in 1..Len(m) - from : SubSeq(m, from + 1, Len(m))[i] = m[from + i]
  BY <1>2, <1>3
<1>9. /\ replay \in Seq(Nat) /\ Len(replay) = Len(m)
      /\ \A i \in 1..Len(m) : replay[i] = IF i <= from THEN o.replay[i] ELSE m[i]
  <2> HIDE DEF replay
  <2> DEFINE a == SubSeq(o.replay, 1, from)
             b == SubSeq(m, from + 1, Len(m))
  <2>1. /\ replay = a \o b /\ a \in Seq(Nat) /\ b \in Seq(Nat)
        /\ Len(a) = from /\ Len(b) = Len(m) - from
        /\ \A i \in 1..from : a[i] = o.replay[i]
        /\ \A i \in 1..Len(m) - from : b[i] = m[from + i]
    BY <1>7, <1>8 DEF replay
  <2> HIDE DEF a, b
  <2>2. Len(m) \in Nat /\ from \in Nat /\ from < Len(m)
    BY <1>2, <1>3
  <2>3. /\ a \o b \in Seq(Nat) /\ Len(a \o b) = Len(m)
        /\ \A i \in 1..Len(m) : (a \o b)[i] = IF i <= from THEN a[i] ELSE b[i - from]
    <3>1. /\ a \o b \in Seq(Nat) /\ Len(a \o b) = Len(a) + Len(b)
          /\ \A i \in 1..Len(a) + Len(b) :
               (a \o b)[i] = IF i <= Len(a) THEN a[i] ELSE b[i - Len(a)]
      BY <2>1, ConcatProperties
    <3> QED
      BY <2>1, <2>2, <3>1
  <2>4. ASSUME NEW i \in 1..Len(m)
        PROVE  (a \o b)[i] = IF i <= from THEN o.replay[i] ELSE m[i]
    <3>1. CASE i <= from
      BY <2>1, <2>2, <2>3, <3>1
    <3>2. CASE ~(i <= from)
      <4>1. i - from \in 1..Len(m) - from /\ from + (i - from) = i
        BY <2>2, <3>2
      <4> QED
        BY <2>1, <2>3, <3>2, <4>1
    <3> QED
      BY <3>1, <3>2
  <2> QED
    BY <2>1, <2>3, <2>4
<1> HIDE DEF replay
<1>10. s.sure => replay = m
  <2> SUFFICES ASSUME s.sure PROVE replay = m
    OBVIOUS
  <2>1. from = 0 \/ o.sure
    BY <1>1, <1>4 DEF SessionType
  <2>2. ASSUME NEW i \in 1..Len(m)
        PROVE  replay[i] = m[i]
    <3>1. CASE i <= from
      <4>1. from # 0 /\ Follows(o, transcript) /\ from = o.count /\ i \in 1..o.count
        BY <1>2, <1>3, <1>5, <2>1, <3>1
      <4> QED
        BY <1>2, <1>9, <3>1, <4>1 DEF Follows
    <3> QED
      BY <1>9, <3>1
  <2> QED
    BY <1>9, <2>2
<1>11. s \in SessionType
  <2> DEFINE shown == IF p # o.prompt THEN p ELSE o.shown
             sure  == o.sure \/ from = 0
  <2>1. s = [on |-> o.on, count |-> Len(m), prompt |-> p, thinking |-> o.thinking,
             turn |-> o.turn, replay |-> replay, shown |-> shown, begun |-> TRUE, sure |-> sure]
    BY <1>1, <1>4 DEF SessionType
  <2>2. o.on \in BOOLEAN /\ o.thinking \in SUBSET Nat /\ o.turn \in Nat /\ o.shown \in Nat
    BY <1>1 DEF SessionType
  <2>3. shown \in Nat /\ sure \in BOOLEAN
    BY <2>2
  <2>4. Len(m) \in Nat /\ replay \in Seq(Nat)
    BY <1>9
  <2> HIDE DEF shown, sure
  <2> QED
    <3>1. [on |-> o.on, count |-> Len(m), prompt |-> p, thinking |-> o.thinking, turn |-> o.turn,
           replay |-> replay, shown |-> shown, begun |-> TRUE, sure |-> sure] \in SessionType
      BY <2>2, <2>3, <2>4, SessionMade, Zenon
    <3> QED
      BY <2>1, <3>1
<1>12. /\ s.on = o.on /\ s.turn = o.turn /\ s.thinking = o.thinking /\ s.replay = replay
       /\ s.count = Len(m) /\ s.shown = IF p # o.prompt THEN p ELSE o.shown
       /\ s.prompt = p
  BY <1>1, <1>4 DEF SessionType
<1> QED
  <2>1. Len(s.replay) = s.count /\ (s.sure => s.replay = m)
    BY <1>9, <1>10, <1>12
  <2>2. s.sure => Follows(s, transcript)
    BY <1>1, <1>2, <1>12, <2>1 DEF Follows
  <2>3. s.shown = p
    BY <1>12 DEF Tidy, o
  <2> QED
    BY <1>2, <1>11, <1>12, <2>1, <2>2, <2>3 DEF o, Snapshot

\* A transcript that only grew still holds what was counted of it.
LEMMA GrownFollows ==
  ASSUME NEW h \in Seq(Nat), NEW t \in Seq(Nat), NEW s \in SessionType, Follows(s, h)
  PROVE  Follows(s, h \o t)
<1>1. s.count \in Nat /\ Len(h) \in Nat /\ Len(h \o t) >= Len(h)
  BY DEF SessionType
<1>2. \A i \in 1..Len(h) : (h \o t)[i] = h[i]
  OBVIOUS
<1> QED
  BY <1>1, <1>2 DEF Follows

\* What a run appends.
LEMMA MakeGrows ==
  ASSUME LogTyped, NEW n \in Nat \ {0}, Make(n)
  PROVE  /\ transcript' \in Seq(Nat) /\ made' \in Nat /\ Len(transcript') = Len(transcript) + n
         /\ \A s \in SessionType : Follows(s, transcript) => Follows(s, transcript')
<1> DEFINE t == [i \in 1..n |-> made + i]
<1>1. t \in Seq(Nat) /\ Len(t) = n /\ transcript \in Seq(Nat) /\ made' = made + n /\ made \in Nat
  BY DEF LogTyped, Make
<1>2. transcript' = transcript \o t
  BY DEF Make
<1> HIDE DEF t
<1>3. transcript \o t \in Seq(Nat) /\ Len(transcript \o t) = Len(transcript) + n
  BY <1>1
<1> QED
  BY <1>1, <1>2, <1>3, GrownFollows

\* What the other handlers leave of a session.
LEMMA SessionSteps ==
  ASSUME LogTyped, NEW l \in Loggers, NEW t \in Nat
  PROVE  /\ logger[l] \in SessionType
         /\ \A s \in {LogTurnStart(l, t), LogThinking(l), LogDone(l)} :
              s \in SessionType /\ Untouched(s, logger[l]) /\ s.count = logger[l].count
         /\ LogCompacted(l) \in SessionType /\ Untouched(LogCompacted(l), logger[l])
         /\ LogCompacted(l).count = 0
         /\ LogCompacted(l).turn = logger[l].turn /\ LogCompacted(l).thinking = logger[l].thinking
<1> DEFINE o == logger[l]
           Starts(at) == [o EXCEPT !.thinking = {}, !.turn = at]
           Buffers(thinking) == [o EXCEPT !.thinking = thinking]
<1>1. o \in SessionType /\ turn \in Nat
  BY DEF LogTyped, SessionType
<1>2. o.thinking \cup {turn} \in SUBSET Nat /\ {} \in SUBSET Nat /\ 0 \in Nat
  BY <1>1 DEF SessionType
<1>3. /\ LogTurnStart(l, t) = Starts(t)
      /\ LogThinking(l) = Buffers(o.thinking \cup {turn})
      /\ LogDone(l) = Buffers({})
      /\ LogCompacted(l) = [o EXCEPT !.count = 0]
  BY DEF LogTurnStart, LogThinking, LogDone, LogCompacted
<1>4. \A thinking \in SUBSET Nat :
        /\ Buffers(thinking) \in SessionType /\ Untouched(Buffers(thinking), o)
        /\ Buffers(thinking).count = o.count
  BY <1>1 DEF SessionType, Untouched
<1>4a. \A at \in Nat :
        /\ Starts(at) \in SessionType /\ Untouched(Starts(at), o)
        /\ Starts(at).count = o.count
  BY <1>1 DEF SessionType, Untouched
<1> HIDE DEF o, Starts, Buffers
<1>5. /\ LogCompacted(l) \in SessionType /\ Untouched(LogCompacted(l), o)
      /\ LogCompacted(l).count = 0
      /\ LogCompacted(l).turn = o.turn /\ LogCompacted(l).thinking = o.thinking
  BY <1>1, <1>2, <1>3, CountUpdate
<1> QED
  BY <1>1, <1>2, <1>3, <1>4, <1>4a, <1>5 DEF o


\* Every logger that is on handles an event, the others hear nothing.
LEMMA Told ==
  ASSUME LogTyped, NEW handled, Tell(handled), \A l \in Loggers : handled[l] \in SessionType
  PROVE  /\ logger' \in [Loggers -> SessionType]
         /\ \A l \in Loggers : logger'[l] = IF logger[l].on THEN handled[l] ELSE logger[l]
BY DEF Tell, On, LogTyped

\* A session as it was, beside a transcript in which what it counted still stands.
LEMMA StaysAligned ==
  ASSUME NEW s, NEW o, Untouched(s, o), s.count = o.count, NEW h, NEW t, NEW a, NEW b,
         Aligned(o, h, a), Follows(o, h) => Follows(o, t), a => b
  PROVE  Aligned(s, t, b)
BY DEF Untouched, Aligned, Follows

LEMMA StaysTidy ==
  ASSUME NEW s, NEW o, Untouched(s, o), s.count = o.count, Tidy(o), s.on
  PROVE  Tidy(s)
BY DEF Untouched, Tidy

LEMMA LogNextInv == LogInv /\ [LogNext]_logVars => LogInv'
<1> SUFFICES ASSUME LogInv, [LogNext]_logVars
             PROVE  LogInv'
  OBVIOUS
<1>0. /\ LogTyped
      /\ \A l \in Loggers : Tidy(logger[l]) /\ Aligned(logger[l], transcript, BegunAnew)
      /\ \A l \in Loggers : logger[l] \in SessionType
      /\ transcript \in Seq(Nat) /\ turn \in Nat /\ made \in Nat
      /\ sent \in [prompt : Nat, messages : Seq(Nat)]
  BY DEF LogInv, LogTyped
\* The sessions as they were, beside a transcript that is as it was or longer.
<1>a. ASSUME NEW handled, Tell(handled), stage' \in {"rest", "prepare", "out"}, turn' \in Nat,
             UNCHANGED sent, stage' = "out" => stage = "out",
             stage' = "prepare" => transcript' # <<>>,
             transcript' \in Seq(Nat), made' \in Nat, BegunAnew => BegunAnew',
             \A l \in Loggers : /\ handled[l] \in SessionType /\ Untouched(handled[l], logger[l])
                                /\ handled[l].count = logger[l].count,
             \A s \in SessionType : Follows(s, transcript) => Follows(s, transcript')
      PROVE  LogInv'
  <2>1. /\ logger' \in [Loggers -> SessionType]
        /\ \A l \in Loggers : logger'[l] = IF logger[l].on THEN handled[l] ELSE logger[l]
    BY <1>0, <1>a, Told
  <2>2. ASSUME NEW l \in Loggers
        PROVE  /\ Tidy(logger[l])' /\ Aligned(logger[l], transcript, BegunAnew)'
               /\ Recorded(logger[l]) => Recorded(logger[l])'
    <3>1. Untouched(logger'[l], logger[l]) /\ logger'[l].count = logger[l].count
      BY <1>a, <2>1 DEF Untouched
    <3>2. Tidy(logger'[l])
      BY <1>0, <1>a, <2>1, <3>1, StaysTidy DEF Untouched
    <3>3. Aligned(logger'[l], transcript', BegunAnew')
      BY <1>0, <1>a, <3>1, StaysAligned
    <3>4. Recorded(logger[l]) => Recorded(logger[l])'
      BY <1>a, <3>1 DEF Recorded, Untouched
    <3> QED
      BY <3>2, <3>3, <3>4 DEF Tidy, Aligned, Follows
  <2> QED
    BY <1>0, <1>a, <2>1, <2>2 DEF LogInv, LogTyped
\* A logger that is made or switched on, at rest; the other ones as they were.
<1>b. ASSUME NEW l \in Loggers, NEW s \in SessionType, logger' = [logger EXCEPT ![l] = s],
             Tidy(s), s.count = 0, stage = "rest",
             UNCHANGED <<transcript, made, stage, turn, sent>>
      PROVE  LogInv'
  <2>1. logger' \in [Loggers -> SessionType] /\ logger'[l] = s
        /\ \A k \in Loggers : k # l => logger'[k] = logger[k]
    BY <1>0, <1>b DEF LogTyped
  <2>2. ASSUME NEW k \in Loggers
        PROVE  Tidy(logger[k])' /\ Aligned(logger[k], transcript, BegunAnew)'
    BY <1>0, <1>b, <2>1 DEF Tidy, Aligned, Follows, BegunAnew
  <2> QED
    BY <1>0, <1>b, <2>1, <2>2 DEF LogInv, LogTyped
<1>1. CASE Attach
  <2> DEFINE s == [logger["attached"] EXCEPT !.on = TRUE]
  <2>1. "attached" \in Loggers
    BY DEF Loggers
  <2>2. /\ ~logger["attached"].on /\ stage = "rest"
        /\ logger' = [logger EXCEPT !["attached"] = s]
        /\ UNCHANGED <<transcript, made, stage, turn, sent>>
    BY <1>0, <1>1, <2>1 DEF Attach, LogTyped
  <2>3. s \in SessionType /\ Tidy(s) /\ s.count = 0
    BY <1>0, <2>1, <2>2 DEF SessionType, Tidy
  <2> HIDE DEF s
  <2> QED
    BY <1>b, <2>1, <2>2, <2>3
<1>2. ASSUME NEW n \in 1..MaxResults, Run(n)
      PROVE  LogInv'
  <2>1. /\ stage = "rest" /\ stage' = "prepare" /\ turn' = 1 /\ sent' = sent /\ Make(n)
        /\ Tell([l \in Loggers |-> LogTurnStart(l, 1)])
        /\ n = 1 \/ transcript # <<>>
    BY <1>2 DEF Run
  <2>2. /\ transcript' \in Seq(Nat) /\ made' \in Nat /\ Len(transcript') = Len(transcript) + n
        /\ \A s \in SessionType : Follows(s, transcript) => Follows(s, transcript')
    <3>1. n \in Nat \ {0}
      BY LogAssumption DEF LogAssumption
    <3> QED
      BY <1>0, <2>1, <3>1, MakeGrows
  <2>3. transcript' # <<>> /\ (BegunAnew => BegunAnew')
    <3>1. n \in Nat \ {0}
      BY LogAssumption DEF LogAssumption
    <3> QED
      BY <1>0, <2>1, <2>2, <3>1 DEF BegunAnew
  <2>4. \A l \in Loggers : /\ LogTurnStart(l, 1) \in SessionType
                           /\ Untouched(LogTurnStart(l, 1), logger[l])
                           /\ LogTurnStart(l, 1).count = logger[l].count
    BY <1>0, SessionSteps
  <2> QED
    BY <1>a, <2>1, <2>2, <2>3, <2>4
\* Told of a compaction, a logger has counted nothing.
<1>c. ASSUME Tell([l \in Loggers |-> LogCompacted(l)]), UNCHANGED <<turn, sent>>,
             stage' = stage \/ stage' = "prepare",
             transcript' \in Seq(Nat), made' \in Nat, stage' = "prepare" => transcript' # <<>>
      PROVE  LogInv'
  <2>1. /\ logger' \in [Loggers -> SessionType]
        /\ \A l \in Loggers : logger'[l] = IF logger[l].on THEN LogCompacted(l) ELSE logger[l]
    BY <1>0, <1>c, SessionSteps, Told
  <2>2. ASSUME NEW l \in Loggers
        PROVE  /\ Tidy(logger[l])' /\ Aligned(logger[l], transcript, BegunAnew)'
               /\ Recorded(logger[l]) => Recorded(logger[l])'
    <3>1. Untouched(logger'[l], logger[l]) /\ logger'[l].count = 0
      BY <1>0, <2>1, SessionSteps DEF Untouched, Tidy
    <3>2. Tidy(logger'[l])
      BY <1>0, <2>1, <3>1 DEF Tidy, Untouched
    <3> QED
      BY <1>c, <3>1, <3>2 DEF Aligned, Recorded, Untouched, Tidy
  <2> QED
    BY <1>0, <1>c, <2>1, <2>2 DEF LogInv, LogTyped
<1>3. CASE Compact \/ Overflow
  <2>1. /\ transcript # <<>> /\ transcript' \in Rewritten /\ made' = made + 1
        /\ Tell([l \in Loggers |-> LogCompacted(l)]) /\ UNCHANGED <<turn, sent>>
        /\ stage' = stage \/ stage' = "prepare"
    BY <1>3 DEF Compact, Overflow, Rewrite
  <2>2. transcript' \in Seq(Nat) /\ transcript' # <<>>
    <3>1. CASE \E n \in 1..Len(transcript) :
                 transcript' = <<made + 1>> \o SubSeq(transcript, n + 1, Len(transcript))
      <4>1. PICK n \in 1..Len(transcript) :
              transcript' = <<made + 1>> \o SubSeq(transcript, n + 1, Len(transcript))
        BY <3>1
      <4>2. n + 1 \in Int /\ Len(transcript) \in Int /\ made + 1 \in Nat
            /\ \A i \in n + 1..Len(transcript) : transcript[i] \in Nat
        BY <1>0
      <4>3. /\ SubSeq(transcript, n + 1, Len(transcript)) \in Seq(Nat)
            /\ <<made + 1>> \in Seq(Nat) /\ Len(<<made + 1>>) = 1
        BY <4>2, SubSeqProperties
      <4>4. /\ transcript' \in Seq(Nat)
            /\ Len(transcript') = 1 + Len(SubSeq(transcript, n + 1, Len(transcript)))
        <5> DEFINE front == <<made + 1>>
                   back == SubSeq(transcript, n + 1, Len(transcript))
        <5>1. transcript' = front \o back /\ front \in Seq(Nat) /\ back \in Seq(Nat) /\ Len(front) = 1
          BY <4>1, <4>3
        <5> HIDE DEF front, back
        <5>2. transcript' \in Seq(Nat) /\ Len(transcript') = 1 + Len(back)
          BY <5>1, ConcatProperties
        <5> QED
          BY <5>2 DEF back
      <4>5. Len(SubSeq(transcript, n + 1, Len(transcript))) \in Nat /\ Len(<<>>) = 0
        BY <4>3
      <4> QED
        BY <4>4, <4>5
    <3>2. CASE \E n \in 1..Len(transcript) : transcript' = [transcript EXCEPT ![n] = made + 1]
      BY <1>0, <2>1, <3>2
    <3> QED
      BY <2>1, <3>1, <3>2 DEF Rewritten
  <2> QED
    BY <1>0, <1>c, <2>1, <2>2
<1>4. CASE CompactDeclined
  BY <1>0, <1>4, <1>c DEF CompactDeclined, LogInv
<1>5. CASE Think
  <2>1. /\ stage = "out" /\ Tell([l \in Loggers |-> LogThinking(l)])
        /\ UNCHANGED <<transcript, made, stage, turn, sent>>
    BY <1>5 DEF Think
  <2>2. \A l \in Loggers : /\ LogThinking(l) \in SessionType /\ Untouched(LogThinking(l), logger[l])
                           /\ LogThinking(l).count = logger[l].count
    BY <1>0, SessionSteps
  <2> QED
    BY <1>0, <1>a, <2>1, <2>2 DEF BegunAnew
<1>6. CASE TextReply
  <2>1. /\ stage = "out" /\ stage' = "rest" /\ turn' = turn /\ sent' = sent /\ Make(1)
        /\ Tell([l \in Loggers |-> LogDone(l)])
    BY <1>6 DEF TextReply
  <2>2. /\ transcript' \in Seq(Nat) /\ made' \in Nat /\ Len(transcript') = Len(transcript) + 1
        /\ \A s \in SessionType : Follows(s, transcript) => Follows(s, transcript')
    BY <1>0, <2>1, MakeGrows
  <2>4. \A l \in Loggers : /\ LogDone(l) \in SessionType /\ Untouched(LogDone(l), logger[l])
                           /\ LogDone(l).count = logger[l].count
    BY <1>0, SessionSteps
  <2> QED
    BY <1>0, <1>a, <2>1, <2>2, <2>4 DEF BegunAnew
\* A run that ends, whatever was announced of it.
<1>d. ASSUME NEW handled, Tell([l \in Loggers |-> Doubted(handled[l])]),
             stage \in {"prepare", "out"}, stage' = "rest", UNCHANGED <<turn, sent>>,
             transcript' \in Seq(Nat), made' \in Nat,
             \A l \in Loggers : /\ handled[l] \in SessionType /\ Untouched(handled[l], logger[l])
                                /\ handled[l].count = logger[l].count,
             \A s \in SessionType : Follows(s, transcript) => Follows(s, transcript')
      PROVE  LogInv'
  <2>1. ASSUME NEW l \in Loggers
        PROVE  /\ Doubted(handled[l]) \in SessionType
               /\ Doubted(handled[l]).on = logger[l].on /\ Doubted(handled[l]).count = logger[l].count
               /\ Doubted(handled[l]).replay = logger[l].replay
               /\ Doubted(handled[l]).shown = logger[l].shown
               /\ Doubted(handled[l]).prompt = logger[l].prompt
               /\ Doubted(handled[l]).sure => logger[l].sure /\ ~Unsent
    <3>1. PICK o \in SessionType : o = handled[l]
      BY <1>d
    <3>2. PICK sure \in BOOLEAN : sure = (o.sure /\ ~Unsent)
      BY <3>1 DEF SessionType
    <3>3. Doubted(o) = [o EXCEPT !.sure = sure]
      BY <3>2 DEF Doubted
    <3> HIDE DEF Doubted
    <3>4. /\ Doubted(o) \in SessionType /\ Doubted(o).on = o.on /\ Doubted(o).count = o.count
          /\ Doubted(o).replay = o.replay /\ Doubted(o).shown = o.shown
          /\ Doubted(o).prompt = o.prompt /\ Doubted(o).sure = sure
      BY <3>3 DEF SessionType
    <3> QED
      BY <1>d, <3>1, <3>2, <3>4 DEF Untouched
  <2>2. /\ logger' \in [Loggers -> SessionType]
        /\ \A l \in Loggers : logger'[l] = IF logger[l].on THEN Doubted(handled[l]) ELSE logger[l]
    BY <1>0, <1>d, <2>1, Told
  <2>3. ASSUME NEW l \in Loggers
        PROVE  Tidy(logger[l])' /\ Aligned(logger[l], transcript, BegunAnew)'
    <3>1. CASE ~logger[l].on
      <4>1. logger'[l] = logger[l] /\ logger[l].count = 0 /\ Tidy(logger[l])
        BY <1>0, <2>2, <3>1 DEF Tidy
      <4> QED
        BY <4>1 DEF Tidy, Aligned
    <3>2. CASE logger[l].on
      <4> DEFINE n == logger'[l]
                 o == logger[l]
      <4>1. /\ n.on = o.on /\ n.count = o.count /\ n.replay = o.replay /\ n.shown = o.shown
            /\ n.prompt = o.prompt /\ (n.sure => o.sure /\ ~Unsent) /\ o.on
            /\ n \in SessionType /\ o \in SessionType
            /\ Tidy(o) /\ Aligned(o, transcript, BegunAnew)
        BY <1>0, <2>1, <2>2, <3>2
      <4> HIDE DEF n, o
      <4>2. Tidy(n)
        BY <4>1 DEF Tidy
      <4>3. n.sure /\ n.count > 0 => Follows(n, transcript')
        <5> SUFFICES ASSUME n.sure, n.count > 0 PROVE Follows(n, transcript')
          OBVIOUS
        <5>1. ~BegunAnew
          BY <1>d, <4>1 DEF BegunAnew, Unsent
        <5>2. Follows(o, transcript)
          BY <4>1, <5>1 DEF Aligned
        <5>3. Follows(o, transcript')
          BY <1>d, <4>1, <5>2
        <5> QED
          BY <4>1, <5>3 DEF Follows
      <4> QED
        BY <4>2, <4>3 DEF n, Tidy, Aligned, Follows
    <3> QED
      BY <3>1, <3>2
  <2> QED
    BY <1>0, <1>d, <2>2, <2>3 DEF LogInv, LogTyped
<1>7. CASE Abort
  <2>1. /\ stage \in {"prepare", "out"} /\ stage' = "rest" /\ UNCHANGED <<transcript, made, turn, sent>>
        /\ Tell([l \in Loggers |-> Doubted(LogDone(l))])
    BY <1>7 DEF Abort
  <2> DEFINE handled == [l \in Loggers |-> LogDone(l)]
  <2>2. Tell([l \in Loggers |-> Doubted(handled[l])])
    BY <2>1 DEF Tell, On
  <2>3. \A l \in Loggers : /\ handled[l] \in SessionType /\ Untouched(handled[l], logger[l])
                           /\ handled[l].count = logger[l].count
    BY <1>0, SessionSteps
  <2> HIDE DEF handled
  <2> QED
    BY <1>0, <1>d, <2>1, <2>2, <2>3
<1>13. ASSUME NEW n \in {0, 1}, Escape(n)
       PROVE  LogInv'
  <2>1. /\ stage \in {"prepare", "out"} /\ stage' = "rest" /\ UNCHANGED <<turn, sent>> /\ Make(n)
        /\ Tell([l \in Loggers |-> Doubted(logger[l])])
    BY <1>13 DEF Escape
  <2>2. \A l \in Loggers : /\ logger[l] \in SessionType /\ Untouched(logger[l], logger[l])
    BY <1>0 DEF Untouched
  <2>3. /\ transcript' \in Seq(Nat) /\ made' \in Nat
        /\ \A s \in SessionType : Follows(s, transcript) => Follows(s, transcript')
    <3>1. CASE n = 0
      <4>1. made' = made /\ transcript' = transcript \o <<>>
        BY <1>0, <2>1, <3>1 DEF Make
      <4>2. transcript' = transcript
        BY <1>0, <4>1
      <4> QED
        BY <1>0, <4>1, <4>2
    <3>2. CASE n = 1
      BY <1>0, <2>1, <3>2, MakeGrows
    <3> QED
      BY <3>1, <3>2
  <2> QED
    BY <1>d, <2>1, <2>2, <2>3
<1>14. ASSUME NEW n \in 1..MaxResults, AbortBatch(n)
       PROVE  LogInv'
  <2>1. /\ stage = "out" /\ stage' = "rest" /\ turn' = turn /\ sent' = sent /\ Make(n + 1)
        /\ Tell([l \in Loggers |-> LogDone(l)])
    BY <1>14 DEF AbortBatch
  <2>2. n + 1 \in Nat \ {0}
    BY LogAssumption DEF LogAssumption
  <2>3. /\ transcript' \in Seq(Nat) /\ made' \in Nat
        /\ \A s \in SessionType : Follows(s, transcript) => Follows(s, transcript')
    BY <1>0, <2>1, <2>2, MakeGrows
  <2>4. \A l \in Loggers : /\ LogDone(l) \in SessionType /\ Untouched(LogDone(l), logger[l])
                           /\ LogDone(l).count = logger[l].count
    BY <1>0, SessionSteps
  <2> QED
    BY <1>0, <1>a, <2>1, <2>3, <2>4 DEF BegunAnew
<1>8. CASE ClearLogged
  <2>1. /\ stage \in {"rest", "out"} /\ transcript' = <<>> /\ UNCHANGED <<made, stage, turn>>
        /\ sent' = [sent EXCEPT !.messages = <<>>]
        /\ logger' = [logger EXCEPT !["own"] = IF @.on THEN Rolled ELSE @,
                                    !["attached"].sure = @ /\ stage = "rest"]
    BY <1>8 DEF ClearLogged
  <2> DEFINE sure == logger["attached"].sure /\ stage = "rest"
             own  == IF logger["own"].on THEN Rolled ELSE logger["own"]
             att  == [logger["attached"] EXCEPT !.sure = sure]
  <2>2. sure \in BOOLEAN
    BY <1>0 DEF SessionType, Loggers
  <2>3. own \in SessionType /\ Tidy(own) /\ own.count = 0
    BY <1>0, FreshTyped DEF Rolled, Fresh, Tidy, NoPrompt, Loggers
  <2>4. /\ att \in SessionType /\ att.sure = sure /\ att.on = logger["attached"].on
        /\ Tidy(att)
    BY <1>0, <2>2 DEF SessionType, Loggers, Tidy
  <2>5. logger' = [l \in Loggers |-> IF l = "own" THEN own ELSE att]
    BY <1>0, <2>1 DEF Loggers, LogTyped
  <2> HIDE DEF own, att
  <2>a. <<>> \in Seq(Nat)
    OBVIOUS
  <2>6. sent' \in [prompt : Nat, messages : Seq(Nat)] /\ sent'.messages = <<>>
    BY <1>0, <2>1, <2>a
  <2>7. logger' \in [Loggers -> SessionType] /\ \A l \in Loggers : logger'[l] \in {own, att}
    BY <2>3, <2>4, <2>5
  <2>8. Aligned(att, transcript', BegunAnew')
    BY <2>1, <2>4 DEF Aligned, BegunAnew
  <2>9. Aligned(own, transcript', BegunAnew')
    BY <2>3 DEF Aligned
  <2>10. \A l \in Loggers : Tidy(logger'[l]) /\ Aligned(logger'[l], transcript', BegunAnew')
    BY <2>3, <2>4, <2>7, <2>8, <2>9
  <2>11. LogTyped'
    BY <1>0, <2>1, <2>6, <2>7 DEF LogTyped
  <2> QED
    BY <2>1, <2>6, <2>10, <2>11 DEF LogInv, Tidy, Aligned, Follows
<1>9. ASSUME NEW on \in BOOLEAN, SetLogDir(on)
      PROVE  LogInv'
  <2>1. [Fresh EXCEPT !.on = on] \in SessionType /\ Tidy([Fresh EXCEPT !.on = on])
        /\ [Fresh EXCEPT !.on = on].count = 0
    BY FreshTyped DEF SessionType, Fresh, Tidy, NoPrompt
  <2> QED
    BY <1>b, <1>9, <2>1 DEF SetLogDir, Loggers
<1>10. ASSUME NEW p \in Prompts, Send(p)
       PROVE  LogInv'
  <2> DEFINE m == <<0>> \o transcript
  <2>1. /\ stage = "prepare" /\ stage' = "out" /\ UNCHANGED <<transcript, made, turn>>
        /\ sent' = [prompt |-> p, messages |-> m]
        /\ Tell([l \in Loggers |-> LogMessagesSent(l, p, m)])
    BY <1>10 DEF Send
  <2>2. p \in Nat /\ m \in Seq(Nat) /\ transcript # <<>>
    BY <1>0, <1>10, <2>1, LogAssumption DEF LogAssumption, LogInv
  <2>b. m = <<0>> \o transcript
    OBVIOUS
  <2> HIDE DEF m
  <2> DEFINE S == [l \in Loggers |-> LogMessagesSent(l, p, m)]
  <2>c. \A l \in Loggers : S[l] = LogMessagesSent(l, p, m)
    OBVIOUS
  <2>d. Tell(S)
    BY <2>1
  <2> HIDE DEF S
  <2>3. ASSUME NEW l \in Loggers
        PROVE  /\ S[l] \in SessionType /\ (S[l].on => Tidy(S[l])) /\ S[l].on = logger[l].on
               /\ Aligned(S[l], transcript, FALSE)
               /\ S[l].sure => S[l].replay = m
               /\ S[l].shown = p
    <3>1. Tidy(logger[l]) /\ Aligned(logger[l], transcript, BegunAnew)
      BY <1>0
    <3>2. Snapshot(S[l], logger[l], p, m)
      <4>1. LogTyped /\ stage = "prepare" /\ transcript # <<>> /\ p \in Nat /\ m \in Seq(Nat)
            /\ S[l] = LogMessagesSent(l, p, m)
        BY <1>0, <2>1, <2>2, <2>c
      <4> QED
        BY <2>b, <3>1, <4>1, SnapshotReplays, ZenonT(60)
    <3>3. Len(transcript) \in Nat \ {0} /\ Len(m) = Len(transcript) + 1
      BY <1>0, <2>2, <2>b
    <3> QED
      BY <3>1, <3>2, <3>3 DEF Tidy, Aligned, Snapshot
  <2>4. /\ logger' \in [Loggers -> SessionType]
        /\ \A l \in Loggers : logger'[l] = IF logger[l].on THEN S[l] ELSE logger[l]
    BY <1>0, <2>d, <2>3, Told
  <2>5. ASSUME NEW l \in Loggers
        PROVE  Tidy(logger'[l]) /\ Aligned(logger'[l], transcript', BegunAnew') /\ Recorded(logger[l])'
    BY <1>0, <2>1, <2>3, <2>4 DEF Tidy, Aligned, Recorded
  <2>6. LogTyped'
    BY <1>0, <2>1, <2>2, <2>4 DEF LogTyped
  <2> QED
    BY <2>1, <2>5, <2>6 DEF LogInv, Tidy, Aligned, Follows
<1>11. ASSUME NEW n \in 1..MaxResults, CallsReply(n)
       PROVE  LogInv'
  <2>1. /\ stage = "out" /\ stage' = "prepare" /\ turn' = turn + 1 /\ sent' = sent /\ Make(n + 1)
        /\ Tell([l \in Loggers |-> LogTurnStart(l, turn + 1)])
    BY <1>11 DEF CallsReply
  <2>2. n + 1 \in Nat \ {0} /\ turn + 1 \in Nat
    BY <1>0, LogAssumption DEF LogAssumption
  <2>3. /\ transcript' \in Seq(Nat) /\ made' \in Nat /\ Len(transcript') = Len(transcript) + (n + 1)
        /\ \A s \in SessionType : Follows(s, transcript) => Follows(s, transcript')
    BY <1>0, <2>1, <2>2, MakeGrows
  <2>4. transcript' # <<>> /\ ~BegunAnew
    BY <1>0, <2>1, <2>2, <2>3 DEF BegunAnew
  <2>5. \A l \in Loggers : /\ LogTurnStart(l, turn + 1) \in SessionType
                           /\ Untouched(LogTurnStart(l, turn + 1), logger[l])
                           /\ LogTurnStart(l, turn + 1).count = logger[l].count
    BY <1>0, <2>2, SessionSteps
  <2> QED
    BY <1>a, <2>1, <2>2, <2>3, <2>4, <2>5
<1>12. CASE UNCHANGED logVars
  <2>1. /\ transcript' = transcript /\ made' = made /\ stage' = stage /\ turn' = turn
        /\ sent' = sent /\ logger' = logger
    BY <1>12 DEF logVars
  <2>2. LogTyped'
    BY <1>0, <2>1 DEF LogTyped
  <2>3. BegunAnew' = BegunAnew
    BY <2>1 DEF BegunAnew
  <2>4. \A l \in Loggers : Tidy(logger[l])' /\ Aligned(logger[l], transcript, BegunAnew)'
    BY <1>0, <2>1, <2>3 DEF Tidy, Aligned, Follows
  <2>5. \A l \in Loggers : Recorded(logger[l])' = Recorded(logger[l])
    BY <2>1 DEF Recorded
  <2> QED
    BY <2>1, <2>2, <2>4, <2>5 DEF LogInv
<1> QED
  BY <1>1, <1>2, <1>3, <1>4, <1>5, <1>6, <1>7, <1>8, <1>9, <1>10, <1>11, <1>12, <1>13, <1>14
     DEF LogNext

\* Whatever is appended, compacted, cleared or attached in whichever order, the records
\* of a session replay to the request that is out (_log_messages_sent, on_compacted,
\* roll_session), a clear in the middle of a request apart.
THEOREM RecordsReplay == LogSpec => []LogReplays
<1>1. LogInv => LogReplays
  BY DEF LogInv, LogReplays, Recorded, On
<1> QED
  BY <1>1, LogInitInv, LogNextInv, PTL DEF LogSpec

\* What is buffered was thought in the turn its logger is in, or in one that began before
\* the session and has no number; during a run that is the run's turn.
InTurn(s) ==
  /\ \A t \in s.thinking : s.turn \in {t, 0}
  /\ stage \in {"prepare", "out"} => s.turn \in {turn, 0}

TurnInv == (\A l \in Loggers : InTurn(logger[l])) /\ ThinkingKeepsTurn

\* What an action may do to a logger: nothing that concerns turns, the thinking of this
\* turn, an empty buffer in the turn that begins, or a session without a number.
Turned(s, o) ==
  \/ s.turn = o.turn /\ s.thinking = o.thinking /\ (stage' = "rest" \/ UNCHANGED <<stage, turn>>)
  \/ s.turn = o.turn /\ s.thinking = {} /\ stage' = "rest"
  \/ s.turn = o.turn /\ s.thinking = o.thinking /\ stage \in {"prepare", "out"} /\ turn' = turn
  \/ s.turn = o.turn /\ s.thinking = o.thinking \cup {turn}
     /\ stage = "out" /\ UNCHANGED <<stage, turn>>
  \/ s.turn = turn' /\ s.thinking = {}
  \/ s.turn = 0 /\ s.thinking = {}

LEMMA TurnedStep ==
  ASSUME LogTyped, TurnInv, NEW ls \in SUBSET Loggers,
         \A l \in Loggers : Turned(logger'[l], logger[l]),
         labels' = labels \/ Write(ls)
  PROVE  TurnInv'
<1>1. ASSUME NEW l \in Loggers
      PROVE  InTurn(logger[l])'
  BY <1>1 DEF TurnInv, InTurn, Turned
<1>2. ASSUME NEW l \in Loggers, NEW pair \in Flushed(l)
      PROVE  pair[2] \in {pair[1], 0}
  BY <1>2 DEF Flushed, TurnInv, InTurn
<1>3. ThinkingKeepsTurn'
  <2>1. \A pair \in labels' : pair \in labels \/ \E l \in Loggers : pair \in Flushed(l)
    BY DEF Write
  <2> QED
    BY <1>2, <2>1 DEF TurnInv, ThinkingKeepsTurn
<1> QED
  BY <1>1, <1>3 DEF TurnInv

\* What the handlers make of the buffer and the turn.
LEMMA HandledTurns ==
  ASSUME LogTyped, NEW l \in Loggers, NEW t \in Nat
  PROVE  /\ LogTurnStart(l, t).turn = t /\ LogTurnStart(l, t).thinking = {}
         /\ LogThinking(l).turn = logger[l].turn
         /\ LogThinking(l).thinking = logger[l].thinking \cup {turn}
         /\ LogDone(l).turn = logger[l].turn /\ LogDone(l).thinking = {}
<1> DEFINE o == logger[l]
<1>1. o \in SessionType
  BY DEF LogTyped
<1> HIDE DEF o
<1>2. /\ LogTurnStart(l, t) = [o EXCEPT !.thinking = {}, !.turn = t]
      /\ LogThinking(l) = [o EXCEPT !.thinking = o.thinking \cup {turn}]
      /\ LogDone(l) = [o EXCEPT !.thinking = {}]
  BY DEF LogTurnStart, LogThinking, LogDone, o
<1>3. \A thinking : /\ [o EXCEPT !.thinking = thinking].turn = o.turn
                    /\ [o EXCEPT !.thinking = thinking].thinking = thinking
  BY <1>1 DEF SessionType
<1>4. /\ [o EXCEPT !.thinking = {}, !.turn = t].turn = t
      /\ [o EXCEPT !.thinking = {}, !.turn = t].thinking = {}
  BY <1>1 DEF SessionType
<1> QED
  BY <1>2, <1>3, <1>4 DEF o

LEMMA LogNextTurn == LogInv /\ TurnInv /\ [LogNext]_logVars => TurnInv'
<1> SUFFICES ASSUME LogInv, TurnInv, [LogNext]_logVars
             PROVE  TurnInv'
  OBVIOUS
<1>0. /\ LogTyped /\ turn \in Nat
      /\ \A l \in Loggers : logger[l] \in SessionType
      /\ \A l \in Loggers : ~logger[l].on => logger[l].turn = 0 /\ logger[l].thinking = {}
  BY DEF LogInv, LogTyped, Tidy
\* A logger hears of an event if it is on.
<1>a. ASSUME NEW handled, Tell(handled)
      PROVE  \A l \in Loggers : logger'[l] = IF logger[l].on THEN handled[l] ELSE logger[l]
  BY <1>a DEF Tell, On
<1>1. CASE Attach
  <2>1. ASSUME NEW l \in Loggers
        PROVE  logger'[l].turn = logger[l].turn /\ logger'[l].thinking = logger[l].thinking
    BY <1>0, <1>1 DEF Attach, LogTyped, SessionType
  <2> QED
    BY <1>0, <1>1, <2>1, TurnedStep DEF Attach, Turned
<1>2. ASSUME NEW n \in 1..MaxResults, Run(n)
      PROVE  TurnInv'
  <2>1. \A l \in Loggers : Turned(logger'[l], logger[l])
    BY <1>0, <1>2, <1>a, HandledTurns DEF Run, Turned
  <2> QED
    BY <1>0, <1>2, <2>1, TurnedStep DEF Run, On
<1>b. ASSUME Tell([l \in Loggers |-> LogCompacted(l)]), UNCHANGED <<turn, labels>>,
             stage' = stage \/ stage = "out"
      PROVE  TurnInv'
  <2>1. \A l \in Loggers : Turned(logger'[l], logger[l])
    BY <1>0, <1>a, <1>b, SessionSteps DEF Turned
  <2> QED
    BY <1>0, <1>b, <2>1, TurnedStep
<1>3. CASE Compact \/ Overflow
  BY <1>3, <1>b DEF Compact, Overflow, Rewrite
<1>4. CASE CompactDeclined
  BY <1>4, <1>b DEF CompactDeclined
<1>5. CASE Think
  <2>1. \A l \in Loggers : Turned(logger'[l], logger[l])
    BY <1>0, <1>5, <1>a, HandledTurns DEF Think, Turned
  <2> QED
    BY <1>0, <1>5, <2>1, TurnedStep DEF Think
<1>6. CASE TextReply
  <2>1. \A l \in Loggers : Turned(logger'[l], logger[l])
    BY <1>0, <1>6, <1>a, HandledTurns DEF TextReply, Turned
  <2> QED
    BY <1>0, <1>6, <2>1, TurnedStep DEF TextReply, On
\* Doubt concerns neither the buffer nor the turn.
<1>d. ASSUME NEW s \in SessionType
      PROVE  Doubted(s).turn = s.turn /\ Doubted(s).thinking = s.thinking
  BY DEF Doubted, SessionType
<1>7. CASE Abort
  <2>1. \A l \in Loggers : LogDone(l) \in SessionType
    BY <1>0, SessionSteps
  <2>2. \A l \in Loggers : Turned(logger'[l], logger[l])
    BY <1>0, <1>7, <1>a, <1>d, <2>1, HandledTurns DEF Abort, Turned
  <2> QED
    BY <1>0, <1>7, <2>2, TurnedStep DEF Abort, On
<1>13. ASSUME NEW n \in {0, 1}, Escape(n)
       PROVE  TurnInv'
  <2>1. \A l \in Loggers : Turned(logger'[l], logger[l])
    BY <1>0, <1>13, <1>a, <1>d DEF Escape, Turned
  <2> QED
    BY <1>0, <1>13, <2>1, TurnedStep DEF Escape
<1>14. ASSUME NEW n \in 1..MaxResults, AbortBatch(n)
       PROVE  TurnInv'
  <2>1. \A l \in Loggers : Turned(logger'[l], logger[l])
    BY <1>0, <1>14, <1>a, HandledTurns DEF AbortBatch, Turned
  <2> QED
    BY <1>0, <1>14, <2>1, TurnedStep DEF AbortBatch, On
<1>8. CASE ClearLogged
  <2>1. /\ UNCHANGED <<stage, turn>> /\ Write(On \cap {"own"})
        /\ logger' = [logger EXCEPT !["own"] = IF @.on THEN Rolled ELSE @,
                                    !["attached"].sure = @ /\ stage = "rest"]
    BY <1>8 DEF ClearLogged
  <2>2. logger'["own"] = IF logger["own"].on THEN Rolled ELSE logger["own"]
    BY <1>0, <2>1 DEF LogTyped, Loggers
  <2>3. /\ logger'["attached"].turn = logger["attached"].turn
        /\ logger'["attached"].thinking = logger["attached"].thinking
    <3>1. logger'["attached"] = [logger["attached"] EXCEPT !.sure = @ /\ stage = "rest"]
      BY <1>0, <2>1 DEF LogTyped, Loggers
    <3> QED
      BY <1>0, <3>1 DEF SessionType, Loggers
  <2>4. Rolled.turn = 0 /\ Rolled.thinking = {}
    BY DEF Rolled, Fresh
  <2>5. \A l \in Loggers : Turned(logger'[l], logger[l])
    BY <2>1, <2>2, <2>3, <2>4 DEF Turned, Loggers
  <2> QED
    BY <1>0, <2>1, <2>5, TurnedStep DEF On
<1>9. ASSUME NEW on \in BOOLEAN, SetLogDir(on)
      PROVE  TurnInv'
  <2>1. [Fresh EXCEPT !.on = on].turn = 0 /\ [Fresh EXCEPT !.on = on].thinking = {}
    BY DEF Fresh
  <2>2. logger' = [logger EXCEPT !["own"] = [Fresh EXCEPT !.on = on]]
        /\ UNCHANGED <<stage, turn, labels>>
    BY <1>9 DEF SetLogDir
  <2>3. \A l \in Loggers : logger'[l] = IF l = "own" THEN [Fresh EXCEPT !.on = on] ELSE logger[l]
    BY <1>0, <2>2 DEF LogTyped
  <2>4. \A l \in Loggers : Turned(logger'[l], logger[l])
    BY <2>1, <2>2, <2>3 DEF Turned
  <2> QED
    BY <1>0, <2>2, <2>4, TurnedStep
<1>10. ASSUME NEW p \in Prompts, Send(p)
       PROVE  TurnInv'
  <2> DEFINE m == <<0>> \o transcript
  <2>1. /\ stage = "prepare" /\ UNCHANGED <<turn, labels>>
        /\ Tell([l \in Loggers |-> LogMessagesSent(l, p, m)])
    BY <1>10 DEF Send
  <2>2. p \in Nat /\ m \in Seq(Nat) /\ transcript # <<>>
    BY <1>0, <1>10, <2>1, LogAssumption DEF LogAssumption, LogInv, LogTyped
  <2>b. m = <<0>> \o transcript
    OBVIOUS
  <2> HIDE DEF m
  <2>3. ASSUME NEW l \in Loggers
        PROVE  Snapshot(LogMessagesSent(l, p, m), logger[l], p, m)
    <3>1. Tidy(logger[l]) /\ Aligned(logger[l], transcript, BegunAnew)
      BY DEF LogInv
    <3> QED
      BY <1>0, <2>1, <2>2, <2>b, <3>1, SnapshotReplays, ZenonT(60)
  <2>4. \A l \in Loggers : logger'[l].turn = logger[l].turn /\ logger'[l].thinking = logger[l].thinking
    BY <1>a, <2>1, <2>3 DEF Snapshot
  <2> QED
    BY <1>0, <2>1, <2>4, TurnedStep DEF Turned
<1>11. ASSUME NEW n \in 1..MaxResults, CallsReply(n)
       PROVE  TurnInv'
  <2>1. \A l \in Loggers : Turned(logger'[l], logger[l])
    BY <1>0, <1>11, <1>a, HandledTurns DEF CallsReply, Turned
  <2> QED
    BY <1>0, <1>11, <2>1, TurnedStep DEF CallsReply, On
<1>12. CASE UNCHANGED logVars
  BY <1>0, <1>12, TurnedStep DEF logVars, Turned
<1> QED
  BY <1>1, <1>2, <1>3, <1>4, <1>5, <1>6, <1>7, <1>8, <1>9, <1>10, <1>11, <1>12, <1>13, <1>14
     DEF LogNext

\* Thinking is written under the turn it was thought in, or under none, whenever the
\* buffer goes out (_flush_thinking at a turn, a run or a session's end).
THEOREM ThinkingLabelled == LogSpec => []ThinkingKeepsTurn
<1>1. LogInit => TurnInv
  BY DEF LogInit, TurnInv, InTurn, ThinkingKeepsTurn, Fresh, Loggers
<1>2. TurnInv => ThinkingKeepsTurn
  BY DEF TurnInv
<1> QED
  BY <1>1, <1>2, LogInitInv, LogNextInv, LogNextTurn, PTL DEF LogSpec

-------------------------------------------------------------------------------
(* Totals.                                                                 *)

LEMMA LeastElement ==
  ASSUME NEW T \in SUBSET Nat, T # {}
  PROVE  \E x \in T : \A y \in T : x <= y
<1>1. IsWellFoundedOn(OpToRel(<, Nat), Nat)
  BY NatLessThanWellFounded
<1>2. PICK x \in T : \A y \in T : ~ (<<y, x>> \in OpToRel(<, Nat))
  BY <1>1, WFMin
<1>3. \A y \in T : ~(y < x)
  BY <1>2 DEF OpToRel
<1> QED
  BY <1>3

\* The first place, if any, at which something goes wrong: not at 0, and nowhere before.
LEMMA FirstWrong ==
  ASSUME NEW wrong \in SUBSET Nat, 0 \notin wrong,
         \A n \in wrong : n - 1 \in wrong \/ n = 0
  PROVE  wrong = {}
<1> SUFFICES ASSUME wrong # {} PROVE FALSE
  OBVIOUS
<1>1. PICK n \in wrong : \A k \in wrong : n <= k
  BY LeastElement
<1> QED
  BY <1>1

\* What is built step by step exists: f starts at a and goes on by step.
Built(f, a, step, n) == f[0] = a /\ \A k \in 1..n : f[k] = step[<<f[k - 1], k>>]

LEMMA Iterates ==
  ASSUME NEW S, NEW a \in S, NEW step \in [S \X Nat -> S], NEW m \in Nat
  PROVE  \E f \in [0..m -> S] : Built(f, a, step, m)
<1> DEFINE Upto(n) == \E f \in [0..n -> S] : Built(f, a, step, n)
           wrong == {n \in 0..m : ~Upto(n)}
<1>1. Upto(0)
  <2>1. [n \in 0..0 |-> a] \in [0..0 -> S] /\ Built([n \in 0..0 |-> a], a, step, 0)
    BY DEF Built
  <2> QED
    BY <2>1
<1>2. ASSUME NEW n \in 1..m, Upto(n - 1)
      PROVE  Upto(n)
  <2>1. PICK f \in [0..n - 1 -> S] : Built(f, a, step, n - 1)
    BY <1>2
  <2> DEFINE g == [k \in 0..n |-> IF k = n THEN step[<<f[n - 1], n>>] ELSE f[k]]
  <2>2. n - 1 \in 0..n - 1 /\ n \in Nat
    OBVIOUS
  <2>3. f[n - 1] \in S /\ step[<<f[n - 1], n>>] \in S
    BY <2>2
  <2>4. g \in [0..n -> S]
    BY <2>3
  <2>5. ASSUME NEW k \in 1..n
        PROVE  g[k] = step[<<g[k - 1], k>>]
    <3>1. CASE k = n
      <4>1. g[n] = step[<<f[n - 1], n>>] /\ g[n - 1] = f[n - 1]
        BY <2>2
      <4> QED
        BY <3>1, <4>1
    <3>2. CASE k # n
      <4>1. k \in 1..n - 1 /\ k \in 0..n /\ k - 1 \in 0..n /\ k - 1 # n
        BY <3>2
      <4> QED
        BY <2>1, <3>2, <4>1 DEF Built
    <3> QED
      BY <3>1, <3>2
  <2>6. g[0] = a
    BY <2>1 DEF Built
  <2> HIDE DEF g
  <2> QED
    BY <2>4, <2>5, <2>6 DEF Built
<1> HIDE DEF Upto
<1>3. wrong \in SUBSET Nat /\ 0 \notin wrong
  BY <1>1
<1>4. ASSUME NEW n \in wrong
      PROVE  n - 1 \in wrong \/ n = 0
  BY <1>1, <1>2
<1>5. wrong = {}
  <2> HIDE DEF wrong
  <2> QED
    BY <1>3, <1>4, FirstWrong
<1>6. Upto(m)
  BY <1>5
<1> QED
  BY <1>6 DEF Upto

\* f adds the numbers of s up.
Sums(f, s) == f[0] = 0 /\ \A n \in 1..Len(s) : f[n] = f[n - 1] + s[n]

LEMMA SumsOnce ==
  ASSUME NEW s, Len(s) \in Nat, NEW f, NEW g, Sums(f, s), Sums(g, s)
  PROVE  \A n \in 0..Len(s) : f[n] = g[n]
<1> DEFINE wrong == {n \in 0..Len(s) : f[n] # g[n]}
<1>1. wrong \in SUBSET Nat /\ 0 \notin wrong
  BY DEF Sums
<1>2. ASSUME NEW n \in wrong
      PROVE  n - 1 \in wrong \/ n = 0
  <2> SUFFICES ASSUME n # 0, f[n - 1] = g[n - 1] PROVE FALSE
    OBVIOUS
  <2>1. n \in 1..Len(s)
    OBVIOUS
  <2> QED
    BY <2>1 DEF Sums
<1>3. wrong = {}
  <2> HIDE DEF wrong
  <2> QED
    BY <1>1, <1>2, FirstWrong
<1> QED
  BY <1>3

LEMMA TotalSums ==
  ASSUME NEW s, Len(s) \in Nat, NEW g, Sums(g, s)
  PROVE  Total(s) = g[Len(s)]
<1> DEFINE F(f) == [n \in 0..Len(s) |-> IF n = 0 THEN 0 ELSE f[n - 1] + s[n]]
           f == CHOOSE e : e = F(e)
           e == [n \in 0..Len(s) |-> g[n]]
<1>1. Total(s) = f[Len(s)]
  BY DEF Total
<1>2. e = F(e)
  BY DEF Sums
<1>3. f = F(f)
  <2> HIDE DEF F, e
  <2> QED
    BY <1>2
<1> HIDE DEF f
<1>4. Sums(f, s)
  BY <1>3 DEF Sums
<1> QED
  BY <1>1, <1>4, SumsOnce

LEMMA SumsExist ==
  ASSUME NEW s \in Seq(Nat)
  PROVE  \E f \in [0..Len(s) -> Nat] : Sums(f, s)
<1> DEFINE Add(x, n) == x + IF n \in 1..Len(s) THEN s[n] ELSE 0
           step == [p \in Nat \X Nat |-> Add(p[1], p[2])]
<1>1. Len(s) \in Nat /\ \A n \in 1..Len(s) : s[n] \in Nat
  OBVIOUS
<1>2. step \in [Nat \X Nat -> Nat]
  BY <1>1
<1>3. \A x \in Nat : \A n \in 1..Len(s) : step[<<x, n>>] = x + s[n]
  BY <1>1
<1> HIDE DEF step
<1>3a. 0 \in Nat /\ Len(s) \in Nat
  BY <1>1
<1>4. PICK f \in [0..Len(s) -> Nat] : Built(f, 0, step, Len(s))
  BY <1>2, <1>3a, Iterates
<1>5. ASSUME NEW n \in 1..Len(s)
      PROVE  f[n] = f[n - 1] + s[n]
  <2>1. n - 1 \in 0..Len(s)
    BY <1>1
  <2> QED
    BY <1>3, <1>4, <2>1 DEF Built
<1> QED
  BY <1>4, <1>5 DEF Sums, Built

LEMMA TotalNat ==
  ASSUME NEW s \in Seq(Nat)
  PROVE  Total(s) \in Nat
BY SumsExist, TotalSums

\* Multiplication and division of naturals.
LEMMA LinearStep ==
  ASSUME NEW a \in Nat, NEW b \in Nat, NEW c \in Nat, NEW f \in Nat, NEW g \in Nat,
         NEW s \in Nat, NEW t \in Nat, NEW n \in Nat,
         a * f <= b * g + c * n, a * s <= b * t + c
  PROVE  a * (f + s) <= b * (g + t) + c * (n + 1)
OBVIOUS

LEMMA Divided ==
  ASSUME NEW n \in Nat, NEW d \in Nat \ {0}
  PROVE  n \div d \in Nat /\ d * (n \div d) <= n /\ n < d * (n \div d) + d
OBVIOUS

LEMMA QuotientAbove ==
  ASSUME NEW n \in Nat, NEW d \in Nat \ {0}, NEW q \in Nat, d * q <= n
  PROVE  q <= n \div d
BY Divided

LEMMA QuotientBelow ==
  ASSUME NEW n \in Nat, NEW d \in Nat \ {0}, NEW q \in Nat, n < d * q + d
  PROVE  n \div d <= q
BY Divided

\* What holds of each pair of items holds of their totals.
LEMMA LinearTotals ==
  ASSUME NEW s \in Seq(Nat), NEW t \in Seq(Nat), Len(s) = Len(t),
         NEW a \in Nat, NEW b \in Nat, NEW c \in Nat,
         \A i \in 1..Len(s) : a * s[i] <= b * t[i] + c
  PROVE  a * Total(s) <= b * Total(t) + c * Len(s)
<1>1. PICK f \in [0..Len(s) -> Nat] : Sums(f, s)
  BY SumsExist
<1>2. PICK g \in [0..Len(s) -> Nat] : Sums(g, t)
  BY SumsExist
<1>3. Len(s) \in Nat /\ \A k \in 1..Len(s) : s[k] \in Nat /\ t[k] \in Nat
  OBVIOUS
<1> DEFINE Right(n) == a * f[n] <= b * g[n] + c * n
           wrong == {n \in 0..Len(s) : ~Right(n)}
<1>4. wrong \in SUBSET Nat
  BY <1>3
<1>5. Right(0)
  BY <1>1, <1>2 DEF Sums
<1>6. ASSUME NEW n \in 1..Len(s), Right(n - 1)
      PROVE  Right(n)
  <2>1. n - 1 \in 0..Len(s) /\ n - 1 \in Nat /\ n - 1 + 1 = n
    BY <1>3
  <2>2. f[n] = f[n - 1] + s[n] /\ g[n] = g[n - 1] + t[n]
    BY <1>1, <1>2 DEF Sums
  <2>3. f[n - 1] \in Nat /\ g[n - 1] \in Nat /\ s[n] \in Nat /\ t[n] \in Nat
    BY <1>3, <2>1
  <2>4. a * f[n - 1] <= b * g[n - 1] + c * (n - 1)
    BY <1>6
  <2>5. a * (f[n - 1] + s[n]) <= b * (g[n - 1] + t[n]) + c * (n - 1 + 1)
    BY <2>1, <2>3, <2>4, LinearStep
  <2> QED
    BY <2>1, <2>2, <2>5
<1> HIDE DEF Right
<1>7. ASSUME NEW n \in wrong
      PROVE  n - 1 \in wrong \/ n = 0
  BY <1>3, <1>6
<1>8. 0 \notin wrong
  BY <1>5
<1>9. wrong = {}
  <2> HIDE DEF wrong
  <2> QED
    BY <1>4, <1>7, <1>8, FirstWrong
<1>10. Right(Len(s))
  BY <1>3, <1>9
<1> QED
  BY <1>1, <1>2, <1>3, <1>10, TotalSums DEF Right

\* What is in front adds to a total.
LEMMA TotalCons ==
  ASSUME NEW x \in Nat, NEW t \in Seq(Nat)
  PROVE  Total(<<x>> \o t) = x + Total(t)
<1>1. PICK g \in [0..Len(t) -> Nat] : Sums(g, t)
  BY SumsExist
<1> DEFINE s == <<x>> \o t
           f == [n \in 0..Len(t) + 1 |-> IF n = 0 THEN 0 ELSE x + g[n - 1]]
<1>2. /\ s \in Seq(Nat) /\ Len(s) = Len(t) + 1 /\ Len(t) \in Nat
      /\ \A n \in 1..Len(t) + 1 : s[n] = IF n = 1 THEN x ELSE t[n - 1]
  <2>1. <<x>> \in Seq(Nat) /\ Len(<<x>>) = 1 /\ <<x>>[1] = x /\ Len(t) \in Nat
    OBVIOUS
  <2> DEFINE front == <<x>>
  <2> HIDE DEF front
  <2>2. /\ front \o t \in Seq(Nat) /\ Len(front \o t) = 1 + Len(t)
        /\ \A n \in 1..1 + Len(t) : (front \o t)[n] = IF n <= 1 THEN front[n] ELSE t[n - 1]
    <3>1. front \in Seq(Nat) /\ Len(front) = 1 /\ Len(t) \in Nat
      BY <2>1 DEF front
    <3>2. /\ front \o t \in Seq(Nat) /\ Len(front \o t) = Len(front) + Len(t)
          /\ \A n \in 1..Len(front) + Len(t) :
               (front \o t)[n] = IF n <= Len(front) THEN front[n] ELSE t[n - Len(front)]
      BY <3>1, ConcatProperties, Zenon
    <3> QED
      BY <3>1, <3>2
  <2>3. s = front \o t /\ front[1] = x
    BY <2>1 DEF front
  <2> HIDE DEF s
  <2>4. /\ s \in Seq(Nat) /\ Len(s) = 1 + Len(t)
        /\ \A n \in 1..1 + Len(t) : s[n] = IF n <= 1 THEN front[n] ELSE t[n - 1]
    BY <2>2, <2>3
  <2> QED
    BY <2>1, <2>3, <2>4
<1>3. /\ f[0] = 0
      /\ \A n \in 1..Len(t) + 1 : f[n] = x + g[n - 1]
  <2>1. Len(t) \in Nat
    BY <1>2
  <2> HIDE DEF s
  <2>2. f[0] = 0
    BY <2>1
  <2>3. ASSUME NEW n \in 1..Len(t) + 1
        PROVE  f[n] = x + g[n - 1]
    <3>1. n \in 0..Len(t) + 1 /\ n # 0
      BY <2>1
    <3> QED
      BY <3>1, Zenon
  <2> HIDE DEF f
  <2> QED
    BY <2>2, <2>3
<1> HIDE DEF s, f
<1>4. g[0] = 0 /\ \A n \in 1..Len(t) : g[n] = g[n - 1] + t[n] /\ g[n - 1] \in Nat /\ t[n] \in Nat
  <2>1. g[0] = 0 /\ \A n \in 1..Len(t) : g[n] = g[n - 1] + t[n]
    BY <1>1 DEF Sums
  <2>2. ASSUME NEW n \in 1..Len(t)
        PROVE  g[n - 1] \in Nat /\ t[n] \in Nat
    <3>1. n - 1 \in 0..Len(t)
      BY <1>2
    <3> QED
      BY <3>1
  <2> QED
    BY <2>1, <2>2
<1>5. ASSUME NEW n \in 1..Len(t) + 1
      PROVE  f[n] = f[n - 1] + s[n]
  <2>1. CASE n = 1
    <3>1. 1 \in 1..Len(t) + 1 /\ 1 - 1 = 0
      BY <1>2
    <3>2. f[1] = x + 0
      BY <1>3, <1>4, <3>1
    <3> QED
      BY <1>2, <1>3, <2>1, <3>1, <3>2
  <2>2. CASE n # 1
    <3>1. n - 1 \in 1..Len(t) /\ n - 1 \in 1..Len(t) + 1
      BY <1>2, <2>2
    <3>2. f[n] = x + g[n - 1] /\ f[n - 1] = x + g[n - 1 - 1] /\ s[n] = t[n - 1]
      BY <1>2, <1>3, <2>2, <3>1
    <3>3. g[n - 1] = g[n - 1 - 1] + t[n - 1] /\ g[n - 1 - 1] \in Nat /\ t[n - 1] \in Nat
      BY <1>4, <3>1
    <3> QED
      BY <3>2, <3>3
  <2> QED
    BY <2>1, <2>2
<1>6. Sums(f, s)
  BY <1>2, <1>3, <1>5 DEF Sums
<1>7. Total(s) = f[Len(t) + 1]
  BY <1>2, <1>6, TotalSums
<1>8. Total(t) = g[Len(t)]
  BY <1>1, <1>2, TotalSums
<1>9. Len(t) + 1 \in 1..Len(t) + 1 /\ Len(t) + 1 - 1 = Len(t)
  BY <1>2
<1> QED
  BY <1>3, <1>7, <1>8, <1>9 DEF s

\* A tail is no more than the whole.
LEMMA TotalTail ==
  ASSUME NEW s \in Seq(Nat), NEW k \in 1..Len(s) + 1
  PROVE  /\ SubSeq(s, k, Len(s)) \in Seq(Nat)
         /\ Total(SubSeq(s, k, Len(s))) <= Total(s)
<1>1. PICK f \in [0..Len(s) -> Nat] : Sums(f, s)
  BY SumsExist
<1> DEFINE t == SubSeq(s, k, Len(s))
           g == [n \in 0..Len(t) |-> f[k - 1 + n] - f[k - 1]]
<1>2. Len(s) \in Nat /\ \A n \in 1..Len(s) : s[n] \in Nat
  OBVIOUS
<1>3. /\ t \in Seq(Nat) /\ Len(t) = Len(s) - k + 1 /\ Len(t) \in Nat
      /\ \A n \in 1..Len(t) : t[n] = s[k - 1 + n]
  <2>1. k \in 1..Len(s) + 1 /\ Len(s) \in 0..Len(s)
    BY <1>2
  <2>2. k <= Len(s) + 1
    BY <1>2
  <2> QED
    BY <1>2, <2>1, <2>2, SubSeqProperties
<1>3a. Len(s) \in Nat /\ k \in Nat /\ k >= 1 /\ Len(t) \in Nat /\ Len(t) = Len(s) - k + 1
  BY <1>2, <1>3
<1>4. \A n \in 0..Len(t) : g[n] = f[k - 1 + n] - f[k - 1]
  OBVIOUS
<1> HIDE DEF t, g
<1>5. \A n \in 0..Len(t) : k - 1 + n \in 0..Len(s)
  BY <1>3a
<1>6. \A n \in 1..Len(s) : f[n] = f[n - 1] + s[n]
  BY <1>1 DEF Sums
<1>7. g[0] = 0
  <2>1. k - 1 + 0 = k - 1 /\ f[k - 1] \in Nat /\ 0 \in 0..Len(t)
    BY <1>3a
  <2> QED
    BY <1>4, <2>1
<1>8. ASSUME NEW n \in 1..Len(t)
      PROVE  g[n] = g[n - 1] + t[n]
  <2>1. PICK m \in Nat : m = k - 1 + n
    BY <1>3a
  <2>2. /\ n \in 0..Len(t) /\ n - 1 \in 0..Len(t) /\ m \in 1..Len(s)
        /\ m - 1 = k - 1 + (n - 1)
    BY <1>3a, <2>1
  <2>3. f[m] = f[m - 1] + s[m] /\ s[m] = t[n]
    BY <1>3, <1>6, <2>1, <2>2
  <2>4. g[n] = f[m] - f[k - 1] /\ g[n - 1] = f[m - 1] - f[k - 1]
    BY <1>4, <2>1, <2>2
  <2>5. m - 1 \in 0..Len(s) /\ k - 1 \in 0..Len(s)
    BY <1>3a, <2>2
  <2>6. f[m - 1] \in Nat /\ f[k - 1] \in Nat /\ s[m] \in Nat
    BY <1>2, <2>2, <2>5
  <2> QED
    BY <2>3, <2>4, <2>6
<1>9. Total(t) = g[Len(t)]
  BY <1>3, <1>7, <1>8, TotalSums DEF Sums
<1>10. Total(s) = f[Len(s)]
  BY <1>1, <1>2, TotalSums
<1>11. g[Len(t)] = f[Len(s)] - f[k - 1]
  <2>1. k - 1 + Len(t) = Len(s) /\ Len(t) \in 0..Len(t)
    BY <1>3a
  <2> QED
    BY <1>4, <2>1
<1>12. f[Len(s)] \in Nat /\ f[k - 1] \in Nat
  <2>1. k - 1 \in 0..Len(s) /\ Len(s) \in 0..Len(s)
    BY <1>3a
  <2> QED
    BY <2>1
<1>13. Total(t) <= Total(s)
  BY <1>9, <1>10, <1>11, <1>12
<1> QED
  BY <1>3, <1>13 DEF t

-------------------------------------------------------------------------------
(* Messages, their sizes and estimates.                                    *)

Roles  == {"user", "assistant", "tool"}
Bodies == {"own", "stub", "summary"}
MessageType == [role : Roles, chars : Nat, density : language, body : Bodies]
Histories   == Seq(MessageType)

\* What a provider's densities and an estimate's ratio are.
Measured ==
  language \in Languages /\ tokeniser \in Tokenisers /\ ratio \in MinRatio..MaxRatio

LEMMA Constants ==
  /\ Windows \subseteq Nat /\ Sizes \subseteq Nat /\ Fixed \in Nat /\ Frame \in Nat /\ Stub \in Nat
  /\ KeepRecent \in Nat \ {0} /\ SummaryTokens \in Nat \ {0} /\ MinSample \in Nat \ {0}
  /\ SummaryChars \in Nat \ {0} /\ HostBudgets \subseteq Nat \ {0} /\ Tokenisers \subseteq Nat \ {0}
  /\ Reserve \in Nat /\ HistoryBudget \in Nat /\ DemotionLadder \in Seq(Nat)
BY FittingAssumption

LEMMA Densest ==
  ASSUME language \in Languages
  PROVE  /\ Max(language) \in language /\ language \subseteq Nat \ {0}
         /\ Max(language) \in Nat \ {0} /\ \A d \in language : d <= Max(language)
<1>1. language \subseteq Nat \ {0} /\ \E d \in language : \A e \in language : d >= e
  BY FittingAssumption
<1>2. Max(language) \in language /\ \A d \in language : Max(language) >= d
  BY <1>1 DEF Max
<1> QED
  BY <1>1, <1>2

LEMMA Smallest == Min(Sizes) \in Sizes
<1>1. Sizes \in SUBSET Nat /\ Sizes # {}
  BY FittingAssumption
<1>2. \E x \in Sizes : \A y \in Sizes : x <= y
  BY <1>1, LeastElement
<1> QED
  BY <1>2 DEF Min

LEMMA MessageTyped ==
  ASSUME NEW r \in Roles, NEW n \in Nat, NEW d \in language
  PROVE  /\ Message(r, n, d) \in MessageType
         /\ Message(r, n, d).chars = n
         /\ [Message(r, n, d) EXCEPT !.body = "summary"] \in MessageType
         /\ [Message(r, n, d) EXCEPT !.body = "summary"].chars = n
<1> DEFINE m == Message(r, n, d)
<1>1. m = [role |-> r, chars |-> n, density |-> d, body |-> "own"]
  BY DEF Message
<1>2. [m EXCEPT !.body = "summary"] = [role |-> r, chars |-> n, density |-> d, body |-> "summary"]
  BY <1>1
<1> HIDE DEF m
<1>3. \A b \in Bodies : [role |-> r, chars |-> n, density |-> d, body |-> b] \in MessageType
  BY DEF MessageType
<1>4. m \in MessageType /\ [m EXCEPT !.body = "summary"] \in MessageType
  <2>1. "own" \in Bodies /\ "summary" \in Bodies
    BY DEF Bodies
  <2>2. m \in MessageType
    BY <1>1, <1>3, <2>1
  <2>3. [role |-> r, chars |-> n, density |-> d, body |-> "summary"] \in MessageType
    BY <1>3, <2>1
  <2>4. [m EXCEPT !.body = "summary"] \in MessageType
    BY <1>2, <2>3, Zenon
  <2> QED
    BY <2>2, <2>4
<1>5. m.chars = n /\ [m EXCEPT !.body = "summary"].chars = n
  BY <1>1, <1>2
<1> QED
  BY <1>4, <1>5 DEF m

LEMMA EstimateNat ==
  ASSUME Measured, NEW n \in Nat
  PROVE  Estimate(n) \in Nat /\ ratio * Estimate(n) <= 10 * n /\ 10 * n < ratio * Estimate(n) + ratio
<1>1. n * 10 \in Nat /\ ratio \in Nat \ {0} /\ n * 10 = 10 * n
  BY DEF Measured, MinRatio, MaxRatio
<1> QED
  BY <1>1, Divided DEF Estimate

\* The characters, the estimates and the charges of messages, one by one.
CharsOf(h)     == [i \in 1..Len(h) |-> h[i].chars]
EstimatesOf(h) == [i \in 1..Len(h) |-> Estimate(h[i].chars)]
ChargesOf(h)   == [i \in 1..Len(h) |-> TokensIn(h[i].chars, h[i].density * tokeniser)]

LEMMA TokensInNat ==
  ASSUME NEW n \in Nat, NEW d \in Nat \ {0}
  PROVE  /\ TokensIn(n, d) \in Nat
         /\ n <= d * TokensIn(n, d) /\ d * TokensIn(n, d) <= n + (d - 1)
<1>1. n + d - 1 \in Nat
  OBVIOUS
<1>2. /\ TokensIn(n, d) \in Nat /\ d * TokensIn(n, d) <= n + d - 1
      /\ n + d - 1 < d * TokensIn(n, d) + d
  BY <1>1, Divided DEF TokensIn
<1>3. d * TokensIn(n, d) \in Nat
  BY <1>2
<1> QED
  BY <1>2, <1>3

LEMMA MeasuresTyped ==
  ASSUME Measured, NEW h \in Histories
  PROVE  /\ Len(h) \in Nat
         /\ CharsOf(h) \in Seq(Nat) /\ EstimatesOf(h) \in Seq(Nat) /\ ChargesOf(h) \in Seq(Nat)
         /\ Len(CharsOf(h)) = Len(h) /\ Len(EstimatesOf(h)) = Len(h) /\ Len(ChargesOf(h)) = Len(h)
         /\ \A i \in 1..Len(h) :
              /\ CharsOf(h)[i] = h[i].chars /\ EstimatesOf(h)[i] = Estimate(h[i].chars)
              /\ ChargesOf(h)[i] = TokensIn(h[i].chars, h[i].density * tokeniser)
              /\ h[i].chars \in Nat /\ h[i].density \in Nat \ {0} /\ h[i].density \in language
              /\ h[i].density * tokeniser \in Nat \ {0}
<1>1. Len(h) \in Nat /\ \A i \in 1..Len(h) : h[i] \in MessageType
  BY DEF Histories
<1>2. \A i \in 1..Len(h) : /\ h[i].chars \in Nat /\ h[i].density \in Nat \ {0}
                           /\ h[i].density \in language
  BY <1>1, Densest DEF MessageType, Measured
<1>2a. \A i \in 1..Len(h) : h[i].density * tokeniser \in Nat \ {0}
  <2>1. tokeniser \in Nat \ {0}
    BY Constants DEF Measured
  <2>2. \A m \in Nat \ {0} : m * tokeniser \in Nat \ {0}
    BY <2>1
  <2> QED
    BY <1>2, <2>2
<1>3. \A i \in 1..Len(h) : /\ Estimate(h[i].chars) \in Nat
                           /\ TokensIn(h[i].chars, h[i].density * tokeniser) \in Nat
  BY <1>2, <1>2a, EstimateNat, TokensInNat
<1>4. CharsOf(h) \in Seq(Nat) /\ Len(CharsOf(h)) = Len(h)
  BY <1>1, <1>2 DEF CharsOf
<1>5. EstimatesOf(h) \in Seq(Nat) /\ Len(EstimatesOf(h)) = Len(h)
  BY <1>1, <1>3 DEF EstimatesOf
<1>6. ChargesOf(h) \in Seq(Nat) /\ Len(ChargesOf(h)) = Len(h)
  BY <1>1, <1>3 DEF ChargesOf
<1> QED
  BY <1>1, <1>2, <1>2a, <1>4, <1>5, <1>6 DEF CharsOf, EstimatesOf, ChargesOf

\* The characters that one token of the live model has at most.
LEMMA CoarsestNat ==
  ASSUME Measured
  PROVE  /\ Max(language) * tokeniser \in Nat \ {0}
         /\ \A d \in language : d * tokeniser <= Max(language) * tokeniser
<1>1. PICK m \in Nat \ {0} : m = Max(language)
  BY Densest DEF Measured
<1>2. tokeniser \in Nat \ {0}
  BY Constants DEF Measured
<1>3. \A d \in language : d \in Nat /\ d <= m
  BY <1>1, Densest DEF Measured
<1>4. \A d \in Nat : d <= m => d * tokeniser <= m * tokeniser
  BY <1>2
<1>5. m * tokeniser \in Nat \ {0}
  BY <1>2
<1> QED
  BY <1>1, <1>3, <1>4, <1>5

LEMMA SizesTyped ==
  ASSUME Measured, NEW h \in Histories
  PROVE  /\ Chars(h) \in Nat /\ EstimateTokens(h) \in Nat /\ EachEstimated(h) \in Nat
         /\ Real(h) \in Nat
<1>1. /\ Chars(h) = Total(CharsOf(h)) /\ EachEstimated(h) = Total(EstimatesOf(h))
      /\ Real(h) = TokensIn(Fixed, Max(language) * tokeniser) + Total(ChargesOf(h))
  BY DEF Chars, EachEstimated, Real, CharsOf, EstimatesOf, ChargesOf
<1>2. Chars(h) \in Nat /\ EachEstimated(h) \in Nat /\ Total(ChargesOf(h)) \in Nat
  BY <1>1, MeasuresTyped, TotalNat
<1>3. TokensIn(Fixed, Max(language) * tokeniser) \in Nat
  BY Constants, CoarsestNat, TokensInNat
<1> QED
  BY <1>1, <1>2, <1>3, EstimateNat DEF EstimateTokens

\* What rounding each message down loses.
LEMMA RoundedOff ==
  ASSUME Measured, NEW h \in Histories
  PROVE  10 * Chars(h) <= ratio * EachEstimated(h) + (ratio - 1) * Len(h)
<1>1. /\ Chars(h) = Total(CharsOf(h)) /\ EachEstimated(h) = Total(EstimatesOf(h))
  BY DEF Chars, EachEstimated, CharsOf, EstimatesOf
<1>2. ratio \in Nat /\ ratio - 1 \in Nat /\ Len(h) \in Nat /\ Chars(h) \in Nat /\ EachEstimated(h) \in Nat
  BY MeasuresTyped, SizesTyped DEF Measured, MinRatio, MaxRatio
<1>3. \A i \in 1..Len(h) : 10 * CharsOf(h)[i] <= ratio * EstimatesOf(h)[i] + (ratio - 1)
  <2>1. \A i \in 1..Len(h) : h[i].chars \in Nat
    BY MeasuresTyped
  <2>2. ASSUME NEW n \in Nat
        PROVE  10 * n <= ratio * Estimate(n) + (ratio - 1)
    <3>1. PICK x \in Nat : x = 10 * n
      OBVIOUS
    <3>2. Estimate(n) \in Nat /\ 10 * n < ratio * Estimate(n) + ratio
      BY EstimateNat
    <3>3. PICK y \in Int : y = ratio * Estimate(n)
      BY <1>2, <3>2
    <3>4. x < y + ratio
      BY <3>1, <3>2, <3>3
    <3>5. x <= y + (ratio - 1)
      BY <1>2, <3>4
    <3> QED
      BY <3>1, <3>3, <3>5
  <2> QED
    BY <2>1, <2>2, MeasuresTyped
<1>4. /\ CharsOf(h) \in Seq(Nat) /\ EstimatesOf(h) \in Seq(Nat)
      /\ Len(CharsOf(h)) = Len(h) /\ Len(EstimatesOf(h)) = Len(h)
  BY MeasuresTyped
<1>5. 10 * Total(CharsOf(h)) <= ratio * Total(EstimatesOf(h)) + (ratio - 1) * Len(CharsOf(h))
  BY <1>2, <1>3, <1>4, LinearTotals, 10 \in Nat
<1> QED
  BY <1>1, <1>4, <1>5

\* Estimated together, messages behind a summary take at most one token each more than
\* one by one.
LEMMA TogetherBelow ==
  ASSUME NEW r \in Nat \ {0}, NEW c \in Nat, NEW e \in Nat, NEW n \in Nat,
         NEW x \in Nat, NEW y \in Nat,
         10 * c <= r * e + (r - 1) * n, 10 * x < r * y + r
  PROVE  ((x + c) * 10) \div r <= y + e + n
<1>1. (r - 1) * n = r * n - n /\ r * (y + e + n) = r * y + r * e + r * n
  OBVIOUS
<1>2. r * y \in Nat /\ r * e \in Nat /\ r * n \in Nat
  OBVIOUS
<1>3. (x + c) * 10 = 10 * x + 10 * c
  OBVIOUS
<1>4. (x + c) * 10 < r * (y + e + n) + r
  BY <1>1, <1>2, <1>3
<1>5. (x + c) * 10 \in Nat /\ y + e + n \in Nat
  OBVIOUS
<1> QED
  BY <1>4, <1>5, QuotientBelow

LEMMA Rounding ==
  ASSUME Measured, NEW h \in Histories
  PROVE  EstimateTokens(h) <= EachEstimated(h) + Len(h)
<1>1. ratio \in Nat \ {0} /\ Len(h) \in Nat /\ Chars(h) \in Nat /\ EachEstimated(h) \in Nat
  <2>1. ratio \in Nat \ {0}
    BY DEF Measured, MinRatio, MaxRatio
  <2>2. Len(h) \in Nat
    BY DEF Histories
  <2> QED
    BY <2>1, <2>2, SizesTyped
<1>2. 10 * 0 < ratio * 0 + ratio
  BY <1>1
<1>3. ((0 + Chars(h)) * 10) \div ratio <= 0 + EachEstimated(h) + Len(h)
  BY <1>1, <1>2, RoundedOff, TogetherBelow, 0 \in Nat
<1>4. 0 + Chars(h) = Chars(h) /\ 0 + EachEstimated(h) + Len(h) = EachEstimated(h) + Len(h)
  BY <1>1
<1> QED
  BY <1>3, <1>4 DEF EstimateTokens, Estimate

LEMMA RoundingBehind ==
  ASSUME Measured, NEW s \in MessageType, NEW t \in Histories
  PROVE  /\ <<s>> \o t \in Histories
         /\ EstimateTokens(<<s>> \o t) <= Estimate(s.chars) + EachEstimated(t) + Len(t)
<1> DEFINE h == <<s>> \o t
<1>1. ratio \in Nat \ {0} /\ Len(t) \in Nat /\ Chars(t) \in Nat /\ EachEstimated(t) \in Nat
  BY MeasuresTyped, SizesTyped DEF Measured, MinRatio, MaxRatio
<1>2. /\ h \in Histories /\ Len(h) = Len(t) + 1
      /\ \A i \in 1..Len(t) + 1 : h[i] = IF i = 1 THEN s ELSE t[i - 1]
  BY <1>1 DEF Histories
<1>3. s.chars \in Nat
  BY DEF MessageType
<1>4. CharsOf(t) \in Seq(Nat) /\ Len(CharsOf(t)) = Len(t) /\ \A i \in 1..Len(t) : CharsOf(t)[i] = t[i].chars
  BY MeasuresTyped
<1>5. CharsOf(h) \in Seq(Nat) /\ Len(CharsOf(h)) = Len(h) /\ \A i \in 1..Len(h) : CharsOf(h)[i] = h[i].chars
  BY <1>2, MeasuresTyped
<1> HIDE DEF h
<1> DEFINE c == <<s.chars>> \o CharsOf(t)
<1>6. /\ c \in Seq(Nat) /\ Len(c) = Len(t) + 1
      /\ \A i \in 1..Len(t) + 1 : c[i] = IF i = 1 THEN s.chars ELSE CharsOf(t)[i - 1]
  BY <1>1, <1>3, <1>4
<1>7. Total(c) = s.chars + Total(CharsOf(t))
  BY <1>3, <1>4, TotalCons
<1> HIDE DEF c
<1>8. CharsOf(h) = c
  <2>1. ASSUME NEW i \in 1..Len(t) + 1
        PROVE  CharsOf(h)[i] = c[i]
    <3>1. CASE i = 1
      BY <1>2, <1>5, <1>6, <3>1
    <3>2. CASE i # 1
      <4>1. i - 1 \in 1..Len(t)
        BY <1>1, <3>2
      <4>2. CharsOf(h)[i] = t[i - 1].chars
        BY <1>2, <1>5, <3>2
      <4>3. c[i] = CharsOf(t)[i - 1]
        BY <1>6, <3>2
      <4> QED
        BY <1>4, <4>1, <4>2, <4>3
    <3> QED
      BY <3>1, <3>2
  <2> QED
    BY <1>2, <1>5, <1>6, <2>1, SeqEqual
<1>9. Chars(h) = s.chars + Chars(t)
  BY <1>7, <1>8 DEF Chars, CharsOf
<1>10. Estimate(s.chars) \in Nat /\ 10 * s.chars < ratio * Estimate(s.chars) + ratio
  BY <1>3, EstimateNat
<1>11. ((s.chars + Chars(t)) * 10) \div ratio <= Estimate(s.chars) + EachEstimated(t) + Len(t)
  BY <1>1, <1>3, <1>10, RoundedOff, TogetherBelow
<1>12. EstimateTokens(h) = ((s.chars + Chars(t)) * 10) \div ratio
  BY <1>9 DEF EstimateTokens, Estimate
<1> QED
  BY <1>2, <1>11, <1>12 DEF h

LEMMA EstimateGrows ==
  ASSUME Measured, NEW m \in Nat, NEW n \in Nat, m <= n
  PROVE  Estimate(m) <= Estimate(n)
<1>1. ratio \in Nat \ {0}
  BY DEF Measured, MinRatio, MaxRatio
<1>2. PICK q \in Nat : q = Estimate(m)
  BY EstimateNat
<1>3. ratio * q <= n * 10 /\ n * 10 \in Nat
  <2>1. ratio * q <= 10 * m /\ 10 * m <= n * 10
    BY <1>2, EstimateNat
  <2>2. ratio * q \in Nat
    BY <1>1
  <2> QED
    BY <2>1, <2>2
<1> QED
  BY <1>1, <1>2, <1>3, QuotientAbove DEF Estimate

\* A framed summary of so many tokens.
LEMMA FramedSummary ==
  ASSUME Measured, NEW tokens \in Nat
  PROVE  /\ (tokens * ratio) \div 10 \in Nat
         /\ Estimate(Frame + (tokens * ratio) \div 10) <= Estimate(Frame) + tokens
<1>1. ratio \in Nat \ {0} /\ Frame \in Nat
  BY Constants DEF Measured, MinRatio, MaxRatio
<1>2. PICK p \in Nat : p = tokens * ratio
  BY <1>1
<1>3. PICK x \in Nat : x = p \div 10
  BY <1>2, Divided, 10 \in Nat \ {0}
<1>4. 10 * x <= p
  BY <1>2, <1>3, Divided, 10 \in Nat \ {0}
<1>5. PICK e \in Nat : e = Estimate(Frame)
  BY <1>1, EstimateNat
<1>6. 10 * Frame < ratio * e + ratio
  BY <1>1, <1>5, EstimateNat
<1>7. ratio * (e + tokens) = ratio * e + p /\ ratio * e \in Nat
  BY <1>1, <1>2, <1>5
<1>8. (Frame + x) * 10 \in Nat /\ (Frame + x) * 10 < ratio * (e + tokens) + ratio
  <2>1. (Frame + x) * 10 = 10 * Frame + 10 * x
    BY <1>1, <1>3
  <2>2. PICK q \in Nat : q = ratio * e
    BY <1>7
  <2>3. PICK z \in Nat : z = ratio * (e + tokens)
    BY <1>1, <1>5
  <2>4. z = q + p
    BY <1>7, <2>2, <2>3
  <2>5. 10 * Frame < q + ratio
    BY <1>6, <2>2
  <2>6. (Frame + x) * 10 < z + ratio
    BY <1>1, <1>2, <1>3, <1>4, <2>1, <2>4, <2>5
  <2> QED
    BY <1>1, <1>3, <2>3, <2>6
<1>9. e + tokens \in Nat
  BY <1>5
<1>10. ((Frame + x) * 10) \div ratio <= e + tokens
  BY <1>1, <1>8, <1>9, QuotientBelow
<1>11. Estimate(Frame + x) = ((Frame + x) * 10) \div ratio
  BY DEF Estimate
<1>12. (tokens * ratio) \div 10 = x
  BY <1>2, <1>3
<1> QED
  BY <1>3, <1>5, <1>10, <1>11, <1>12

\* What the provider charges for messages of one density is at most what a ratio learned
\* from that density makes of them, a token for each of them and one for the fixed part.
LEMMA CeilingBelow ==
  ASSUME NEW d \in Nat \ {0}, NEW t \in Nat, NEW c \in Nat, NEW n \in Nat,
         d * t <= c + (d - 1) * n
  PROVE  t <= c \div d + n
<1>1. PICK q \in Nat : q = c \div d
  BY Divided
<1>2. c < d * q + d
  BY <1>1, Divided
<1>3. d * t < d * (q + n) + d
  <2>1. (d - 1) * n = d * n - n /\ d * (q + n) = d * q + d * n
    OBVIOUS
  <2>2. d * t \in Nat /\ d * n \in Nat /\ d * q \in Nat /\ d * (q + n) \in Nat
    BY <1>1
  <2> QED
    BY <1>2, <2>1, <2>2
<1>4. t <= q + n
  <2>1. q + n \in Nat
    BY <1>1
  <2>2. \A x \in Nat, y \in Nat : d * x < d * y + d => x <= y
    OBVIOUS
  <2> QED
    BY <1>3, <2>1, <2>2
<1> QED
  BY <1>1, <1>4

LEMMA ChargedIsEstimated ==
  ASSUME Measured, NEW h \in Histories, language = {Max(language)},
         NEW d \in Nat \ {0}, d = Max(language) * tokeniser, ratio <= 10 * d
  PROVE  Real(h) <= Estimate(Fixed) + EstimateTokens(h) + Len(h) + 1
<1>1. d \in Nat \ {0} /\ ratio \in Nat \ {0} /\ Len(h) \in Nat /\ Chars(h) \in Nat /\ Fixed \in Nat
  <2>1. d \in Nat \ {0}
    OBVIOUS
  <2>2. ratio \in Nat \ {0}
    BY DEF Measured, MinRatio, MaxRatio
  <2>3. Len(h) \in Nat /\ Chars(h) \in Nat
    BY MeasuresTyped, SizesTyped
  <2> QED
    BY <2>1, <2>2, <2>3, Constants
<1>2. ASSUME NEW n \in Nat
      PROVE  n \div d \in Nat /\ n \div d <= Estimate(n) /\ Estimate(n) \in Nat
  <2>1. n \div d \in Nat /\ d * (n \div d) <= n
    BY <1>1, Divided
  <2>2. PICK q \in Nat : q = n \div d
    BY <2>1
  <2>3. d * q <= n
    BY <2>1, <2>2
  <2>4. ratio * q <= n * 10
    <3>1. ratio * q <= (10 * d) * q
      BY <1>1
    <3>2. (10 * d) * q = 10 * (d * q)
      BY <1>1
    <3>3. 10 * (d * q) <= n * 10
      BY <1>1, <2>3
    <3>4. ratio * q \in Nat /\ d * q \in Nat
      BY <1>1
    <3> QED
      BY <3>1, <3>2, <3>3, <3>4
  <2>5. n * 10 \in Nat
    OBVIOUS
  <2> QED
    BY <1>1, <2>1, <2>2, <2>4, <2>5, QuotientAbove, EstimateNat DEF Estimate
<1>3. TokensIn(Fixed, d) \in Nat /\ TokensIn(Fixed, d) <= Fixed \div d + 1
  <2>1. PICK t \in Nat : t = TokensIn(Fixed, d)
    BY <1>1, TokensInNat
  <2>2. d * t <= Fixed + (d - 1)
    BY <1>1, <2>1, TokensInNat
  <2>3. d * t <= Fixed + (d - 1) * 1
    BY <1>1, <2>2
  <2>4. t <= Fixed \div d + 1
    BY <1>1, <2>1, <2>3, CeilingBelow, 1 \in Nat
  <2> QED
    BY <2>1, <2>4
<1>4. Total(ChargesOf(h)) \in Nat /\ Total(ChargesOf(h)) <= Chars(h) \div d + Len(h)
  <2>1. /\ CharsOf(h) \in Seq(Nat) /\ ChargesOf(h) \in Seq(Nat)
        /\ Len(CharsOf(h)) = Len(h) /\ Len(ChargesOf(h)) = Len(h)
    BY MeasuresTyped
  <2>2. ASSUME NEW i \in 1..Len(h)
        PROVE  d * ChargesOf(h)[i] <= 1 * CharsOf(h)[i] + (d - 1)
    <3>1. /\ CharsOf(h)[i] = h[i].chars /\ h[i].chars \in Nat
          /\ ChargesOf(h)[i] = TokensIn(h[i].chars, d)
      <4>1. h[i].density = Max(language)
        BY MeasuresTyped
      <4> QED
        BY <4>1, MeasuresTyped
    <3>2. d * TokensIn(h[i].chars, d) <= h[i].chars + (d - 1)
      BY <1>1, <3>1, TokensInNat
    <3> QED
      BY <3>1, <3>2
  <2>3. d * Total(ChargesOf(h)) <= 1 * Total(CharsOf(h)) + (d - 1) * Len(ChargesOf(h))
    <3>1. d - 1 \in Nat /\ 1 \in Nat /\ d \in Nat
      BY <1>1
    <3> QED
      BY <2>1, <2>2, <3>1, LinearTotals
  <2>4. PICK t \in Nat : t = Total(ChargesOf(h))
    BY <2>1, TotalNat
  <2>5. PICK c \in Nat : c = Chars(h)
    BY <1>1
  <2>6. c = Total(CharsOf(h))
    BY <2>5 DEF Chars, CharsOf
  <2>7. d * t <= c + (d - 1) * Len(h)
    BY <2>1, <2>3, <2>4, <2>6
  <2>8. t <= c \div d + Len(h)
    BY <1>1, <2>4, <2>5, <2>7, CeilingBelow
  <2> QED
    BY <2>4, <2>5, <2>8
<1>5. Real(h) = TokensIn(Fixed, d) + Total(ChargesOf(h))
  BY DEF Real, ChargesOf
<1>6. /\ Fixed \div d <= Estimate(Fixed) /\ Fixed \div d \in Nat /\ Estimate(Fixed) \in Nat
      /\ Chars(h) \div d <= EstimateTokens(h) /\ Chars(h) \div d \in Nat /\ EstimateTokens(h) \in Nat
  BY <1>1, <1>2 DEF EstimateTokens
<1>7. TokensIn(Fixed, d) <= Estimate(Fixed) + 1
  <2>1. PICK q \in Nat : q = Fixed \div d
    BY <1>6
  <2> QED
    BY <1>3, <1>6, <2>1
<1>8. Total(ChargesOf(h)) <= EstimateTokens(h) + Len(h)
  <2>1. PICK q \in Nat : q = Chars(h) \div d
    BY <1>6
  <2> QED
    BY <1>1, <1>4, <1>6, <2>1
<1>9. /\ TokensIn(Fixed, d) \in Nat /\ Total(ChargesOf(h)) \in Nat /\ Len(h) \in Nat
      /\ Estimate(Fixed) \in Nat /\ EstimateTokens(h) \in Nat
  BY <1>1, <1>3, <1>4, <1>6
<1> QED
  BY <1>5, <1>7, <1>8, <1>9

-------------------------------------------------------------------------------
(* What the strategies make of a history.                                  *)

LEMMA DemotedTyped ==
  ASSUME NEW h \in Histories, NEW keep
  PROVE  DemoteResults(h, keep) \in Histories /\ Len(DemoteResults(h, keep)) = Len(h)
<1>1. Len(h) \in Nat /\ \A i \in 1..Len(h) : h[i] \in MessageType
  BY DEF Histories
<1>2. ASSUME NEW m \in MessageType
      PROVE  [m EXCEPT !.chars = Stub, !.body = "stub"] \in MessageType
  BY Constants DEF MessageType, Bodies
<1> DEFINE at  == Demotable(h)
           old == {at[k] : k \in {j \in 1..Len(at) : j <= Len(at) - keep}}
           One(i) == IF i \in old /\ h[i].chars > MinDemotable /\ h[i].body # "stub"
                     THEN [h[i] EXCEPT !.chars = Stub, !.body = "stub"] ELSE h[i]
<1>3. DemoteResults(h, keep) = [i \in 1..Len(h) |-> One(i)]
  BY DEF DemoteResults
<1> HIDE DEF old
<1>4. \A i \in 1..Len(h) : One(i) \in MessageType
  BY <1>1, <1>2
<1> HIDE DEF One
<1> QED
  BY <1>1, <1>3, <1>4 DEF Histories

LEMMA DemotedUntilTyped ==
  ASSUME NEW h \in Histories, NEW budget, NEW fixed
  PROVE  /\ DemoteUntilUnder(h, budget, fixed) \in Histories
         /\ Len(DemoteUntilUnder(h, budget, fixed)) = Len(h)
<1> DEFINE L == Len(DemotionLadder)
           Rung(g, n) == IF fixed + EstimateTokens(g) <= budget THEN g
                         ELSE DemoteResults(g, DemotionLadder[n])
           F(f) == [n \in 0..L |-> IF n = 0 THEN h ELSE Rung(f[n - 1], n)]
           f == CHOOSE e : e = F(e)
           Same == {g \in Histories : Len(g) = Len(h)}
           step == [p \in Same \X Nat |-> Rung(p[1], p[2])]
<1>1. DemoteUntilUnder(h, budget, fixed) = f[L]
  BY DEF DemoteUntilUnder
<1>2. L \in Nat
  BY Constants
<1>3. \A g \in Same, n \in Nat : Rung(g, n) \in Same
  BY DemotedTyped
<1> HIDE DEF Rung
<1>4. step \in [Same \X Nat -> Same] /\ \A g \in Same, n \in Nat : step[<<g, n>>] = Rung(g, n)
  BY <1>3
<1>5. h \in Same
  OBVIOUS
<1> HIDE DEF step, Same
<1>6. PICK e \in [0..L -> Same] : Built(e, h, step, L)
  BY <1>2, <1>4, <1>5, Iterates
<1>7. e = F(e)
  <2>1. ASSUME NEW n \in 1..L
        PROVE  e[n] = Rung(e[n - 1], n)
    <3>1. n - 1 \in 0..L /\ n \in Nat
      BY <1>2
    <3>2. e[n - 1] \in Same
      BY <3>1
    <3> QED
      BY <1>4, <1>6, <3>1, <3>2 DEF Built
  <2>2. e[0] = h
    BY <1>6 DEF Built
  <2>3. \A n \in 0..L : n = 0 \/ n \in 1..L
    BY <1>2
  <2> QED
    BY <2>1, <2>2, <2>3
<1>8. f = F(f)
  <2> HIDE DEF F
  <2> QED
    BY <1>7
<1> HIDE DEF f
<1> DEFINE wrong == {n \in 0..L : f[n] \notin Same}
<1>9. wrong \in SUBSET Nat
  BY <1>2
<1>10. 0 \notin wrong
  BY <1>2, <1>5, <1>8
<1>11. ASSUME NEW n \in wrong
       PROVE  n - 1 \in wrong \/ n = 0
  <2> SUFFICES ASSUME n # 0, n - 1 \notin wrong PROVE FALSE
    OBVIOUS
  <2>1. n \in 1..L /\ n - 1 \in 0..L /\ n \in Nat /\ n \in 0..L
    BY <1>2
  <2>2. f[n - 1] \in Same
    BY <2>1
  <2>3. f[n] = Rung(f[n - 1], n)
    BY <1>8, <2>1
  <2> QED
    BY <1>3, <2>1, <2>2, <2>3
<1>12. wrong = {}
  <2> HIDE DEF wrong
  <2> QED
    BY <1>9, <1>10, <1>11, FirstWrong
<1>13. f[L] \in Same
  BY <1>2, <1>12
<1> QED
  BY <1>1, <1>13 DEF Same

LEMMA OrphansEndIn ==
  ASSUME NEW h \in Histories, NEW start \in 1..Len(h) + 1
  PROVE  OrphansEnd(h, start) \in start..Len(h) + 1
<1> DEFINE Ends(i) == i = Len(h) + 1 \/ h[i].role # "tool"
           T == {i \in start..Len(h) + 1 : Ends(i)}
<1>1. Len(h) \in Nat
  BY DEF Histories
<1>2. T \in SUBSET Nat /\ Len(h) + 1 \in T
  BY <1>1
<1>3. PICK i \in T : \A j \in T : i <= j
  BY <1>2, LeastElement
<1>4. \A j \in start..i - 1 : h[j].role = "tool"
  BY <1>1, <1>3
<1>5. i \in start..Len(h) + 1 /\ Ends(i)
  BY <1>3
<1> QED
  BY <1>4, <1>5 DEF OrphansEnd

LEMMA TailTyped ==
  ASSUME NEW h \in Histories, NEW k \in 1..Len(h) + 1
  PROVE  /\ SubSeq(h, k, Len(h)) \in Histories /\ Len(SubSeq(h, k, Len(h))) = Len(h) - k + 1
         /\ \A i \in 1..Len(h) - k + 1 : SubSeq(h, k, Len(h))[i] = h[k + i - 1]
<1>1. Len(h) \in Nat /\ k \in Int /\ k >= 1 /\ k <= Len(h) + 1 /\ \A i \in 1..Len(h) : h[i] \in MessageType
  BY DEF Histories
<1>2. \A i \in k..Len(h) : h[i] \in MessageType
  BY <1>1
<1> QED
  BY <1>1, <1>2, SubSeqProperties DEF Histories

LEMMA FoldedTyped ==
  ASSUME NEW s \in MessageType, NEW h \in Histories, NEW k \in 1..Len(h) + 1
  PROVE  <<s>> \o SubSeq(h, k, Len(h)) \in Histories
<1>1. SubSeq(h, k, Len(h)) \in Seq(MessageType) /\ <<s>> \in Seq(MessageType)
  BY TailTyped DEF Histories
<1> QED
  BY <1>1, ConcatProperties DEF Histories

LEMMA SummaryTyped ==
  ASSUME Measured, NEW most \in Nat, NEW s \in Summaries(most)
  PROVE  s \in MessageType /\ (s.chars = Frame + 1 \/ s.chars = Frame + Bigger(1, most))
<1>1. PICK n \in {1, Bigger(1, most)} :
        s = [Message("user", Frame + n, Max(language)) EXCEPT !.body = "summary"]
  BY DEF Summaries
<1>2. Frame + n \in Nat /\ Max(language) \in language /\ "user" \in Roles
  BY Constants, Densest DEF Measured, Bigger, Roles
<1> QED
  BY <1>1, <1>2, MessageTyped

LEMMA LargestIn ==
  ASSUME NEW n \in Nat, NEW T \in SUBSET (1..n), T # {}
  PROVE  Max(T) \in T
<1> DEFINE U == {n - x : x \in T}
<1>1. U \in SUBSET Nat /\ U # {}
  <2>1. \A x \in T : x \in 1..n
    OBVIOUS
  <2>2. \A x \in T : n - x \in Nat
    BY <2>1
  <2> QED
    BY <2>2
<1>2. PICK u \in U : \A v \in U : u <= v
  BY <1>1, LeastElement
<1>3. PICK x \in T : u = n - x
  BY <1>2
<1>4. ASSUME NEW y \in T
      PROVE  x >= y
  <2>1. n - y \in U /\ x \in 1..n /\ y \in 1..n
    OBVIOUS
  <2>2. n - x <= n - y
    BY <1>2, <1>3, <2>1
  <2> QED
    BY <2>1, <2>2
<1> QED
  BY <1>4 DEF Max

LEMMA SmallestIn ==
  ASSUME NEW T \in SUBSET Nat, T # {}
  PROVE  Min(T) \in T
BY LeastElement DEF Min

LEMMA KeptThatFits ==
  ASSUME NEW h, NEW keep \in Nat \ {0}, NEW room
  PROVE  KeepThatFits(h, keep, room) \in 2..Bigger(2, keep)
<1> DEFINE tail(n) == SubSeq(h, Len(h) - n + 1, Len(h))
           fits == {n \in 1..keep : n <= 2 \/ EachEstimated(tail(n)) <= room}
           T == {n \in fits : \A k \in 1..n : k \in fits}
<1>1. T \in SUBSET (1..keep) /\ 1 \in T
  OBVIOUS
<1>2. KeepThatFits(h, keep, room) = Bigger(2, Max(T))
  BY DEF KeepThatFits
<1> HIDE DEF T
<1>3. Max(T) \in 1..keep
  BY <1>1, LargestIn
<1> QED
  BY <1>2, <1>3 DEF Bigger

LEMMA CompressTyped ==
  ASSUME Measured, NEW h \in Histories, NEW budget \in Int, NEW keep \in Nat \ {0},
         NEW fixed \in Nat, NEW c \in CompressHistory(h, budget, keep, fixed)
  PROVE  c \in Histories
<1> DEFINE demoted == DemoteUntilUnder(h, budget, fixed)
           kept    == KeepThatFits(demoted, Smaller(keep, Len(demoted)), Bigger(0, budget - fixed))
           start   == OrphansEnd(demoted, Len(demoted) - kept + 1)
           recent  == SubSeq(demoted, start, Len(demoted))
           compacted == {<<s>> \o recent : s \in Summaries(SummaryChars)}
           under == \/ fixed + EstimateTokens(demoted) <= budget
                    \/ Len(demoted) <= keep \/ start = 1
           Squeezed(g) == IF fixed + EstimateTokens(g) > budget THEN DemoteResults(g, 1) ELSE g
<1>1. demoted \in Histories /\ Len(demoted) \in Nat
  BY DemotedUntilTyped DEF Histories
<1>2. CompressHistory(h, budget, keep, fixed) = IF under THEN {demoted} ELSE {Squeezed(g) : g \in compacted}
  BY DEF CompressHistory
<1> HIDE DEF demoted
<1>3. CASE under
  BY <1>1, <1>2, <1>3
<1>4. CASE ~under
  <2>1. Len(demoted) > keep
    BY <1>1, <1>4
  <2>2. kept \in 2..Bigger(2, keep)
    <3>1. Smaller(keep, Len(demoted)) = keep
      BY <1>1, <2>1 DEF Smaller
    <3> QED
      BY <3>1, KeptThatFits
  <2> HIDE DEF kept
  <2>3. Len(demoted) - kept + 1 \in 1..Len(demoted) + 1
    BY <1>1, <2>1, <2>2 DEF Bigger
  <2>4. start \in 1..Len(demoted) + 1
    BY <1>1, <2>3, OrphansEndIn
  <2> HIDE DEF start
  <2>5. SummaryChars \in Nat
    BY Constants
  <2>6. \A g \in compacted : g \in Histories
    BY <1>1, <2>4, <2>5, SummaryTyped, FoldedTyped
  <2> HIDE DEF compacted
  <2>7. \A g \in compacted : Squeezed(g) \in Histories
    BY <2>6, DemotedTyped
  <2> QED
    BY <1>2, <1>4, <2>7
<1> QED
  BY <1>3, <1>4

\* A suffix of a suffix is no more than it.
LEMMA EstimatedTails ==
  ASSUME Measured, NEW h \in Histories, NEW j \in 1..Len(h) + 1, NEW k \in j..Len(h) + 1
  PROVE  EachEstimated(SubSeq(h, k, Len(h))) <= EachEstimated(SubSeq(h, j, Len(h)))
<1> DEFINE a == SubSeq(h, j, Len(h))
           b == SubSeq(h, k, Len(h))
           i == k - j + 1
<1>1. Len(h) \in Nat /\ k \in 1..Len(h) + 1
  BY DEF Histories
<1>2. /\ a \in Histories /\ Len(a) = Len(h) - j + 1
      /\ \A n \in 1..Len(h) - j + 1 : a[n] = h[j + n - 1]
  BY TailTyped
<1>3. /\ b \in Histories /\ Len(b) = Len(h) - k + 1
      /\ \A n \in 1..Len(h) - k + 1 : b[n] = h[k + n - 1]
  BY <1>1, TailTyped
<1> HIDE DEF a, b
<1>4. i \in 1..Len(a) + 1
  BY <1>1, <1>2
<1>5. /\ SubSeq(a, i, Len(a)) \in Histories /\ Len(SubSeq(a, i, Len(a))) = Len(a) - i + 1
      /\ \A n \in 1..Len(a) - i + 1 : SubSeq(a, i, Len(a))[n] = a[i + n - 1]
  BY <1>2, <1>4, TailTyped
<1>6. /\ EstimatesOf(a) \in Seq(Nat) /\ Len(EstimatesOf(a)) = Len(a)
      /\ \A n \in 1..Len(a) : EstimatesOf(a)[n] = Estimate(a[n].chars)
  BY <1>2, MeasuresTyped
<1>7. /\ EstimatesOf(b) \in Seq(Nat) /\ Len(EstimatesOf(b)) = Len(b)
      /\ \A n \in 1..Len(b) : EstimatesOf(b)[n] = Estimate(b[n].chars)
  BY <1>3, MeasuresTyped
<1> DEFINE c == SubSeq(EstimatesOf(a), i, Len(EstimatesOf(a)))
<1>8. c \in Seq(Nat) /\ Total(c) <= Total(EstimatesOf(a))
  BY <1>4, <1>6, TotalTail
<1>9. Len(c) = Len(b) /\ \A n \in 1..Len(b) : c[n] = EstimatesOf(b)[n]
  <2>1. /\ Len(c) = Len(a) - i + 1
        /\ \A n \in 1..Len(a) - i + 1 : c[n] = EstimatesOf(a)[i + n - 1]
    <3>1. i \in Int /\ Len(a) \in Int /\ i <= Len(a) + 1 /\ \A n \in i..Len(a) : EstimatesOf(a)[n] \in Nat
      BY <1>1, <1>2, <1>4, <1>6
    <3> QED
      BY <1>6, <3>1, SubSeqProperties
  <2>2. Len(b) = Len(a) - i + 1
    BY <1>1, <1>2, <1>3
  <2>3. ASSUME NEW n \in 1..Len(b)
        PROVE  c[n] = EstimatesOf(b)[n]
    <3>1. PICK m \in Nat : m = i + n - 1
      BY <1>4, <1>1, <1>2
    <3>2. m \in 1..Len(a) /\ n \in 1..Len(a) - i + 1 /\ j + m - 1 = k + n - 1
      BY <1>1, <1>2, <1>3, <2>2, <3>1
    <3>3. c[n] = Estimate(a[m].chars)
      BY <1>6, <2>1, <3>1, <3>2
    <3>4. a[m] = b[n]
      BY <1>1, <1>2, <1>3, <3>2
    <3> QED
      BY <1>7, <3>3, <3>4
  <2> QED
    BY <2>1, <2>2, <2>3
<1> HIDE DEF c
<1>10. c = EstimatesOf(b)
  BY <1>7, <1>8, <1>9, SeqEqual
<1> QED
  BY <1>8, <1>10 DEF a, b, EachEstimated, EstimatesOf

\* Where the tail begins: no more messages than asked for, no more tokens than there is
\* room for, each estimated by itself.
LEMMA RecentStarts ==
  ASSUME Measured, NEW h \in Histories, NEW most \in Nat, NEW room \in Nat
  PROVE  /\ RecentStart(h, most, room) \in 1..Len(h) + 1
         /\ Len(h) - RecentStart(h, most, room) + 1 <= most
         /\ EachEstimated(SubSeq(h, RecentStart(h, most, room), Len(h))) <= room
<1> DEFINE fits(i) == i = Len(h) + 1 \/ EachEstimated(SubSeq(h, i, Len(h))) <= room
           T == {i \in Bigger(1, Len(h) - most + 1)..Len(h) + 1 : fits(i)}
           first == Min(T)
           users == {i \in first + 1..Len(h) : h[i].role = "user"}
           start == RecentStart(h, most, room)
<1>1. Len(h) \in Nat
  BY DEF Histories
<1>2. T \in SUBSET Nat /\ Len(h) + 1 \in T
  BY <1>1 DEF Bigger
<1>3. first \in T
  BY <1>2, SmallestIn
<1>4. start = IF first > Len(h) \/ h[first].role = "user" THEN first
              ELSE IF users # {} THEN Min(users) ELSE OrphansEnd(h, first)
  BY DEF RecentStart
<1> HIDE DEF first, start
<1>5. first \in 1..Len(h) + 1 /\ Len(h) - first + 1 <= most /\ fits(first)
  BY <1>1, <1>3 DEF Bigger
<1>6. start \in first..Len(h) + 1
  <2>1. users # {} => Min(users) \in users
    <3>1. users \in SUBSET Nat
      BY <1>1, <1>5
    <3> HIDE DEF users
    <3> QED
      BY <3>1, SmallestIn
  <2>2. OrphansEnd(h, first) \in first..Len(h) + 1
    BY <1>5, OrphansEndIn
  <2>3. \A i \in users : i \in first..Len(h) + 1
    BY <1>1, <1>5
  <2>4. first \in first..Len(h) + 1
    BY <1>1, <1>5
  <2> HIDE DEF users
  <2> QED
    BY <1>4, <2>1, <2>2, <2>3, <2>4
<1>7. EachEstimated(SubSeq(h, first, Len(h))) <= room
  <2>1. CASE first = Len(h) + 1
    <3>1. SubSeq(h, first, Len(h)) \in Histories /\ Len(SubSeq(h, first, Len(h))) = 0
      BY <1>1, <1>5, <2>1, TailTyped
    <3> DEFINE e == EstimatesOf(SubSeq(h, first, Len(h)))
    <3>2. e \in Seq(Nat) /\ Len(e) = 0
      BY <3>1, MeasuresTyped
    <3>3. PICK f \in [0..Len(e) -> Nat] : Sums(f, e)
      BY <3>2, SumsExist
    <3>4. Total(e) = 0
      BY <3>2, <3>3, TotalSums DEF Sums
    <3>5. EachEstimated(SubSeq(h, first, Len(h))) = Total(e)
      BY DEF EachEstimated, EstimatesOf
    <3> QED
      BY <3>4, <3>5
  <2> QED
    BY <1>5, <2>1
<1>8. EachEstimated(SubSeq(h, start, Len(h))) <= EachEstimated(SubSeq(h, first, Len(h)))
  BY <1>5, <1>6, EstimatedTails
<1>9. /\ EachEstimated(SubSeq(h, start, Len(h))) \in Nat /\ EachEstimated(SubSeq(h, first, Len(h))) \in Nat
      /\ start \in 1..Len(h) + 1
  <2>1. start \in 1..Len(h) + 1
    BY <1>1, <1>5, <1>6
  <2> QED
    BY <1>5, <2>1, TailTyped, SizesTyped
<1>10. Len(h) - start + 1 <= most /\ EachEstimated(SubSeq(h, start, Len(h))) <= room
  BY <1>1, <1>5, <1>6, <1>7, <1>8, <1>9
<1> QED
  BY <1>9, <1>10 DEF start

-------------------------------------------------------------------------------
(* The summary strategy.                                                   *)

\* A summary of so many tokens has no more characters than they have.
LEMMA SummaryIn ==
  ASSUME Measured, NEW tokens \in Nat
  PROVE  /\ SummaryOf(tokens) \in Nat /\ SummaryOf(tokens) <= (tokens * ratio) \div 10
         /\ (tokens * ratio) \div 10 \in Nat
         /\ tokens # 0 => SummaryOf(tokens) >= 1
<1>1. SummaryChars \in Nat \ {0} /\ ratio \in 15..80
  BY Constants DEF Measured, MinRatio, MaxRatio
<1>2. PICK p \in Nat : p = tokens * ratio
  BY <1>1
<1>3. PICK q \in Nat : q = p \div 10
  BY Divided, 10 \in Nat \ {0}
<1>4. tokens # 0 => q >= 1
  <2> SUFFICES ASSUME tokens # 0 PROVE q >= 1
    OBVIOUS
  <2>1. p >= 15
    BY <1>1, <1>2
  <2> QED
    BY <1>3, <2>1
<1>5. SummaryOf(tokens) = Smaller(SummaryChars, q)
  BY <1>2, <1>3 DEF SummaryOf
<1> QED
  BY <1>1, <1>2, <1>3, <1>4, <1>5 DEF Smaller

LEMMA SummariseTyped ==
  ASSUME Measured, NEW h \in Histories, NEW budget \in Int, NEW keep \in Nat,
         NEW fixed \in Nat, NEW c \in SummariseOnly(h, budget, keep, fixed)
  PROVE  c \in Histories
<1> DEFINE room   == Bigger(0, budget - fixed)
           tokens == IF budget <= 1 THEN SummaryTokens
                     ELSE Smaller(SummaryTokens, Bigger(1, room - Estimate(Frame)))
           rest   == IF budget <= 1 THEN 0 ELSE Bigger(0, room - Estimate(Frame) - tokens)
           start  == RecentStart(h, keep, rest)
           most   == SummaryOf(tokens)
<1>1. SummariseOnly(h, budget, keep, fixed) =
        IF start = 1 THEN {h} ELSE {<<s>> \o SubSeq(h, start, Len(h)) : s \in Summaries(most)}
  BY DEF SummariseOnly
<1>2. Estimate(Frame) \in Nat
  BY Constants, EstimateNat
<1>3. tokens \in Nat /\ rest \in Nat
  BY <1>2, Constants DEF Bigger, Smaller
<1>4. most \in Nat
  BY <1>3, SummaryIn
<1>5. start \in 1..Len(h) + 1
  BY <1>3, RecentStarts
<1> HIDE DEF start, most
<1>6. CASE start = 1
  BY <1>1, <1>6
<1>7. CASE start # 1
  <2>1. PICK s \in Summaries(most) : c = <<s>> \o SubSeq(h, start, Len(h))
    BY <1>1, <1>7
  <2> QED
    BY <1>4, <1>5, <2>1, SummaryTyped, FoldedTyped
<1> QED
  BY <1>6, <1>7

LEMMA CompactedTyped ==
  ASSUME Measured, NEW h \in Histories, NEW budget \in Int, NEW keep \in Nat \ {0},
         NEW fixed \in Nat, NEW used, NEW c \in Compacted(h, budget, keep, fixed, used)
  PROVE  c \in Histories
BY CompressTyped, SummariseTyped DEF Compacted

\* A folded history that is over the window by its own estimate, though the strategy
\* aimed at a budget below it: there was no room for any tail.
LEMMA FoldedOver ==
  ASSUME Measured, NEW h \in Histories, NEW budget \in Nat, budget > 1, NEW limit \in Nat,
         budget + KeepRecent <= limit,
         NEW c \in SummariseOnly(h, budget, KeepRecent, Estimate(Fixed)),
         Estimate(Fixed) + EstimateTokens(c) > limit
  PROVE  Estimate(Fixed) + Estimate(Frame + Bigger(1, ratio \div 10)) + KeepRecent > limit
<1> DEFINE room   == Bigger(0, budget - Estimate(Fixed))
           tokens == Smaller(SummaryTokens, Bigger(1, room - Estimate(Frame)))
           rest   == Bigger(0, room - Estimate(Frame) - tokens)
           start  == RecentStart(h, KeepRecent, rest)
           most   == SummaryOf(tokens)
           tail   == SubSeq(h, start, Len(h))
           least  == Estimate(Frame + Bigger(1, ratio \div 10))
<1>1. SummariseOnly(h, budget, KeepRecent, Estimate(Fixed)) =
        IF start = 1 THEN {h} ELSE {<<s>> \o tail : s \in Summaries(most)}
  <2>1. ~(budget <= 1)
    OBVIOUS
  <2> QED
    BY <2>1, Zenon DEF SummariseOnly
<1>2. /\ Estimate(Fixed) \in Nat /\ Estimate(Frame) \in Nat /\ Frame \in Nat
      /\ KeepRecent \in Nat /\ SummaryTokens \in Nat \ {0} /\ ratio \in 15..80
  BY Constants, EstimateNat DEF Measured, MinRatio, MaxRatio
<1>3. tokens \in Nat \ {0} /\ rest \in Nat /\ room \in Nat
  BY <1>2 DEF Bigger, Smaller
<1>4. \/ Estimate(Fixed) + Estimate(Frame) + tokens + rest <= budget
      \/ tokens = 1 /\ rest = 0
  BY <1>2 DEF Bigger, Smaller
<1>5. rest = 0 \/ Estimate(Fixed) + rest <= budget
  BY <1>2, <1>3, <1>4
<1>6. most \in Nat \ {0} /\ Estimate(Frame + most) <= Estimate(Frame) + tokens
  <2>1. most \in Nat /\ most >= 1 /\ most <= (tokens * ratio) \div 10 /\ (tokens * ratio) \div 10 \in Nat
    BY <1>3, SummaryIn
  <2>2. Estimate(Frame + (tokens * ratio) \div 10) <= Estimate(Frame) + tokens
    BY <1>3, FramedSummary
  <2>3. PICK full \in Nat : full = (tokens * ratio) \div 10
    BY <2>1
  <2> HIDE DEF most
  <2>4. Frame + most \in Nat /\ Frame + full \in Nat /\ Frame + most <= Frame + full
    BY <1>2, <2>1, <2>3
  <2>5. /\ Estimate(Frame + most) <= Estimate(Frame + full)
        /\ Estimate(Frame + most) \in Nat /\ Estimate(Frame + full) \in Nat
    BY <2>4, EstimateGrows, EstimateNat
  <2>6. Estimate(Frame + full) <= Estimate(Frame) + tokens
    BY <2>2, <2>3
  <2> HIDE DEF tokens
  <2> QED
    BY <1>2, <1>3, <2>1, <2>5, <2>6
<1>7. tokens = 1 => most <= ratio \div 10
  <2> SUFFICES ASSUME tokens = 1 PROVE most <= ratio \div 10
    OBVIOUS
  <2>1. (1 * ratio) \div 10 = ratio \div 10
    BY <1>2
  <2> QED
    BY <2>1, SummaryIn, 1 \in Nat
<1> HIDE DEF room, tokens, rest, most
<1>8. start \in 1..Len(h) + 1 /\ Len(h) - start + 1 <= KeepRecent /\ EachEstimated(tail) <= rest
  BY <1>2, <1>3, RecentStarts
<1> HIDE DEF start
<1>9. /\ tail \in Histories /\ Len(tail) = Len(h) - start + 1
      /\ Len(tail) \in Nat /\ Len(tail) <= KeepRecent
  BY <1>8, TailTyped DEF Histories
<1>10. /\ EachEstimated(tail) \in Nat /\ EstimateTokens(tail) \in Nat
       /\ EstimateTokens(tail) <= EachEstimated(tail) + Len(tail)
  BY <1>9, SizesTyped, Rounding
<1>11. least \in Nat
  <2>1. ratio \div 10 \in Nat
    BY <1>2
  <2>2. Frame + Bigger(1, ratio \div 10) \in Nat
    BY <1>2, <2>1 DEF Bigger
  <2> QED
    BY <2>2, EstimateNat
<1>12. CASE start = 1
  <2>1. tail = h
    <3>1. Len(tail) = Len(h) /\ \A i \in 1..Len(h) : tail[i] = h[i]
      BY <1>8, <1>9, <1>12, TailTyped
    <3> QED
      BY <1>9, <3>1, SeqEqual DEF Histories
  <2>2. EstimateTokens(c) = EstimateTokens(tail)
    BY <1>1, <1>12, <2>1
  <2> HIDE DEF tail, least
  <2>3. Estimate(Fixed) + rest + KeepRecent > limit
    BY <1>2, <1>3, <1>8, <1>9, <1>10, <2>2
  <2>4. rest = 0
    BY <1>2, <1>3, <1>5, <2>3
  <2> QED
    BY <1>2, <1>11, <2>3, <2>4 DEF least
<1>13. CASE start # 1
  <2>1. PICK s \in Summaries(most) : c = <<s>> \o tail
    BY <1>1, <1>13
  <2>2. s \in MessageType /\ (s.chars = Frame + 1 \/ s.chars = Frame + Bigger(1, most))
    BY <1>6, SummaryTyped
  <2>3. most >= 1
    BY <1>6
  <2>4. s.chars \in Nat /\ s.chars <= Frame + most
    BY <1>2, <1>6, <2>2, <2>3 DEF Bigger
  <2>5. Estimate(s.chars) \in Nat /\ Estimate(s.chars) <= Estimate(Frame + most) /\ Estimate(Frame + most) \in Nat
    <3>1. Frame + most \in Nat
      BY <1>2, <1>6
    <3> QED
      BY <2>4, <3>1, EstimateGrows, EstimateNat
  <2>6. EstimateTokens(c) <= Estimate(s.chars) + EachEstimated(tail) + Len(tail)
    BY <1>9, <2>1, <2>2, RoundingBehind
  <2>7. EstimateTokens(c) \in Nat
    BY <1>9, <2>1, <2>2, RoundingBehind, SizesTyped
  <2> HIDE DEF tail, least
  <2>8. Estimate(Fixed) + Estimate(Frame + most) + rest + KeepRecent > limit
    <3>1. EachEstimated(tail) + Len(tail) <= rest + KeepRecent
      BY <1>2, <1>3, <1>8, <1>9, <1>10
    <3>2. EstimateTokens(c) <= Estimate(Frame + most) + (EachEstimated(tail) + Len(tail))
      BY <1>9, <1>10, <2>5, <2>6, <2>7
    <3>3. EstimateTokens(c) <= Estimate(Frame + most) + (rest + KeepRecent)
      BY <1>2, <1>3, <1>9, <1>10, <2>5, <2>7, <3>1, <3>2
    <3> QED
      BY <1>2, <1>3, <2>5, <2>7, <3>3
  <2>9. tokens = 1 /\ rest = 0
    BY <1>2, <1>3, <1>4, <1>6, <2>5, <2>8
  <2>10. Estimate(Frame + most) <= least
    <3>1. /\ Frame + most \in Nat /\ Frame + Bigger(1, ratio \div 10) \in Nat
          /\ Frame + most <= Frame + Bigger(1, ratio \div 10)
      <4>1. PICK q \in Nat : q = ratio \div 10
        BY <1>2
      <4>2. most <= q
        BY <1>7, <2>9, <4>1
      <4> QED
        BY <1>2, <1>6, <4>1, <4>2 DEF Bigger
    <3> QED
      BY <3>1, EstimateGrows DEF least
  <2>11. Estimate(Fixed) + least + KeepRecent > limit
    BY <1>2, <1>11, <2>5, <2>8, <2>9, <2>10
  <2> QED
    BY <2>11 DEF least
<1> QED
  BY <1>12, <1>13

-------------------------------------------------------------------------------
(* The invariant.                                                          *)

Phases == {"rest", "prepare", "fitting", "out", "refitting", "charged", "refused", "failed"}

Usages == [tokens : Nat, own : BOOLEAN]

Outcomes == [messages : Histories, adopted : BOOLEAN, goes : BOOLEAN]

FittingTyped ==
  /\ strategy \in {"ladder", "summarise"} /\ language \in Languages /\ window \in Windows
  /\ tokeniser \in Tokenisers /\ mixed \in BOOLEAN /\ fit \in Outcomes
  /\ usage \in Usages
  /\ history \in Histories /\ out \in Histories /\ charged \in Histories
  /\ anchor \in Nat \cup {-1} /\ ratio \in MinRatio..MaxRatio /\ samples \in {0, 1}
  /\ phase \in Phases /\ requests \in Nat /\ retried \in BOOLEAN /\ replaced \in BOOLEAN

\* A ratio learned from one tokeniser's charges is no larger than its largest density.
RatioIsLearned == samples > 0 /\ ~mixed => ratio <= 10 * (Max(language) * tokeniser)

\* The request that is out was within the window by the estimate.
OutIsEstimated ==
  phase = "out" /\ window > 0 => Estimate(Fixed) + EstimateTokens(out) <= window

\* The history a pending fit leaves: the one it adopts, or whatever is there then.
Left == IF fit.adopted THEN fit.messages ELSE history

\* It is within the window when it may go out, and when it is over the window by its
\* estimate then nothing fits, whatever the host does to the history meanwhile.
FitIsEstimated ==
  phase = "fitting" =>
    /\ fit.goes /\ window > 0 => Estimate(Fixed) + EstimateTokens(Left) <= window
    /\ /\ strategy = "summarise" /\ Estimate(Fixed) + EstimateTokens(Left) > window
       /\ AutocompactBudget > 1 /\ AutocompactBudget + KeepRecent <= window
       => NothingFits

FittingInv ==
  FittingTyped /\ AnchorIsOwn /\ RatioIsLearned /\ OutIsEstimated /\ FitIsEstimated
  /\ RefusedCannotFit

\* What is measured is a natural number.
LEMMA TypedMeasure ==
  ASSUME FittingTyped
  PROVE  /\ Measured /\ window \in Nat /\ Len(history) \in Nat
         /\ Estimate(Fixed) \in Nat /\ EstimateTokens(history) \in Nat
         /\ ContextUsage \in Nat /\ AutocompactBudget \in Nat
<1>1. Measured /\ window \in Nat /\ Len(history) \in Nat
  BY Constants DEF FittingTyped, Measured, Histories
<1>2. Estimate(Fixed) \in Nat /\ EstimateTokens(history) \in Nat
  BY <1>1, Constants, EstimateNat, SizesTyped DEF FittingTyped
<1>3. ContextUsage \in Nat
  <2>1. CASE Anchored
    <3>1. usage.tokens \in Nat /\ anchor + 1 \in 1..Len(history) + 1
      BY <1>1, <2>1 DEF Anchored, FittingTyped, Usages
    <3>2. SubSeq(history, anchor + 1, Len(history)) \in Histories
      BY <3>1, TailTyped DEF FittingTyped
    <3>3. EstimateTokens(SubSeq(history, anchor + 1, Len(history))) \in Nat
      BY <1>1, <3>2, SizesTyped
    <3> QED
      BY <2>1, <3>1, <3>3 DEF ContextUsage
  <2>2. CASE ~Anchored
    BY <1>2, <2>2 DEF ContextUsage
  <2> QED
    BY <2>1, <2>2
<1>4. AutocompactBudget \in Nat
  <2>1. (85 * window) \div 100 \in Nat
    BY <1>1
  <2> QED
    BY <1>1, <2>1, Constants DEF AutocompactBudget, Bigger
<1> QED
  BY <1>1, <1>2, <1>3, <1>4

LEMMA OutcomeMade ==
  ASSUME NEW m \in Histories, NEW a \in BOOLEAN, NEW g \in BOOLEAN
  PROVE  [messages |-> m, adopted |-> a, goes |-> g] \in Outcomes
BY Zenon DEF Outcomes

\* A pass makes a history of a history, and what goes out is within the window.
LEMMA OutcomeTyped ==
  ASSUME FittingTyped, NEW force \in BOOLEAN, NEW h \in Passes(force), NEW f, f = Outcome(h, force)
  PROVE  /\ h \in Histories /\ f \in Outcomes
         /\ f.messages = IF f.adopted THEN h ELSE history
         /\ f.goes /\ window > 0 => Estimate(Fixed) + EstimateTokens(f.messages) <= window
<1> DEFINE original == Original
           hard     == HardFit(force)
           budget   == AutocompactBudget
           target   == IF force THEN 1
                       ELSE IF hard /\ window > 0 THEN Smaller(budget, window) ELSE budget
           keep     == IF force THEN 2 ELSE KeepRecent
           candidate == Candidate(h, original)
           adopted   == Adopted(candidate, original, hard)
           goes      == window <= 0 \/ (IF adopted THEN candidate.request ELSE original) <= window
<1>1. /\ h \in IF original > budget \/ hard
                THEN Compacted(history, target, keep, Estimate(Fixed), original) ELSE {history}
      /\ f = [messages |-> IF adopted THEN h ELSE history, adopted |-> adopted, goes |-> goes]
  BY DEF Passes, Outcome
<1>2. /\ Measured /\ window \in Nat /\ ContextUsage \in Nat /\ budget \in Nat
      /\ Estimate(Fixed) \in Nat /\ EstimateTokens(history) \in Nat /\ history \in Histories
  BY TypedMeasure DEF FittingTyped
<1>3. original \in Nat /\ Estimate(Fixed) + EstimateTokens(history) <= original
  BY <1>2 DEF Bigger, Original
<1>4. keep \in Nat \ {0} /\ target \in Nat
  BY <1>2, Constants DEF Smaller
<1>5. adopted \in BOOLEAN /\ goes \in BOOLEAN
  BY DEF Adopted
<1> HIDE DEF original, hard, budget, target, keep
<1>6. h \in Histories
  BY <1>1, <1>2, <1>4, CompactedTyped
<1>7. adopted => h # history /\ candidate.request = Estimate(Fixed) + EstimateTokens(h)
  BY DEF Adopted, Candidate
<1> HIDE DEF adopted, candidate
<1>8. goes /\ window > 0 => (IF adopted THEN candidate.request ELSE original) <= window
  BY <1>2
<1> HIDE DEF goes
<1>9. PICK m \in Histories : m = IF adopted THEN h ELSE history
  BY <1>2, <1>6
<1>10. f = [messages |-> m, adopted |-> adopted, goes |-> goes]
  BY <1>1, <1>9
<1>11. f \in Outcomes
  BY <1>5, <1>10, OutcomeMade, Zenon
<1>12. f.messages = m /\ f.adopted = adopted /\ f.goes = goes
  BY <1>10
<1> QED
  BY <1>2, <1>3, <1>6, <1>7, <1>8, <1>9, <1>11, <1>12

\* What is refused by its estimate, folded or not, could not have been folded further.
LEMMA RefusedOver ==
  ASSUME FittingTyped, NEW h \in Passes(FALSE), strategy = "summarise",
         Estimate(Fixed) + EstimateTokens(Outcome(h, FALSE).messages) > window,
         AutocompactBudget > 1, AutocompactBudget + KeepRecent <= window
  PROVE  NothingFits
<1> DEFINE original == Original
           hard     == HardFit(FALSE)
           budget   == AutocompactBudget
           target   == IF hard /\ window > 0 THEN Smaller(budget, window) ELSE budget
           passes   == IF original > budget \/ hard
                       THEN Compacted(history, target, KeepRecent, Estimate(Fixed), original)
                       ELSE {history}
           candidate == Candidate(h, original)
           adopted   == Adopted(candidate, original, hard)
           left      == Outcome(h, FALSE).messages
<1>1. h \in passes /\ left = IF adopted THEN h ELSE history
  BY DEF Passes, Outcome
<1>2. /\ Measured /\ window \in Nat /\ ContextUsage \in Nat /\ budget \in Nat
      /\ Estimate(Fixed) \in Nat /\ EstimateTokens(history) \in Nat /\ history \in Histories
      /\ KeepRecent \in Nat \ {0}
  BY TypedMeasure, Constants DEF FittingTyped
<1>3. original \in Nat /\ Estimate(Fixed) + EstimateTokens(history) <= original
  BY <1>2 DEF Bigger, Original
<1>4. window > budget
  BY <1>2
<1>5. /\ candidate.request = IF h = history THEN original ELSE Estimate(Fixed) + EstimateTokens(h)
      /\ adopted => h # history /\ candidate.request < original
  BY DEF Adopted, Candidate
<1>6. h \in Histories /\ EstimateTokens(h) \in Nat
  BY <1>2, OutcomeTyped, SizesTyped
<1> HIDE DEF original, budget, left, candidate
<1>7. Estimate(Fixed) + EstimateTokens(left) > window
  BY DEF left
<1>8. original > window
  <2>1. CASE adopted
    <3>1. left = h
      BY <1>1, <2>1
    <3>2. Estimate(Fixed) + EstimateTokens(h) > window /\ Estimate(Fixed) + EstimateTokens(h) < original
      BY <1>5, <1>7, <2>1, <3>1
    <3> QED
      BY <1>2, <1>3, <1>6, <3>2
  <2>2. CASE ~adopted
    <3>1. left = history
      BY <1>1, <2>2
    <3> QED
      BY <1>2, <1>3, <1>7, <3>1
  <2> QED
    BY <2>1, <2>2
<1>9. hard /\ target = budget
  <2>1. hard
    BY <1>2, <1>4, <1>8 DEF HardFit, original
  <2> QED
    BY <1>2, <1>4, <2>1 DEF Smaller
<1>10. h \in SummariseOnly(history, budget, KeepRecent, Estimate(Fixed))
  <2>1. ~(original <= budget)
    BY <1>2, <1>3, <1>4, <1>8
  <2>2. passes = Compacted(history, budget, KeepRecent, Estimate(Fixed), original)
    BY <1>9
  <2> QED
    BY <1>1, <2>1, <2>2 DEF Compacted
<1>11. Estimate(Fixed) + EstimateTokens(h) > window
  <2>1. CASE adopted
    BY <1>1, <1>7, <2>1
  <2>2. CASE ~adopted
    <3>1. left = history
      BY <1>1, <2>2
    <3>2. h = history \/ ~(candidate.request < original)
      BY <1>9, <2>2 DEF Adopted, candidate, Candidate
    <3>3. CASE h = history
      BY <1>7, <3>1, <3>3
    <3>4. CASE h # history
      <4>1. ~(Estimate(Fixed) + EstimateTokens(h) < original)
        BY <1>5, <3>2, <3>4
      <4> QED
        BY <1>2, <1>3, <1>6, <1>8, <4>1
    <3> QED
      BY <3>3, <3>4
  <2> QED
    BY <2>1, <2>2
<1> QED
  BY <1>2, <1>10, <1>11, FoldedOver DEF NothingFits, budget

-------------------------------------------------------------------------------
(* What the actions do to its parts.                                       *)

LEMMA UsageTyped ==
  ASSUME NEW n \in Nat, NEW b \in BOOLEAN
  PROVE  [tokens |-> n, own |-> b] \in Usages
BY Zenon DEF Usages

LEMMA SameLanguage ==
  ASSUME language' = language
  PROVE  Histories' = Histories /\ Outcomes' = Outcomes
BY DEF Histories, MessageType, Outcomes

\* No more characters are charged for than the densest language has in so many tokens.
LEMMA ChargedChars ==
  ASSUME Measured, NEW h \in Histories
  PROVE  Fixed + Chars(h) <= (Max(language) * tokeniser) * Real(h)
<1> DEFINE d == Max(language) * tokeniser
<1>1. d \in Nat \ {0} /\ Fixed \in Nat /\ \A e \in language : e * tokeniser <= d
  BY CoarsestNat, Constants
<1> HIDE DEF d
<1>2. TokensIn(Fixed, d) \in Nat /\ Fixed <= d * TokensIn(Fixed, d)
  BY <1>1, TokensInNat
<1>3. /\ CharsOf(h) \in Seq(Nat) /\ ChargesOf(h) \in Seq(Nat)
      /\ Len(CharsOf(h)) = Len(h) /\ Len(ChargesOf(h)) = Len(h) /\ Len(h) \in Nat
  BY MeasuresTyped
<1>4. ASSUME NEW i \in 1..Len(h)
      PROVE  1 * CharsOf(h)[i] <= d * ChargesOf(h)[i] + 0
  <2>1. PICK e \in Nat \ {0} : e = h[i].density * tokeniser
    BY MeasuresTyped
  <2>2. PICK t \in Nat : t = ChargesOf(h)[i]
    BY <1>3
  <2>3. /\ CharsOf(h)[i] = h[i].chars /\ h[i].chars \in Nat
        /\ ChargesOf(h)[i] = TokensIn(h[i].chars, e) /\ e <= d
    BY <1>1, <2>1, MeasuresTyped
  <2>4. h[i].chars <= e * t
    BY <2>2, <2>3, TokensInNat
  <2>5. e * t <= d * t /\ e * t \in Nat /\ d * t \in Nat
    BY <1>1, <2>3
  <2> QED
    BY <2>1, <2>2, <2>3, <2>4, <2>5
<1>5. 1 * Total(CharsOf(h)) <= d * Total(ChargesOf(h)) + 0 * Len(CharsOf(h))
  BY <1>1, <1>3, <1>4, LinearTotals, 1 \in Nat, 0 \in Nat
<1>6. PICK c \in Nat : c = Chars(h)
  BY SizesTyped
<1>7. PICK t \in Nat : t = Total(ChargesOf(h))
  BY <1>3, TotalNat
<1>8. c <= d * t
  <2>1. Total(CharsOf(h)) = c
    BY <1>6 DEF Chars, CharsOf
  <2>2. d * t \in Nat
    BY <1>1, <1>7
  <2> QED
    BY <1>3, <1>5, <1>6, <1>7, <2>1, <2>2
<1>9. Real(h) = TokensIn(Fixed, d) + t
  BY <1>7 DEF Real, ChargesOf, d
<1>10. PICK f \in Nat : f = TokensIn(Fixed, d)
  BY <1>2
<1>11. Fixed + c <= d * (f + t)
  <2>1. d * (f + t) = d * f + d * t /\ d * f \in Nat /\ d * t \in Nat
    BY <1>1, <1>7, <1>10
  <2> QED
    BY <1>1, <1>2, <1>6, <1>8, <1>10, <2>1
<1> QED
  BY <1>6, <1>9, <1>10, <1>11 DEF d

\* observe() keeps the ratio in its range and below the largest density.
LEMMA Observed ==
  ASSUME FittingTyped, RatioIsLearned, UNCHANGED <<language, tokeniser, mixed>>,
         Observe(Fixed + Chars(out), Real(out))
  PROVE  ratio' \in MinRatio..MaxRatio /\ samples' \in {0, 1} /\ RatioIsLearned'
<1> DEFINE most == Max(language) * tokeniser
           chars == Fixed + Chars(out)
           tokens == Real(out)
           observed == (chars * 10) \div tokens
<1>1. /\ Measured /\ ratio \in 15..80 /\ samples \in {0, 1} /\ MinSample \in Nat \ {0}
      /\ most \in Nat \ {0} /\ mixed \in BOOLEAN
  BY Constants, CoarsestNat DEF FittingTyped, Measured, MinRatio, MaxRatio
<1>2. chars \in Nat /\ tokens \in Nat /\ chars <= most * tokens
  <2>1. out \in Histories /\ Fixed \in Nat
    BY Constants DEF FittingTyped
  <2>2. Chars(out) \in Nat /\ Real(out) \in Nat /\ Fixed + Chars(out) <= most * Real(out)
    BY <1>1, <2>1, SizesTyped, ChargedChars
  <2> QED
    BY <2>1, <2>2
<1>3. RatioIsLearned' <=> (samples' > 0 /\ ~mixed => ratio' <= 10 * most)
  BY DEF Max, RatioIsLearned
<1>3a. samples > 0 /\ ~mixed => ratio <= 10 * most
  BY DEF RatioIsLearned
<1> HIDE DEF most
<1>4. CASE UNCHANGED <<ratio, samples>>
  BY <1>1, <1>3, <1>3a, <1>4 DEF MinRatio, MaxRatio
<1>5. CASE /\ ~(chars < MinSample \/ observed \notin MinRatio..MaxRatio)
           /\ samples' = 1
           /\ ratio' = IF samples = 0 THEN observed ELSE (7 * ratio + 3 * observed) \div 10
  <2>1. observed \in 15..80 /\ chars >= 1
    BY <1>1, <1>2, <1>5 DEF MinRatio, MaxRatio
  <2>2. observed <= 10 * most
    <3>1. PICK d \in Nat : d = most
      BY <1>1
    <3>2. PICK c \in Nat : c = chars
      BY <1>2
    <3>3. PICK t \in Nat : t = tokens
      BY <1>2
    <3>4. c <= d * t /\ t # 0
      BY <1>2, <2>1, <3>1, <3>2, <3>3
    <3>5. c * 10 <= (10 * d) * t
      <4>1. (10 * d) * t = 10 * (d * t) /\ d * t \in Nat
        OBVIOUS
      <4> QED
        BY <3>4, <4>1
    <3>6. c * 10 < t * (10 * d) + t
      <4>1. (10 * d) * t = t * (10 * d) /\ t * (10 * d) \in Nat
        OBVIOUS
      <4> QED
        BY <3>4, <3>5, <4>1
    <3>7. (c * 10) \div t <= 10 * d
      <4>1. c * 10 \in Nat /\ t \in Nat \ {0} /\ 10 * d \in Nat
        BY <3>4
      <4> QED
        BY <3>6, <4>1, QuotientBelow
    <3> QED
      BY <3>1, <3>2, <3>3, <3>7
  <2> HIDE DEF observed
  <2>3. ratio' \in 15..80
    BY <1>1, <1>5, <2>1
  <2>4. ~mixed => ratio' <= 10 * most
    <3> SUFFICES ASSUME ~mixed PROVE ratio' <= 10 * most
      OBVIOUS
    <3>1. CASE samples = 0
      BY <1>5, <2>1, <2>2, <3>1
    <3>2. CASE samples # 0
      <4>1. ratio' = (7 * ratio + 3 * observed) \div 10
        BY <1>5, <3>2
      <4>2. ratio <= 10 * most
        BY <1>1, <1>3a, <3>2
      <4>3. PICK m \in Nat : m = 10 * most
        BY <1>1
      <4>4. ratio <= m /\ observed <= m
        BY <2>2, <4>2, <4>3
      <4>5. (7 * ratio + 3 * observed) \div 10 <= m
        BY <1>1, <2>1, <4>4
      <4> QED
        BY <4>1, <4>3, <4>5
    <3> QED
      BY <3>1, <3>2
  <2> QED
    BY <1>3, <1>5, <2>3, <2>4 DEF MinRatio, MaxRatio
<1> QED
  <2>1. \/ UNCHANGED <<ratio, samples>>
        \/ /\ ~(chars < MinSample \/ observed \notin MinRatio..MaxRatio)
           /\ samples' = 1
           /\ ratio' = IF samples = 0 THEN observed ELSE (7 * ratio + 3 * observed) \div 10
    BY DEF Observe
  <2> QED
    BY <1>4, <1>5, <2>1

LEMMA SamePrefix ==
  ASSUME NEW S, NEW h \in Seq(S), NEW g \in Seq(S), Len(h) <= Len(g),
         \A i \in 1..Len(h) : g[i] = h[i],
         NEW a \in 0..Len(h)
  PROVE  SubSeq(g, 1, a) = SubSeq(h, 1, a)
<1>1. Len(h) \in Nat /\ Len(g) \in Nat /\ a \in Nat
  OBVIOUS
<1>2. SubSeq(h, 1, a) = [i \in 1..a |-> h[i]] /\ SubSeq(g, 1, a) = [i \in 1..a |-> g[i]]
  BY <1>1
<1> QED
  BY <1>1, <1>2

\* An appended message stays behind the anchor.
LEMMA Grown ==
  ASSUME FittingTyped, AnchorIsOwn, NEW t \in Histories, history' = history \o t,
         UNCHANGED <<language, anchor, charged, replaced>>
  PROVE  history' \in Histories /\ AnchorIsOwn'
<1>1. /\ history \in Histories /\ anchor \in Nat \cup {-1}
      /\ Len(history) \in Nat /\ Len(t) \in Nat
  BY DEF FittingTyped, Histories
<1>2. /\ history' \in Histories /\ Len(history') = Len(history) + Len(t)
      /\ \A i \in 1..Len(history) : history'[i] = history[i]
  BY <1>1, ConcatProperties DEF Histories
<1>3. ASSUME anchor >= 0, ~replaced
      PROVE  anchor <= Len(history') /\ SubSeq(history', 1, anchor) = charged
  <2>1. anchor <= Len(history) /\ SubSeq(history, 1, anchor) = charged
    BY <1>3 DEF AnchorIsOwn
  <2>2. anchor \in 0..Len(history) /\ Len(history) <= Len(history')
    BY <1>1, <1>2, <1>3, <2>1
  <2>3. SubSeq(history', 1, anchor) = SubSeq(history, 1, anchor)
    BY <1>1, <1>2, <2>2, SamePrefix DEF Histories
  <2> QED
    BY <1>1, <1>2, <2>1, <2>2, <2>3
<1> QED
  BY <1>2, <1>3 DEF AnchorIsOwn

\* A charge that a pass may have cost.
LEMMA SummaryCharged ==
  ASSUME FittingTyped, NEW h, usage' \in ChargedFor(h)
  PROVE  usage' \in Usages
<1>1. usage' \in {usage, [tokens |-> Real(history), own |-> FALSE]}
  BY DEF ChargedFor
<1>2. Real(history) \in Nat
  BY TypedMeasure, SizesTyped DEF FittingTyped
<1>3. usage \in Usages /\ [tokens |-> Real(history), own |-> FALSE] \in Usages
  BY <1>2, UsageTyped DEF FittingTyped
<1> QED
  BY <1>1, <1>3

\* An adopted history has no anchor, a kept one has the anchor it had.
LEMMA Settled ==
  ASSUME FittingTyped, AnchorIsOwn, NEW h \in Histories, NEW adopted \in BOOLEAN,
         IF adopted THEN Adopt(h) ELSE Keep
  PROVE  /\ history' = IF adopted THEN h ELSE history
         /\ history' \in Histories /\ charged' \in Histories
         /\ anchor' \in Nat \cup {-1} /\ replaced' \in BOOLEAN /\ AnchorIsOwn'
<1>1. CASE adopted
  <2>1. /\ history' = h /\ anchor' = -1 /\ charged' = <<>> /\ replaced' = FALSE
    BY <1>1 DEF Adopt
  <2>2. <<>> \in Histories
    BY DEF Histories
  <2>3. AnchorIsOwn'
    BY <2>1 DEF AnchorIsOwn
  <2>4. anchor' \in Nat \cup {-1} /\ replaced' \in BOOLEAN
    BY <2>1
  <2> QED
    BY <1>1, <2>1, <2>2, <2>3, <2>4
<1>2. CASE ~adopted
  <2>1. UNCHANGED <<history, anchor, charged, replaced>>
    BY <1>2 DEF Keep, covered
  <2>2. AnchorIsOwn'
    BY <2>1 DEF AnchorIsOwn
  <2> QED
    BY <1>2, <2>1, <2>2 DEF FittingTyped
<1> QED
  BY <1>1, <1>2

\* The fit that was made is over.
LEMMA Finished ==
  ASSUME FittingTyped, AnchorIsOwn, FinishFit
  PROVE  /\ history' = Left /\ fit' \in Outcomes
         /\ history' \in Histories /\ charged' \in Histories
         /\ anchor' \in Nat \cup {-1} /\ replaced' \in BOOLEAN /\ AnchorIsOwn'
<1>1. fit.messages \in Histories /\ fit.adopted \in BOOLEAN
  BY DEF FittingTyped, Outcomes
<1>2. NoFit \in Outcomes
  <2>1. <<>> \in Histories /\ FALSE \in BOOLEAN
    BY DEF Histories
  <2> QED
    BY <2>1, Zenon DEF NoFit, Outcomes
<1>3. fit' = NoFit /\ IF fit.adopted THEN Adopt(fit.messages) ELSE Keep
  BY DEF FinishFit
<1> QED
  BY <1>1, <1>2, <1>3, Settled DEF Left

\* What a step that leaves the measure alone keeps.
LEMMA StillLearned ==
  ASSUME RatioIsLearned, UNCHANGED <<language, tokeniser, mixed, ratio, samples>>
  PROVE  RatioIsLearned'
BY DEF RatioIsLearned, Max

LEMMA StillOut ==
  ASSUME OutIsEstimated, phase' # "out" \/ UNCHANGED <<phase, out, window, ratio>>
  PROVE  OutIsEstimated'
BY DEF OutIsEstimated, Estimate, EstimateTokens

\* No host's step makes the history that is left larger.
LEMMA StillFits ==
  ASSUME FittingTyped, FittingTyped', FitIsEstimated, UNCHANGED <<strategy, language, window, ratio, fit, phase>>,
         EstimateTokens(history') <= EstimateTokens(history)
  PROVE  FitIsEstimated'
<1>1. EstimateTokens(Left)' = IF fit.adopted THEN EstimateTokens(fit.messages) ELSE EstimateTokens(history')
  BY DEF Left, EstimateTokens, Estimate
<1>2. /\ window \in Nat /\ Estimate(Fixed) \in Nat /\ EstimateTokens(history) \in Nat
      /\ EstimateTokens(fit.messages) \in Nat
  BY TypedMeasure, SizesTyped DEF FittingTyped, Outcomes
<1>3. EstimateTokens(history') \in Nat
  <2>1. history' \in Histories /\ Measured
    BY TypedMeasure, SameLanguage DEF FittingTyped
  <2> QED
    BY <2>1, SizesTyped
<1>4. EstimateTokens(Left)' <= EstimateTokens(Left) /\ EstimateTokens(Left)' \in Nat /\ EstimateTokens(Left) \in Nat
  BY <1>1, <1>2, <1>3 DEF Left
<1>5. Estimate(Fixed)' = Estimate(Fixed) /\ AutocompactBudget' = AutocompactBudget
      /\ NothingFits' = NothingFits
  BY DEF Estimate, AutocompactBudget, NothingFits
<1> DEFINE more == EstimateTokens(Left)
           fewer == EstimateTokens(Left)'
<1>6. FitIsEstimated' <=>
        (phase = "fitting" =>
           /\ fit.goes /\ window > 0 => Estimate(Fixed) + fewer <= window
           /\ /\ strategy = "summarise" /\ Estimate(Fixed) + fewer > window
              /\ AutocompactBudget > 1 /\ AutocompactBudget + KeepRecent <= window
              => NothingFits)
  BY <1>5 DEF FitIsEstimated
<1>7. phase = "fitting" =>
        /\ fit.goes /\ window > 0 => Estimate(Fixed) + more <= window
        /\ /\ strategy = "summarise" /\ Estimate(Fixed) + more > window
           /\ AutocompactBudget > 1 /\ AutocompactBudget + KeepRecent <= window
           => NothingFits
  BY DEF FitIsEstimated
<1> HIDE DEF more, fewer
<1>8. /\ Estimate(Fixed) + more <= window => Estimate(Fixed) + fewer <= window
      /\ Estimate(Fixed) + fewer > window => Estimate(Fixed) + more > window
  BY <1>2, <1>4 DEF more, fewer
<1> QED
  BY <1>6, <1>7, <1>8

\* An empty history takes no tokens.
LEMMA NothingLeft ==
  ASSUME Measured
  PROVE  EstimateTokens(<<>>) = 0
<1>1. <<>> \in Histories /\ Len(<<>>) = 0
  BY DEF Histories
<1>2. CharsOf(<<>>) \in Seq(Nat) /\ Len(CharsOf(<<>>)) = 0
  BY <1>1, MeasuresTyped
<1>3. PICK f \in [0..Len(CharsOf(<<>>)) -> Nat] : Sums(f, CharsOf(<<>>))
  BY <1>2, SumsExist
<1>4. Total(CharsOf(<<>>)) = 0
  BY <1>2, <1>3, TotalSums DEF Sums
<1>5. Chars(<<>>) = 0
  BY <1>4 DEF Chars, CharsOf
<1>6. (0 * 10) \div ratio = 0
  <2>1. ratio \in Nat \ {0} /\ 0 * 10 = 0
    BY DEF Measured, MinRatio, MaxRatio
  <2> QED
    BY <2>1, QuotientBelow, Divided
<1> QED
  BY <1>5, <1>6 DEF EstimateTokens, Estimate

LEMMA NotFitting ==
  ASSUME phase' # "fitting"
  PROVE  FitIsEstimated'
BY DEF FitIsEstimated

LEMMA NotRefused ==
  ASSUME phase' # "refused"
  PROVE  RefusedCannotFit'
BY DEF RefusedCannotFit

LEMMA Appended ==
  ASSUME FittingTyped, NEW r \in Roles, NEW n \in Nat, NEW d \in language
  PROVE  /\ <<Message(r, n, d)>> \in Histories
         /\ Append(history, Message(r, n, d)) = history \o <<Message(r, n, d)>>
<1>1. Message(r, n, d) \in MessageType
  BY MessageTyped
<1>2. history \in Seq(MessageType)
  BY DEF FittingTyped, Histories
<1> HIDE DEF MessageType
<1> QED
  BY <1>1, <1>2, AppendIsConcat DEF Histories

LEMMA FittingStarts == FittingInit => FittingInv
<1> SUFFICES ASSUME FittingInit PROVE FittingInv
  OBVIOUS
<1>1. <<>> \in Histories /\ usage \in Usages
  <2>1. usage = [tokens |-> 0, own |-> TRUE] /\ TRUE \in BOOLEAN /\ 0 \in Nat
    BY DEF FittingInit
  <2>2. usage \in Usages
    BY <2>1, UsageTyped
  <2> QED
    BY <2>2 DEF Histories
<1>2. ratio \in MinRatio..MaxRatio /\ anchor \in Nat \cup {-1} /\ phase \in Phases
      /\ samples \in {0, 1} /\ requests \in Nat
  <2>1. ratio = 30 /\ anchor = -1 /\ phase = "rest" /\ samples = 0 /\ requests = 0
    BY DEF FittingInit, DefaultRatio
  <2> QED
    BY <2>1 DEF Phases, MinRatio, MaxRatio
<1>3. fit \in Outcomes
  <2>1. fit = NoFit
    BY DEF FittingInit
  <2> QED
    BY <1>1, <2>1, FALSE \in BOOLEAN, Zenon DEF NoFit, Outcomes
<1>4. FittingTyped
  BY <1>1, <1>2, <1>3 DEF FittingInit, FittingTyped
<1> QED
  BY <1>4 DEF FittingInit, FittingInv, AnchorIsOwn, RatioIsLearned, OutIsEstimated, FitIsEstimated,
              RefusedCannotFit

LEMMA FittingStep ==
  ASSUME FittingInv, [FittingNext]_fittingVars
  PROVE  FittingInv'
<1> USE DEF FittingInv
<1>1. /\ FittingTyped /\ AnchorIsOwn /\ RatioIsLearned
      /\ OutIsEstimated /\ FitIsEstimated /\ RefusedCannotFit
  OBVIOUS
<1>2. /\ strategy' = strategy /\ language' = language
      /\ Histories' = Histories /\ Outcomes' = Outcomes
  <2>1. strategy' = strategy /\ language' = language
    BY DEF FittingNext, fittingVars, setup, Ask, Reply, ReplyCalls, Prepare, SendFitted, UsageArrives,
           NoUsage, Overflows, Retry, OverflowsAgain, HandleProviderError, SideCall, ClearHistory,
           ForceCompaction, UseModel
  <2> QED
    BY <2>1, SameLanguage
<1>3. Sizes \subseteq Nat /\ Windows \subseteq Nat /\ language \subseteq Nat \ {0}
      /\ Max(language) \in language /\ Min(Sizes) \in Nat
  BY <1>1, Constants, Densest, Smallest DEF FittingTyped
<1>4. ASSUME NEW n \in Sizes, NEW d \in language, Ask(n, d)
      PROVE  FittingInv'
  <2>1. "user" \in Roles
    BY DEF Roles
  <2>2. history' \in Histories /\ AnchorIsOwn'
    BY <1>1, <1>3, <1>4, <2>1, Appended, Grown DEF Ask, setup, model, measure, learned, covered
  <2>3. /\ phase' = "prepare" /\ UNCHANGED <<window, tokeniser, mixed, fit, usage, anchor, ratio,
                                             samples, charged, replaced, out, requests, retried>>
    BY <1>4 DEF Ask, setup, model, measure, learned, covered
  <2>4. FittingTyped'
    BY <1>1, <1>2, <2>2, <2>3 DEF FittingTyped, Phases
  <2> QED
    BY <1>1, <1>2, <2>2, <2>3, <2>4, StillLearned, StillOut, NotFitting, NotRefused
<1>5. ASSUME NEW n \in Sizes, NEW d \in language, Reply(n, d)
      PROVE  FittingInv'
  <2>1. "assistant" \in Roles
    BY DEF Roles
  <2>2. history' \in Histories /\ AnchorIsOwn'
    BY <1>1, <1>3, <1>5, <2>1, Appended, Grown DEF Reply, setup, model, measure, learned, covered
  <2>3. /\ phase' = "rest" /\ UNCHANGED <<window, tokeniser, mixed, fit, usage, anchor, ratio,
                                          samples, charged, replaced, out, requests, retried>>
    BY <1>5 DEF Reply, setup, model, measure, learned, covered
  <2>4. FittingTyped'
    BY <1>1, <1>2, <2>2, <2>3 DEF FittingTyped, Phases
  <2> QED
    BY <1>1, <1>2, <2>2, <2>3, <2>4, StillLearned, StillOut, NotFitting, NotRefused
<1>6. ASSUME NEW n \in Sizes, NEW d \in language, ReplyCalls(n, d)
      PROVE  FittingInv'
  <2>1. "assistant" \in Roles /\ "tool" \in Roles /\ 0 \in Nat /\ n \in Nat
    BY <1>3 DEF Roles
  <2>2. Message("assistant", 0, d) \in MessageType /\ Message("tool", n, d) \in MessageType
    BY <2>1, MessageTyped
  <2>3. <<Message("assistant", 0, d), Message("tool", n, d)>> \in Histories
    BY <2>2 DEF Histories
  <2>4. history' \in Histories /\ AnchorIsOwn'
    BY <1>1, <1>6, <2>3, Grown DEF ReplyCalls, setup, model, measure, learned, covered
  <2>5. /\ phase' = "prepare" /\ UNCHANGED <<window, tokeniser, mixed, fit, usage, anchor, ratio,
                                             samples, charged, replaced, out, requests, retried>>
    BY <1>6 DEF ReplyCalls, setup, model, measure, learned, covered
  <2>6. FittingTyped'
    BY <1>1, <1>2, <2>4, <2>5 DEF FittingTyped, Phases
  <2> QED
    BY <1>1, <1>2, <2>4, <2>5, <2>6, StillLearned, StillOut, NotFitting, NotRefused
<1>7. ASSUME Prepare
      PROVE  FittingInv'
  <2>1. PICK h \in Passes(FALSE) : fit' = Outcome(h, FALSE) /\ usage' \in ChargedFor(h)
    BY <1>7 DEF Prepare, StartFit
  <2>2. /\ phase' = "fitting" /\ requests' \in {requests, requests + 1}
        /\ UNCHANGED <<window, tokeniser, mixed, ratio, samples, anchor, charged, replaced, history,
                       out, retried>>
    BY <1>7 DEF Prepare, model, learned, covered
  <2>3. /\ fit' \in Outcomes /\ fit'.messages = IF fit'.adopted THEN h ELSE history
        /\ fit'.goes /\ window > 0 => Estimate(Fixed) + EstimateTokens(fit'.messages) <= window
    BY <1>1, <2>1, OutcomeTyped, FALSE \in BOOLEAN
  <2>4. usage' \in Usages
    BY <1>1, <2>1, SummaryCharged
  <2>5. FittingTyped'
    BY <1>1, <1>2, <2>2, <2>3, <2>4 DEF FittingTyped, Phases
  <2>6. AnchorIsOwn'
    BY <1>1, <2>2 DEF AnchorIsOwn
  <2>7. FitIsEstimated'
    <3> DEFINE left == EstimateTokens(fit'.messages)
    <3>1. Left' = fit'.messages
      BY <2>2, <2>3 DEF Left
    <3>2. EstimateTokens(Left)' = left /\ Estimate(Fixed)' = Estimate(Fixed)
          /\ AutocompactBudget' = AutocompactBudget /\ NothingFits' = NothingFits
      BY <1>2, <2>2, <3>1 DEF EstimateTokens, Estimate, AutocompactBudget, NothingFits
    <3>3. /\ strategy = "summarise" /\ Estimate(Fixed) + left > window
          /\ AutocompactBudget > 1 /\ AutocompactBudget + KeepRecent <= window
          => NothingFits
      BY <1>1, <2>1, RefusedOver
    <3>4. fit'.goes /\ window > 0 => Estimate(Fixed) + left <= window
      BY <2>3
    <3> HIDE DEF left
    <3> QED
      BY <1>2, <2>2, <3>2, <3>3, <3>4 DEF FitIsEstimated
  <2> QED
    BY <1>1, <1>2, <2>2, <2>5, <2>6, <2>7, StillLearned, StillOut, NotRefused
<1>8. ASSUME SendFitted
       PROVE  FittingInv'
  <2>1. /\ phase = "fitting" /\ FinishFit
        /\ phase' = IF fit.goes THEN "out" ELSE "refused"
        /\ out' = IF fit.goes THEN history' ELSE <<>>
        /\ UNCHANGED <<window, tokeniser, mixed, usage, ratio, samples, requests, retried>>
    BY <1>8 DEF SendFitted, model, learned
  <2>2. /\ history' = Left /\ fit' \in Outcomes
        /\ history' \in Histories /\ charged' \in Histories
        /\ anchor' \in Nat \cup {-1} /\ replaced' \in BOOLEAN /\ AnchorIsOwn'
    BY <1>1, <2>1, Finished
  <2>3. out' \in Histories /\ phase' \in Phases /\ phase' # "fitting"
    <3>1. <<>> \in Histories
      BY DEF Histories
    <3> QED
      BY <2>1, <2>2, <3>1 DEF Phases
  <2>4. FittingTyped'
    BY <1>1, <1>2, <2>1, <2>2, <2>3 DEF FittingTyped
  <2>5. OutIsEstimated'
    <3> SUFFICES ASSUME phase' = "out", window > 0
                 PROVE  (Estimate(Fixed) + EstimateTokens(out) <= window)'
      BY <2>1 DEF OutIsEstimated
    <3>1. fit.goes /\ out' = Left
      BY <2>1, <2>2
    <3>2. Estimate(Fixed) + EstimateTokens(Left) <= window
      BY <1>1, <2>1, <3>1 DEF FitIsEstimated
    <3> QED
      BY <2>1, <3>1, <3>2 DEF Estimate, EstimateTokens
  <2>6. RefusedCannotFit'
    <3> SUFFICES ASSUME (strategy = "summarise")',
                        (Estimate(Fixed) + EstimateTokens(history) > window)',
                        (AutocompactBudget > 1 /\ AutocompactBudget + KeepRecent <= window)'
                 PROVE  NothingFits'
      BY DEF RefusedCannotFit
    <3>1. AutocompactBudget > 1 /\ AutocompactBudget + KeepRecent <= window
      BY <2>1 DEF AutocompactBudget
    <3>2. Estimate(Fixed) + EstimateTokens(Left) > window
      BY <2>1, <2>2 DEF Estimate, EstimateTokens
    <3>3. NothingFits
      BY <1>1, <1>2, <2>1, <3>1, <3>2 DEF FitIsEstimated
    <3> QED
      BY <2>1, <3>3 DEF NothingFits, Estimate
  <2> QED
    BY <1>1, <1>2, <2>1, <2>2, <2>3, <2>4, <2>5, <2>6, StillLearned, NotFitting
<1>9. ASSUME UsageArrives
      PROVE  FittingInv'
  <2>1. /\ phase' = "charged" /\ usage' = [tokens |-> Real(out), own |-> TRUE]
        /\ Observe(Fixed + Chars(out), Real(out))
        /\ anchor' = Len(history) /\ charged' = out /\ replaced' = (out # history)
        /\ out' = <<>> /\ retried' = FALSE
        /\ UNCHANGED <<window, tokeniser, mixed, fit, history, requests>>
    BY <1>9 DEF UsageArrives, model
  <2>2. out \in Histories /\ history \in Histories /\ <<>> \in Histories
        /\ Real(out) \in Nat /\ Len(history) \in Nat
    BY <1>1, TypedMeasure, SizesTyped DEF FittingTyped, Histories
  <2>3. ratio' \in MinRatio..MaxRatio /\ samples' \in {0, 1} /\ RatioIsLearned'
    BY <1>1, <1>2, <2>1, Observed
  <2>4. usage' \in Usages
    BY <2>1, <2>2, UsageTyped
  <2>5. FittingTyped'
    BY <1>1, <1>2, <2>1, <2>2, <2>3, <2>4 DEF FittingTyped, Phases
  <2>6. AnchorIsOwn'
    <3>1. SubSeq(history, 1, Len(history)) = history
      BY <2>2, SubSeqFull DEF Histories
    <3>2. ~replaced' => charged' = history
      BY <2>1, Zenon
    <3> QED
      BY <2>1, <2>2, <3>1, <3>2 DEF AnchorIsOwn
  <2> QED
    BY <1>1, <2>1, <2>3, <2>5, <2>6, StillOut, NotFitting, NotRefused
<1>10. ASSUME NoUsage \/ OverflowsAgain
      PROVE  FittingInv'
  <2>1. /\ phase' \in Phases \ {"out", "fitting", "refused"} /\ out' = <<>> /\ retried' = FALSE
        /\ UNCHANGED <<window, tokeniser, mixed, fit, usage, anchor, ratio, samples, charged, replaced,
                       history, requests>>
    BY <1>10 DEF NoUsage, OverflowsAgain, model, measure, learned, covered, Phases
  <2>2. <<>> \in Histories
    BY DEF Histories
  <2>3. FittingTyped'
    BY <1>1, <1>2, <2>1, <2>2 DEF FittingTyped
  <2>4. AnchorIsOwn'
    BY <1>1, <2>1 DEF AnchorIsOwn
  <2> QED
    BY <1>1, <1>2, <2>1, <2>3, <2>4, StillLearned, StillOut, NotFitting, NotRefused
<1>11. ASSUME Overflows
       PROVE  FittingInv'
  <2>1. PICK h \in Passes(TRUE) : fit' = Outcome(h, TRUE) /\ usage' \in ChargedFor(h)
    BY <1>11 DEF Overflows, StartFit
  <2>2. /\ phase' = "refitting" /\ out' = <<>>
        /\ UNCHANGED <<window, tokeniser, mixed, ratio, samples, anchor, charged, replaced, history,
                       requests, retried>>
    BY <1>11 DEF Overflows, model, learned, covered
  <2>3. fit' \in Outcomes /\ usage' \in Usages
    BY <1>1, <2>1, OutcomeTyped, SummaryCharged, TRUE \in BOOLEAN
  <2>4. <<>> \in Histories
    BY DEF Histories
  <2>5. FittingTyped'
    BY <1>1, <1>2, <2>2, <2>3, <2>4 DEF FittingTyped, Phases
  <2>6. AnchorIsOwn'
    BY <1>1, <2>2 DEF AnchorIsOwn
  <2> QED
    BY <1>1, <1>2, <2>2, <2>5, <2>6, StillLearned, StillOut, NotFitting, NotRefused
<1>12. ASSUME Retry
       PROVE  FittingInv'
  <2>1. /\ FinishFit /\ retried' \in BOOLEAN /\ phase' \in {"prepare", "failed"}
        /\ UNCHANGED <<window, tokeniser, mixed, usage, ratio, samples, out, requests>>
    BY <1>12 DEF Retry, model, learned
  <2>2. /\ fit' \in Outcomes /\ history' \in Histories /\ charged' \in Histories
        /\ anchor' \in Nat \cup {-1} /\ replaced' \in BOOLEAN /\ AnchorIsOwn'
    BY <1>1, <2>1, Finished
  <2>3. FittingTyped'
    BY <1>1, <1>2, <2>1, <2>2 DEF FittingTyped, Phases
  <2> QED
    BY <1>1, <1>2, <2>1, <2>2, <2>3, StillLearned, StillOut, NotFitting, NotRefused
<1>13. ASSUME HandleProviderError
       PROVE  FittingInv'
  <2>1. "assistant" \in Roles
    BY DEF Roles
  <2>2. history' \in Histories /\ AnchorIsOwn'
    BY <1>1, <1>3, <1>13, <2>1, Appended, Grown DEF HandleProviderError, setup, model, measure, learned, covered
  <2>3. /\ phase' = "rest" /\ UNCHANGED <<window, tokeniser, mixed, fit, usage, anchor, ratio,
                                          samples, charged, replaced, out, requests, retried>>
    BY <1>13 DEF HandleProviderError, setup, model, measure, learned, covered
  <2>4. FittingTyped'
    BY <1>1, <1>2, <2>2, <2>3 DEF FittingTyped, Phases
  <2> QED
    BY <1>1, <1>2, <2>2, <2>3, <2>4, StillLearned, StillOut, NotFitting, NotRefused
<1>14. ASSUME SideCall
       PROVE  FittingInv'
  <2>1. /\ phase \notin {"refused", "fitting"} /\ usage' = [tokens |-> 1, own |-> FALSE]
        /\ UNCHANGED <<window, tokeniser, mixed, fit, history, anchor, ratio, samples, phase, out, requests,
                       retried, charged, replaced>>
    BY <1>14 DEF SideCall, model, learned, covered
  <2>2. usage' \in Usages
    BY <2>1, UsageTyped, 1 \in Nat
  <2>3. FittingTyped'
    BY <1>1, <1>2, <2>1, <2>2 DEF FittingTyped
  <2>4. AnchorIsOwn'
    BY <1>1, <2>1 DEF AnchorIsOwn
  <2> QED
    BY <1>1, <1>2, <2>1, <2>3, <2>4, StillLearned, StillOut, NotFitting, NotRefused
<1>15. ASSUME NEW w \in Windows, NEW t \in Tokenisers, UseModel(w, t)
       PROVE  FittingInv'
  <2>1. /\ phase \notin {"refused", "fitting", "out"} /\ window' = w /\ tokeniser' = t
        /\ usage' = [tokens |-> 0, own |-> TRUE]
        /\ mixed' = (mixed \/ (samples > 0 /\ t # tokeniser))
        /\ UNCHANGED <<fit, history, anchor, ratio, samples, phase, out, requests, retried, charged,
                       replaced>>
    BY <1>15 DEF UseModel, learned, covered
  <2>2. usage' \in Usages
    BY <2>1, UsageTyped, 0 \in Nat
  <2>3. FittingTyped'
    BY <1>1, <1>2, <2>1, <2>2 DEF FittingTyped
  <2>4. AnchorIsOwn'
    BY <1>1, <2>1 DEF AnchorIsOwn
  <2>5. RatioIsLearned'
    <3> SUFFICES ASSUME samples > 0, ~mixed' PROVE (ratio <= 10 * (Max(language) * tokeniser))'
      BY <2>1 DEF RatioIsLearned
    <3>1. ~mixed /\ tokeniser' = tokeniser
      BY <2>1
    <3> QED
      BY <1>1, <1>2, <2>1, <3>1 DEF RatioIsLearned, Max
  <2> QED
    BY <1>1, <2>1, <2>3, <2>4, <2>5, StillOut, NotFitting, NotRefused
<1>16. ASSUME ClearHistory
       PROVE  FittingInv'
  <2>1. /\ phase # "refused" /\ history' = <<>> /\ anchor' = -1 /\ charged' = <<>> /\ replaced' = FALSE
        /\ UNCHANGED <<window, tokeniser, mixed, fit, usage, ratio, samples, phase, out, requests, retried>>
    BY <1>16 DEF ClearHistory, HostMay, Adopt, model, learned
  <2>2. <<>> \in Histories
    BY DEF Histories
  <2>3. FittingTyped'
    BY <1>1, <1>2, <2>1, <2>2 DEF FittingTyped
  <2>4. AnchorIsOwn'
    BY <2>1 DEF AnchorIsOwn
  <2>5. EstimateTokens(<<>>) <= EstimateTokens(history)
    BY <1>1, NothingLeft, TypedMeasure
  <2>6. FitIsEstimated'
    BY <1>1, <1>2, <2>1, <2>3, <2>5, StillFits
  <2> QED
    BY <1>1, <1>2, <2>1, <2>3, <2>4, <2>6, StillLearned, StillOut, NotRefused
<1>17. ASSUME NEW budget \in HostBudgets, NEW keep \in {1, KeepRecent}, ForceCompaction(budget, keep)
       PROVE  FittingInv'
  <2>1. PICK h \in Compacted(history, budget, keep, 0, EstimateTokens(history)) :
          /\ usage' \in ChargedFor(h)
          /\ IF WorthAdopting(EstimateTokens(history), EstimateTokens(h)) THEN Adopt(h) ELSE Keep
    BY <1>17 DEF ForceCompaction
  <2>2. /\ phase # "refused"
        /\ UNCHANGED <<window, tokeniser, mixed, fit, ratio, samples, phase, out, requests, retried>>
    BY <1>17 DEF ForceCompaction, HostMay, model, learned
  <2>3. h \in Histories /\ EstimateTokens(h) \in Nat /\ EstimateTokens(history) \in Nat
    <3>1. Measured /\ history \in Histories /\ keep \in Nat \ {0} /\ budget \in Int /\ 0 \in Nat
      BY <1>1, TypedMeasure, Constants DEF FittingTyped
    <3>2. h \in Histories
      BY <3>1, CompactedTyped
    <3> QED
      BY <3>1, <3>2, SizesTyped
  <2> DEFINE adopted == WorthAdopting(EstimateTokens(history), EstimateTokens(h))
  <2>4. adopted \in BOOLEAN
    BY DEF WorthAdopting
  <2>5. adopted => EstimateTokens(h) <= EstimateTokens(history)
    <3>1. ASSUME NEW before \in Nat, NEW after \in Nat, WorthAdopting(before, after)
          PROVE  after <= before
      <4>1. MinSaving \in Nat /\ before \div 20 \in Nat
        BY FittingAssumption
      <4> QED
        BY <3>1, <4>1 DEF WorthAdopting, Bigger
    <3> QED
      BY <2>3, <3>1
  <2> HIDE DEF adopted
  <2>6. /\ history' = IF adopted THEN h ELSE history
        /\ history' \in Histories /\ charged' \in Histories
        /\ anchor' \in Nat \cup {-1} /\ replaced' \in BOOLEAN /\ AnchorIsOwn'
    <3>1. IF adopted THEN Adopt(h) ELSE Keep
      BY <2>1 DEF adopted
    <3> QED
      BY <1>1, <2>3, <2>4, <3>1, Settled
  <2>7. usage' \in Usages
    BY <1>1, <2>1, SummaryCharged
  <2>8. FittingTyped'
    BY <1>1, <1>2, <2>2, <2>6, <2>7 DEF FittingTyped
  <2>9. FitIsEstimated'
    <3>1. EstimateTokens(history') <= EstimateTokens(history)
      BY <2>3, <2>5, <2>6
    <3> QED
      BY <1>1, <1>2, <2>2, <2>8, <3>1, StillFits
  <2> QED
    BY <1>1, <1>2, <2>2, <2>6, <2>8, <2>9, StillLearned, StillOut, NotRefused
<1>18. ASSUME UNCHANGED fittingVars
       PROVE  FittingInv'
  <2>1. /\ UNCHANGED <<window, tokeniser, mixed, fit, usage, history, anchor, ratio, samples, phase>>
        /\ UNCHANGED <<out, requests, retried, charged, replaced>>
    BY <1>18 DEF fittingVars
  <2>2. FittingTyped'
    BY <1>1, <1>2, <2>1 DEF FittingTyped
  <2>3. AnchorIsOwn'
    BY <1>1, <2>1 DEF AnchorIsOwn
  <2>4. RefusedCannotFit'
    BY <1>1, <1>2, <2>1 DEF RefusedCannotFit, NothingFits, AutocompactBudget, Estimate, EstimateTokens
  <2>5. FitIsEstimated'
    BY <1>1, <1>2, <2>1
       DEF FitIsEstimated, Left, NothingFits, AutocompactBudget, Estimate, EstimateTokens
  <2> QED
    BY <1>1, <1>2, <2>1, <2>2, <2>3, <2>4, <2>5, StillLearned, StillOut
<1> QED
  BY <1>4, <1>5, <1>6, <1>7, <1>8, <1>9, <1>10, <1>11, <1>12, <1>13, <1>14, <1>15, <1>16, <1>17, <1>18
     DEF FittingNext

\* The invariant holds throughout.
LEMMA FittingHolds == FittingSpec => []FittingInv
BY FittingStarts, FittingStep, PTL DEF FittingSpec

\* The prefix of the history that the anchor covers is what the last charge was for,
\* until the host replaces a history whose request is out (on_compacted, turn.py:152).
THEOREM AnchorKept == FittingSpec => []AnchorIsOwn
<1>1. FittingInv => AnchorIsOwn
  BY DEF FittingInv
<1> QED
  BY <1>1, FittingHolds, PTL

\* What goes out is within the window in any one language the ratio was learned in, for
\* any window, budget, strategy and sizes (conversation.py:341).
THEOREM SentWithinWindow == FittingSpec => []SentFits
<1>1. FittingInv => SentFits
  <2> SUFFICES ASSUME FittingTyped, RatioIsLearned, OutIsEstimated,
                      phase = "out", window > 0, samples > 0, ~mixed, language = {Max(language)}
               PROVE  Real(out) <= window + Len(out) + 1
    BY DEF FittingInv, SentFits
  <2>1. /\ Measured /\ out \in Histories /\ Len(out) \in Nat /\ window \in Nat
        /\ Estimate(Fixed) \in Nat
    BY TypedMeasure DEF FittingTyped, Histories
  <2>2. Real(out) \in Nat /\ EstimateTokens(out) \in Nat
    BY <2>1, SizesTyped
  <2>3. Real(out) <= Estimate(Fixed) + EstimateTokens(out) + Len(out) + 1
    BY <2>1, CoarsestNat, ChargedIsEstimated DEF RatioIsLearned
  <2>4. Estimate(Fixed) + EstimateTokens(out) <= window
    BY DEF OutIsEstimated
  <2> QED
    BY <2>1, <2>2, <2>3, <2>4
<1> QED
  BY <1>1, FittingHolds, PTL

\* Where the summary strategy refuses by its estimate there was no room for the framed
\* summary of one token and the roundings of what it keeps (conversation.py:439).
THEOREM RefusalsAreFinal == FittingSpec => []RefusedCannotFit
<1>1. FittingInv => RefusedCannotFit
  BY DEF FittingInv
<1> QED
  BY <1>1, FittingHolds, PTL
===============================================================================
