---------------------------- MODULE ConversationLog ----------------------------
(***************************************************************************)
(* The debug log of a conversation (conversation_log.py, events.py).  A    *)
(* logger listens to the events of the runs and writes, for every request, *)
(* only the messages appended since the last one, so that a reader has to  *)
(* replay a session's records to know what was sent.  The agent's own      *)
(* logger starts a new session when the history is cleared; one that was   *)
(* attached as a listener is told nothing.                                 *)
(*                                                                         *)
(* A message is a number, renewed when its body is rewritten; a session's  *)
(* file is kept as what its reader has reconstructed so far.               *)
(***************************************************************************)
EXTENDS Naturals, Sequences, SequencesExt

CONSTANTS
  MaxMade,       \* bound on the messages ever made
  MaxResults,    \* results a batch may have
  MaxTurns,      \* turns of a run
  Prompts        \* system prompts a request may carry

ASSUME LogAssumption ==
  /\ MaxMade \in Nat /\ MaxResults \in Nat /\ MaxTurns \in Nat
  /\ Prompts # {} /\ Prompts \subseteq Nat \ {0}

VARIABLES
  transcript,   \* conversation.history
  made,         \* messages made so far
  stage,        \* where the run is
  turn,         \* its turn
  sent,         \* the last request: its prompt and its messages
  logger,       \* the agent's own logger and the attached one
  labels        \* history: the turns of thinking that was written, and the turn it got

logVars == <<transcript, made, stage, turn, sent, logger, labels>>

Loggers  == {"own", "attached"}
NoPrompt == 0

\* A logger and the session it writes.
Fresh == [on |-> TRUE, count |-> 0, prompt |-> NoPrompt, thinking |-> {}, turn |-> 0,
          replay |-> <<>>, shown |-> NoPrompt, begun |-> FALSE, sure |-> TRUE]
On    == {l \in Loggers : logger[l].on}

-------------------------------------------------------------------------------
(* What a logger does with an event.                                       *)

\* Variant: a snapshot of the same length counts as an append.
DeltaFromShorter(l, messages) ==
  IF Len(messages) < logger[l].count THEN 0 ELSE logger[l].count

\* _log_messages_sent(): where the delta begins; a history that did not grow is
\* logged in full.
DeltaFrom(l, messages) ==
  IF Len(messages) <= logger[l].count THEN 0 ELSE logger[l].count

LogMessagesSent(l, prompt, messages) ==
  LET from == DeltaFrom(l, messages)
  IN  [logger[l] EXCEPT !.count = Len(messages), !.prompt = prompt,
         !.shown = IF prompt # logger[l].prompt THEN prompt ELSE @,
         !.replay = SubSeq(@, 1, from) \o SubSeq(messages, from + 1, Len(messages)),
         !.begun = TRUE, !.sure = @ \/ from = 0]

\* HISTORY_COMPACTED, adopted or declined: the next snapshot is no delta.
LogCompacted(l) == [logger[l] EXCEPT !.count = 0]

\* Variant: the new turn is noted before the old one's thinking is written.
FlushedNext(l) == {<<t, turn + 1>> : t \in logger[l].thinking}

\* _flush_thinking(): the buffer goes out under the turn the logger is in.
Flushed(l)   == {<<t, logger[l].turn>> : t \in logger[l].thinking}

LogTurnStart(l, t) == [logger[l] EXCEPT !.thinking = {}, !.turn = t]
LogThinking(l)     == [logger[l] EXCEPT !.thinking = @ \cup {turn}]
LogDone(l)         == [logger[l] EXCEPT !.thinking = {}]

\* roll_session(): what is buffered goes to the outgoing file.
Rolled == Fresh

\* EventBus.emit(): every listener, in turn.
Tell(handled) == logger' = [l \in Loggers |-> IF l \in On THEN handled[l] ELSE logger[l]]
Write(ls)     == labels' = labels \cup UNION {Flushed(l) : l \in ls}

-------------------------------------------------------------------------------
(* The run and its host.                                                   *)

LogInit ==
  /\ transcript = <<>> /\ made = 0 /\ stage = "rest" /\ turn = 0
  /\ sent = [prompt |-> NoPrompt, messages |-> <<>>]
  /\ logger = [l \in Loggers |-> IF l = "own" THEN Fresh ELSE [Fresh EXCEPT !.on = FALSE]]
  /\ labels = {}

CanMake(n) == made + n <= MaxMade
Make(n)    == made' = made + n /\ transcript' = transcript \o [i \in 1..n |-> made + i]

\* attach(): a listener among others; its session began when it was made.
Attach ==
  /\ stage = "rest" /\ ~logger["attached"].on
  /\ logger' = [logger EXCEPT !["attached"].on = TRUE]
  /\ UNCHANGED <<transcript, made, stage, turn, sent, labels>>

\* set_conversation_log_dir(): the agent's logger is closed, and another made or none.
SetLogDir(on) ==
  /\ stage = "rest" /\ (on \/ logger["own"].on)
  /\ logger' = [logger EXCEPT !["own"] = [Fresh EXCEPT !.on = on]]
  /\ UNCHANGED <<transcript, made, stage, turn, sent, labels>>

\* A run: its message, behind what the repair of the transcript adds.
Run(n) ==
  /\ stage = "rest" /\ (n = 1 \/ transcript # <<>>) /\ CanMake(n) /\ Make(n)
  /\ turn' = 1 /\ stage' = "prepare"
  /\ Write(On) /\ Tell([l \in Loggers |-> LogTurnStart(l, 1)])
  /\ UNCHANGED sent

\* Compaction, when a request is prepared or, at any time, the host asks: a summary in place of a
\* prefix, or one body rewritten.
Rewritten ==
  {<<made + 1>> \o SubSeq(transcript, n + 1, Len(transcript)) : n \in 1..Len(transcript)}
    \cup {[transcript EXCEPT ![i] = made + 1] : i \in 1..Len(transcript)}

Rewrite ==
  /\ CanMake(1) /\ transcript # <<>>
  /\ transcript' \in Rewritten /\ made' = made + 1
  /\ Tell([l \in Loggers |-> LogCompacted(l)])

Compact == Rewrite /\ UNCHANGED <<stage, turn, sent, labels>>

CompactDeclined ==
  /\ stage = "prepare" /\ Tell([l \in Loggers |-> LogCompacted(l)])
  /\ UNCHANGED <<transcript, made, stage, turn, sent, labels>>

\* The snapshot has the system message in front; its text is logged apart.
Send(p) ==
  /\ stage = "prepare" /\ stage' = "out"
  /\ sent' = [prompt |-> p, messages |-> <<0>> \o transcript]
  /\ Tell([l \in Loggers |-> LogMessagesSent(l, p, <<0>> \o transcript)])
  /\ UNCHANGED <<transcript, made, turn, labels>>

Think ==
  /\ stage = "out" /\ Tell([l \in Loggers |-> LogThinking(l)])
  /\ UNCHANGED <<transcript, made, stage, turn, sent, labels>>

\* A text, or an error the run ends with.
TextReply ==
  /\ stage = "out" /\ CanMake(1) /\ Make(1) /\ stage' = "rest"
  /\ Write(On) /\ Tell([l \in Loggers |-> LogDone(l)])
  /\ UNCHANGED <<turn, sent>>

\* The calls, their results and the next turn.
CallsReply(n) ==
  /\ stage = "out" /\ turn < MaxTurns /\ CanMake(n + 1) /\ Make(n + 1)
  /\ stage' = "prepare" /\ turn' = turn + 1
  /\ Write(On) /\ Tell([l \in Loggers |-> LogTurnStart(l, turn + 1)])
  /\ UNCHANGED sent

\* _try_recover(): what the provider found too long is compacted and sent again in the
\* same turn; what was thought stays in the buffer.
Overflow ==
  /\ stage = "out" /\ stage' = "prepare" /\ Rewrite
  /\ UNCHANGED <<turn, sent, labels>>

\* A run that ends before its first request.  Had the conversation been cleared before
\* it, a log that was not told of that takes its message for one of the old ones'.
Unsent      == stage = "prepare" /\ Len(transcript) = 1
Doubted(s)  == [s EXCEPT !.sure = @ /\ ~Unsent]

\* AgentAborted: DONE is announced behind ABORTED.
Abort ==
  /\ stage \in {"prepare", "out"} /\ stage' = "rest"
  /\ Write(On) /\ Tell([l \in Loggers |-> Doubted(LogDone(l))])
  /\ UNCHANGED <<transcript, made, turn, sent>>

\* The same in a batch: its calls and what they returned are kept.
AbortBatch(n) ==
  /\ stage = "out" /\ stage' = "rest" /\ CanMake(n + 1) /\ Make(n + 1)
  /\ Write(On) /\ Tell([l \in Loggers |-> LogDone(l)])
  /\ UNCHANGED <<turn, sent>>

\* Any other exception leaves the run: nothing is announced, the thinking stays in the
\* buffer, and of a batch only the calls are kept.
Escape(n) ==
  /\ stage = "out" \/ (stage = "prepare" /\ n = 0)
  /\ stage' = "rest" /\ CanMake(n) /\ Make(n)
  /\ Tell([l \in Loggers |-> Doubted(logger[l])])
  /\ UNCHANGED <<turn, sent, labels>>

\* clear_history(), between runs or while a request is out: the agent's logger begins
\* a new session, the attached one is not told.
ClearLogged ==
  /\ stage \in {"rest", "out"} /\ transcript # <<>> /\ transcript' = <<>>
  /\ sent' = [sent EXCEPT !.messages = <<>>]
  /\ logger' = [logger EXCEPT !["own"] = IF @.on THEN Rolled ELSE @,
                              !["attached"].sure = @ /\ stage = "rest"]
  /\ Write(On \cap {"own"})
  /\ UNCHANGED <<made, stage, turn>>

LogNext ==
  \/ Attach \/ Compact \/ CompactDeclined \/ Think \/ TextReply
  \/ Overflow \/ Abort \/ Escape(0) \/ Escape(1) \/ ClearLogged
  \/ \E on \in BOOLEAN : SetLogDir(on)
  \/ \E p \in Prompts : Send(p)
  \/ \E n \in 1..MaxResults : Run(n) \/ CallsReply(n) \/ AbortBatch(n)

LogSpec == LogInit /\ [][LogNext]_logVars

-------------------------------------------------------------------------------

\* While a request is out, the records of a session replay to it: the messages
\* by their deltas, the prompt by its last change.  Only a log that was not told of a
\* clear may be wrong, one in the middle of a request or one that an unsent message
\* followed, until its next full record.
\* (conversation_log.py:381, "Only messages appended since the last snapshot".)
LogReplays ==
  stage = "out" /\ sent.messages # <<>> =>
    \A l \in On : logger[l].begun /\ logger[l].sure =>
       logger[l].replay = sent.messages /\ logger[l].shown = sent.prompt

\* The same of every log, told of the clears or not.
EveryLogReplays ==
  stage = "out" /\ sent.messages # <<>> =>
    \A l \in On : logger[l].begun =>
       logger[l].replay = sent.messages /\ logger[l].shown = sent.prompt

\* Thinking is written under the turn it was thought in, though it may be written
\* in the next turn, the next run or when the session ends; a session that began in
\* the middle of a turn has no number for it.
ThinkingKeepsTurn == \A pair \in labels : pair[2] \in {pair[1], 0}
===============================================================================
