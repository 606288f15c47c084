----------------------------- MODULE StreamReader -----------------------------
(***************************************************************************)
(* One provider call: stream() with its retries, the daemon thread that    *)
(* reads each attempt's blocking response into a bounded queue, and the    *)
(* agent thread that takes chunks from it under an abort flag and a stall  *)
(* deadline.  A reader whose attempt was given up lives on by itself.      *)
(***************************************************************************)
EXTENDS Naturals, Sequences

CONSTANTS
  MaxRetries,   \* _MAX_RETRIES: attempts in all
  QueueBound,   \* the queue's maxsize
  StallTicks,   \* STREAM_STALL_SECONDS in timeouts of get()
  MaxChunks     \* bound: chunks a provider sends in one attempt

ASSUME StreamReaderAssumption ==
  /\ MaxRetries \in Nat \ {0}
  /\ QueueBound \in Nat \ {0}
  /\ StallTicks \in Nat
  /\ MaxChunks \in Nat

Attempts == 1..MaxRetries

\* A chunk with content, a finish reason or usage; one with none of them (a role,
\* a keep-alive); and the two sentinels.
Chunks    == {"content", "blank"}
Sentinels == {"done", "failed"}
Items     == Chunks \cup Sentinels

VARIABLES
  pc,       \* where the agent thread is in stream() and its generator
  attempt,
  started,  \* parser.started
  waited,   \* timeouts of get() since the last item
  aborted,  \* the abort event
  verdict,  \* how the call ended
  reader,   \* where each attempt's thread is
  items,    \* what each thread got from the response, its sentinel last
  put,      \* how many of them it has put into its queue
  taken,    \* how many of them were taken out
  stop,     \* each attempt's stop event
  late      \* history: chunks fed to the parser after the abort

agentVars  == <<pc, attempt, started, waited, verdict, taken, stop, late>>
readerVars == <<reader, items, put>>
vars == <<pc, attempt, started, waited, aborted, verdict, reader, items, put, taken,
          stop, late>>

PCs     == {"opening", "checking", "getting", "backoff", "finishing", "ended"}
Readers == {"none", "reading", "putting", "put", "returned"}

Init ==
  /\ pc = "opening" /\ attempt = 1 /\ started = FALSE /\ waited = 0
  /\ aborted = FALSE /\ verdict = "none"
  /\ reader = [a \in Attempts |-> "none"]
  /\ items = [a \in Attempts |-> <<>>]
  /\ put = [a \in Attempts |-> 0] /\ taken = [a \in Attempts |-> 0]
  /\ stop = [a \in Attempts |-> FALSE]
  /\ late = 0

-------------------------------------------------------------------------------
(* The agent thread.                                                       *)

End(v) == pc' = "ended" /\ verdict' = v

\* Variant: an attempt that has delivered something is retried too.
RetryOrRaiseAgain(transient) ==
  \/ /\ attempt < MaxRetries /\ transient
     /\ pc' = "backoff" /\ UNCHANGED verdict
  \/ /\ attempt = MaxRetries \/ ~transient
     /\ End("failed")

\* The handler around an attempt: raised as it is once something was parsed,
\* retried while it is transient and attempts are left.
RetryOrRaise(transient) ==
  \/ /\ ~started /\ attempt < MaxRetries /\ transient
     /\ pc' = "backoff" /\ UNCHANGED verdict
  \/ /\ started \/ attempt = MaxRetries \/ ~transient
     /\ End("failed")

\* completion() returns a response; the thread that reads it is started.
Open ==
  /\ pc = "opening"
  /\ reader' = [reader EXCEPT ![attempt] = "reading"]
  /\ waited' = 0
  /\ pc' = "checking"
  /\ UNCHANGED <<attempt, started, aborted, verdict, items, put, taken, stop, late>>

OpenFails ==
  /\ pc = "opening"
  /\ \E transient \in BOOLEAN : RetryOrRaise(transient)
  /\ UNCHANGED <<attempt, started, waited, aborted, readerVars, taken, stop, late>>

\* Variant: the thread is not told.
LeaveUntold == UNCHANGED stop

\* The finally of the generator: stop is set, the response closed, the thread
\* joined for as long as it takes it, or 0.2 s.
Leave == stop' = [stop EXCEPT ![attempt] = TRUE]

\* The abort is also looked at behind each delta, which comes before this check.
\* ProviderInterrupted is neither transient nor a failure.
CheckAborted ==
  /\ pc = "checking" /\ aborted
  /\ Leave
  /\ End("interrupted")
  /\ UNCHANGED <<attempt, started, waited, aborted, readerVars, taken, late>>

\* Variant: the flag is looked at in the backoff only.
CheckPassesUnseen ==
  /\ pc = "checking"
  /\ pc' = "getting"
  /\ UNCHANGED <<attempt, started, waited, aborted, verdict, readerVars, taken, stop,
                 late>>

CheckPasses ==
  /\ pc = "checking" /\ ~aborted
  /\ pc' = "getting"
  /\ UNCHANGED <<attempt, started, waited, aborted, verdict, readerVars, taken, stop,
                 late>>

Queued   == taken[attempt] < put[attempt]
NextItem == items[attempt][taken[attempt] + 1]

Take(item) ==
  /\ pc = "getting" /\ Queued /\ NextItem = item
  /\ taken' = [taken EXCEPT ![attempt] = @ + 1]
  /\ waited' = 0

GetChunk ==
  /\ \E c \in Chunks : /\ Take(c)
                       /\ started' = (started \/ c = "content")
  /\ late' = IF aborted THEN late + 1 ELSE late
  /\ pc' = "checking"
  /\ UNCHANGED <<attempt, aborted, verdict, readerVars, stop>>

GetDone ==
  /\ Take("done")
  /\ Leave
  /\ pc' = "finishing"
  /\ UNCHANGED <<attempt, started, aborted, verdict, readerVars, late>>

GetFailed ==
  /\ Take("failed")
  /\ Leave
  /\ \E transient \in BOOLEAN : RetryOrRaise(transient)
  /\ UNCHANGED <<attempt, started, aborted, readerVars, late>>

\* Variant: the clock is restarted by every timeout.
GetTimesOutFresh ==
  /\ pc = "getting" /\ ~Queued /\ waited < StallTicks
  /\ pc' = "checking"
  /\ UNCHANGED <<attempt, started, waited, aborted, verdict, readerVars, taken, stop,
                 late>>

GetTimesOut ==
  /\ pc = "getting" /\ ~Queued /\ waited < StallTicks
  /\ waited' = waited + 1
  /\ pc' = "checking"
  /\ UNCHANGED <<attempt, started, aborted, verdict, readerVars, taken, stop, late>>

\* The deadline has passed: a TimeoutError, which is transient.
Stall ==
  /\ pc = "getting" /\ ~Queued /\ waited = StallTicks
  /\ Leave
  /\ RetryOrRaise(TRUE)
  /\ UNCHANGED <<attempt, started, waited, aborted, readerVars, taken, late>>

\* Seen behind the "retrying" delta, or by the wait itself.
BackoffAborted ==
  /\ pc = "backoff" /\ aborted
  /\ End("interrupted")
  /\ UNCHANGED <<attempt, started, waited, aborted, readerVars, taken, stop, late>>

BackoffOver ==
  /\ pc = "backoff" /\ ~aborted
  /\ attempt' = attempt + 1
  /\ pc' = "opening"
  /\ UNCHANGED <<started, waited, aborted, verdict, readerVars, taken, stop, late>>

\* The parser's last deltas: tool calls, usage, done.
FinishAborted ==
  /\ pc = "finishing" /\ aborted
  /\ End("interrupted")
  /\ UNCHANGED <<attempt, started, waited, aborted, readerVars, taken, stop, late>>

Finish ==
  /\ pc = "finishing" /\ ~aborted
  /\ End("complete")
  /\ UNCHANGED <<attempt, started, waited, aborted, readerVars, taken, stop, late>>

\* The arguments of a tool call are no JSON object: a ValueError before its delta,
\* outside the handler around the attempts.
FinishFails ==
  /\ pc = "finishing" /\ started
  /\ End("failed")
  /\ UNCHANGED <<attempt, started, waited, aborted, readerVars, taken, stop, late>>

-------------------------------------------------------------------------------
(* The thread that reads attempt a.                                        *)

Read(a, item) ==
  /\ reader[a] = "reading"
  /\ items' = [items EXCEPT ![a] = Append(@, item)]
  /\ reader' = [reader EXCEPT ![a] = "putting"]
  /\ UNCHANGED <<put, agentVars, aborted>>

ReadChunk(a) == Len(items[a]) < MaxChunks /\ \E c \in Chunks : Read(a, c)

ReadEnds(a) == Read(a, "done")

\* Variant: an error of the response ends the thread without a word.
ReadFailsSilently(a) ==
  /\ reader[a] = "reading"
  /\ reader' = [reader EXCEPT ![a] = "returned"]
  /\ UNCHANGED <<items, put, agentVars, aborted>>

ReadFails(a) == Read(a, "failed")

\* A put that is waiting for room may still succeed after stop was set.
Put(a) ==
  /\ reader[a] = "putting" /\ put[a] - taken[a] < QueueBound
  /\ put' = [put EXCEPT ![a] = @ + 1]
  /\ reader' = [reader EXCEPT ![a] = IF items[a][put[a] + 1] \in Sentinels
                                     THEN "returned" ELSE "put"]
  /\ UNCHANGED <<items, agentVars, aborted>>

\* The thread looks at the abort behind each chunk, and leaves without a sentinel.
AfterPut(a) ==
  /\ reader[a] = "put"
  /\ reader' = [reader EXCEPT ![a] = IF aborted THEN "returned" ELSE "reading"]
  /\ UNCHANGED <<items, put, agentVars, aborted>>

PutStopped(a) ==
  /\ reader[a] = "putting" /\ stop[a]
  /\ reader' = [reader EXCEPT ![a] = "returned"]
  /\ UNCHANGED <<items, put, agentVars, aborted>>

-------------------------------------------------------------------------------
Abort ==
  /\ ~aborted /\ pc # "ended"
  /\ aborted' = TRUE
  /\ UNCHANGED <<agentVars, readerVars>>

Agent == \/ Open \/ OpenFails \/ CheckAborted \/ CheckPasses \/ GetChunk \/ GetDone
         \/ GetFailed \/ GetTimesOut \/ Stall \/ BackoffAborted \/ BackoffOver
         \/ FinishAborted \/ Finish \/ FinishFails

Reader(a) == ReadChunk(a) \/ ReadEnds(a) \/ ReadFails(a) \/ Put(a) \/ AfterPut(a)
             \/ PutStopped(a)

Next == Agent \/ Abort \/ \E a \in Attempts : Reader(a)

\* The agent thread is scheduled, and completion() returns or raises.
AgentFairness == WF_vars(Agent)
\* The response says something or breaks (it was closed): assumed only where a
\* property says so.
ReaderFairness == \A a \in Attempts : WF_vars(Reader(a))

Spec == Init /\ [][Next]_vars /\ AgentFairness

-------------------------------------------------------------------------------
(* Properties.                                                             *)

\* Every variable has its type, a queue holds at most maxsize items, and nothing
\* is taken that was not put.
TypeOK ==
  /\ pc \in PCs /\ attempt \in Attempts /\ started \in BOOLEAN
  /\ waited \in 0..StallTicks /\ aborted \in BOOLEAN
  /\ verdict \in {"none", "complete", "failed", "interrupted"}
  /\ reader \in [Attempts -> Readers]
  /\ items \in [Attempts -> Seq(Items)]
  /\ put \in [Attempts -> Nat] /\ taken \in [Attempts -> Nat]
  /\ \A a \in Attempts : put[a] - taken[a] \in 0..QueueBound
  /\ stop \in [Attempts -> BOOLEAN]
  /\ late \in Nat

\* While the agent thread waits for the next chunk, a reader that has returned
\* has left a sentinel for it, unless the run is aborted: otherwise the wait ends
\* by the stall deadline only, minutes later and with the wrong reason (produce,
\* whose abort check returns without a sentinel).
SilenceIsExplained ==
  pc \in {"checking", "getting"} /\ reader[attempt] = "returned" =>
    aborted \/ (Queued /\ items[attempt][put[attempt]] \in Sentinels)

\* After an abort at most the one chunk being waited for is still parsed: the flag
\* is looked at before every read of the queue.
AbortIsHeard == late <= 1

\* A call ends by itself even when the provider goes silent: the stall deadline
\* and the number of attempts bound it, and an abort shortens it.
StreamEnds == <>(pc = "ended")

\* No reader outlives the call for ever, provided its response ends or breaks once
\* it was closed: a full queue nobody empties does not hold it.
ReadersEnd ==
  ReaderFairness => <>[](\A a \in Attempts : reader[a] \in {"none", "returned"})

\* However attempts, threads and queues interleave, the loop hears what Delivery
\* promises: in order, nothing lost, nothing said twice.
Promise == INSTANCE Delivery WITH
             Pieces <- Items, Empty <- {"blank", "failed"}, Final <- "done",
             said <- items[attempt], heard <- taken[attempt]
ImplementsDelivery == Promise!Spec
===============================================================================
