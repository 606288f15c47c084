-------------------------- MODULE StreamReaderProofs --------------------------
(***************************************************************************)
(* What StreamReader promises for any queue bound, stall deadline, number  *)
(* of attempts and length of the answers.                                  *)
(***************************************************************************)
EXTENDS StreamReader, TLAPS

-------------------------------------------------------------------------------
(* The inductive invariant.                                                *)

\* What a reader got and what it has put differ by the item it holds.
Held ==
  \A a \in Attempts :
    /\ reader[a] = "none" => items[a] = <<>> /\ put[a] = 0 /\ taken[a] = 0
    /\ reader[a] \in {"reading", "put"} => put[a] = Len(items[a])
    /\ reader[a] = "putting" => put[a] + 1 = Len(items[a])
    /\ reader[a] = "returned" => put[a] <= Len(items[a])

\* A sentinel is the last thing a reader gets.
SentinelLast ==
  \A a \in Attempts :
    /\ \A i \in 1..Len(items[a]) : i < Len(items[a]) => items[a][i] \in Chunks
    /\ reader[a] \in {"reading", "put"} =>
         \A i \in 1..Len(items[a]) : items[a][i] \in Chunks

\* Where the agent thread is says what the present attempt has come to.
Progress ==
  /\ verdict = "none" <=> pc # "ended"
  /\ \A a \in Attempts : a > attempt => reader[a] = "none" /\ ~stop[a]
  /\ pc = "opening" => reader[attempt] = "none" /\ ~stop[attempt] /\ ~started
  /\ pc \in {"checking", "getting"} => reader[attempt] # "none" /\ ~stop[attempt]
  /\ pc = "backoff" => attempt < MaxRetries /\ ~started

\* What was taken: chunks while the attempt goes on, nothing that carries
\* content while it may be retried, and all of it when it is done.
Heard ==
  /\ pc \in {"checking", "getting"} =>
       \A i \in 1..taken[attempt] : items[attempt][i] \in Chunks
  /\ ~started =>
       \A i \in 1..taken[attempt] : items[attempt][i] # "content"
  /\ pc = "backoff" =>
       \A i \in 1..taken[attempt] : items[attempt][i] \in {"blank", "failed"}
  /\ pc = "finishing" =>
       /\ taken[attempt] = Len(items[attempt]) /\ taken[attempt] > 0
       /\ items[attempt][taken[attempt]] = "done"

\* A chunk taken after the abort was waited for since before it.
Lateness ==
  /\ late > 0 => aborted /\ pc \in {"checking", "ended"}
  /\ AbortIsHeard

IInv == /\ TypeOK /\ Held /\ SentinelLast /\ Progress /\ Heard /\ Lateness
        /\ SilenceIsExplained

-------------------------------------------------------------------------------
LEMMA InitIInv == Init => IInv
<1> SUFFICES ASSUME Init PROVE IInv
  OBVIOUS
<1> USE StreamReaderAssumption DEF StreamReaderAssumption, Attempts
<1>1. /\ pc = "opening" /\ attempt = 1 /\ ~started /\ verdict = "none" /\ late = 0
      /\ \A a \in Attempts : /\ reader[a] = "none" /\ items[a] = <<>>
                             /\ put[a] = 0 /\ taken[a] = 0 /\ ~stop[a]
  BY DEF Init
<1>2. TypeOK
  <2>1. items \in [Attempts -> Seq(Items)]
    BY DEF Init
  <2>2. put \in [Attempts -> Nat] /\ taken \in [Attempts -> Nat]
    BY DEF Init
  <2>3. reader \in [Attempts -> Readers] /\ stop \in [Attempts -> BOOLEAN]
    BY DEF Init, Readers
  <2>4. aborted \in BOOLEAN /\ started \in BOOLEAN
    BY DEF Init
  <2>5. waited \in 0..StallTicks
    BY DEF Init
  <2>6. \A a \in Attempts : put[a] - taken[a] \in 0..QueueBound
    BY <1>1
  <2> QED
    BY <1>1, <2>1, <2>2, <2>3, <2>4, <2>5, <2>6 DEF TypeOK, PCs
<1>3. Held /\ SentinelLast
  BY <1>1 DEF Held, SentinelLast
<1>4. Progress /\ Heard
  BY <1>1 DEF Progress, Heard
<1>5. Lateness /\ SilenceIsExplained
  BY <1>1 DEF Lateness, AbortIsHeard, SilenceIsExplained
<1> QED
  BY <1>2, <1>3, <1>4, <1>5 DEF IInv

\* The agent thread leaves the readers alone, and a reader the agent thread.
LEMMA AgentLeavesReaders ==
  ASSUME Agent, pc # "opening" \/ OpenFails
  PROVE  UNCHANGED readerVars /\ aborted' = aborted
  BY DEF Agent, Open, OpenFails, CheckAborted, CheckPasses, GetChunk, GetDone, GetFailed,
         GetTimesOut, Stall, BackoffAborted, BackoffOver, FinishAborted, Finish, FinishFails, Take

\* Only the present attempt's queue is read, one item at a time.
LEMMA TakesOne ==
  ASSUME Agent, TypeOK
  PROVE  \/ taken' = taken
         \/ /\ taken[attempt] < put[attempt] /\ pc = "getting"
            /\ taken' = [taken EXCEPT ![attempt] = @ + 1]
  BY DEF Queued, Agent, Open, OpenFails, CheckAborted, CheckPasses, GetChunk, GetDone, GetFailed,
         GetTimesOut, Stall, BackoffAborted, BackoffOver, FinishAborted, Finish, FinishFails, Take

LEMMA AgentTypeOK == ASSUME IInv, Agent PROVE TypeOK'
<1> USE StreamReaderAssumption DEF StreamReaderAssumption
<1>0. TypeOK /\ Progress
  BY DEF IInv
<1>1. taken' \in [Attempts -> Nat]
  <2>1. taken \in [Attempts -> Nat] /\ attempt \in Attempts
    BY <1>0 DEF TypeOK
  <2> QED  BY <1>0, <2>1, TakesOne
<1>2. /\ items' \in [Attempts -> Seq(Items)] /\ put' \in [Attempts -> Nat]
      /\ put' = put /\ items' = items
  BY <1>0 DEF TypeOK, Agent, Open, OpenFails, CheckAborted, CheckPasses, GetChunk,
         GetDone, GetFailed, GetTimesOut, Stall, BackoffAborted, BackoffOver,
         FinishAborted, Finish, FinishFails, Take, readerVars
<1>3. \A a \in Attempts : put'[a] - taken'[a] \in 0..QueueBound
  <2>1. /\ taken \in [Attempts -> Nat] /\ put \in [Attempts -> Nat]
        /\ attempt \in Attempts /\ \A a \in Attempts : put[a] - taken[a] \in 0..QueueBound
    BY <1>0 DEF TypeOK
  <2>2. CASE taken' = taken
    BY <1>2, <2>1, <2>2
  <2>3. CASE /\ taken[attempt] < put[attempt]
             /\ taken' = [taken EXCEPT ![attempt] = @ + 1]
    BY <1>2, <2>1, <2>3
  <2> QED  BY <1>0, <2>2, <2>3, TakesOne
<1>4. reader' \in [Attempts -> Readers] /\ aborted' \in BOOLEAN
  <2>1. CASE Open
    BY <2>1, <1>0 DEF Open, TypeOK, Readers
  <2>2. CASE ~Open
    BY <2>2, <1>0 DEF TypeOK, Agent, OpenFails, CheckAborted, CheckPasses, GetChunk,
         GetDone, GetFailed, GetTimesOut, Stall, BackoffAborted, BackoffOver,
         FinishAborted, Finish, FinishFails, Take, readerVars
  <2> QED  BY <2>1, <2>2
<1>5. stop' \in [Attempts -> BOOLEAN]
  BY <1>0 DEF TypeOK, Agent, Open, OpenFails, CheckAborted, CheckPasses, GetChunk,
         GetDone, GetFailed, GetTimesOut, Stall, BackoffAborted, BackoffOver,
         FinishAborted, Finish, FinishFails, Take, Leave
<1>6. late' \in Nat
  <2>1. late' = late \/ late' = late + 1
    BY DEF Agent, Open, OpenFails, CheckAborted, CheckPasses, GetChunk, GetDone, GetFailed,
           GetTimesOut, Stall, BackoffAborted, BackoffOver, FinishAborted, Finish, FinishFails, Take
  <2> QED  BY <1>0, <2>1 DEF TypeOK
<1>7. started' \in BOOLEAN
  <2>1. started' = started \/ \E c \in Chunks : started' = (started \/ c = "content")
    BY DEF Agent, Open, OpenFails, CheckAborted, CheckPasses, GetChunk, GetDone, GetFailed,
           GetTimesOut, Stall, BackoffAborted, BackoffOver, FinishAborted, Finish, FinishFails, Take
  <2> QED  BY <1>0, <2>1 DEF TypeOK
<1>8. attempt' \in Attempts
  <2>1. attempt' = attempt \/ (pc = "backoff" /\ attempt' = attempt + 1)
    BY DEF Agent, Open, OpenFails, CheckAborted, CheckPasses, GetChunk, GetDone, GetFailed,
           GetTimesOut, Stall, BackoffAborted, BackoffOver, FinishAborted, Finish, FinishFails, Take
  <2>2. attempt \in Attempts /\ (pc = "backoff" => attempt < MaxRetries)
    BY <1>0 DEF TypeOK, Progress
  <2> QED  BY <2>1, <2>2 DEF Attempts
<1>10. waited' \in 0..StallTicks
  <2>1. waited' = waited \/ waited' = 0 \/ (waited < StallTicks /\ waited' = waited + 1)
    BY DEF Agent, Open, OpenFails, CheckAborted, CheckPasses, GetChunk, GetDone, GetFailed,
           GetTimesOut, Stall, BackoffAborted, BackoffOver, FinishAborted, Finish, FinishFails, Take
  <2> QED  BY <1>0, <2>1 DEF TypeOK
<1>9. pc' \in PCs /\ verdict' \in {"none", "complete", "failed", "interrupted"}
  BY <1>0 DEF TypeOK, Agent, Open, OpenFails, CheckAborted, CheckPasses, GetChunk,
         GetDone, GetFailed, GetTimesOut, Stall, BackoffAborted, BackoffOver,
         FinishAborted, Finish, FinishFails, Take, End, RetryOrRaise, PCs
<1> QED
  BY <1>1, <1>2, <1>3, <1>4, <1>5, <1>6, <1>7, <1>8, <1>9, <1>10 DEF TypeOK

LEMMA ReaderTypeOK == ASSUME IInv, NEW a \in Attempts, Reader(a) PROVE TypeOK'
<1>0. TypeOK
  BY DEF IInv
<1>1. ASSUME NEW item \in Items, Read(a, item)
      PROVE  TypeOK'
  <2>1. items' \in [Attempts -> Seq(Items)] /\ reader' \in [Attempts -> Readers]
    BY <1>0, <1>1 DEF Read, TypeOK, Readers
  <2> QED
    BY <1>0, <1>1, <2>1 DEF Read, TypeOK, agentVars
<1>2. CASE ReadChunk(a) \/ ReadEnds(a) \/ ReadFails(a)
  BY <1>1, <1>2 DEF ReadChunk, ReadEnds, ReadFails, Items, Sentinels
<1>3. CASE Put(a)
  <2>1. put' \in [Attempts -> Nat] /\ reader' \in [Attempts -> Readers]
    BY <1>0, <1>3 DEF Put, TypeOK, Readers
  <2>2. \A b \in Attempts : put'[b] - taken[b] \in 0..QueueBound
    BY <1>0, <1>3, StreamReaderAssumption DEF Put, TypeOK, StreamReaderAssumption
  <2> QED
    BY <1>0, <1>3, <2>1, <2>2 DEF Put, TypeOK, agentVars
<1>4. CASE AfterPut(a) \/ PutStopped(a)
  <2>1. reader' \in [Attempts -> Readers]
    BY <1>0, <1>4 DEF AfterPut, PutStopped, TypeOK, Readers
  <2> QED
    BY <1>0, <1>4, <2>1 DEF AfterPut, PutStopped, TypeOK, agentVars
<1> QED
  BY <1>2, <1>3, <1>4 DEF Reader

\* The other conjuncts, for a step of the agent thread.
LEMMA AgentOrder ==
  ASSUME IInv, Agent
  PROVE  Held' /\ SentinelLast' /\ Progress'
<1>0. TypeOK /\ Held /\ SentinelLast /\ Progress /\ Heard
  BY DEF IInv
<1>1. attempt \in Attempts /\ reader \in [Attempts -> Readers]
      /\ stop \in [Attempts -> BOOLEAN] /\ taken \in [Attempts -> Nat]
  BY <1>0 DEF TypeOK
<1>2. /\ items' = items /\ put' = put
      /\ \A a \in Attempts : \/ reader'[a] = reader[a]
                             \/ /\ pc = "opening" /\ a = attempt /\ reader[a] = "none"
                                /\ reader'[a] = "reading"
  BY <1>0, <1>1
     DEF Agent, Open, OpenFails, CheckAborted, CheckPasses, GetChunk, GetDone, GetFailed,
         GetTimesOut, Stall, BackoffAborted, BackoffOver, FinishAborted, Finish, FinishFails, Take,
         readerVars, Progress
<1>3. Held'
  <2>1. \A a \in Attempts : reader[a] = "none" => taken'[a] = taken[a]
    BY <1>0, <1>1, TakesOne DEF Progress
  <2> QED
    BY <1>0, <1>2, <2>1 DEF Held
<1>4. SentinelLast'
  <2>1. \A a \in Attempts : reader[a] = "none" => items[a] = <<>>
    BY <1>0 DEF Held
  <2> QED
    BY <1>0, <1>2, <2>1 DEF SentinelLast
<1>5. Progress'
  <2>1. CASE Open
    <3>1. /\ pc = "opening" /\ pc' = "checking" /\ attempt' = attempt /\ stop' = stop
          /\ verdict' = verdict /\ reader' = [reader EXCEPT ![attempt] = "reading"]
      BY <2>1 DEF Open
    <3>2. /\ \A a \in Attempts : a > attempt => reader'[a] = "none" /\ ~stop'[a]
          /\ reader'[attempt] # "none" /\ ~stop'[attempt] /\ verdict = "none"
      BY <1>0, <1>1, <3>1 DEF Progress, Attempts
    <3> QED
      BY <3>1, <3>2 DEF Progress
  <2>2. CASE OpenFails
    BY <1>0, <1>1, <2>2 DEF OpenFails, RetryOrRaise, End, readerVars, Progress, Attempts
  <2>3. CASE CheckAborted \/ GetDone \/ GetFailed \/ Stall
    <3>1. /\ attempt' = attempt /\ reader' = reader /\ started' = started
          /\ stop' = [stop EXCEPT ![attempt] = TRUE]
      BY <2>3 DEF CheckAborted, GetDone, GetFailed, Stall, Leave, Take, readerVars
    <3>2. pc \in {"checking", "getting"} /\ verdict = "none"
      BY <1>0, <2>3 DEF CheckAborted, GetDone, GetFailed, Stall, Take, Progress
    <3>3. \/ pc' = "finishing" /\ verdict' = verdict
          \/ pc' = "ended" /\ verdict' # "none"
          \/ /\ pc' = "backoff" /\ verdict' = verdict
             /\ attempt < MaxRetries /\ ~started
      BY <2>3 DEF CheckAborted, GetDone, GetFailed, Stall, RetryOrRaise, End
    <3>4. \A a \in Attempts : a > attempt => ~stop'[a]
      BY <1>0, <1>1, <3>1 DEF Progress, Attempts
    <3> QED
      BY <1>0, <3>1, <3>2, <3>3, <3>4 DEF Progress
  <2>4. CASE CheckPasses \/ GetChunk \/ GetTimesOut
    BY <1>0, <1>1, <2>4
       DEF CheckPasses, GetChunk, GetTimesOut, Take, readerVars, Progress, Attempts
  <2>5. CASE BackoffAborted \/ FinishAborted \/ Finish \/ FinishFails
    BY <1>0, <1>1, <2>5
       DEF BackoffAborted, FinishAborted, Finish, FinishFails, End, readerVars, Progress, Attempts
  <2>6. CASE BackoffOver
    <3>1. /\ pc = "backoff" /\ pc' = "opening" /\ attempt' = attempt + 1
          /\ UNCHANGED <<stop, verdict, reader, started>>
      BY <2>6 DEF BackoffOver, readerVars
    <3>2. attempt + 1 \in Attempts /\ ~started /\ verdict = "none"
      BY <1>0, <1>1, <3>1, StreamReaderAssumption
         DEF Progress, Attempts, StreamReaderAssumption
    <3>3. \A a \in Attempts : a >= attempt + 1 => reader[a] = "none" /\ ~stop[a]
      BY <1>0, <1>1 DEF Progress, Attempts
    <3> QED
      BY <1>1, <3>1, <3>2, <3>3 DEF Progress, Attempts
  <2> QED
    BY <2>1, <2>2, <2>3, <2>4, <2>5, <2>6 DEF Agent
<1> QED
  BY <1>3, <1>4, <1>5

\* Taking the next item extends what was taken by that item.
LEMMA TakeExtends ==
  ASSUME IInv, NEW item \in Items, Take(item)
  PROVE  /\ taken[attempt] \in Nat /\ taken'[attempt] = taken[attempt] + 1
         /\ taken[attempt] + 1 <= Len(items[attempt])
         /\ items[attempt][taken[attempt] + 1] = item
         /\ \A i \in 1..taken[attempt] : items[attempt][i] \in Chunks
         /\ pc = "getting"
<1>1. TypeOK /\ Held /\ Heard
  BY DEF IInv
<1>2. attempt \in Attempts /\ taken \in [Attempts -> Nat] /\ put \in [Attempts -> Nat]
      /\ reader \in [Attempts -> Readers] /\ Len(items[attempt]) \in Nat
  BY <1>1 DEF TypeOK
<1>3. put[attempt] <= Len(items[attempt])
  BY <1>1, <1>2 DEF Held, Readers
<1> QED
  BY <1>1, <1>2, <1>3 DEF Take, Queued, NextItem, Heard

LEMMA AgentHeard == ASSUME IInv, Agent PROVE Heard'
<1>0. TypeOK /\ Held /\ SentinelLast /\ Progress /\ Heard
  BY DEF IInv
<1>1. attempt \in Attempts /\ taken \in [Attempts -> Nat]
      /\ items \in [Attempts -> Seq(Items)] /\ Len(items[attempt]) \in Nat
  BY <1>0 DEF TypeOK
<1>2. items' = items
  BY DEF Agent, Open, OpenFails, CheckAborted, CheckPasses, GetChunk, GetDone, GetFailed,
         GetTimesOut, Stall, BackoffAborted, BackoffOver, FinishAborted, Finish, FinishFails, Take,
         readerVars
<1>3. CASE Open \/ OpenFails
  <2>1. taken[attempt] = 0 /\ taken' = taken /\ attempt' = attempt
        /\ pc' \in {"checking", "backoff", "ended"}
    BY <1>0, <1>1, <1>3
       DEF Open, OpenFails, RetryOrRaise, End, Progress, Held
  <2> QED
    BY <2>1 DEF Heard
<1>4. CASE CheckPasses \/ GetTimesOut \/ CheckAborted \/ BackoffAborted \/ FinishAborted
           \/ Finish \/ FinishFails
  BY <1>0, <1>2, <1>4
     DEF CheckPasses, GetTimesOut, CheckAborted, BackoffAborted, FinishAborted, Finish, FinishFails, End,
         Heard
<1>5. CASE Stall
  <2>1. pc = "getting" /\ pc' \in {"backoff", "ended"} /\ (pc' = "backoff" => ~started)
        /\ UNCHANGED <<taken, attempt, started>>
    BY <1>5 DEF Stall, RetryOrRaise, End
  <2>2. \A i \in 1..taken[attempt] :
          items[attempt][i] \in Chunks /\ (~started => items[attempt][i] # "content")
    BY <1>0, <2>1 DEF Heard
  <2> QED
    BY <1>2, <2>1, <2>2 DEF Heard, Chunks
<1>6. CASE BackoffOver
  <2>1. pc = "backoff" /\ pc' = "opening" /\ attempt' = attempt + 1 /\ taken' = taken
    BY <1>6 DEF BackoffOver
  <2>2. attempt' \in Attempts /\ reader[attempt'] = "none"
    BY <1>0, <1>1, <2>1, StreamReaderAssumption
       DEF Progress, Attempts, StreamReaderAssumption
  <2>3. taken'[attempt'] = 0
    BY <1>0, <2>1, <2>2 DEF Held
  <2> QED
    BY <2>1, <2>3 DEF Heard
<1>7. CASE GetChunk
  <2>1. PICK c \in Chunks : Take(c) /\ started' = (started \/ c = "content")
    BY <1>7 DEF GetChunk
  <2>2. pc' = "checking" /\ attempt' = attempt
    BY <1>7 DEF GetChunk
  <2>3. /\ \A i \in 1..taken'[attempt] : items[attempt][i] \in Chunks
        /\ \A i \in 1..taken'[attempt] : i <= taken[attempt] \/ items[attempt][i] = c
    BY <2>1, TakeExtends DEF Items
  <2>4. ASSUME ~started', NEW i \in 1..taken'[attempt]
        PROVE  items[attempt][i] # "content"
    <3>1. ~started /\ c # "content"
      BY <2>1, <2>4
    <3>2. i <= taken[attempt] => i \in 1..taken[attempt]
      BY <2>1, TakeExtends DEF Items
    <3> QED
      BY <1>0, <2>3, <3>1, <3>2 DEF Heard
  <2> QED
    BY <1>2, <2>2, <2>3, <2>4 DEF Heard
<1>8. CASE GetDone
  <2>1. Take("done") /\ pc' = "finishing" /\ attempt' = attempt /\ started' = started
    BY <1>8 DEF GetDone
  <2>2. /\ taken'[attempt] = taken[attempt] + 1 /\ taken[attempt] \in Nat
        /\ taken'[attempt] <= Len(items[attempt])
        /\ items[attempt][taken'[attempt]] = "done"
    BY <2>1, TakeExtends DEF Items, Sentinels
  <2>3. taken'[attempt] = Len(items[attempt])
    BY <1>0, <1>1, <2>2 DEF SentinelLast, Chunks
  <2>4. ~started => \A i \in 1..taken'[attempt] : items[attempt][i] # "content"
    BY <1>0, <1>1, <2>2 DEF Heard
  <2> QED
    BY <1>2, <2>1, <2>2, <2>3, <2>4 DEF Heard
<1>9. CASE GetFailed
  <2>1. Take("failed") /\ pc' \in {"backoff", "ended"} /\ attempt' = attempt
        /\ started' = started /\ (pc' = "backoff" => ~started)
    BY <1>9 DEF GetFailed, RetryOrRaise, End
  <2>2. \A i \in 1..taken'[attempt] :
          \/ items[attempt][i] = "failed"
          \/ i \in 1..taken[attempt] /\ items[attempt][i] \in Chunks
    BY <2>1, TakeExtends DEF Items, Sentinels
  <2>3. ~started => \A i \in 1..taken'[attempt] : items[attempt][i] # "content"
    BY <1>0, <2>2 DEF Heard
  <2> QED
    BY <1>2, <2>1, <2>2, <2>3 DEF Heard, Chunks
<1> QED
  BY <1>3, <1>4, <1>5, <1>6, <1>7, <1>8, <1>9 DEF Agent

LEMMA AgentLateness == ASSUME IInv, Agent PROVE Lateness'
<1>0. TypeOK /\ Lateness
  BY DEF IInv
<1>1. CASE GetChunk
  <2>1. late = 0 /\ pc' = "checking" /\ aborted' = aborted
        /\ late' = IF aborted THEN late + 1 ELSE late
    BY <1>0, <1>1 DEF GetChunk, Take, Lateness, TypeOK
  <2> QED
    BY <2>1 DEF Lateness, AbortIsHeard
<1>2. CASE ~GetChunk
  <2>1. late' = late /\ aborted' = aborted
    BY <1>2 DEF Agent, Open, OpenFails, CheckAborted, CheckPasses, GetDone, GetFailed,
         GetTimesOut, Stall, BackoffAborted, BackoffOver, FinishAborted, Finish, FinishFails, Take
  <2>2. aborted /\ pc \in {"checking", "ended"} => pc' \in {"checking", "ended"}
    BY <1>2 DEF Agent, Open, OpenFails, CheckAborted, CheckPasses, GetDone, GetFailed,
         GetTimesOut, Stall, BackoffAborted, BackoffOver, FinishAborted, Finish, FinishFails, Take, End
  <2> QED
    BY <1>0, <2>1, <2>2 DEF Lateness, AbortIsHeard
<1> QED
  BY <1>1, <1>2

LEMMA AgentSilence == ASSUME IInv, Agent PROVE SilenceIsExplained'
<1>0. TypeOK /\ Held /\ Progress /\ SilenceIsExplained
  BY DEF IInv
<1>1. attempt \in Attempts /\ put \in [Attempts -> Nat] /\ taken \in [Attempts -> Nat]
      /\ reader \in [Attempts -> Readers]
  BY <1>0 DEF TypeOK
<1>2. CASE Open
  <2>1. reader'[attempt'] = "reading"
    BY <1>1, <1>2 DEF Open
  <2> QED
    BY <2>1 DEF SilenceIsExplained
<1>3. CASE GetChunk
  <2>1. PICK c \in Chunks : Take(c)
    BY <1>3 DEF GetChunk
  <2>2. UNCHANGED <<items, put, reader, aborted, attempt>> /\ pc = "getting"
    BY <1>3 DEF GetChunk, readerVars, Take
  <2>3. taken'[attempt] = taken[attempt] + 1 /\ taken[attempt] < put[attempt]
        /\ items[attempt][taken[attempt] + 1] \notin Sentinels
    BY <1>1, <2>1 DEF Take, Queued, NextItem, Chunks, Sentinels
  <2>4. items[attempt][put[attempt]] \in Sentinels => taken'[attempt] < put[attempt]
    BY <1>1, <2>3
  <2> QED
    BY <1>0, <2>2, <2>4 DEF SilenceIsExplained, Queued
<1>4. CASE CheckPasses \/ GetTimesOut
  BY <1>0, <1>4 DEF CheckPasses, GetTimesOut, SilenceIsExplained, readerVars, Queued
<1>5. CASE pc' \notin {"checking", "getting"}
  BY <1>5 DEF SilenceIsExplained
<1> QED
  BY <1>2, <1>3, <1>4, <1>5
     DEF Agent, OpenFails, CheckAborted, GetDone, GetFailed, Stall, RetryOrRaise,
         BackoffAborted, BackoffOver, FinishAborted, Finish, FinishFails, End

-------------------------------------------------------------------------------
(* The steps of a reader.                                                  *)

LEMMA ReaderOrder ==
  ASSUME IInv, NEW a \in Attempts, Reader(a)
  PROVE  /\ Held' /\ SentinelLast' /\ Progress' /\ Heard'
         /\ Lateness' /\ SilenceIsExplained'
<1>0. TypeOK /\ Held /\ SentinelLast /\ Progress /\ Heard /\ Lateness
      /\ SilenceIsExplained
  BY DEF IInv
<1>1. /\ attempt \in Attempts /\ items \in [Attempts -> Seq(Items)]
      /\ reader \in [Attempts -> Readers] /\ put \in [Attempts -> Nat]
      /\ taken \in [Attempts -> Nat]
      /\ \A b \in Attempts : taken[b] <= put[b] /\ Len(items[b]) \in Nat
  BY <1>0 DEF TypeOK
<1>2. UNCHANGED <<agentVars, aborted>>
  BY DEF Reader, ReadChunk, ReadEnds, ReadFails, Read, Put, AfterPut, PutStopped
<1>3. Lateness'
  BY <1>0, <1>2 DEF Lateness, AbortIsHeard, agentVars
<1>4. /\ reader[a] # "none" /\ reader'[a] # "none"
      /\ \A b \in Attempts : b # a => /\ reader'[b] = reader[b] /\ items'[b] = items[b]
                                      /\ put'[b] = put[b]
  BY <1>1 DEF Reader, ReadChunk, ReadEnds, ReadFails, Read, Put, AfterPut, PutStopped
<1>5. Progress'
  BY <1>0, <1>1, <1>2, <1>4 DEF Progress, agentVars
<1>6. Put(a) \/ AfterPut(a) \/ PutStopped(a) => items' = items
  BY DEF Put, AfterPut, PutStopped
<1>7. ASSUME NEW item \in Items, Read(a, item)
      PROVE  Held' /\ SentinelLast' /\ Heard' /\ SilenceIsExplained'
  <2>1. /\ reader[a] = "reading" /\ reader'[a] = "putting" /\ put' = put
        /\ put[a] = Len(items[a])
        /\ items'[a] = Append(items[a], item)
    BY <1>0, <1>1, <1>7 DEF Read, Held
  <2>2. /\ Len(items'[a]) = Len(items[a]) + 1
        /\ \A i \in 1..Len(items[a]) : items'[a][i] = items[a][i]
    BY <1>1, <2>1
  <2>3. Held'
    BY <1>0, <1>1, <1>2, <1>4, <2>1, <2>2 DEF Held, agentVars
  <2>4. SentinelLast'
    <3>1. \A i \in 1..Len(items'[a]) : i < Len(items'[a]) => items'[a][i] \in Chunks
      BY <1>0, <1>1, <2>1, <2>2 DEF SentinelLast
    <3> QED
      BY <1>0, <1>4, <2>1, <3>1 DEF SentinelLast
  <2>5. \A i \in 1..taken[attempt] : items'[attempt][i] = items[attempt][i]
    <3>1. CASE a = attempt
      <4>1. taken[a] <= Len(items[a])
        BY <1>1, <2>1
      <4> QED
        BY <1>1, <2>2, <3>1, <4>1
    <3>2. CASE a # attempt
      BY <1>1, <1>4, <3>2
    <3> QED
      BY <3>1, <3>2
  <2>6. pc = "finishing" => a # attempt
    <3>1. ASSUME pc = "finishing", a = attempt PROVE FALSE
      BY <1>0, <1>1, <2>1, <3>1 DEF Heard, SentinelLast, Chunks
    <3> QED  BY <3>1
  <2>7. Heard'
    <3>1. UNCHANGED <<pc, taken, attempt, started>>
      BY <1>2 DEF agentVars
    <3>2. pc = "finishing" => items'[attempt] = items[attempt]
      BY <1>1, <1>4, <2>6
    <3> QED
      BY <1>0, <2>5, <3>1, <3>2 DEF Heard
  <2>8. SilenceIsExplained'
    BY <1>0, <1>1, <1>2, <1>4, <2>1 DEF SilenceIsExplained, Queued, agentVars
  <2> QED
    BY <2>3, <2>4, <2>7, <2>8
<1>8. CASE ReadChunk(a) \/ ReadEnds(a) \/ ReadFails(a)
  BY <1>3, <1>5, <1>7, <1>8 DEF ReadChunk, ReadEnds, ReadFails, Items, Sentinels
<1>9. CASE Put(a)
  <2>1. /\ items' = items /\ reader[a] = "putting" /\ put'[a] = put[a] + 1
        /\ put[a] + 1 = Len(items[a])
        /\ reader'[a] = IF items[a][put[a] + 1] \in Sentinels THEN "returned" ELSE "put"
    BY <1>0, <1>1, <1>9 DEF Put, Held
  <2>2. Held'
    BY <1>0, <1>2, <1>4, <2>1 DEF Held, agentVars
  <2>3. items[a][put[a] + 1] \in Items
    BY <1>1, <2>1
  <2>4. SentinelLast'
    <3>1. ASSUME reader'[a] = "put", NEW i \in 1..Len(items[a])
          PROVE  items[a][i] \in Chunks
      <4>1. items[a][put[a] + 1] \in Chunks
        BY <2>1, <2>3, <3>1 DEF Items
      <4>2. i < Len(items[a]) \/ i = put[a] + 1
        BY <1>1, <2>1
      <4> QED
        BY <1>0, <4>1, <4>2 DEF SentinelLast
    <3>2. reader'[a] # "reading"
      BY <2>1
    <3> QED
      <4>1. \A b \in Attempts : b # a =>
              /\ \A i \in 1..Len(items[b]) : i < Len(items[b]) => items[b][i] \in Chunks
              /\ reader'[b] \in {"reading", "put"} =>
                   \A i \in 1..Len(items[b]) : items[b][i] \in Chunks
        BY <1>0, <1>4 DEF SentinelLast
      <4>2. /\ \A i \in 1..Len(items[a]) : i < Len(items[a]) => items[a][i] \in Chunks
            /\ reader'[a] \in {"reading", "put"} =>
                 \A i \in 1..Len(items[a]) : items[a][i] \in Chunks
        BY <1>0, <3>1, <3>2 DEF SentinelLast
      <4> QED
        BY <2>1, <4>1, <4>2 DEF SentinelLast
  <2>5. Heard'
    BY <1>0, <1>2, <2>1 DEF Heard, agentVars
  <2>6. SilenceIsExplained'
    BY <1>0, <1>1, <1>2, <1>4, <2>1 DEF SilenceIsExplained, Queued, agentVars
  <2> QED
    BY <1>3, <1>5, <2>2, <2>4, <2>5, <2>6
<1>10. CASE AfterPut(a) \/ PutStopped(a)
  <2>1. /\ items' = items /\ put' = put
        /\ \/ reader[a] = "put" /\ reader'[a] = IF aborted THEN "returned" ELSE "reading"
           \/ reader[a] = "putting" /\ stop[a] /\ reader'[a] = "returned"
    BY <1>1, <1>10 DEF AfterPut, PutStopped
  <2>2. Held'
    BY <1>0, <1>1, <1>2, <1>4, <2>1 DEF Held, agentVars
  <2>3. SentinelLast'
    BY <1>0, <1>4, <2>1 DEF SentinelLast
  <2>4. Heard'
    BY <1>0, <1>2, <2>1 DEF Heard, agentVars
  <2>5. SilenceIsExplained'
    BY <1>0, <1>1, <1>2, <1>4, <2>1 DEF SilenceIsExplained, Progress, Queued, agentVars
  <2> QED
    BY <1>3, <1>5, <2>2, <2>3, <2>4, <2>5
<1> QED
  BY <1>8, <1>9, <1>10 DEF Reader

LEMMA NextIInv == IInv /\ [Next]_vars => IInv'
<1> SUFFICES ASSUME IInv, [Next]_vars PROVE IInv'
  OBVIOUS
<1>1. CASE Agent
  BY <1>1, AgentTypeOK, AgentOrder, AgentHeard, AgentLateness, AgentSilence DEF IInv
<1>2. CASE Abort
  BY <1>2
     DEF Abort, IInv, agentVars, readerVars, TypeOK, Held, SentinelLast, Progress, Heard,
         Lateness, AbortIsHeard, SilenceIsExplained, Queued
<1>3. ASSUME NEW a \in Attempts, Reader(a)
      PROVE  IInv'
  BY <1>3, ReaderTypeOK, ReaderOrder DEF IInv
<1>4. CASE UNCHANGED vars
  BY <1>4 DEF vars, IInv, TypeOK, Held, SentinelLast, Progress, Heard, Lateness,
              AbortIsHeard, SilenceIsExplained, Queued
<1> QED
  BY <1>1, <1>2, <1>3, <1>4 DEF Next

LEMMA Invariance == Spec => []IInv
  BY InitIInv, NextIInv, PTL DEF Spec

-------------------------------------------------------------------------------
\* Every variable keeps its type and no queue exceeds its bound.
THEOREM Typed == Spec => []TypeOK
<1>1. IInv => TypeOK  BY DEF IInv
<1> QED  BY <1>1, Invariance, PTL

\* The agent thread is never left waiting for a reader that has gone, unless the
\* run is aborted (_interruptible_chunks).
THEOREM SilenceExplained == Spec => []SilenceIsExplained
<1>1. IInv => SilenceIsExplained  BY DEF IInv
<1> QED  BY <1>1, Invariance, PTL

\* At most one chunk is parsed after an abort, for any queue and any answer.
THEOREM AbortHeard == Spec => []AbortIsHeard
<1>1. IInv => AbortIsHeard  BY DEF IInv, Lateness
<1> QED  BY <1>1, Invariance, PTL

-------------------------------------------------------------------------------
\* A call keeps the promise of Delivery whatever the bounds: its steps are steps
\* of that specification or none.
THEOREM DeliveryKept == Spec => ImplementsDelivery
<1> DEFINE Step == [Promise!Next]_(Promise!vars)
<1>1. Init => Promise!Init
  <2>1. Init => items[attempt] = <<>> /\ taken[attempt] = 0
    BY StreamReaderAssumption DEF Init, Attempts, StreamReaderAssumption
  <2> QED
    BY <2>1 DEF Init, Promise!Init
<1>2. IInv /\ [Next]_vars => Step
  <2> SUFFICES ASSUME IInv, [Next]_vars PROVE Step
    OBVIOUS
  <2>0. TypeOK /\ Held /\ Progress /\ Heard
    BY DEF IInv
  <2>1. /\ attempt \in Attempts /\ taken \in [Attempts -> Nat]
        /\ items \in [Attempts -> Seq(Items)] /\ Len(items[attempt]) \in Nat
        /\ reader \in [Attempts -> Readers]
    BY <2>0 DEF TypeOK
  <2>a. taken[attempt] \in Nat /\ taken[attempt] <= Len(items[attempt])
    <3>1. put[attempt] \in Nat /\ put[attempt] <= Len(items[attempt])
      BY <2>0, <2>1 DEF TypeOK, Held, Readers
    <3>2. taken[attempt] <= put[attempt]
      BY <2>0, <2>1 DEF TypeOK
    <3> QED
      BY <2>1, <3>1, <3>2
  <2>2. CASE Open \/ CheckPasses \/ GetTimesOut
    BY <2>2 DEF Open, CheckPasses, GetTimesOut, readerVars, Promise!vars
  <2>3. CASE OpenFails \/ Stall
    <3>1. UNCHANGED <<items, taken, attempt>>
          /\ (verdict' = verdict \/ (pc \in {"opening", "getting"} /\ verdict' = "failed"))
      BY <2>3 DEF OpenFails, Stall, RetryOrRaise, End, readerVars
    <3>2. CASE verdict' = verdict
      BY <3>1, <3>2 DEF Promise!vars
    <3>3. CASE pc \in {"opening", "getting"} /\ verdict' = "failed"
      <4>1. verdict = "none"
        BY <2>0, <3>3 DEF Progress
      <4> QED
        BY <2>a, <3>1, <3>3, <4>1 DEF Promise!Next, Promise!GiveUp
    <3> QED
      BY <3>1, <3>2, <3>3
  <2>4. CASE CheckAborted \/ BackoffAborted \/ FinishAborted \/ FinishFails
    <3>1. UNCHANGED <<items, taken, attempt>> /\ verdict' \in {"interrupted", "failed"}
          /\ pc # "ended"
      BY <2>4 DEF CheckAborted, BackoffAborted, FinishAborted, FinishFails, End, readerVars
    <3>2. verdict = "none"
      BY <2>0, <3>1 DEF Progress
    <3> QED
      BY <2>a, <3>1, <3>2 DEF Promise!Next, Promise!GiveUp
  <2>5. ASSUME NEW item \in Items, Take(item), items' = items, attempt' = attempt
        PROVE  /\ verdict' = verdict => Step
               /\ verdict' = "failed" => Step
    <3>1. /\ taken[attempt] + 1 <= Len(items[attempt]) /\ taken[attempt] \in Nat
          /\ taken'[attempt] = taken[attempt] + 1 /\ verdict = "none"
      BY <2>0, <2>5, TakeExtends DEF Progress
    <3> QED
      BY <2>1, <2>5, <3>1 DEF Promise!Next, Promise!Hear, Promise!GiveUp
  <2>6. CASE GetChunk
    BY <2>5, <2>6 DEF GetChunk, Items, readerVars
  <2>7. CASE GetDone
    BY <2>5, <2>7 DEF GetDone, Items, Sentinels, readerVars
  <2>8. CASE GetFailed
    BY <2>5, <2>8 DEF GetFailed, RetryOrRaise, End, Items, Sentinels, readerVars
  <2>9. CASE BackoffOver
    <3>1. pc = "backoff" /\ attempt' = attempt + 1 /\ UNCHANGED <<items, taken, verdict>>
      BY <2>9 DEF BackoffOver, readerVars
    <3>2. /\ attempt' \in Attempts /\ reader[attempt'] = "none" /\ verdict = "none"
          /\ \A i \in 1..taken[attempt] : items[attempt][i] \in {"blank", "failed"}
      BY <2>0, <2>1, <3>1, StreamReaderAssumption
         DEF Progress, Heard, Attempts, StreamReaderAssumption
    <3>3. items'[attempt'] = <<>> /\ taken'[attempt'] = 0
      BY <2>0, <3>1, <3>2 DEF Held
    <3> QED
      BY <3>1, <3>2, <3>3 DEF Promise!Next, Promise!Restart
  <2>10. CASE Finish
    <3>1. pc = "finishing" /\ verdict' = "complete" /\ UNCHANGED <<items, taken, attempt>>
      BY <2>10 DEF Finish, End, readerVars
    <3>2. /\ verdict = "none" /\ taken[attempt] = Len(items[attempt])
          /\ taken[attempt] > 0 /\ items[attempt][taken[attempt]] = "done"
      BY <2>0, <3>1 DEF Progress, Heard
    <3> QED
      BY <3>1, <3>2 DEF Promise!Next, Promise!Complete
  <2>11. ASSUME NEW a \in Attempts, Reader(a)
         PROVE  Step
    <3>1. UNCHANGED <<taken, attempt, verdict>>
      BY <2>11 DEF Reader, ReadChunk, ReadEnds, ReadFails, Read, Put, AfterPut,
                   PutStopped, agentVars
    <3>2. \/ items'[attempt] = items[attempt]
          \/ \E p \in Items : items'[attempt] = Append(items[attempt], p)
      BY <2>1, <2>11 DEF Reader, ReadChunk, ReadEnds, ReadFails, Read, Put, AfterPut,
                         PutStopped, Items, Sentinels
    <3> QED
      BY <3>1, <3>2 DEF Promise!Next, Promise!Say, Promise!vars
  <2>12. CASE Abort \/ UNCHANGED vars
    BY <2>12 DEF Abort, vars, agentVars, readerVars, Promise!vars
  <2> QED
    BY <2>2, <2>3, <2>4, <2>6, <2>7, <2>8, <2>9, <2>10, <2>11, <2>12 DEF Next, Agent
<1> QED
  BY <1>1, <1>2, Invariance, PTL DEF Spec, ImplementsDelivery, Promise!Spec
===============================================================================
