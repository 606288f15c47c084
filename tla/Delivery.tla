------------------------------- MODULE Delivery -------------------------------
(***************************************************************************)
(* What one provider call promises the loop, whatever threads, queues and  *)
(* retries it takes: the pieces the provider says are passed on in order   *)
(* and none is lost or said twice; the call may begin again only while     *)
(* nothing has been heard; and it is complete only when the provider has   *)
(* ended its answer and all of it was passed on.                           *)
(***************************************************************************)
EXTENDS Naturals, Sequences

CONSTANTS Pieces,    \* what a provider may say, or have happen to it
          Empty,     \* the pieces that carry nothing
          Final      \* the piece that ends an answer

VARIABLES said,      \* what the provider has said in this attempt
          heard,     \* how much of it was passed on
          verdict    \* how the call ended

vars == <<said, heard, verdict>>

TypeOK ==
  /\ said \in Seq(Pieces)
  /\ heard \in 0..Len(said)
  /\ verdict \in {"none", "complete", "failed", "interrupted"}

Init == said = <<>> /\ heard = 0 /\ verdict = "none"

\* The provider may go on talking after the call has ended.
Say == \E p \in Pieces : said' = Append(said, p) /\ UNCHANGED <<heard, verdict>>

Hear ==
  /\ verdict = "none" /\ heard < Len(said)
  /\ heard' = heard + 1
  /\ UNCHANGED <<said, verdict>>

Restart ==
  /\ verdict = "none" /\ \A i \in 1..heard : said[i] \in Empty
  /\ said' = <<>> /\ heard' = 0
  /\ UNCHANGED verdict

Complete ==
  /\ verdict = "none"
  /\ heard = Len(said) /\ heard > 0 /\ said[heard] = Final
  /\ verdict' = "complete"
  /\ UNCHANGED <<said, heard>>

\* The last piece may be taken along: a failure the provider reports.
GiveUp ==
  /\ verdict = "none"
  /\ heard' \in {heard, heard + 1} /\ heard' <= Len(said)
  /\ verdict' \in {"failed", "interrupted"}
  /\ UNCHANGED said

Next == Say \/ Hear \/ Restart \/ Complete \/ GiveUp

Spec == Init /\ [][Next]_vars
===============================================================================
