-------------------------------- MODULE Fitting --------------------------------
(***************************************************************************)
(* How a request is measured and made to fit (agent/conversation.py,       *)
(* history/tokens.py, history/compaction.py, agent/turn.py).  The measure  *)
(* is the provider's charge for the last request plus an estimate of what  *)
(* was appended since, or an estimate of everything; the estimate's ratio  *)
(* is learned from the charges.  A request over the budget is compacted by *)
(* the configured strategy, one over the window is refused.  The strategy  *)
(* may ask a model for a summary, which takes its time: the host can clear *)
(* or compact meanwhile, and what is adopted replaces the history whole.   *)
(*                                                                         *)
(* A message is its role, its characters and how many of them its language *)
(* has in a token of the plainest model; a tokeniser has so many of these  *)
(* in one of its own.  Images, arguments and ids are left out.  The ratio  *)
(* is kept in tenths, sizes are small.                                     *)
(***************************************************************************)
EXTENDS Naturals, Integers, Sequences, FiniteSetsExt

CONSTANTS
  Windows,       \* input limits of the models, 0 when none is published
  Tokenisers,    \* how coarse the models' tokens are
  Languages,     \* the densities that may occur in one behaviour
  Sizes,         \* characters of a message the user, the model or a tool gives
  Fixed,         \* characters of the system prompt and the tool schemas
  Frame,         \* characters that frame a summary
  Stub,          \* characters of a demoted result
  MinDemotable,  \* MIN_DEMOTABLE_CHARS
  SummaryTokens, \* SUMMARY_MAX_TOKENS
  SummaryChars,  \* SUMMARY_MAX_CHARS
  MinSample,     \* _MIN_SAMPLE_CHARS
  MinSaving,     \* _MIN_SAVING_TOKENS
  HistoryBudget, \* config.history_budget_tokens
  Reserve,       \* config.reserve_tokens
  KeepRecent,    \* config.keep_recent
  HostBudgets,   \* budgets a host compacts to
  DemotionLadder, \* _DEMOTION_LADDER
  MaxMessages,   \* bound on the history
  MaxRequests    \* bound on the requests, their retries apart

ASSUME FittingAssumption ==
  /\ Windows \cup Sizes \subseteq Nat /\ Sizes # {}
  /\ Fixed \in Nat /\ Frame \in Nat /\ Stub \in Nat
  /\ {KeepRecent, SummaryTokens, SummaryChars, MinSample} \subseteq Nat \ {0}
  /\ HostBudgets \cup Tokenisers \subseteq Nat \ {0}
  /\ MinSaving \in Nat /\ Reserve \in Nat /\ HistoryBudget \in Nat
  /\ DemotionLadder \in Seq(Nat)
  /\ MaxMessages \in Nat /\ MaxRequests \in Nat
  /\ \A l \in Languages : l \subseteq Nat \ {0} /\ \E d \in l : \A e \in l : d >= e

VARIABLES
  strategy,   \* config.compaction
  language,   \* the densities of this behaviour
  window,     \* the live model's input limit
  tokeniser,  \* how it tokenises
  usage,      \* its last_usage: the prompt tokens, and whether this conversation's
  history,    \* conversation.history
  anchor,     \* tokens.anchor, -1 for none
  ratio,      \* tokens._ratio, in tenths of a character per token
  samples,    \* tokens._samples, up to one
  phase,      \* where the run is
  fit,        \* the fit that is being made: what it will leave, and whether that may go out
  out,        \* the history of the request that is out
  requests,   \* requests sent, their retries apart
  retried,    \* the overflow of this request was compacted already
  charged,    \* history: what the provider charged for when it set the anchor
  replaced,   \* history: the host replaced the history while that request was out
  mixed       \* history: a sample of the ratio is another tokeniser's

fittingVars == <<strategy, language, window, tokeniser, usage, history, anchor, ratio, samples,
                 phase, fit, out, requests, retried, charged, replaced, mixed>>
setup   == <<strategy, language>>
model   == <<window, tokeniser, mixed>>
learned == <<ratio, samples>>
covered == <<anchor, charged, replaced>>
measure == <<usage, learned, covered>>

Bigger(a, b)  == IF a > b THEN a ELSE b
Smaller(a, b) == IF a < b THEN a ELSE b

Message(r, n, d) == [role |-> r, chars |-> n, density |-> d, body |-> "own"]
\* A recursive function, as are the rungs of the ladder below, and no fold: the proofs
\* of ContextProofs reason about it.
Total(s) ==
  LET sum[n \in 0..Len(s)] == IF n = 0 THEN 0 ELSE sum[n - 1] + s[n]
  IN  sum[Len(s)]

Chars(h) == Total([i \in 1..Len(h) |-> h[i].chars])
\* What a provider charges: every message in whole tokens of its language and model.
TokensIn(n, d) == (n + d - 1) \div d
Real(h)  == TokensIn(Fixed, Max(language) * tokeniser)
              + Total([i \in 1..Len(h) |-> TokensIn(h[i].chars, h[i].density * tokeniser)])

-------------------------------------------------------------------------------
(* The estimate.                                                           *)

DefaultRatio == 30
MinRatio == 15
MaxRatio == 80

Estimate(chars) == (chars * 10) \div ratio
EstimateTokens(h) == Estimate(Chars(h))
\* Messages estimated one by one, each rounded down.
EachEstimated(h) == Total([i \in 1..Len(h) |-> Estimate(h[i].chars)])

\* Variant: the first sample too is only mixed in.
ObserveSlowly(chars, tokens) ==
  LET observed == (chars * 10) \div tokens
  IN  IF chars < MinSample \/ observed \notin MinRatio..MaxRatio
      THEN UNCHANGED <<ratio, samples>>
      ELSE samples' = 1 /\ ratio' = (7 * ratio + 3 * observed) \div 10

\* observe(): the first sample replaces the ratio, a later one moves it by 0.3.
Observe(chars, tokens) ==
  LET observed == (chars * 10) \div tokens
  IN  IF chars < MinSample \/ observed \notin MinRatio..MaxRatio
      THEN UNCHANGED <<ratio, samples>>
      ELSE /\ samples' = 1
           /\ ratio' = IF samples = 0 THEN observed ELSE (7 * ratio + 3 * observed) \div 10

Anchored == usage.tokens > 0 /\ anchor \in 0..Len(history)

ContextUsage ==
  IF Anchored
  THEN usage.tokens + EstimateTokens(SubSeq(history, anchor + 1, Len(history)))
  ELSE Estimate(Fixed) + EstimateTokens(history)

AutocompactBudget ==
  IF window <= 0 THEN HistoryBudget
  ELSE IF Reserve > 0 THEN Bigger(1, window - Reserve) ELSE (85 * window) \div 100

WorthAdopting(before, after) == before - after >= Bigger(MinSaving, before \div 20)

-------------------------------------------------------------------------------
(* Strategies.  Each is a set: the text of a summary is up to its author.  *)
(* They count fixed tokens beside the history: the system prompt and the   *)
(* tool schemas, or nothing.                                               *)

Demotable(h) == SelectSeq([i \in 1..Len(h) |-> i], LAMBDA i : h[i].role = "tool")

\* demote_tool_results(): all but the last keep results become stubs.
DemoteResults(h, keep) ==
  LET at  == Demotable(h)
      old == {at[k] : k \in {j \in 1..Len(at) : j <= Len(at) - keep}}
  IN  [i \in 1..Len(h) |->
         IF i \in old /\ h[i].chars > MinDemotable /\ h[i].body # "stub"
         THEN [h[i] EXCEPT !.chars = Stub, !.body = "stub"] ELSE h[i]]

\* _demote_until_under(): down the ladder while the estimate is over the budget.
DemoteUntilUnder(h, budget, fixed) ==
  LET down[n \in 0..Len(DemotionLadder)] ==
        IF n = 0 THEN h
        ELSE IF fixed + EstimateTokens(down[n - 1]) <= budget THEN down[n - 1]
        ELSE DemoteResults(down[n - 1], DemotionLadder[n])
  IN  down[Len(DemotionLadder)]

\* _split_with_orphan_repair() keeps no result whose call it folds away.
OrphansEnd(h, start) ==
  CHOOSE i \in start..Len(h) + 1 :
    (i = Len(h) + 1 \/ h[i].role # "tool") /\ \A j \in start..i - 1 : h[j].role = "tool"

\* A summary of at most so many characters.
Summaries(most) ==
  {[Message("user", Frame + n, Max(language)) EXCEPT !.body = "summary"] :
     n \in {1, Bigger(1, most)}}

\* The characters a summary of so many tokens may have.
SummaryOf(tokens) == Smaller(SummaryChars, (tokens * ratio) \div 10)

\* _keep_recent_that_fits()
KeepThatFits(h, keep, room) ==
  LET tail(n) == SubSeq(h, Len(h) - n + 1, Len(h))
      fits == {n \in 1..keep : n <= 2 \/ EachEstimated(tail(n)) <= room}
  IN  Bigger(2, Max({n \in fits : \A k \in 1..n : k \in fits}))

\* compress_history(): demotion first, a summary of all but a tail when that will not do.
CompressHistory(h, budget, keep, fixed) ==
  LET demoted == DemoteUntilUnder(h, budget, fixed)
      kept    == KeepThatFits(demoted, Smaller(keep, Len(demoted)), Bigger(0, budget - fixed))
      start   == OrphansEnd(demoted, Len(demoted) - kept + 1)
      recent  == SubSeq(demoted, start, Len(demoted))
      compacted == {<<s>> \o recent : s \in Summaries(SummaryChars)}
  IN  IF \/ fixed + EstimateTokens(demoted) <= budget
         \/ Len(demoted) <= keep \/ start = 1
      THEN {demoted}
      ELSE {IF fixed + EstimateTokens(c) > budget THEN DemoteResults(c, 1) ELSE c : c \in compacted}

\* _split_recent_that_fits(): where the tail begins, at a user's message if it can.
RecentStart(h, most, room) ==
  LET fits(i) == i = Len(h) + 1 \/ EachEstimated(SubSeq(h, i, Len(h))) <= room
      first == Min({i \in Bigger(1, Len(h) - most + 1)..Len(h) + 1 : fits(i)})
      users == {i \in first + 1..Len(h) : h[i].role = "user"}
  IN  IF first > Len(h) \/ h[first].role = "user" THEN first
      ELSE IF users # {} THEN Min(users) ELSE OrphansEnd(h, first)

\* Variant: the frame is not counted.
SummariseUnframed(h, budget, keep, fixed) ==
  LET room    == Bigger(0, budget - fixed)
      tokens  == IF budget <= 1 THEN SummaryTokens ELSE Smaller(SummaryTokens, Bigger(1, room))
      start   == RecentStart(h, keep, IF budget <= 1 THEN 0 ELSE Bigger(0, room - tokens))
  IN  IF start = 1 THEN {h}
      ELSE {<<s>> \o SubSeq(h, start, Len(h)) : s \in Summaries(SummaryOf(tokens))}

\* summarise_only(): one summary of everything before a tail that fits.
SummariseOnly(h, budget, keep, fixed) ==
  LET room    == Bigger(0, budget - fixed)
      tokens  == IF budget <= 1 THEN SummaryTokens
                 ELSE Smaller(SummaryTokens, Bigger(1, room - Estimate(Frame)))
      start   == RecentStart(h, keep, IF budget <= 1 THEN 0
                                      ELSE Bigger(0, room - Estimate(Frame) - tokens))
  IN  IF start = 1 THEN {h}
      ELSE {<<s>> \o SubSeq(h, start, Len(h)) : s \in Summaries(SummaryOf(tokens))}

\* Both return the history as it is when the measured request is within the budget.
Compacted(h, budget, keep, fixed, used) ==
  IF used <= budget THEN {h}
  ELSE IF strategy = "ladder" THEN CompressHistory(h, budget, keep, fixed)
       ELSE SummariseOnly(h, budget, keep, fixed)

-------------------------------------------------------------------------------
(* fit_request() and force_compaction().                                   *)

\* A summary the live model wrote is the last request that model was charged for.
ChargedFor(h) ==
  IF h # history /\ h[1].body = "summary"
  THEN {usage, [tokens |-> Real(history), own |-> FALSE]} ELSE {usage}

Candidate(h, original) ==
  [messages |-> h, history |-> EstimateTokens(h),
   request |-> IF h = history THEN original ELSE Estimate(Fixed) + EstimateTokens(h)]

\* A different history, smaller than the measured request, that saves enough or that
\* the hard limit needs.
Adopted(candidate, original, hard) ==
  /\ candidate.messages # history /\ candidate.request < original
  /\ WorthAdopting(EstimateTokens(history), candidate.history) \/ hard

Original       == Bigger(ContextUsage, Estimate(Fixed) + EstimateTokens(history))
HardFit(force) == force \/ (window > 0 /\ Original > window)

\* What the strategy may make of the history.
Passes(force) ==
  LET budget == AutocompactBudget
      target == IF force THEN 1
                ELSE IF HardFit(force) /\ window > 0 THEN Smaller(budget, window) ELSE budget
  IN  IF Original > budget \/ HardFit(force)
      THEN Compacted(history, target, IF force THEN 2 ELSE KeepRecent, Estimate(Fixed), Original)
      ELSE {history}

\* The outcome of a pass: the history that is left, and whether it may go out.
Outcome(h, force) ==
  LET candidate == Candidate(h, Original)
      adopted   == Adopted(candidate, Original, HardFit(force))
  IN  [messages |-> IF adopted THEN h ELSE history, adopted |-> adopted,
       goes |-> window <= 0 \/ (IF adopted THEN candidate.request ELSE Original) <= window]

NoFit == [messages |-> <<>>, adopted |-> FALSE, goes |-> FALSE]

\* Variant: a demotion, which keeps every message, keeps the anchor.
AdoptDemoted(h) ==
  /\ history' = h /\ replaced' = FALSE
  /\ IF Len(h) = Len(history) THEN UNCHANGED <<anchor, charged>> ELSE anchor' = -1 /\ charged' = <<>>

\* on_compacted(): a rewritten history, summarised or demoted, has no anchor.
Adopt(h) == history' = h /\ anchor' = -1 /\ charged' = <<>> /\ replaced' = FALSE
Keep     == UNCHANGED <<history, covered>>

\* fit_request(), up to the adoption.
StartFit(force) ==
  \E h \in Passes(force) : fit' = Outcome(h, force) /\ usage' \in ChargedFor(h)

\* _adopt(): whatever became of the history the pass was given.
FinishFit == fit' = NoFit /\ IF fit.adopted THEN Adopt(fit.messages) ELSE Keep

FittingInit ==
  /\ strategy \in {"ladder", "summarise"} /\ language \in Languages
  /\ window \in Windows /\ tokeniser \in Tokenisers /\ mixed = FALSE
  /\ usage = [tokens |-> 0, own |-> TRUE]
  /\ history = <<>> /\ anchor = -1 /\ ratio = DefaultRatio /\ samples = 0
  /\ phase = "rest" /\ fit = NoFit /\ out = <<>> /\ requests = 0 /\ retried = FALSE
  /\ charged = <<>> /\ replaced = FALSE

Room(n) == Len(history) + n <= MaxMessages

Ask(n, d) ==
  /\ phase = "rest" /\ Room(2) /\ requests < MaxRequests
  /\ history' = Append(history, Message("user", n, d)) /\ phase' = "prepare"
  /\ UNCHANGED <<setup, model, measure, fit, out, requests, retried>>

\* _prepare_turn() measures the request and compacts it when it must.
Prepare ==
  /\ phase = "prepare" /\ (retried \/ requests < MaxRequests)
  /\ StartFit(FALSE) /\ phase' = "fitting"
  /\ requests' = IF retried THEN requests ELSE requests + 1
  /\ UNCHANGED <<setup, model, learned, covered, history, out, retried>>

\* The history goes out, or ContextWindowExceeded ends the run.
SendFitted ==
  /\ phase = "fitting" /\ FinishFit
  /\ phase' = IF fit.goes THEN "out" ELSE "refused"
  /\ out' = IF fit.goes THEN history' ELSE <<>>
  /\ UNCHANGED <<setup, model, usage, learned, requests, retried>>

\* The usage delta of the stream.
UsageArrives ==
  /\ phase = "out" /\ phase' = "charged"
  /\ usage' = [tokens |-> Real(out), own |-> TRUE]
  /\ Observe(Fixed + Chars(out), Real(out))
  /\ anchor' = Len(history) /\ charged' = out /\ replaced' = (out # history)
  /\ out' = <<>> /\ retried' = FALSE
  /\ UNCHANGED <<setup, model, history, fit, requests>>

\* A provider that reports none.
NoUsage ==
  /\ phase = "out" /\ phase' = "charged" /\ out' = <<>> /\ retried' = FALSE
  /\ UNCHANGED <<setup, model, measure, history, fit, requests>>

\* The provider rejects the request as too long: _try_recover() forces one pass, and
\* retries when the history is another than before.
Overflows ==
  /\ phase = "out" /\ ~retried /\ out' = <<>>
  /\ StartFit(TRUE) /\ phase' = "refitting"
  /\ UNCHANGED <<setup, model, learned, covered, history, requests, retried>>

Retry ==
  /\ phase = "refitting" /\ FinishFit
  /\ retried' = (fit.goes /\ (fit.adopted \/ history # fit.messages))
  /\ phase' = IF retried' THEN "prepare" ELSE "failed"
  /\ UNCHANGED <<setup, model, usage, learned, out, requests>>

OverflowsAgain ==
  /\ phase = "out" /\ retried /\ phase' = "failed" /\ out' = <<>> /\ retried' = FALSE
  /\ UNCHANGED <<setup, model, measure, history, fit, requests>>

\* _handle_provider_error(): the error is the answer.
HandleProviderError ==
  /\ phase \in {"refused", "failed"} /\ phase' = "rest"
  /\ history' = Append(history, Message("assistant", Min(Sizes), Max(language)))
  /\ UNCHANGED <<setup, model, measure, fit, out, requests, retried>>

Reply(n, d) ==
  /\ phase = "charged" /\ Room(1)
  /\ history' = Append(history, Message("assistant", n, d)) /\ phase' = "rest"
  /\ UNCHANGED <<setup, model, measure, fit, out, requests, retried>>

\* A batch with one call and its result.
ReplyCalls(n, d) ==
  /\ phase = "charged" /\ Room(2)
  /\ history' = history \o <<Message("assistant", 0, d), Message("tool", n, d)>>
  /\ phase' = "prepare"
  /\ UNCHANGED <<setup, model, measure, fit, out, requests, retried>>

\* Another user of the model object, a tool that asks it or an agent that shares it,
\* is charged between two requests.
SideCall ==
  /\ phase \in {"charged", "rest"} /\ usage.tokens > 0
  /\ usage' = [tokens |-> 1, own |-> FALSE]
  /\ UNCHANGED <<setup, model, learned, covered, history, phase, fit, out, requests, retried>>

\* use_model(), between requests: another adapter, which was charged for nothing yet.
\* The ratio stays, the tokeniser may be another.
UseModel(w, t) ==
  /\ phase \in {"charged", "rest"} /\ usage.tokens > 0
  /\ window' = w /\ tokeniser' = t /\ usage' = [tokens |-> 0, own |-> TRUE]
  /\ mixed' = (mixed \/ (samples > 0 /\ t # tokeniser))
  /\ UNCHANGED <<setup, learned, covered, history, phase, fit, out, requests, retried>>

\* The host does not see, and the code does not look, whether a request is being fitted
\* or is out.
HostMay == phase \in {"rest", "fitting", "out", "refitting"}

\* clear_history()
ClearHistory ==
  /\ HostMay /\ Adopt(<<>>)
  /\ UNCHANGED <<setup, model, usage, learned, phase, fit, out, requests, retried>>

\* compact(), which counts the history alone: adopted when it saved enough.
ForceCompaction(budget, keep) ==
  /\ HostMay
  /\ \E h \in Compacted(history, budget, keep, 0, EstimateTokens(history)) :
       /\ usage' \in ChargedFor(h)
       /\ IF WorthAdopting(EstimateTokens(history), EstimateTokens(h)) THEN Adopt(h) ELSE Keep
  /\ UNCHANGED <<setup, model, learned, phase, fit, out, requests, retried>>

FittingNext ==
  \/ \E n \in Sizes, d \in language : Ask(n, d) \/ Reply(n, d) \/ ReplyCalls(n, d)
  \/ Prepare \/ SendFitted \/ UsageArrives \/ NoUsage \/ Overflows \/ Retry \/ OverflowsAgain
  \/ HandleProviderError \/ SideCall \/ ClearHistory
  \/ \E budget \in HostBudgets, keep \in {1, KeepRecent} : ForceCompaction(budget, keep)
  \/ \E w \in Windows, t \in Tokenisers : UseModel(w, t)

FittingSpec == FittingInit /\ [][FittingNext]_fittingVars

-------------------------------------------------------------------------------

\* The anchor is the request that was charged: what it covers of the history is what
\* that request held, whatever was compacted, demoted or cleared since.  Only the
\* charge for a request whose history the host replaced meanwhile may be misplaced,
\* until the next charge or rewrite.  (turn.py:152, and on_compacted, "its char-anchor
\* is now stale".)
AnchorIsOwn ==
  anchor >= 0 /\ ~replaced => anchor <= Len(history) /\ SubSeq(history, 1, anchor) = charged

\* In a language the estimate has learned, a request that goes out is within the
\* window, a rounding error per message aside, however the history came to be and
\* whatever the model's last charge was for.  The ratio must be from one tokeniser.
\* (conversation.py:341, "Never send a request known to exceed the model window.")
SentFits ==
  phase = "out" /\ window > 0 /\ samples > 0 /\ ~mixed /\ language = {Max(language)} =>
    Real(out) <= window + Len(out) + 1

\* The same after a switch to a model that tokenises otherwise.  (tokens.py:56, the
\* learned ratio "describes the model, not the conversation"; base.py:880 keeps it.)
SwitchedFits ==
  phase = "out" /\ window > 0 /\ samples > 0 /\ language = {Max(language)} =>
    Real(out) <= window + Len(out) + 1

\* A conversation that was cleared while a request was fitted stays clear: no message
\* from before comes back.  (conversation.py:115, "Drop the conversation and everything
\* derived from it.")
ClearedStaysCleared ==
  [][history = <<>> /\ phase \in {"fitting", "refitting"} => history' = <<>>]_fittingVars

\* Beside the fixed part not even a framed summary of one token and the rounding of
\* the messages kept would fit.
NothingFits ==
  Estimate(Fixed) + Estimate(Frame + Bigger(1, ratio \div 10)) + KeepRecent > window

\* What the summary strategy gives up on by its own estimate cannot be made to fit, as
\* long as the budget it aims at leaves the rounding of the kept messages.
\* (conversation.py:439, "The next request still cannot fit after request fitting.")
RefusedCannotFit ==
  phase = "refused" /\ strategy = "summarise"
    /\ Estimate(Fixed) + EstimateTokens(history) > window
    /\ AutocompactBudget > 1 /\ AutocompactBudget + KeepRecent <= window => NothingFits

\* The same where the provider's charge is over the window and the estimate is not: the
\* strategy then finds little or nothing to fold away.
ChargedCannotFit ==
  phase = "refused" /\ strategy = "summarise" /\ ~replaced => NothingFits

\* The same of either strategy, and of a forced pass.
RefusalIsFinal ==
  phase = "refused" =>
    \A h \in (IF strategy = "ladder" THEN CompressHistory(history, 1, 2, Estimate(Fixed))
                                     ELSE SummariseOnly(history, 1, 2, Estimate(Fixed))) :
       Estimate(Fixed) + EstimateTokens(h) > window
===============================================================================
