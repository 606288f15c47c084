# Specifications of lamssi-agents

TLA+ models of the parts of this repository in which order, interruption and
remembered state decide whether the program is right: the agent's run loop, its
transcript and how it is made to fit and logged, the gates and memories around tool
calls, the file tools and their workspace, the memory directory, the lease of a run, the
provider stream with its reader threads, the declaration of tools and the live tool
surface. Paths below are
relative to `src/src/`; `agents/` stands for `lamssi_agents/`.

1. The system
2. The modules and the code
3. Runs, bounds, fairness
4. Proofs
5. What the runs show against the code
6. What is not modelled
7. Plan

## 1. The system

An `Agent` is used by a host. One thread at a time is inside `run()`; other threads
may abort it, disable tools, mount registries, or (wrongly) go on composing it. A run
is a ReAct loop: fit the conversation into a request, stream the provider's answer,
pass each announced tool call through the gates, run its body, append the results,
go round again until the model answers in text or something ends the run.

| component | state | operations | talks to |
|---|---|---|---|
| Run loop `agents/agent/loop.py`, `turn.py` | turn counter, retry counters per failure reason, nudge counter | `run`, `_try_recover`, `_handle_length_finish`, `_nudge_after_tool`, `_handle_max_turns` | everything below |
| Conversation `agents/agent/conversation.py` | `history`, token anchor, calibration | `append`, `extend`, `sanitize`, `fit_request`, `force_compaction`, `clear` | compaction, guard and dedupe through `on_compacted` |
| Compaction `agents/history/` | none | `summarise_only`, `compress_history`, `demote_tool_results` | a provider, for the summary |
| Tool batches `agents/tool_runtime.py` | the batch's messages | `execute_calls`, `_gate`, `_execute_call`, `_answer_remaining` | guard, dedupe, approval, registries |
| Loop guard `agents/tooling/guard.py` | window of successful calls, failure streak per target, consecutive failures, remembered errors, approved repeats | `decide`, `record`, `forget_tools`, the resets | batches, compaction |
| Dedupe `agents/tooling/dedupe.py` | signatures already answered | `check`, `record`, `invalidate`, the resets | batches, file features |
| Run control `agents/agent/control.py`, `base.py` | run lock, active count, cancellation flag, outputs, disabled tools | `run`, `RunLease`, `abort`, `use` | host threads |
| Provider `agents/providers/litellm_provider.py` | per call: parser, attempt; per attempt: a reader thread and a queue of 512 | `stream`, `_interruptible_chunks`, `_wait`, `_StreamParser` | the run loop, the network |
| Registries `lamssi_tools/registry.py`, `mounted.py` | definitions, functions, generation, dispatcher, mounts | `add`, `remove_owner`, `set_exposure`, `mount`, `unmount`, `resolve`, `execute_binding` | batches, hosts |
| Request fitting `agents/agent/conversation.py`, `agents/history/tokens.py`, `compaction.py` | the calibrated ratio, the last usage, the anchor | `context_usage`, `fit_request`, `force_compaction`, `observe` | compaction, the model object shared with `ask_model` |
| Approval `agents/approval.py` and the file tools' `safe_when` | the policy; read grants of the conversation | `needs_approval`, `is_free`, `remember_read_approval` | batches, the host's prompt |
| Workspace and file tools `agents/features/files/` | root (a callable of the host), grants, outputs of the run | `resolve`, `read_file`, `fs`, `write_file`, `edit_file`, `delete_file` | the gate, the disk, the host |
| fs search `agents/features/files/search.py` | none | `fs`, `fs_paths`, one parser per source, lazy filters | the gate and the body, apart |
| Reading `read_file`, `agents/history/truncation.py` | none | `read_file`, `clip_result` | the model, who reads on behind a cut |
| Memory store `agents/features/memory/` | a directory of notes and an index, a lock per store | remember, recall, forget, list, the catalogue block | several agents, the disk |
| Tool declaration `lamssi_tools/decorator.py`, `models.py` | none | `@tool`, `to_json_schema`, `_create_args_model`, `execute_binding` | the model through the schema, the body through the validator |
| Conversation log `agents/conversation_log.py`, `events.py` | per logger: session, count and prompt last written, buffered thinking | the handlers, `roll_session`, `set_conversation_log_dir` | the event bus, the host |
| Budget, skills, guidance, shell, code features `agents/features/` | marks, activation | hooks and tools | loop, batches |
| Prompt, vision, console, CLI, codecheck, provider discovery | small or none | | |

What is hard, and what makes each part correct:

* **A transcript always sendable.** Providers reject a request unless every announced
  call has exactly one result right behind it. Batches are cut by aborts and by
  exceptions, compaction cuts the transcript anywhere, hosts clear it between runs.
* **Stopping.** `abort()` is one flag looked at in many places; between two of them work
  may begin. A bounded amount may, and the run must end even if a provider is silent.
* **Ending.** Recoveries, continuations and nudges all go round the loop again.
* **Memories that agree with the world.** The guard refuses repetition, the cache answers
  it, writes make answers stale, compaction takes results away, bodies fail half way.
* **Measuring what was not sent.** The size of a request is the charge for another one
  plus an estimate, by a ratio learned from earlier ones; hosts clear and compact between.
* **Judged once, resolved twice.** The gate and the body each read a call's paths, and not
  always alike: one strips blanks, the other does not, and a wildcard counts by its anchor.
  A prompt may wait between them, the root may move, grants end, links lead elsewhere.
* **Cut answers.** Ceilings, limits and caps end a search or a page early; the counts and
  hints that go with it steer the model's next call.
* **Two writers of one fact.** A memory and its index, a transcript and its log, a schema
  and its validator are written one after, or apart from, the other.
* **Threads.** The lease against composing threads; the reader thread against the abort,
  the bounded queue and the retry; registry owners against an approved call.

`PROJECT.json` lists every hazard at its line, with the properties that cover it.

## 2. The modules and the code

`Transcript` — operators on a sequence of messages: `Sanitize` and `StripOrphans`
(`conversation.py`), `Summarised` and `Laddered` (the cut points of the two shipped
strategies), and `Paired`, what a provider accepts. A message keeps its role, the ids it
announces or answers, and whether a result says that its call ran.

`RunLoop` (extends Transcript) — `loop.run` as one action per place where the code can
leave a step: `pc` goes idle, entering, top (max-turns and abort checks), hooks,
prepare (sanitize, fit, size check), stream, reply (how the answer ends), call, gate,
body. `attempts` and `stalled` are the loop's own retry counters; `pending` and `results`
are what is left and done of `execute_calls`. `tally` and `ran` are history variables.
Another thread may `Abort` at any time; a host may `ClearHistory` or `ForceCompaction`
between runs. Token arithmetic is a free choice: whether a request "needs" compaction,
and where a strategy's first candidate cut falls, are any of the possible ones.

`Exchange` — what the loop promises a provider, with three phases and the set of calls
still owed a result. `RunLoop` implements it: `phase <- Phase`, `owed <-
Unanswered(history)`.

`LoopGuard` — `guard.py` with the place it is called from: `Admit` is the gate's reading,
`Succeed` and `Fail` are `_record_outcome` behind the body; between the two, other
events happen. `ToolMemory` extends it with the dedupe cache, what each file holds, what
each read saw, and where the result of each call still is (`shown`: in the batch, in
full, a stub, nowhere).

`RunControl` — threads that run, compose or abort. `run()` is a lock, an `is_running`
count raised by the lease, outputs cleared on entry and read behind the exit. A composing
call is a sequence of checks (`_reject_while_running`) and changes, since some mutators look
at `is_running` (`add_tools`, `provide`) and others do not (`add_context`, `on_approved_call`,
`expose_tool`, the setters). `Calls` are the sequences a host may run; the instance takes a
mutator of each kind and `use()` of the four features with an install of their own, as the
code chains them, and of one with every hook. `entered` and `late` are history: where each
call stood when the run began, and which of its steps changed the agent in that run.

`StreamReader` — one provider call: `pc` is the agent thread in `stream()` and in the
generator `_interruptible_chunks`, `reader[a]` the daemon thread of attempt `a`, `items`,
`put` and `taken` its queue (an item is in the queue while `taken < i <= put`). A reader
whose attempt was given up goes on living. `FinishFails` is the parser's refusal of arguments
that are no JSON object, which no retry handler surrounds. `Delivery` is what a call promises the loop:
in order, nothing lost, nothing twice, complete only at the provider's end. The
refinement hides threads, queues and attempts: `said <- items[attempt]`, `heard <-
taken[attempt]`.

`LiveTools` — the state of one tool name over the private registry and any mountable
ones. A scan (`list_tools`, `_registry_for`) is a copy of the mount list followed by one
step per registry, since each registry is read under its own lock. A call lists, narrows
(disabled, exposed), is checked against scope, found again, bound, waits at the gates,
is looked up again, compared by generation and dispatched. `mount_tools` appends first
and validates with two scans afterwards.

`Workspace` — `FileSpace`: an argument becomes a path by its root, `..` and links, in the
order `Path.resolve` meets them (`Expanded`) or in the text (`Lexical`, for deletions); zones,
refusals, protected components, read grants. What the gate takes an argument for (`GatePath`:
not stripped, a wildcard by its anchor) and what the `fs` body does (`ResolveStart`: stripped;
`Matched`: a wildcard expanded) are definitions of their own. `FileCalls` (extends it) — one file tool call
from announcement through `Judge` (policy, declaration, `safe_when`) and the prompt
(`Answer`) to a body per tool, which resolves again; `MoveRoot`, `NewRequest` and
`ClearHistory` may come between. `done` records what the last body reached and the zones
it was judged by.

`FileSearch` — the `fs` language as operators: a parser per source that reads the tokens
from left to right, the walk, a source as a sequence of visits, filters over lines,
`AnswerTo` as the pipeline that asks for visits until a head is satisfied or a ceiling is
met. `Fs` is one call. `Whole` is the reference: every line of the source, and each filter
over all that the one before it gives. Files that `_read_grep_text` passes over are
`Skipped`: visited and without a line. A token with blanks around it (`Bare`) is one token to
the gate and another to the body, and a wildcard (`Globs`) is expanded by `ls` only. Helpers take what they work on as parameters so that
nothing is computed twice.

`Reading` — a text of plain, wide and newline characters, `Clip` as `_truncate_envelope`
cuts it (both cuts, the count of the last, the hint of the first), and a reader that calls
again by the count or by the hint.

`MemoryStore` — the directory, one job per client: change the file, list the names, load
one file after another, write the index. Steps of stores with different locks interleave,
`Crash` drops the jobs of one process. `behind`, `steady`, `ever` and `alone` are history.

`Declaration` — signature, annotation, default and metadata into `ParameterOf`; the schema
as the predicate `Advertised` on values; the validator as `Validated`, conversion before
constraints; and `Binds`, Python's binding of what `execute_binding` passes. What pydantic
and Python do by themselves is marked external.

`Fitting` — the charge, the anchor, the ratio in tenths. `fit_request` is two steps, since a
model may be asked for a summary in between: `StartFit` computes the pass, with both
strategies on the characters of the messages, and `FinishFit` adopts it, whatever became of
the history meanwhile. They make up `Prepare` and `SendFitted`, and, forced behind an overflow,
`Overflows` and `Retry`. `SideCall` is a charge for somebody else's request, `UseModel` another
window and another tokeniser; the host may clear or compact at rest, during a fit and while a
request is out. `mixed` is history: a sample of the ratio is another tokeniser's.

`ConversationLog` — two loggers on one bus, each with the session it writes; a session's
file is kept as `replay`, what its reader has put together so far. A run goes on behind an
overflow in the same turn (`Overflow`), ends by an abort (`Abort`, and `AbortBatch`, which keeps
the calls and their results) or by an exception (`Escape`). `sure` is history: the log was told
of every clear since its last full record.

`MCTools` and `MCContext` put machines that share nothing into one run, one per behaviour;
`FileCalls` has a run of its own.

Definitions called "Variant" are not part of any specification: each is an action the way
a plausible bug would write it, kept beside the action to show, by swapping it in, that
the property named in `PROJECT.json` does notice.

## 3. Runs, bounds, fairness

| run | instance | checks |
|---|---|---|
| `RunLoop` | 2 runs of 2 turns, batches of 2, keep 3, summarising, escaping exceptions | `RequestPaired` `AbortIsPrompt` `RequestsPerTurn` `DoneOnce` `ImplementsExchange` |
| `RunLoopLadder` | 1 run of 3 turns, ladder, nothing escapes | `NotRunIsTrue` `RunEnds` `AbortEndsRun` |
| `LoopGuard` | 4 calls on 3 targets, window 3, limits 1 and 2 | `ErrorMemoryIsLive` `OverridesAreBounded` `StuckUntilCleared` |
| `ToolMemory` | keyed reader, unkeyed reader and writer of one file, with escapes | `ChangedFileIsReread` `CachedIsKept` |
| `RunControl` | 3 threads (symmetric), 2 runs, one composing call of 7 kinds | `LeaseIsExclusive` `OwnOutputs` `AbortIsScoped` `LateChangesCleared` |
| `StreamReader` | 2 attempts, 3 chunks, queue of 2, stall after 1 timeout | `SilenceIsExplained` `AbortIsHeard` `ImplementsDelivery` `StreamEnds` `ReadersEnd` |
| `LiveTools` | private + 2 mountable registries, one with the tool, 2 changes | `NoSilentShadow` `ReplacedNeverRuns` `UnmountedStaysOut` |
| `FileCalls` | 4 policies, 9 arguments, 2 requests, 1 move of the root, links out of the workspace and to a protected directory, a wildcard, a padded argument | `ConsentCovers` `BoundariesHold` |
| `Tools` | the four tool machines below | `WholeOrSaid` `FindIsComplete` `GateSeesEveryPath` `NoLineSkipped` `CountReaderEnds` `IndexMatches` `ListingIsHonest` `SchemaIsEnforced` |
| `Context` | 3 windows, 2 tokenisers, 2 requests with their retries, 4 messages, 2 strategies; a log of 6 messages, 2 turns a run, 2 prompts | `AnchorIsOwn` `SentFits` `RefusedCannotFit` `LogReplays` `ThinkingKeepsTurn` |
| `ReadingHint` `FileCallsPadded` | | one property each, violated: section 5 |

Definitions the proofs establish for every instance and that are no row's question (the
type invariants, `HardStop`, `CycleIsDuplicate`, `AnsweredAtRest`) are not checked again by
these runs; they can be added to the configurations by hand, and hold there
(`AnsweredAtRest` in `RunLoopLadder`, where nothing escapes). The theorems with a hypothesis
speak of passing instances: `RunLoopLadder` has `Escapes = FALSE`, and the run `ToolMemory`
evaluates `MCDeclarations`.

Why the bounds are enough. *RunLoop*: a batch of two has a first, a last and a left-over
call; two runs let the second inherit what the first broke; two turns let a request carry
an earlier batch; keeping three messages cuts a batch of two results in the middle. The
ladder run has a third turn so that a kept tail can begin inside a batch. *LoopGuard*:
the limits are the least that leave a state below, at and above them; a period check over
a window of three sees a repeated call with another between. *ToolMemory*: one file, since
different files share nothing but the consecutive-failure count. *RunControl*: one thread
composes while two others alternate runs; a second composing call would share nothing with
the first but the runs. *StreamReader*: three chunks overfill a
queue of two; a second attempt has a first one's reader still alive. *LiveTools*: two
changes replace a tool (remove, add); of two mounted registries one can take the name
over. *FileCalls*: one argument per way into and out of each zone, a relative path through
either link, one that climbs from where a link led, a wildcard, a padded one, and one move of
the root, which is enough to part the gate from the body; only the first request writes
(`MaxWriting`).
*Tools*: command lines of up to three tokens (five with `-maxdepth`), padded ones and
wildcards among them, over a tree of two levels with a hidden and a denied name and a file
grep skips, every filter alone and three pairs, a ceiling of 4
below and a limit on either side of what a source gives; texts of up to seven characters
of three kinds under two caps, so that the second cut happens before, on and behind a
line end; two clients and two memories beside the index; every declaration of one
parameter against scalars and lists of up to two items. *Context*: windows that are
unknown, too small for the fixed part with a large message, and large enough; a message
smaller and one larger than a budget; a summary's frame that fits beside the
fixed part in the larger window and not in the smaller; a tokeniser and one twice as
coarse; host budgets of one and of a size that keeps some of it. Retries are not counted among
the two requests.
Counters that would grow for ever are bounded by a guard with a named constant
(`MaxRuns`, `MaxBatch`, `MaxUses`, `FailureBound`, `MaxChunks`, `MaxChanges`, `MaxPaths`,
`MaxWritten`, `MaxWriting`, `MaxRequests`, `MaxMoves`, `MaxMessages`, `MaxMade`, `MaxResults`,
`MaxTurns`). The instances have 823,618 (`RunControl`), 3.3 million (`FileCalls`), 343,407
(`Tools`), 791,476 (`StreamReader`) and 2,788,787 (`Context`) distinct states.

What the conditions of some properties leave out. `ChangedFileIsReread` speaks of writes that
succeed and of one spelling per file. `IndexMatches` leaves out the time behind a process that
died between the two files and behind another store's change, where the index is wrong until
the next save. `WholeOrSaid` leaves out answers without lines: when the ceiling is met before
the first match, the hint for an empty result does not mention it
(`features/files/search.py:909-947`). `AnchorIsOwn` leaves out a request whose history the host
replaced while it was out. `SentFits` asks for one language and one tokeniser behind the ratio.
In the window of the run `NothingFits` is never true, so `RefusedCannotFit` says there that the
summary strategy is never refused by its own estimate. `ConsentCovers` and `GateSeesEveryPath`
speak of arguments the gate and the body read alike, `LogReplays` of a log that was told of the
clears; what becomes of the others is shown in section 5.

Fairness. `RunLoop` assumes weak fairness of the agent thread's own steps
(`AgentFairness`): it is an ordinary thread, and the code awaits tool bodies, gates and
the approval prompt without a timeout, so they are assumed to return. The provider's
answer is not part of it. `RunEnds` names the further assumption (`ProviderFairness`:
a request is answered, fails or stalls out), which `StreamReader` discharges for the
shipped provider: `StreamEnds` holds with nothing assumed of the response, because the
stall deadline and the attempt count bound the call. `AbortEndsRun` holds without it.
`ReadersEnd` assumes that a response which was closed yields something or raises
(`ReaderFairness`), and only then says that no daemon thread stays. `completion()` itself
is assumed to return or raise (its own network timeout). The safety specifications of
`LoopGuard`, `ToolMemory`, `RunControl`, `LiveTools`, `FileCalls`, `MemoryStore`, `Fitting`
and `ConversationLog` assume no fairness and check no liveness. `CountReaderEnds` assumes
a reader that keeps calling: the model is the only scheduler of its own next call, and a
reader that stops is no concern of the property. `MCTools` writes this weak fairness with
its enabling condition spelled out (a page that does not end the reading).

Deadlock is checked everywhere except in `StreamReader`, where a call that has ended with
its readers gone is meant to stop, and in `Tools` and `Context`, whose machines answer one
call or reach a bound.

## 4. Proofs

All proofs are for every value of the constants under the modules' own assumptions (named
`...Assumption`, such as a positive number of attempts; the end of this section lists them).

* `RunLoopProofs`, the control — `ControlTyped`, `AbortPromptness`, `BoundedRequests`,
  `SingleDone`. The properties speak of counters; alone they are not inductive, since
  nothing in them says how far a thread may still go. `Lateness` and `Asking` tie each
  counter to the place: a late request is paid for by a retry counter, and behind each check
  the count is zero again.
* `RunLoopProofs`, the transcript — `Typed`, `RequestsArePaired`, `ContractKept`,
  `NotRunIsTold`, `AnsweredWhereNothingEscapes`, for transcripts and batches of any length
  and either strategy. `RequestPaired` speaks of what is sent; `TranscriptInv` says how the
  transcript stands at each place: it is `Sound` everywhere (every result lies behind its
  caller with nothing but results between, no id is used twice, only the last message may
  owe anything), `Settled` where a request is made (nothing is owed), and in a batch
  `BatchSound` (each call of the last message is pending or has its one result, not both).
  The lemmas are about the operators: `Sanitized` (the repair settles any sound
  transcript), `CutIsSound` with `SummarisedCuts`, `OrphanRepairCuts` and `CompactionsCut`
  (each strategy is a cut that leaves no orphan), `BatchAnswers` (a batch's results settle
  what it announced), `NoOrphans` and `SettledIsPaired` (then the provider accepts it).
  `ContractKept` is the refinement of `Exchange`: `Owed` computes what is unanswered of a
  sound transcript, and each action is then a step of the contract or a stutter.
  `NotRunIsTold` adds `RanInv`: a pending call has not run. It and
  `AnsweredWhereNothingEscapes` have the hypothesis `Escapes = FALSE`, that no exception
  leaves a batch; `RunLoopEscapes` shows why the first needs it (section 5).
* `LoopGuardProofs` — `GuardTyped`, `FailuresStop`, `StuckStays`, `OverridesBounded`,
  `ErrorMemoryLive`, `CyclesAreDuplicates`. The central fact is that a call under way is
  below its limit: the gate read the streak, and only that call's failure raises it.
  The window's part needs lemmas on what `forget_tools` leaves of a sequence.
  `CyclesAreDuplicates` is about every window and every period, also those the run's
  small window does not hold: a cycle has always been reported as a duplicate already.
* `LoopGuardProofs`, with the cache — `GuardIsKept`, `MemoryIsTyped`, `CacheKept`,
  `ChangedIsReread`, for any calls, tools and files. `GuardIsKept` says that `ToolMemory`
  implements `LoopGuard`, so that the theorems above hold behind the cache as well.
  `ChangedFileIsReread` is about what a call would be answered; the invariant is about the
  two memories: `ChangedIsForgotten`, a read whose file has changed is in neither. The
  theorem has two hypotheses on the declarations of the tools: `ReadersRecover` (a reader is
  not checked for errors) and `WritersAreHeard` (a reader is in the forget list of every
  tool that writes its file, and a keyed one is given the path the writer was given). The
  files feature declares its tools so, the run's instance is one (`MCDeclarations`), and
  `ToolMemorySpelling.cfg` shows what happens to a file that is spelled in two ways.
  Deleting a directory with the files in it is outside of it too.
* `RunControlProofs` — `Typed`, `LeaseExclusive`, `OutputsOwned`, `AbortScoped`,
  `LateChangesWereCleared`. The lock and the count agree at every place; the outputs belong
  to the last leased run until its result is built. For the late changes the invariant
  says of every composing call that, while a run is active, no check lies between the step the
  run met and the next one: a check that is reached in a run ends the call.
* `StreamReaderProofs` — `Typed`, `SilenceExplained`, `AbortHeard`, `DeliveryKept`, for any
  number of attempts, chunks, ticks and any queue size. The invariant says where each
  reader is relative to its queue (a sentinel is the last item; a returned reader put it
  or saw `stop` or the abort), that `started` covers all that was heard, and that lateness
  is only possible between the check and the read. `DeliveryKept` is the refinement: every
  step is a step of `Delivery` or a stutter.
* `LiveToolsProofs` — `Typed`, `Unshadowed`, `ApprovedIsRun`, `OutIsOut`, for any registries
  and any number of changes. What a scan still owes is found or ahead of it; a
  generation that has not moved vouches for the entry it was read with; the second
  look-up sees only what was mounted since the gates passed.
* `FilesProofs`, the calls — `Typed`, `ConsentAlways`, `BoundariesAlwaysHold`, for every tree, link,
  argument and policy. `ConsentCovers` speaks of the body, whose judgement lies behind
  it: `JudgedFree` says that a call on its way to the body unasked was judged free and that
  each absolute argument still leads into a zone of that judgement. It is inductive
  because links change only through bodies, and no body runs between a call's judgement
  and its own; a relative argument leads under the root of the moment or is refused.
  `ReadAlike` is what carries this from the gate's reading to the body's: what `fs` strips is
  still relative, or is the argument itself, and a wildcard is left to the tools that take it
  for a name. Without it the statement is false, and `FileCallsPadded` shows that.
  `BoundariesHold` needs `RoutedByRoot`: a target inside the workspace is always shown
  under it, so the protected components are looked for. Climbing and following stay opaque.
* `FilesProofs`, the search — `AnswersWhole`, `GateHolds`, `FindFindsAll`, for every finite
  tree, command line, number of filters, ceiling and `max_lines`. There is one step, and
  `SearchInv` says what it leaves: no answer, an error, or the answer to the command line.
  The weight is in the operators. Each recursion (parsing, the pipeline, the walk) is first
  shown to have a solution of its equations (`ParseReads`, `StagesExist`, `WalkExists`; the
  tree by well-founded induction from the leaves, `FromTheLeaves`). `AnswersWhole` is about
  laziness: what a filter gave of some lines begins what it gives of more (`Lazy`), so
  a head that has all it wants gives the same of the whole source (`HeadOnce`),
  and a pipeline whose heads still want more has read the source to its end; either way
  the answer begins `Whole` unless the ceiling was met (`FittingIsWhole`). `GateHolds`, for the
  paths the body does not strip, needs that a walk shows only what lies under its start (`FromBelow`) and that grep and find
  only show what they walked. `FindFindsAll` says what a walk gives: `WalkGives`,
  exactly the entries reached through visible directories within the depth.
* `ToolsProofs`, the store — `IndexAgrees`, `ListingsAreHonest`, for any clients, stores and
  names. `IndexMatches` speaks of rest; `ListingsKnow` carries the listing there (found and
  still to read are the memories, as long as no other store interferes), `OneJob` says that
  a store's lock lets one job in, and `IndexKept` that somebody is about to write the index
  whenever it is not right.
* `ToolsProofs`, the page — `NothingSkipped`, for every text, cap and price of a character in
  JSON. `CutIsPrefix`, `ClipIsHonest` and `ReportedIsGiven` say that a cut page is a prefix and
  reports the lines it holds, cut once or twice; `Paged` that a reader who
  goes by the count has seen every line before the one it asks for. A page that stops inside
  a line, which the property names, is the only exception.
* `ToolsProofs`, the declaration — `SchemaEnforced`, for every signature and JSON value:
  `LaxKeeps` and `LaxTypes` (what conversion leaves of a value), `ValidatedIsAdvertised`
  and `AdvertisedPasses` (validator against schema), `AcceptedBinds` (Python's binding of
  what was accepted).
* `ContextProofs`, the log — `RecordsReplay`, `ThinkingLabelled`, for any transcript and
  either logger. The log decides by lengths alone whether to write a suffix; `Follows` says
  that what was counted is a prefix of the transcript, and `BegunAnew` is the reason why a
  cleared transcript, of which it is not, is never longer than what was counted. It needs that
  the log was told of a clear in the middle of a request; where it was not, the statement is
  false (`ContextUntold`).
* `ContextProofs`, the fitting — `AnchorKept`, `SentWithinWindow`, `RefusalsAreFinal`, for any
  window, budget, ladder, sizes and languages. `FittingInv` is inductive: the properties
  of what was charged and refused, `RatioIsLearned` (a ratio learned from one tokeniser is at
  most the largest density of the language there), `OutIsEstimated` (what is out was within the
  window by the estimate of the moment) and, since a fit is computed in one step and adopted in
  another, `FitIsEstimated`: what a pending fit will send has been estimated, and `StillFits`
  carries it over what the host does to the history in between. Totals over a history are shown additive from their recursion
  (`LinearTotals`, `TotalCons`, `TotalTail`); `Rounding` and `RoundingBehind` bound what
  estimating message by message differs from estimating at once, and `ChargedIsEstimated`
  turns an estimate into a bound on the charge. `FoldedOver` is the heart of
  `RefusalsAreFinal`: a folded history that is still over the window had no room for any
  tail, so the shortest framed summary with the roundings of the kept messages is too large.
  The property is conditioned: on the summary strategy, on a refusal by the estimate, on
  a budget above one, and on a window that leaves one token per kept message beside the
  budget. `FittingRefusal.cfg` and `FittingCharge.cfg` show the ladder and a refusal by the
  charge, where it does not hold.

Assumptions are on constants only: ranges and well-formedness (`DeclarationAssumption` asks that
what is declared can be declared, and that arguments are JSON), directories that are no
links, in `FileSearch` a finite tree that holds the directory of each of its entries, in
`Workspace` that no root is spelled like the mark for "no base", and in `Fitting` that every
language has a largest density. The hypotheses beyond them are the three named above,
`Escapes = FALSE`, `ReadersRecover` and `WritersAreHeard`, each of which some passing run's
instance satisfies.

Attempts at these proofs corrected the models. The first `SentFits` and `RefusedCannotFit`
were too strong: rounding message by message costs up to one token each, and where the
budget leaves less than that below the window the strategy gives up too early; both
now say so. The case of `compress_history` in which the kept tail
begins at the first message, and a pair of overlapping arms of a CASE, were written as the code
decides them. Folds over sequences became recursive functions where they are reasoned about.

`FileSearch` had to be written so that it can be reasoned about: its lists of paths, lines
and numbers are put in order by `InTurn` and `Place`, which count, in place of a chosen
enumeration; its filters are typed, with the positive counts the code insists on; and
`WholeOrSaid`, once stated against a run with an endless ceiling, is now stated against a
pipeline that is not lazy at all, which is the stronger reference.

Every invariant of a passing run has a theorem. Model-checked only: the liveness properties
(`RunEnds`, `AbortEndsRun`, `StreamEnds`, `ReadersEnd`, `CountReaderEnds`), which the prover
does not reach.

## 5. What the runs show against the code

`PROJECT.json` quotes the line each of these contradicts. Two are runs of the project:

* `ReadingHint`: a page cut twice keeps the hint of the first cut, and its number is counted
  from the page, not from the file; a reader who follows it skips lines or goes back.
* `FileCallsPadded`: `fs` strips its path (`features/files/search.py:250`), the gate does not.
  An absolute path with a blank in front is a relative one of the workspace to the gate, free
  without asking, and the body reads outside. A wildcard of `ls` is judged by its anchor
  (`features/files/space.py:344-373`) and expanded through links; the same property fails there.

The others are configurations beside them, each with one invariant or property that TLC
refutes (`tlc -config X.cfg M`):

* `RunLoopEscapes.cfg` (`MCRunLoop`): an exception that leaves a batch loses the results of
  bodies that ran, and the next run's repair tells the model they never completed.
* `ToolMemoryDemotion.cfg` (`MCToolMemory`): the cache says "its result is above" where a
  demotion has left a stub.
* `ToolMemoryRewrite.cfg` (`MCToolMemory`): writing x, then y, then x again: the third write is
  answered from the cache and does not happen.
* `ToolMemorySpelling.cfg` (`MCToolMemory`): `read_file("a")` stays in the cache when
  `write_file("./a")` changes the file: keys are made of the arguments as they are spelled.
* `RunControlCompose.cfg` (`MCRunControl`): a run that starts between the check and the change
  of a composing call is composed while it runs; so is one that meets `add_context`, a setter or
  the hooks of a feature, which have no check.
* `LiveToolsMount.cfg` (`MCLiveTools`): `mount_tools`, documented as live-safe, ends a running
  call when the mount it is about to refuse is seen in between.
* `ReadingPrefix.cfg` (`MCTools`): a page whose content is within the budget but whose JSON is
  over the cap is cut in the middle of the JSON.
* `FileCallsProtected.cfg` (`MCFileCalls`): a recursive deletion takes a protected directory
  below the named one away.
* `FittingRefusal.cfg` (`MCContext`): under the ladder a request is refused that a forced pass
  would have made fit.
* `FittingCharge.cfg` (`MCContext`): under the summary strategy a request is refused whose
  charge is over the window while the estimate, by which the strategy decides, is not: it
  folds little away, though a framed summary would have fitted.
* `ContextSwitched.cfg` (`MCContext`): `use_model()` keeps the ratio learned from another
  tokeniser; a request that is within the window by it is sent and exceeds it.
* `ContextUntold.cfg` (`MCContext`): a logger attached as a listener is not told of a clear
  while a request is out; when the new history outgrows the old count, its next delta starts
  at the wrong message.
* `ContextCleared.cfg` (`MCContext`): a host clears the conversation while its request is
  fitted, and the result of the fit, made of the messages of before, is adopted.

Seen while modelling, without a run of their own:

* Budget's stop appends and emits DONE by itself and the loop does so again
  (`features/budget.py:132`, `agent/loop.py:286`); `DoneOnce` says two there.
* Retries are one per *reason*, so one turn may compact and retry twice
  (`agent/loop.py:295`); `RequestBound` is 3.
* An `abort()` between the start of `run()` and its lease is lost
  (`agent/control.py:227`); `AbortIsScoped` counts it as one that came before the run.
* The abort flag stays set after an aborted run; an idle `compact()` then summarises with a
  provider call that is interrupted at once, and falls back.
* `compact()` and `clear_history()` are not rejected during a run (`ContextCleared` is one
  consequence).
* A provider that sends no ids gets `call_<index>` in every turn
  (`providers/litellm_provider.py:244`).
* A write that fails half way leaves the cached read of the old content.
* Stripping orphans while fitting is a second line of defence: without it every request of
  the model is still paired.
* Between `surface()` and `resolve()` a tool may be replaced by one of the same name that
  the model was never shown; the call then binds to it. A tool disabled while its
  approval is pending still runs.
* Registry listeners are told behind the lock, so two threads may be reported out of order.
* A memory named `MEMORY` is written over the index and lost with the next rebuild; recalling
  it reads the index (`features/memory/store.py`; `MemoryStore` lets it happen).
* `find -maxdepth N` never lists the directories at depth N (`features/files/search.py:334`);
  `FindIsComplete` asks for directories only without a depth.
* A declared list of literals that is empty, or of another type than its parameter, is
  advertised but not, or not the same way, enforced (`lamssi_tools/models.py:232`); a default
  is not checked against the constraints. `SchemaIsEnforced` names both exceptions.

## 6. What is not modelled, and why

Pure data transformation without state (prompt text, redaction, codecheck, frontmatter,
docstrings of tools), network probes and lookup tables (model catalogue, local models),
terminal I/O (CLI, console), subprocess features, table queries, document conversion and
diffs. Contents of messages, results, chunks and summaries. Skills keep one activation set
per conversation and have no protocol.

Left out of modules that exist: the early return of `run()` for an image that cannot be
encoded, in `RunControl` and `ConversationLog` (`agents/agent/base.py:657-676`; `RunLoop` has
it); an abort while a summary is written, and the host's own `compact()` in two steps, in
`Fitting`; `use_model()` in the middle of a request; wildcards with `**`; walks do
not follow links, and hidden names are skipped only in `FileSearch`; patterns of grep are
single words, and the parsers' wording and the conversion of rarer flags are left out;
head, tail and middle cuts of the other tools' results; the `pattern` and `multiple_of`
constraints, docstrings, `requires` and the directory source of `lamssi_tools`; images in
the estimate; a log whose write fails; listeners that raise; the text of a memory's
frontmatter. Several tool names at once, owners with several tools and capability
contexts of the registries; the listeners of the registries. The token marks of Budget and
its confirmation. One conversation per agent; `ask_model` appears as a charge in
`Fitting` only.

## 7. Plan

Done, in this order: Transcript, RunLoop with Exchange, LoopGuard, ToolMemory, RunControl,
StreamReader with Delivery, LiveTools; Workspace and FileCalls, FileSearch, Reading,
MemoryStore, Declaration, Fitting, ConversationLog; proofs as in section 4.

Next:

1. *Budget*: the token marks with the host's confirmation, and its stop in the loop.
2. *Registry listeners*: changes by several threads and the order they are reported in.
3. *Several names*: owners with several tools, argument validation and the binding in
   `LiveTools`.
4. *The other cuts of truncation*, against a reference over all small inputs.
5. *Proofs*: the invariants of what 1 to 3 add.
