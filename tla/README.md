# Verification of trainfer

trainfer is a daemon that serves a language model and trains it at the same
time. Clients post training batches, get a commit token, and ask for inference
that has seen the training up to a token. This directory holds TLA+ models of
the parts that make that promise true, TLC runs that check them on small
instances, and TLAPS proofs for instances of any size.

    tlc -config queue_safety.cfg MCComputeQueue.tla
    tlapm ComputeQueueProofs.tla

`PROJECT.json` maps each definition to the lines it models and lists runs,
findings, hazards and theorems.

## 1. The system

The program is a single Python process. One asyncio event loop runs HTTP
handlers, the worker of the compute queue and the idle schedulers; handlers of
queue tasks are plain functions that run *on the loop's thread*, so nothing
else on the loop moves while one runs. Generations run in threads of their own
and exclude train steps by `state.mode_lock`. Only files outlive the process.

| component | state | operations | talks to | hard behaviour | what makes it correct |
|---|---|---|---|---|---|
| Compute queue (`queue.py`) | bounded asyncio queue, suspended puts, `_pending`, tokens, cursor `_completed_token`, `_accepting`, `_stop`, `_hard_stop` | `submit`, `try_submit`, worker, `stop`, `graceful_drain`, `wait_for` | controller (handler call), clients (tokens, events) | puts overtaken on a full queue, clean-up of `_pending`, two nested deadlines, reaping in-flight work | the cursor never claims unresolved training; training commits in order; a drain leaves no training caller behind |
| Controller (`controller.py`) | queue, broadcaster, `_shutting_down`, response index | `submit_train` in chunks, `generate`, `stream_generate`, `request_merge`/`_snapshot_*`, `graceful_shutdown` | all the others | refusal between chunks, swallowed timeouts, handler blocks the loop | the next inference sees the training; the token of a batch covers it |
| Commit stream (`commit_stream.py`, `/v1/commits/stream`) | a bounded queue per subscriber | subscribe, broadcast, shutdown sentinel | worker (caller), SSE clients | event is put before the cursor moves; full queues drop | an event with cursor N means committed >= N; events move forward |
| Inference engine (`engine/inference.py`) | a thread per request, `mode_lock` | `generate_chat`, `generate_chat_stream` | model, loop (chunks) | lock held by a thread while the loop waits for it | no train step under a generation; no deadlock |
| Train engine (`engine/train.py`) | optimizers with moments, gradients | `step`, `_step_multi`, `reset_optimizer` | model, objectives | skips, gates, failure at any point | the adapter is made of whole steps |
| Model state (`state.py`) | LoRA factors, `merged_deltas`, hooks, `merges_applied` | merge, bind, clear, reset, load adapter | everything that computes | zeroed factors, hooks of an older residual, no lock in merge and load | forward pass = base + recorded residual + adapter; merging changes nothing |
| Snapshots (`snapshot.py`) | three files per name | `save`, `load` | model state, disk | files written in place, one by one; failed saves and loads | what was saved to the end comes back, exactly |
| Daemon lifecycle (`server.py` lifespan) | process, autosave | boot with autoload, shutdown with autosave | controller, snapshots | crash at any line, work between the autosave and the end | the next process continues from the autosave |
| Idle replay (`engine/replay.py`), TTRL (`ttrl_mv.py`) | counts per log offset | poll, pick, submit, stop | queue, trajectory log | idleness tested before awaits, own output in the log, one exception ends the task | caps hold; live work has precedence; a shutdown gets past them |
| Trajectory log (`trajectory.py`) | append-only file | append, iterate, tail | all | torn last line, a record glued to it, a character cut in two | a follower gets each readable record once; a crash costs one, unless it cuts a character |
| Feedback (`controller.py`) | bounded response index | `_remember_response`, `submit_feedback`, `feedback_to_batch` | log, replay | the index dies with the process and evicts | what replay trains from the log is what the live call trained |
| Reasoning parser (`reasoning.py`) | a small buffer | `feed`, `finalize`, `extract_final` | streamed chats | tags split over chunks | chunks do not matter; streaming = one-shot where the text is unambiguous |
| Objectives (`objectives/`) | KTO baseline | a loss per spec, sidecars | train engine, model state | truncation, padding, shift; mode flips inside a step; a push-down without an anchor | gradients meet the tokens they are meant for |
| Memorize helper (`memorize.py`) | none | evaluation under the lock, submit | model, queue | a thread beside the handler | takes the lock |
| Verifiers, metrics, loggers, rate limiter, console, CLI | counters | output or text only | | | nothing a state machine could say |

## 2. Modules

| module | models | kind |
|---|---|---|
| `ComputeQueue` | `queue.py`, all of it but the idle clock | component |
| `OrderedCommit` | what the queue promises for training: tasks handed out in order, resolved from the front, dropped by a close | abstract specification, implemented by `ComputeQueue` |
| `Serving` | controller, train handler, commit stream, generating threads, shutdown; EXTENDS `ComputeQueue` and drives it by its own actions only | composition |
| `Snapshots` | weights across training, merge, save, load, crash, restart | component |
| `ModelLock` | `mode_lock`, the mode flips and `disable_adapter` among generating threads, the handler and memorize's evaluation; what a streamed chat tells its client | component |
| `TrainSteps` | `train.py`: one loss or several, sidecars, gates, optimizers, failures, loads | component |
| `TargetTokens` | which tokens the objectives train: tokenizing, cutting, masks, padding, shift, last positions, overlay | algorithms |
| `TrajectoryLog` | the JSONL log with crashes, scans and followers | component |
| `RecordLog` | what the log promises about records: kept for good, but for the one behind a torn end and all behind a cut character | abstract specification, implemented by `TrajectoryLog` |
| `ReasoningParser` | `reasoning.py`: streaming parser against one-shot split | algorithm |
| `Feedback` | response index, routing, logging of feedback, replay from the log | component |
| `IdleLearning` | the two idle schedulers beside live work and a shutdown | composition |
| `MCComputeQueue`, `MCServing`, `MCSnapshots`, `MCModelLock`, `MCParts` | constants and constraints of the runs | for TLC |
| `ComputeQueueProofs`, `ServingProofs`, `SnapshotsProofs`, `ModelLockProofs`, `TrainStepsProofs`, `TrajectoryLogProofs` (also for `Feedback` and `IdleLearning`), `ReasoningParserProofs`, `TargetTokensProofs` | theorems | for TLAPS |

### ComputeQueue

One action is what runs between two awaits of one coroutine. `TrySubmit` is the
refusing submission of train calls; `Submit` the waiting one of merges,
snapshots and evaluations, whose `put` may suspend (`putters`, then `woken` when
`get` made room, then `PutterResume`). The worker is in a phase: `new`, at the
top of its loop, waiting in `get`, `busy`, `exited`. A drain is `draining`,
`grace` or `returned`, with the deadline and the grace period as actions that
may happen at any time their `wait_for` is pending. `wait_for` is a reader that
looks a token up, waits and comes back.  Payloads are left out; `error` keeps
whether a task failed or was dropped.

### Serving

A train call puts its chunks one by one (`TrainCall`, `TrainChunk`) and may be
refused in the middle (`TrainRefused`). Nothing else runs on the loop between
its chunks, because `try_submit` only awaits a put that has room. The handler
goes through stages: entered, `stepped` (weights moved), `published` (event
fanned out), then the queue's `WorkerFinishes`; it may raise before the step or
behind it. Of admin work (`AdminWork`) no step needs the lock: a load or a reset
may take training out of the weights, or put back what an earlier one took
out (`undone` remembers all that was ever taken out), also under a generation. `OnLoop`
guards everything that needs the loop. A chat request waits for its token (the
wait ends by an answer, or by the swallowed timeout), starts a thread that takes
`mode_lock`, generates, answers with the cursor. `GenerationRaises`: a one-shot
request then fails, a streamed one is `stuck` with the lock for good. A
stream client may go away at any time, also between two events.

### Snapshots

One LoRA site stands for all. A delta is how often each train step is in it, so
a step that is lost or counted twice is visible. Of the factors A and B the
model keeps whether they are zero, and of the optimizer whether each has a
moment: enough to tell when a step changes nothing. A save opens (truncates) and
writes its files in order; a crash or a failing write may come before every
step of it. `kept` remembers what a save was to keep, `whole` which saves
came to their end; no action reads them. Rounding to bf16 is left out.

### ModelLock

A chat's thread is `called`, `inside` its `disable_adapter` context, generating with the
lock (`gen`), `leaving` the context, `handing` over; behind DONE the answer is logged,
which may raise and then ends the stream as an error although all was generated; a
streamed generation that raises is `stuck`: `generate` dies in its second thread, nobody
ends the streamer, and the reader keeps the lock for ever. `wire` is the asyncio queue
between the thread and the coroutine that answers. The handler is on the event loop, so
`LoopFree` guards every coroutine; inside a train step it may sample (`ccpd_v2`, `ccd`) or
run a reference pass without the adapter. `Rewrite` stands for merge, load and reset,
which take no lock; `moved` records what changed the weights under a generation. Calls
that pass no lock do not occur in the daemon. `adapterOn` is one switch for the whole
model, as in PEFT, so contexts of different threads overlap: a chat that leaves its
context switches the adapter on under a reference pass of a train step, or under another
base-model chat, and the other way round. Without Unsloth `for_inference` does nothing,
and the model stays in the mode of the last step until a step or an evaluation changes it.

### TrainSteps

A weight, a moment, a gradient buffer and the KTO baseline are the sets of steps
that went into them. A step runs its primaries, its sidecars, then either skips
(no loss), or prepares an optimizer, goes backward and updates; it may raise
anywhere. A failure in `opt.step` may have updated part (`torn`). What the
objectives differ in for the engine is in `GivesTargets`, `MaySkip`, `Admitted`
and `KeyOf`. Any registered objective may be a primary or a sidecar. `shown` is
what `unlike`'s gate sees: the spec's sidecars, or what the client's kwargs bring
in their place; as a sidecar `unlike` has no gate.

### TargetTokens

A sample is how many tokens each of its pieces has; a token is sample, piece and
number, so that a test can see where a gradient ends up. Three actions stand for
all losses: `TrainResponses` (sft, weighted_sft, coh, kto, hinge), `PushDown`
(unlike with `kl_anchor` and `safety_monitor`), `Distil` (ccd). `found` holds the lengths of
the slices whose decoded text ends with `span_prefix`: the code takes the first, wherever
the prefix really ends. In a combined loss the push-down and the anchor may have
samples of their own (`default`, `own`, `front`).

### TrajectoryLog, Feedback, IdleLearning, ReasoningParser

The log is a sequence of cells, two and a newline for a record, so that a crash can end a
write inside it, or inside a character of it (`Cut`); offsets count cells. A cut line does
not decode, and each scan that comes to it raises (`Broken`). `Feedback` keeps of payloads
whether each field is there and not empty. `IdleLearning` keeps of the queue who submitted
its tasks, of records whether they route; a TTRL round awaits each rollout, in between
everything else may happen, and each rollout logs a record of its own. Both tasks crash on
a log they cannot decode, replay on a `ts` that is no number, TTRL on whatever picking and
keying raise. `stop()` of a crashed task raises, so `shutdown` then ends in `raised`.
`ReasoningParser` works on any text over an alphabet from which both tags are made;
`ExtractFinal` is the code's one-shot split, for both families of models.

In each module an operator right in front of a mapped definition, with a name
that says what is wrong with it (`EnqueuedFirst`, `LockIgnored`,
`MergedOverwrites`), is a faulty variant of it. It is used by nothing; putting
it in place of the definition makes TLC report the property that
`PROJECT.json` names under "mutants", which shows that the property depends on
that line of code.

## 3. Runs

| run | question | bounds |
|---|---|---|
| `queue_safety` | is training committed in order, never claimed early and never run twice, whoever calls what when; does the queue implement `OrderedCommit` | depth 2, 4 tokens, 1 reader, all callers |
| `queue_live` | is all training resolved, do drains come back | depth 1, 3 tokens |
| `queue_drain_lost` | (fails) does a drain resolve *every* task | depth 1, 3 tokens |
| `serving_safety` | does the next inference see the training, do events tell the truth, do train steps stay out of generations | depth 2, 3 tokens, chunks of 2, 1 stream of 2, 1 chat |
| `serving_live` | are chats answered, shutdowns ended, streams sent what is queued and closed | depth 1, 2 tokens, 1 stream of 2 |
| `serving_cursor` | (fails) is every answer at or above the token asked for | as above |
| `serving_hang` | (fails) does the drain's deadline bound a shutdown | as above |
| `snapshot_safety` | do restores give back what was saved, do merges keep the weights, does a shutdown lose nothing | 2 names, 2 steps, 2 merges, 3 saves, 2 boots, 1 crash or failed write |
| `snapshot_exact` | (fails) is every finished snapshot restored exactly, without any fault | 4 saves |
| `snapshot_dead` | (fails) does every train step change the weights | as above |
| `parts_safety` | every part beside the queue, each by itself: lock, train steps, tokens, log (an implementation of `RecordLog`), parser, feedback, idle learning | see below |
| `engine_adapter` | (fails) does a train step compute with the adapter while chats come and go | 2 chats |

Why these bounds are enough for the cases that matter. Overtaking in the queue
takes one queued task, one suspended put and one later `try_submit`: depth 1 and
three tokens; depth 2 and four tokens add a second task in front and one behind.
A reader acts on its own token only and readers do not meet, so one is enough; the
same holds for stream clients, whom `OneKindOfClient` keeps apart from chats
in the safety run (they share no state; the live run has both). Two chunks
make "refused in the middle" possible; a stream of two holds a commit with the
shutdown event behind it. In `Snapshots` a residual that comes
from two merges needs two steps and two merges; a save over an older one while
another name exists needs three saves. `MaxTokens`, `MaxSteps`, `MaxMerges`,
`MaxBoots`, `MaxSaves`, `MaxFaults` only bound counters, in the guards; `MaxDepth`
and `StreamDepth` are parameters of the program.

`parts_safety` puts seven modules that share no state into one run: `part` is chosen in
the first state and only that module moves, so the state space is the sum of the seven.
Its bounds: two chats, one streamed with two chunks and one of the other kinds (any two
threads meet); two steps over 13 specs that have every optimizer key, gate, way round the
gate and sidecar (a step and what it leaves for the next); batches of two from 14 shapes
and rows of five tokens, so that cutting takes the answer, the accepted prefix or the
prompt, and the prefix is found too early, too late or not at all; five log lines, two
crashes, one follower (followers do not meet); all texts of up to seven characters in
chunks of up to three, with tags of two and three characters that share both ends (a tag
can start in a failed tag and be cut anywhere); every payload once, with an index of two
and three answers (evicted, forgotten and known ids); four log records, a queue of two and
caps of one (a round with two rollouts, their own records, and a replay beside it), the
log new or with a line an earlier crash cut.

`CHECK_DEADLOCK FALSE` everywhere: the daemon stops after a shutdown, and the
bounds stop the clients.

### Fairness

`LoopFairness` and `ServingFairness` give weak fairness to each step the event
loop has ready, and to timers that are due: asyncio runs ready callbacks first
come first served and starves none. In `Serving` each of them is fair only while
`LoopFree` holds, that is, while no handler runs. A generation ends since
`max_new_tokens` bounds it, or it raises, which is nobody's duty; a streamed one
that did keeps the lock, and the liveness properties except it by name
(`ThreadStuck`). Client calls, submissions, `stop` and shutdowns are
never fair. That *handlers* return is not taken for granted: `HandlersReturn`
and `HandlersEnd` are the left side of an implication in the properties that
need it, and `DrainReturns` is stated without it: it holds for the queue alone
(`queue_live`) and fails in the daemon (`serving_hang`), where the handler blocks the
loop that the timers need.

`PartsFairness`: the thread of a chat is an operating system thread and goes on
when it can; the handler, blocked in `mode_lock`, gets the lock if it stays free
(weak: no new chat can start while the handler holds the loop, so nobody takes
it away again and again); the three steps of a shutdown are one coroutine.
Clients, failures, rollouts and the schedulers' polls are not fair.

### What the failing runs show

* `queue_drain_lost`: a merge or snapshot whose put is suspended loses its
  `_pending` entry when a later token commits; a drain then leaves its caller
  waiting for ever, against `queue.py:207-209`.
* `serving_cursor`: `generate` swallows the timeout of its wait and answers
  below `after_commit_token`, against the guarantee in `trainfer/README.md:33`.
* `serving_hang`: neither deadline of a graceful shutdown can fire while a
  handler runs, against `queue.py:211-212`.
* `snapshot_exact`: a save without a residual leaves the residual file of an
  older save in place, and the next load brings it back, against `snapshot.py:48`
  and `OPERATING.md:49`.
* `snapshot_dead`: after a merge both factors are zero, their gradients
  with them; without moments (an untrained adapter, or after a restore or
  restart) training never changes anything again, against `PLAN.md:90`.

* `engine_adapter`: a base-model chat enters `disable_adapter` before it waits
  for `mode_lock`; a train step that has the lock computes without the adapter,
  against `controller.py:423-426`.

Met while modelling, without a run of its own: a prefix
of no token (`unlike` without a template and with an empty prompt) has last index
-1, and its push-down wraps to the padding while `kl_anchor` anchors a pad at 0
(`AnchorSitsOnPush` leaves it out); `ccd` lays template tokens in front of the
student's prompt over the teacher's context (`ccd.py:204-209`); a replay or TTRL task that
crashed makes `graceful_shutdown` raise, and a second call returns
`already_shut_down` without a drain; a crash that cuts a line inside a character
(records are written with `ensure_ascii=False`) leaves a log no reader gets through,
since `UnicodeDecodeError` is no `JSONDecodeError` (`trajectory.py:139, 166`), and with
it both idle schedulers end at their first poll; `/v1/feedback` with an empty `prompt` trains on
the index but logs the empty value, so replay trains nothing; `unlike`'s third-tier
warning (`unlike.py:163-166`) cannot fire; the comment at `train.py:346-351` says the sidecars'
samples come from the first active primary and keep the regularization aligned,
where the code takes the default samples, or the first entry's that has some, so
that an anchor may hold other samples than are pushed down; kwargs may replace what
`unlike`'s gate is shown, and a sidecar `unlike` has none, though `unlike.py:258-260`
has live dispatches run the full gate; the search for `span_prefix` is called robust
against template content (`_utils.py:101-104`) and stops at text in it that reads like
the prefix; for models that open the reasoning themselves `extract_final` drops what is
before the start tag, returns truncated reasoning as content and splits at a lone end
tag, and the streaming parser does none of these (`StreamingIsOneShot` says exactly when
the two agree).

Related, stated but not a run of its own: the cursor passes a merge whose put is
suspended (`CursorCoversPrefix`); theorem `PrefixWithoutAdmin` says it does not
as long as only training is submitted.

## 4. Proofs

All theorems hold for every value of the constants that satisfies the module's ASSUME:
bounds are natural numbers, streams hold at least one chunk (`ServingBounds`), the log of the schedulers at least one record (`LearningBounds`), `Autosave
\in Names` (`SnapshotBounds`), the parties of the lock are distinct and an evaluation does
not ask for the base model (`LockParties`), a spec names an objective (`StepBounds`),
payloads have the fields and kinds the route knows (`FeedbackBounds`), tags have two
characters or more (`ParserTags`), an accepted span lies in its response (`TokenBounds`).
Nearly all have the shape: a type invariant, an inductive invariant that implies the
properties, one lemma per part of it, one step per action.

**ComputeQueueProofs.** The properties are not inductive: "the cursor covers
training" can be broken by a queue in the wrong order. `QueueInv` adds that
every token held anywhere was issued and only admin work is ever suspended or
woken; that training in the queue stands behind smaller training only; that all
open training is pending, ahead of the cursor, and in the queue or the worker's
hands; that the cursor covers all that is done; and that a begun drain has
closed the door. From it:
`CommitGuarantee`, `TrainingComesFirst`, `TrainingStaysPending`,
`ReadersSeeTraining`, `DrainCompletesTraining`, `ProgressKept`,
`PrefixWithoutAdmin`, and `Refinement`: the queue implements `OrderedCommit`.
`ResultsAreReal` adds the readers' own invariant of what they looked up;
`DropsAreFinal` that while the worker lives nothing it holds is reaped, so only an
overrun leaves one task that is both. `NothingRunsTwice` rests on `OnePlace`: a token
is in one place only, among the suspended puts, the woken ones, the queue or the
worker's hands, and in none of them once it was handled.
`DrainCompletesAllWithoutAdmin` says that what `queue_drain_lost` refutes holds as long as
only training is submitted.

**ServingProofs.** `QueueInside`: each step of the daemon is a step of the queue
or leaves it alone, so the queue's theorems carry over; `DaemonCommitsInOrder` does so for
its refinement and for `HandledOnce`. `ServingInv` adds how
far the running handler has come, that every resolved training is in the
weights, has an error or was taken out by a load or a reset, and that events and chunks lie behind the cursor and
the tokens handed out. From it: `InferenceSeesTraining`, `StreamTellsTheTruth`,
`BatchCovered`, `GenerationUndisturbed`; with a reader whose wait came back behind the
cursor `AnswersReachTokens`; with what was sent before what is queued, in order and at
or behind the event being published, `StreamsMoveForward`.

**SnapshotsProofs.** `SnapshotInv` says of a running save which of its files are
written and that the model has not moved since it began (the queue runs nothing
else), of a finished one that all its files are those of the kept model, of
an adapter with two zero factors that it adds nothing, and of a drain that it only adds
steps behind the autosave. From it: `ResidualAlwaysLive`, `SnapshotsRestore`,
`ExitKeepsTraining`, `MergesKeepWeights`. Two theorems say how far the promises hold that
`snapshot_exact` and `snapshot_dead` refute. `RestoresExactlyIfClean`: in a daemon that
never saves an unmerged model over a directory with a residual (`SavesClean`), every
finished snapshot is restored exactly, since only the beginning of a save can make a
residual stale. `TrainingGoesOnUnmerged`: without a merge, and without loading a snapshot
that has its manifest and no adapter yet (`KeepsFactors`), every step moves the weights,
through all other saves, loads, crashes and restarts: the factor A is in the model and
in every adapter on disk (`FactorsAlive`), and no adapter holds a step to come
(`NothingAhead`).

**ModelLockProofs.** `LockInv` adds to `WorkIsApart` its converse, a held lock has a
holder at work; from it `WorkStaysApart`. `AdapterAlwaysComesBack` needs only that
the switch is off because of somebody's context; so where no request may ask for the base
model the comment that `engine_adapter` refutes is true
(`TrainingUnaffectedWithoutBase`). `StreamsEndTruthfully` rests on
`WireInv`: what the client got, then what is on the wire, is 1..sent, with the end
mark behind the last chunk and only if the thread is done; an error without an exception of
the generation is one of the log behind the last chunk.

**TrainStepsProofs.** `WholeInv` is `StepsAreWhole` step by step plus what is
in the gradient buffers at each stage and that a step under way is newer than
the last load and has its optimizer (`AdapterOfWholeSteps`); `Admission` says what
a step under way was let through with (`NothingPushesDownUnanchored`), with the three ways
round the gate named: `allow_unanchored`, the kwargs, a sidecar.

**TrajectoryLogProofs.** *The log.* A line is readable by its cells alone (`HoldsAt`), a write
never makes an older offset readable (`NothingOldAppears`), and a record that ends
with a newline stays readable (`SolidKept`). `LossInv` counts a torn end as a
record that the next append will lose, as long as no line is cut; `ReaderInv` says what lies before an
offset was seen and that no record number is in the file twice. From them:
`CrashesLoseLittle`, `FollowersMissNothing`, and `LogKeepsRecords`: the file implements
`RecordLog`, where `kept` are the records in a line that is ended and that a scan of
the whole log reaches. The
refinement says which record is lost, not only how many.
*Feedback.* `LogIsCanonical`: routing depends on each field by its value or its
fallback only, and materializing puts into the record what the fallback would give.
`NewestAnswersAreKnown`, stated by no run: the index is a window on the process's answers.
It holds the last of them in their order, grows until it is full and shrinks in a restart
only. (The docstring, controller.py:502, calls this LRU; no look-up moves an entry, so the
order is that of the answers.)
*Idle learning.* `BackgroundStaysBounded`: replay found the queue empty; TTRL is
one task that submits once a round, and while it rolls none of its labels is queued.
`CapsAreKept`: the caps per offset hold whatever is refused, because TTRL burns its count
first and replay counts what it submitted; stated by no run.

**ReasoningParserProofs.** `StreamingSplitsAsOneShot` for all tags of at least two
characters, all texts and all chunkings. Each chunk is a step, so the induction over the
text is the one over the behaviour. The invariant `Splitting` says of each mode which part
of the text was released on which channel; `Holding`, that the rest is held back: the whole text
without a tag so far if it is short, else its last characters, a tag's length less one. So a tag
that a chunk completes begins no earlier than in what is held back (`Window`), and is found where
the whole text has it first. From there the split is compared with `ExtractFinal`, tag by tag.

**TargetTokensProofs.** `GradientsMeetTokens` for samples of every shape in which the
accepted span is no longer than the response, batches and
`max_len` of every size. The lemmas lay out an exchange piece by piece, follow a position
through cut, padding and shift, and so find for each trained position of a row the token
of the sample it came from.

Only model-checked: the liveness properties `TrainsResolve`, `DrainReturns`,
`ChatsAreAnswered`, `ShutdownCompletes`, `SentinelClosesStream`, `LockComesFree` and
`ShutdownReachesDrain` (fairness and ENABLED are outside the prover's reach); and of course
what fails. Every other property that a passing run checks is a theorem. The types of
each module are a theorem too (`TypeCorrect` and the like), therefore only
`snapshot_safety` checks them, where the counter of merges is more than a type.

## 5. Not modelled

Loss values, gradients, norms, learning rates and sampling (floating-point
tensors); replay's weights (any record under the cap may be picked); the verifiers
and their subprocesses; metrics and logging backends (write-only); console, command
line, dev reload; HTTP validation, rate limiter, request ids and error envelopes;
the loop of the memorize helper around its evaluation and its submits (it compares
floating-point ranks). Tokens of two processes are not related: a client that keeps
a token over a restart is outside the model. Calls with a `chunk_size` below one
raise before anything is queued.

## 6. Plan

Done: `ComputeQueue`, `OrderedCommit`, `Serving`, `Snapshots`, `ModelLock`,
`TrainSteps`, `TargetTokens`, `TrajectoryLog`, `RecordLog`, `ReasoningParser`, `Feedback`,
`IdleLearning`, their runs, proofs of all their safety properties and of both
refinements, and theorems on where the refuted promises of snapshots, training, drains and the
adapter hold.

Left: `ModelLock` and `Serving` composed, so that a chat's wait, its thread and the
lock appear in one behaviour; the numbers of `memorize` and of replay's weights as
bounded integers; a refinement of `IdleLearning`'s queue by `ComputeQueue`.
