# A verification project for qwen38-b70

The repository serves Qwen3.8-27B on two Intel Arc Pro B70 cards. Its own
program logic is the copy of vLLM's XPU worker under `vllm_src/` (the GPU model
runner, the CUDA/XPU graph dispatcher and wrappers, the gated-delta-net
attention, flash attention), the collectives it patches for XPU, and the shell
automation that tunes it overnight (`hillclimb_iter.sh` and the launch scripts). This directory keeps TLA+ models
of that logic, the TLC configurations that check them and TLAPS proofs about
them.

## 1. Inventory

| Component | State it keeps | Operations | Modules |
|---|---|---|---|
| GPU model runner, decode path (`gpu_model_runner.py`) | `self.requests`, the persistent batch (rows, `num_computed_tokens_cpu`, token ids, placeholders), the GPU's `num_computed_tokens`, `prev_sampled_token_ids`, `valid_sampled_token_count`, `prev_req_id_to_index`, `ExecuteModelState` | `execute_model` (`_update_states`, `_prepare_inputs`, deferred corrections), `sample_tokens` (`_bookkeeping_sync`) | `AsyncSpecDecode`, `DecodeStream` |
| GPU model runner, layout of a step and its metadata | flat tensors, block table, slot mapping, logits indices, positions on several axes | `_prepare_inputs`, `_calc_spec_decode_metadata`, `_build_attention_metadata`, `_get_slot_mappings`, `_allow_microbatching` | `StepLayout`, `MicroBatches`, `StepMetadata` |
| GPU model runner, copies between host and device | reused pinned tensors, copy streams, events, per-step outputs | `synchronize_input_prep`, `_copy_draft_token_ids_to_cpu`, `_copy_valid_sampled_token_count`, `AsyncGPUModelRunnerOutput`, `_to_list` | `HostCopies` |
| Hybrid (recurrent) layers (`gdn_attn.py`, `qwen_gdn_linear_attn.py`, `_xpu_ops.py`) | state slots per request, persistent buffers of the builder | `build`, `build_for_cudagraph_capture`, `_forward_core`, `gdn_attention` | `HybridDecode`, `GdnMetadata` |
| Flash attention (`flash_attn.py`) | metadata of a group | `build`, `use_cascade_attention`, `forward` (plain, cascade, context parallel) | `FlashMetadata` |
| Graph dispatcher (`cudagraph_dispatcher.py`) | padding table, keys by mode, `cudagraph_mode` | `initialize_cudagraph_keys`, `dispatch`, `get_capture_descs` | `CudagraphKeys` |
| Graph wrappers (`cuda_graph.py`, `breakable_cudagraph.py`) and their start-up in the runner | captured entries, capturing-enabled flag, KV cache in use | `__call__`, profiling, capture, serving | `CudagraphLifecycle` |
| Eager breaks of a capture (`breakable_cudagraph.py`) | segments and eager calls of a capture | `eager_break_during_capture`, `add_eager`, `replay` | `BreakableCapture` |
| Collectives on XPU (`vllm_gloo_kernels.py`, `lab_tp2_*.sh`) | which back end each rank uses | `all_reduce_`, `all_reduce`, `all_gather…`, `XpuCommunicator.all_reduce`, the profile run | `XpuCollectives`, `TpForward` |
| Tuning iteration (`hillclimb_iter.sh`) | lock file, queue file, history, the container, response files in `/tmp` | one invocation | `HillclimbIter` |
| Launch with retries, image entry point, pointer patches, benchmarks, probes, single launch scripts, vendored patches, CI | — | — | not modelled (section 7) |

How they interact: the scheduler (not in the repository) hands the runner a
`SchedulerOutput` per step and later receives an `AsyncModelRunnerOutput`.
`execute_model` updates the batch, lays it out in flat tensors, asks the
dispatcher for a graph, pads, has the builders of every attention group make
their metadata, runs the model through a wrapper and leaves an
`ExecuteModelState` for `sample_tokens`. With asynchronous scheduling the two
sides overlap: step *t+1* is scheduled and launched before the tokens of *t* are
known, and what crosses between host and device does so on streams of its own.
The hybrid layers read their recurrent state by a count that only exists on the
GPU. A full graph reads persistent buffers instead of what the builders return.
Each tensor-parallel rank runs the same pass and meets the others in
collectives, whose back end it chooses by itself. The tuning iteration starts
the whole server in a container and is started by cron and by hand.

What is hard: three copies of one counter that are corrected at different times
(async decode); data kept by row while rows move; host tensors reused while
copies are in flight; buffers longer than the batch that still hold an earlier
step; batches that mix drafts, decodes, prefills and padding; start-up phases
whose left-overs would only be noticed when serving; ranks that fail apart; a
script that may be killed, run twice, or be ended by `set -e` between two of its
effects. `PROJECT.json` lists every such place with its line under `hazards`.

## 2. Plan

Order: the decode protocol first (it decides whether the served text is right),
then graphs, automation, and the data paths of a step.

Done:

1. `AsyncSpecDecode` with the abstract specification `DecodeStream`; `HybridDecode` composes it with the recurrent layers.
2. `CudagraphKeys` (pure) and `CudagraphLifecycle`, with proofs of all its properties.
3. `HillclimbIter`, with proofs of all its safety properties, each under the conditions in which it holds.
4. `BreakableCapture` and `XpuCollectives`, composed in `TpForward`, with liveness.
5. `HostCopies`.
6. `StepLayout` < `GdnMetadata` < `FlashMetadata` < `MicroBatches` < `StepMetadata` (each extends the one before), composed with `CudagraphKeys` by `INSTANCE`.

Proved, for every value of the constants (section 6): every property that a
passing run checks, the refinement of `DecodeStream` included, except the two of
liveness (`QueueDrains`, `PassesEnd`), which are model-checked only. What would
come next lies outside the repository (section 7).

## 3. Modules

### AsyncSpecDecode, DecodeStream

One action per handler. `ExecuteModel` is the whole of `execute_model` up to the
launch: `_update_states` (removals, optimistic placeholders, trimming, re-adding
of resumed requests, condensing), `_prepare_inputs` (start positions on the GPU,
last input token, discard mask) and the deferred
`correct_spec_decode_token_counts`. `SampleTokens` is `sample_tokens`: it samples,
records counts and tokens by row, and does the bookkeeping that extends the
outputs by one placeholder. `Schedule`, `UpdateFromOutput`, `Abort` and
`Resubmit` are the external scheduler, reduced to what the runner relies on.

| Variable | Code |
|---|---|
| `so` | `SchedulerOutput` handed over |
| `st[r].computed`, `.cpu`, `.draftLen`, `.out`, `.noSpec`, `.real` | `CachedRequestState.num_computed_tokens`, `num_computed_tokens_cpu`, `prev_num_draft_len`, output length with placeholders, `num_tokens_no_spec`, verified ids in `token_ids_cpu` |
| `prevReqIdToIndex`, `prevSampled`, `validCount` | `prev_req_id_to_index`, `prev_sampled_token_ids`, `valid_sampled_token_count` (indexed by the row of the last sampled step) |
| `gpuComputed` | `self.num_computed_tokens` on the GPU |
| `ex`, `res` | `ExecuteModelState`, `AsyncModelRunnerOutput` |
| `kv`, `len`, `text` | ghosts: positions holding the request's own KV, tokens that exist, tokens delivered |

Tokens are named by owner, life of the id and index, so a wrong token is a
different value rather than a different number. Rows after `condense` and the
reordering of the backend are any dense placement (`Placements`): the code's own
order is one of them.

Two constants stand for what the repository does not contain. `EarlyOutput` says
whether results may arrive before the next step is scheduled. `ForgetRemoved`
says whether `InputBatch.remove_request` drops the id from
`prev_req_id_to_index`; the comment at `gpu_model_runner.py:1256` relies on it
when an id is submitted again at once, and so do steps in which nothing is
scheduled. `async_early` sets it; `async_strict` shows that without reuse and
without idle steps nothing depends on it.

`DecodeStream` is the promise to a user: tokens of a request are delivered in
order, without gap or repetition. `StreamSpec` instantiates it with the
delivered text of the detailed model, and `async_early` checks the refinement.

What the runs taught: with `EarlyOutput` the deferred correction subtracts
rejections that the scheduler has already taken back, so the two CPU counts are
then below the GPU's position (`CpuCountsExact` is not listed for
`async_early`); the positions and tokens the model really uses stay exact because
they come from the GPU's own count.

### HybridDecode

`AsyncSpecDecode` plus the recurrent state: `slots[r][j]` is the number of tokens
folded into slot *j*. `GdnForward` is conjoined to `ExecuteModel`: which path a
row takes (`UsesSpecPath`, `SpecRow`, `IsPrefillRow`), which slot it reads
(`NumAccepted`) and which slots it writes. The finding below lives here.

### CudagraphKeys, CudagraphLifecycle

`CudagraphKeys` has no state: the padding table range by range as the code fills
it, descriptors, the keys of a mode, `Dispatch`. `CudagraphLifecycle` is the
process: an optional profiling pass on a minimal cache (`Profile`,
`CaptureNext`, `ProfileCleanup`), the real cache, capture, serving
(`ExecuteModel`, `DummyRun`). `breakable` chooses the wrapper at start: one
`CUDAGraphWrapper` per mode, or the breakable one that looks up by descriptor
only. `Call` is either of them: eager, replay, or capture, which fails when
capturing is disabled. `failed` is set by every assertion on the way. The
resolved mode is any mode each time (`InitializeKvCache`), since attention
backends outside the repository decide it.

What the runs taught: `initialize_cudagraph_keys` adds keys and never clears
them, so the clean-up of the profiling pass is what keeps a second resolution to
another mode from mixing keys; the breakable wrapper's look-up by descriptor
alone stays unambiguous only because PIECEWISE descriptors carry no request
count; with LoRA configured but not specialised, a batch without an active
adapter runs eagerly (the last conjunct of `FittingBatchIsGraphed`'s guard); and
capture sizes must be multiples of the uniform query length, which only the
compilation config guarantees (`DivisibleAssumption`).

### BreakableCapture, XpuCollectives, TpForward

`BreakableCapture` is what one capture keeps. The code stores graph segments and
eager calls in one list; here the list is flat, one step per operator of the
forward pass, each with the mark whether it lies in a graph, because a boundary
between segments has no effect of its own. `BreaksOut` is the condition of
`eager_break_during_capture`: inside a FULL capture, or inside another break, the
operator is called like any function.

`XpuCollectives` is where a rank meets the others. `Backend` reads the
environment variable that redirects calls during the profile run: the in-place
reduction goes over gloo, the out-of-place one returns its input and the gathers
return what they can without communicating. `AfterFailure` is what a failing
XCCL call does, by operator. The reader of the scripts should know that v10 also
redirected `capture_model` and v11, which is modelled, does not. v11's patch of
`XpuCommunicator.all_gather_into_tensor`, which falls back to gloo on resource errors
as its `all_reduce` does, is not modelled.

`TpForward` composes the two: `Program` is a forward pass, `calls` the passes the
engine issues (one profile run behind a barrier, one capture per graph, then
serving), and each rank walks through its pass step by step. Which collective of
an eager pass runs out of resources, and on which ranks, is chosen when the pass
is issued. Kernels and breaks record which pass's metadata they read: a break
inside a full graph reads the persistent buffers (`bufferOf`), any other break
the metadata of the pass. A rank that waits for peers that cannot come any more
is ended by `--distributed-timeout-seconds` (`GivesUp`, `Timeout`). An error in
an operator ends the worker; the executor then takes the engine down, so nothing
is modelled after it. A `redirect` left by a profile run that raises is therefore
never seen. The breaks are those of `breakable_cudagraph.py`; on XPU the recorded runs
use PIECEWISE graphs instead, since a breakable capture crashed there
(`HILLCLIMB.md:195`). The pieces between the splitting operators have the same
shape: what lies in a graph is replayed, what lies between is called each time.

### HostCopies

The worker's thread, four in-order streams and the events between them. A tensor
holds the number of the step whose data it is. `ExecuteModel` is
`synchronize_input_prep` around the preparation and the launch, `Sample` the wait
for draft ids and the clearing of what the step left, `Draft` the drafter (or the
zeros when the input does not fit), `AsyncOutput` or `SyncCopy` and `ToList` the
two ways of returning. `Device(s)` executes the next operation of a stream, not
before the point of the default stream that `wait_stream` named. `Configs` has
the async switch and the place of the drafter.

What the runs taught: all copies are guarded in the combinations the code uses,
with one exception that `DraftsExact` leaves out (`overlapped`), so that this path is
modelled but no property covers it: when a step with async
scheduling finds no room for drafts, it zeroes the pinned draft buffer from the
CPU while the previous step's copy into it may still be queued; that copy then
brings the old drafts back. Only a structured output or a penalty that needs
draft ids on the CPU reads the buffer. In the synchronous path the routed experts
handed out are a view of the reused pinned tensor; the wait of `_to_list` covers
its copy.

### StepLayout, GdnMetadata, FlashMetadata, MicroBatches, StepMetadata

A row is one request's share of a step: tokens, drafts, computed tokens as the
GPU counts them and as the CPU believes (`optimistic`), prompt length, accepted
tokens of its last step. `StepLayout` turns rows into the flat tensors
(`CuSum`, `RepeatArange`: a tensor is a function on `0 .. n - 1`), `GdnMetadata` is
`GDNAttentionMetadataBuilder.build` and the kernels the layer may choose, each as
the set of sequences it runs, `FlashMetadata` is the common prefix, the metadata
of flash attention and the keys each kernel shows a query, `MicroBatches` the
veto against splitting a batch. The kernels themselves and
`num_common_prefix_blocks` are external.

`StepMetadata` is the machine: graphs are captured from the largest to the
smallest, then each `ExecuteModel` takes any batch, dispatches it, pads it, writes
block table, slot mapping, builder buffers and logits indices, and the layers
read. Whatever an earlier step had left in a buffer is written as `Stale`, which
is sound for properties that say it is never read and makes the history of
batches irrelevant. A full graph reads the buffers at the captured size
(`CapturedMetadata`); any other pass reads what the builder returned.

`Admissible` states which batches the scheduler makes: no more tokens than
`max_num_batched_tokens`, the backend's order (short rows first), a row whose last
step accepted drafts decodes over listed drafts again, in a batch that has draft
tokens (finding 1 is what happens otherwise), and, unless `ShortPrefills`, no prefill chunks that happen to be as
long as a decode with all its drafts throughout the batch (that is finding 4).

What the runs taught, besides finding 4: `SplitKeepsWriters` speaks of readers
longer than the reorder threshold only. A prefix hit may leave a remainder no
longer than that, which the code treats as a decode: "A decode reads nothing it
was not already given in an earlier step" (`gpu_model_runner.py:4014`). Its prefix
may be one that another row of the same batch computes only now, and then the
two halves may run in the wrong order.

### HillclimbIter

Each process runs invocations of the script. `lock`, `queue` and `history` are
the files, `container` is whoever owns the fixed name, `answers` the response
files left in `/tmp`. The lock is a check (`CheckLock`) and a write
(`WriteLock`). The queue mark takes three steps: the whole file is read
(`ReadQueue`), `open(qfile, 'w')` empties it (`TruncateQueue`), and its lines are
written (`WriteQueue`, `NewLines`); a line that is not in the file is `"gone"`.
`ReportSteps` is the order of report: a result is written to the history and then
marked, a failure is marked first. `Exit` is the EXIT trap, `Kill` an end without
it, at any step: inside the write any number of lines has reached the file
(`Written`), inside the concurrent benchmark some answer files may be there. A
history variable, `cut`, records for the invocations killed from the concurrent
benchmark on which knob they had and where they were, so that the properties can
say exactly what a kill may cost.

Any request may go unanswered: the engine dies, or a live one takes longer than
`curl --max-time 120`. In the single-stream part that ends the script
(`MaxUnanswered` bounds how many invocations end so); in the concurrent part, where
nothing bounds it, no file is written, and the one an earlier invocation of the same
knob left is counted (`LeftOver`): `fresh` says whether a result is free of that,
`own` whether what was answered came from the
invocation's own container. `Overlap = FALSE` restricts the schedule to what the
lock is meant for: no second check between another's check and write, and no
iteration longer than the 900 s after which a lock is stale.

What the runs taught. Answers are left over only by an invocation killed between
its concurrent benchmark and its mark, because a marked knob is never picked again;
so `OwnMeasurement` holds with that exception whatever goes unanswered. The exception
is real: the knob is tried again, and a request of the second try that hits
`--max-time 120` (line 328) lets the old file be counted (333-334) where lines
335-336 mean to count no token. Lines are lost only to a kill inside the write
(`MarksArePermanent` names it), and what such a kill spares is still worked off
(`QueueDrains`). For the lost ones nothing helps: lines 185, 220 and 407 open the
queue with `'w'`, and after a kill before the write an empty or cut file is taken
for the whole queue, so the next invocation may report "All knob queue entries
exhausted" (line 60) with knobs nobody has tried.

Abstracted: docker itself never fails except for a taken or missing name; git,
wording, iteration numbers, speeds and the best configuration are left out.
The last leaves one remark for a reader of the code: NEW BEST is declared by
speed alone, whatever the coherence gate has found.
A refused start (fresh lock) changes nothing and has no action.

## 4. Runs

| Run | Shows | Bounds and why they are enough |
|---|---|---|
| `async_strict` | `TypeOK`, `PositionsExact`, `DiscardExact`, `CpuCountsExact` with the scheduler always one step ahead | two requests and two rows make rows move and swap; prompts of two and one token give a chunked prefill beside a decode; the requests stop at four and six tokens, so that several speculative steps follow each other and one request outlives the other; of two drafts none, one or both are accepted |
| `async_early` | positions, own tokens and the refinement of `DecodeStream` with early results, idle steps and reuse of ids | as above with one draft, each id used twice, one long prompt that is chunked all its life |
| `hybrid_steady` | `StateExact` when a decoding request always has drafts | two requests, so that speculative and prefill rows share a batch |
| `hybrid_rollback` | finding 1 | one request |
| `cudagraph` | no assertion fails, graphs are current, fitting and found, for both wrappers, with and without a profiling pass and for every mode | sizes 2, 4, 10 leave a gap, and the largest exceeds what four requests of two tokens decode; batches of up to eleven tokens exceed the largest graph; with four adapters the captured counts 1, 2, 4, 5 leave three between two of them |
| `hill_crash` | at most one invocation past the lock, results are the invocation's own, rows precede marks, marks and lines stay, who tries a knob marks it, and the queue is worked off, with a kill anywhere, an end over an unanswered request, and concurrent requests unanswered at any time | three knobs, so that after one mark and a kill inside the next write there are marked, spared and lost lines at once, and left-over answers can be of the knob in hand or another; five invocations of cron are enough for all knobs, one lost to the kill and one to the request |
| `hill_overlap`, `hill_unmarked` | findings 2 and 3 | two knobs; one or two invocations each |
| `tp_forward` | served passes are exact, no two different collectives meet, ranks end only when resources run out, and every pass ends | two ranks; a program with a break at the start, between collectives of every kind and inside; a graph with breaks and a full one; three served passes, so that a failure has passes after it and the buffers of a full graph a predecessor |
| `host_copies` | reused host tensors are neither overwritten under a copy nor read before it; counts, drafts and outputs are of their own step | four steps: a copy may be two steps late and its tensor reused once more; all configurations |
| `step_metadata` | every kernel sees its requests' tokens, states, keys and slots, and nothing of earlier steps | nine kinds of rows (decodes with, without and with rolled-back drafts, after acceptance and rejection, chunks of one, two and three tokens, resumed and prefix-hit rows), up to three of them, which mixes any three kinds; without drafts, with one, and with two context-parallel ranks; sizes 2, 4, 8 with four requests leave padded rows in full graphs; blocks of two tokens let a prefix end inside and at a block; cascade from one block and two rows on; ten tokens a step hold every batch of three rows, and are more than the largest graph |
| `step_uniform` | finding 4 | one configuration of the above |

Fairness: `HillclimbIter` and `TpForward` state it. Every loop and request of the
script is bounded by a count or a time limit (`seq`, `curl --max-time`), so a
running invocation takes its next step (weak fairness per process); cron keeps
firing (weak fairness of `CheckLock(Cron)`) and time passes (weak fairness of
`LockAges`). Manual starts are not fair. `MaxKills` and `MaxUnanswered` bound the
faults, so that `QueueDrains` speaks of behaviours with finitely many of them: a script
killed every time marks nothing. In `TpForward` every rank is a process of
its own, so it takes its next step, those who have met in a back end go on, and
the distributed timeout is a clock that runs whatever the rank waits for (weak
fairness of each rank's steps, the timeout among them, and of the meetings).
The decode, copy and metadata models state safety only: their progress depends on
a scheduler and a device outside the repository.

Deadlock is checked in every run; `Done` and `Stopped` are the states in which
the bounds, or all requests, are used up, or the engine is down.

## 5. Findings

1. `hybrid_rollback`: after a step in which drafts were accepted, a decode step
   without drafts (guided decoding rolled them back) takes the non-speculative
   path of `GDNAttentionMetadataBuilder.build`, which reads slot 0, whatever was
   accepted; `gpu_model_runner.py:1616` promises that the next iteration shifts by
   the accepted number.
2. `hill_overlap`: two invocations can be past the lock of `hillclimb_iter.sh:25`
   together, by the test-then-write or because an iteration with two ten-minute
   start attempts outlives the 900 s.
3. `hill_unmarked`: an engine that stops answering in the benchmark makes the
   arithmetic of `hillclimb_iter.sh:265` fail under `set -e`; the knob stays
   unmarked and is picked again, and the check for an empty response is never
   reached.
4. `step_uniform`: a batch of prefill chunks of exactly
   `1 + num_speculative_tokens` tokens passes `_is_uniform_decode`
   (`gpu_model_runner.py:3990`, which compares lengths only) and is dispatched to
   the full decode graph, captured on the speculative path. The builder of the
   recurrent layers treats the batch as plain prefills and leaves the persistent
   buffers alone, so the graph reads what an earlier step left there, although
   `gdn_attn.py:84` declares support for every batch of equally long queries.
## 6. Proofs

`AsyncSpecDecode_proofs`: `TypeCorrect`, `Spec => []TypeOK`, for every value of
the constants allowed by `SpecAssumption`. `TypeOK` is inductive by itself: one
lemma per action (`TypeSchedule`, `TypeExecuteModel`, …) over lemmas on the
operators (`PositionType`, `StateType`, `TokenType`), combined in the temporal
step.

On top of the types, the same module has the decode protocol. None of its
properties is inductive, because every count exists in up to five copies
(scheduler, staged step, launched step, GPU row, delivered result), each right
only after the steps under way are added or taken off. `Inv` says by how much:
`LaunchedInv` (a launched row against the KV), `SampledInv` (what the runner keeps
between steps: the GPU's count at the previous row plus the accepted count is the
end of the KV), `StagedInv` (a staged step against the state it will find; `Gap`
is how many inputs it lacks to reach the end) and `SchedulerInv` (the scheduler's
counts; its placeholders are the tokens the steps under way may still produce).
`RowsInv` keeps rows apart, without which a count could be another request's.
`Lacks` is the heart: seen by the scheduler, all drafts accepted, a request lacks
exactly what the runner will find it lacks. `CountsRelated` is `Spec => []Inv`, and
`PositionsCorrect` and `DiscardCorrect` follow from it, for outputs taken in early
or late. `CpuCountsCorrect` assumes `~EarlyOutput` and needs `StrictInv` (the
staged count is the optimistic one); section 3 says what happens otherwise.
`OwnTokenFed` and `ImplementsStream` assume `ForgetRemoved` and need `TokensInv`
(the record of the last sampled step names only requests of the batch, and holds
their newest token). For the refinement, `StreamStep` maps every step:
`UpdateFromOutput` appends to any set of requests what `DecodeStream` lets it
append, a submission starts a text, the rest stutters.

`CudagraphKeys_proofs`: `PaddedIsLeast`, for every ascending list of capture
sizes (`KeysAssumption`). `FirstHolding` finds the first size that holds the
batch (well-foundedness of the naturals), `RangesDisjoint` shows that the
table's ranges do not overlap, so the range of the batch is the one ending, or
the one starting, at that size.

`CudagraphLifecycle_proofs`: all four properties of the life cycle, `NeverFails`,
`ReplaysAreCurrent`, `GraphsFit` and `FittingBatchesReplay`, for every list of
sizes, query length, number of requests, adapter setting and bound, in both
wrappers, from `KeysAssumption`, `DivisibleAssumption` and `LifecycleAssumption`.
They are not inductive: whether a batch finds its graph depends on what start-up
left. `GraphInv` adds where the keys come from (`KeysInv`: exactly those of the
resolved mode), what the wrappers hold (`EntriesInv`: only registered keys, on the
cache in use), what is still to capture (`TodoInv`) and that, once serving, every
key has its graph (`CapturedInv`). The lemmas say why that suffices:
`CapturedIsDispatched` (the run that captures a key is dispatched to it),
`DescriptorIsKey` (no two keys of a mode share a descriptor, which is what the
breakable wrapper relies on), `DispatchedGraph` and `FittingIsDispatched` (what a
dispatch returns, and when it returns a graph), `RowsEnough` (a uniform graph has
a row per request). TLC has checked `GraphInv` on the instance of `cudagraph`.

`HillclimbIter_proofs`, for any processes, queue and bounds
(`HillclimbAssumption`): `Excludes`, `MarksStay` and `MeasuresOwn` under `~Overlap`,
whatever requests go unanswered and wherever invocations are killed,
`TriedKnobsAreMarked`, `Spec => EndsMarked`, under the same condition, and
`DoneIsRecorded`, `Spec => []DoneHasRow`, without any.
`MutualExclusion` is not inductive: an invocation that leaves removes the lock whoever wrote it, and a
check is separated from its write. The invariant `Exclusion` adds that whoever is
inside owns a fresh lock (`InsideOwns`) and that nobody else is active between
a check and its write (`CheckedAlone`); `LockAges` then cannot strike a running
invocation. `DoneHasRow` fails to be inductive because a queue is written back
from a copy: `RowsInv` adds that a result's row precedes its mark (`RowFirst`) and
that every DONE of a copy about to be written has its row (`CopyHasRows`), which
survives overlapping copies because rows are only appended.
`MarksArePermanent` then needs `CopyCurrent`: a copy read is the queue as it is, and
while a file is empty its writer is the only one to hold its lines (`WriterHolds`),
because whoever acts inside is alone. `OwnMeasurement` has two halves. `OwnInv` says
that from its start to the report an invocation's container is the one that has the
name (`Owns`). `FreshInv` says where left-over answers can come from: a knob with
answer files has lost its blank line, or its invocation still has the mark to write,
or that one was killed (`Answered`), so a knob that is picked has none but a killed
one's (`Fresh`). Through the write of the queue this has to be said of the copy, since
the file is empty meanwhile and a kill may leave any part of it. `EndsMarked`
needs that the line of the knob in hand stays blank until the invocation writes it,
and is marked from then on (`Marked`). TLC has checked `FreshInv` and `MarkedInv` on
the instance of `hill_crash`. Finding 2 shows that `~Overlap` is needed, and finding
3 why `EndsMarked` leaves out the ends over a single-stream request.

`HybridDecode_proofs`: `StateCorrect`, `HybridSpec => []StateExact`, assuming
`SteadyDrafts`; finding 1 shows that it fails without. The runner's invariants
carry over (`RunsTheRunner`); `SlotsInv` adds where the state at the end of the KV
is: in the slot of the last accepted token if the row had drafts, else in the
first (`SampledSlots`, `AbsentSlots`). `KeepsDrafting` is why the accepted count is
at hand whenever it is needed: after a step with drafts the next one has drafts,
or there is none.

`HostCopies_proofs`: the five properties and `DataReady`, for any number of steps
and any set of configurations (`CopiesAssumption`). What a tensor holds when an
operation reads it is either there already or still to be written by an operation
queued at a known earlier place, so the invariant speaks about everything that
waits: operations are named by their absolute position on their stream, which no
later step changes. `DefaultOp` and `CopyOps` (together `DataReady`) say which
operation ahead of each one brings its data; `InStep` that the step the worker is in
has been launched and no later one; `DraftsInv` and `CountsInv` that the copy of the
kept drafts or counts is the last on its stream and the one the event names;
`OutputsInv` which outputs are complete.

`TpForward_proofs`: `CallsMatch`, `PassesCorrect` and `NobodyLost`, for any set of
ranks, any non-empty forward pass, any graphs and any failures (`ForwardAssumption`;
the pass is non-empty because an empty list of steps stands for a graph that is not
captured). The argument turns on the collectives that block, given the way a pass
runs (`Blocks`): no rank that is alive has passed one that another has not
(`Together`), so those who meet are in the same call, and nobody waits for a rank that
is ahead. `PassInv` says what a rank has left to do and in which manner,
`CaptureInv` and `EntriesInv` what a capture has kept so far and what each graph
holds, `RanInv` what a served pass has run. `DiesOfFailuresOnly` has to be carried along: a
rank that ended for another reason would break `Together`.

`StepMetadata_proofs`: all properties of `step_metadata`, for any set of row kinds
(`RowAssumption`: what a scheduler may make of a request), any capture sizes,
batch, block size, interleaving and number of context-parallel ranks
(`StepAssumption`, `FlashAssumption`). The invariant is short: `StepInv` says that,
once serving, every variable is what some admissible input and some choice of the
kernels' times give by themselves (`StepResult`), and that no capture comes after
the first step; it is `StepInvariant`, and TLC has checked it on the instance of
`step_metadata`. It holds because a step writes `Stale`, never an older value,
where it leaves a buffer alone. The weight lies in the lemmas about what one step
makes of one batch:

- Sums. Nearly all tensors are addressed by cumulative sums over the rows. In place
  of an induction over rows, which the provers cannot do, each lemma takes the least
  row at which it would fail (`LeastOf`): `CuSumIs`, `RowAtHolds`, `RowUnique` and
  `RepeatArangeIs` say what the sums, the row of a token and the concatenated
  ranges are. `DraftsVerified`, `RopeCorrect` and `FastPrefillOwned` follow from
  them, row by row.
- Dispatch (`DispatchIs`, `FullFits`): a batch in a full graph is uniform and fits
  the graph's rows; any other is padded in tokens only. `SlotsOwned` and
  `StepTypeCorrect` use it.
- `AttentionCorrect`. Cascade: the common prefix is a multiple of the block size
  within every row's computed tokens (`CascadeBounds`; the CPU's count overstates
  them, but only past the shared prefix), so that the unmasked kernel shows no row
  its future. Context parallelism: `GlobalPos` numbers the tokens of a rank in order,
  without gap and each once, and `LocalLen` counts those before a given length, so
  the ranks share the context out, although it is cut by a maximum that every rank
  derives from an optimistic length.
- `SplitSafe` (`BatchSplit`). A cell that one row reads of another's writing lies in
  a block that a prefix hit gave the reader; it is whole for the reader, and inside
  the prompt the writer's optimistic count is exact, so the veto, which compares
  whole blocks, sees it.
- `RecurrentCorrect`. The index lists of the builder are read off the running count
  of the mask (`RowsWhere`); a kernel given such a list, its rebased offsets and its
  tokens runs exactly the sequences of those rows (`RunIsRow`, `Lists`). The cases
  are the builder's: no drafts (decodes peeled off a rebased prefill part), drafts
  only, a mixture, and a full graph with and without drafts, where the filled tail
  of the buffers names the null row. The assumption `~ShortPrefills` is that
  prefills do not make a batch look like a uniform decode; finding 4 is what happens
  without it.

Only model-checked: `QueueDrains` and `PassesEnd`, which are liveness under
fairness (the provers have no rule for fairness and ENABLED). The violations of
section 5 are runs, not theorems.

## 7. Not modelled

- `mamba_cache_mode` "align", which applies the deferred corrections before the
  forward pass instead of after its launch (`gpu_model_runner.py:4431`) and brings
  the accepted counts to the CPU (`2158`).
- Exceptions inside the profiling pass other than the modelled assertions: they end
  the process, so nothing is served after them.
- Kernels and numerics; the scheduler, the input batch class, support tables of
  the attention backends and torch, which are not in the repository and appear
  only as the repository uses them.
- Pipeline parallelism: the broadcast of sampled tokens is a call of a group
  outside the repository, and the order of its micro-batches is the scheduler's.
  Data parallelism: `coordinate_batch_across_dp`, which decides padding and mode
  for all ranks, is outside too.
- In the metadata: the split of flash attention under context parallelism by
  FA2, ahead-of-time schedules, sliding windows and chunked local attention,
  multimodal prefixes, the chunk metadata of the recurrent kernels, encoder-only
  groups and the drafter's own unpadded metadata.
- Multimodal inputs, pooling, LoRA weights, log probabilities, sampling
  parameters: data paths beside the protocols above.
- `launch_tp2_retry.sh` is one loop of docker commands over one container; the
  tuning iteration contains the same loop with more around it. Single launch
  scripts, the image, benchmarks and probes are straight-line commands.
- `patch-mamba*.sh` replace text in kernels that are not in the repository; the
  pointer arithmetic they correct cannot be read here.

`PROJECT.json` gives the reason for every component.
