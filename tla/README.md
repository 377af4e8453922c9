# A TLA+ model of the Triton AOTInductor backend

This directory holds TLA+ modules that model the backend under `src/`, the TLC
configurations that check them on small instances, and theorems about them that
TLAPS checks for every instance. Paths below are those of the repository;
`cc` stands for `src/src/model_instance_state.cc` and `hh` for its header.

1. [The system](#1-the-system) and its components
2. [The modules](#2-the-modules) and how they correspond to the code
3. [The runs](#3-the-runs), their bounds and what they show
4. [Fairness and deadlock](#4-fairness-and-deadlock)
5. [The proofs](#5-the-proofs)
6. [Where the code and its documentation disagree](#6-where-the-code-and-its-documentation-disagree)
7. [What is not modelled](#7-what-is-not-modelled)
8. [The plan](#8-the-plan)

`PROJECT.json` lists the same components, runs and theorems, maps every
definition to its lines of code, and names the hazards the properties are for.

## 1. The system

The backend serves AOTInductor packages (`.pt2`) in Triton. Triton loads a
*model*, then its *instances*, each of which runs batches of requests on a
thread of its own; batches of one instance are serial, instances are concurrent
(`libtorch.cc:185-191`). On a GPU an instance can capture one CUDA graph per
*bucket*, a padded number R of requests, and replay it instead of running the
model eagerly.

| Component | State it keeps | Operations | What is hard | What makes it correct |
|---|---|---|---|---|
| Request cycle of an instance (`cc` ProcessRequests, Execute, SetInputTensors, ReadOutputTensors) | response pointers, `all_response_failed`, `cuda_copy`, output tensors; locals of one call | admit a batch, collect inputs, run, verify, read outputs, answer, release | some fifteen calls that may fail, three error macros that differ in what they reset, asynchronous copies | each request is answered once, and released after its answer and when nothing reads it; statistics agree with the answers |
| CUDA-graph bucket cache (`cc` CaptureBucket, ReplayCudaGraphEntry, ExecuteWithCudaGraph, FindReadyCudaGraphEntry, WarmupCudaGraphs, the prestaging block of SetInputTensors) | `cuda_graph_cache_`, `cuda_graph_failed_`, `warmup_widths_checked_`, `prestaged_bucket_`, the static buffers | warm up, check widths, prestage, select, capture, pad, replay, fall back | long sequences of batches of other shapes, failures between two steps, two bucket searches that must agree, buffers that outlive a batch | a replay computes on its own batch and zeros; no retry storm; every failure ends in an eager run |
| Streams and events of an instance | the instance's stream, one pooled stream per graph, two events | record, wait, synchronize | the host does not wait for a replay | no two streams work on one buffer; an answer is complete when it is sent |
| CUDA-graph metrics of a model (`model_state.cc`) | the map of bucket metrics, metric families | get or create, increment, delete | instances share the map without a lock | one metric per bucket, all deleted before their families |
| Model state and package loading (`model_state.cc`) | parameters, the map of shared packages | parse, load, share weights | the order of parsing and of the overrides, sharing by device | graph capture never meets a shared runner |
| Construction and teardown of instances | events, streams, graphs | Create, destructor | errors half way through a constructor | everything acquired is released once |
| Naming and validation of inputs and outputs (`cc`, `naming_convention.hh`) | `input_index_map_`, `output_index_map_` | derive a convention, parse indices | silently accepted configurations | only accepted configurations serve; positions follow the names |
| Bucket parsing and padding (`cuda_graph_bucketing.h`) | none | ParseCsvInt64Set, NextBucket, PadWasteRows | boundaries | the smallest bucket that fits |
| Type conversion, string gathering (`libtorch_utils.cc`, `string_utils.cc`) | none | tables, (de)serialization | truncated input | inverse of each other |
| Python runtime (`model.py`) | a loaded package | execute | ragged batches | each request gets its own slice |
| Entry points (`libtorch.cc`) | the state objects | initialize, execute, finalize | ownership on errors | the backend owns what it accepted |

How they interact: Triton calls the entry points; `ModelInstanceExecute` hands a
batch to ProcessRequests, which calls SetInputTensors, Execute and
ReadOutputTensors in that order on the instance's thread. SetInputTensors asks
the bucket cache for a captured bucket and may write the payloads straight into
its static buffers (*prestaging*); Execute asks it for a replay and otherwise
runs the loaded package. Both the cache and the request cycle queue work on CUDA
streams and continue without waiting. The threads of a model's instances meet in
three places: the map of bucket metrics, the stream pool of a device, and, with
weight sharing, the loader of a package.

## 2. The modules

| Module | Models | Extended or instantiated by |
|---|---|---|
| `GraphCache` | the bucket cache of one instance | `MCGraphCache`, `GraphCache_proofs` |
| `RequestContract` | the promise of `TRITONBACKEND_ModelInstanceExecute` about requests (abstract) | `RequestCycle` (refinement) |
| `RequestCycle` | one call of ProcessRequests after another | `MCRequestCycle`, `RequestCycle_proofs` |
| `GraphStreams` | the order of work on the streams of one instance | `MCGraphStreams`, `GraphStreams_proofs` (and, on top of it, `GraphAnswers_proofs`) |
| `ModelInstances` | the constants the parts of one model share | `BucketMetrics`, `CapturePool`, `ModelLifecycle` |
| `BucketMetrics` | the metrics of a model, used by all its instances at once | `Backend`, `BucketMetrics_proofs` |
| `CapturePool` | the stream pool the instances capture and replay on | `Backend`, `CapturePool_proofs` |
| `InputNaming` | which names and types are accepted: naming conventions, validation | `ModelLifecycle` |
| `ModelLifecycle` | a model and its instances from initialization to the end | `Backend` |
| `Backend` | the composition of the three, with a thread per instance | `MCBackend`, `Backend_proofs` (and, on top of it, `ModelLifecycle_proofs`) |

One instance's call is cut at three levels. `GraphCache` follows
the *data* through the buffers and treats the device as synchronous;
`GraphStreams` follows the *order* of work on the device and leaves open which
bucket is chosen and what fits; `RequestCycle` follows the *requests* and
abstracts Execute to which outputs it pushed and what work it left behind. Each
takes as nondeterminism what another decides. `Backend` looks at *all* instances
of a model and at what they share; it leaves open what the other three decide.

### GraphCache

The state is that of `hh:111-145` (`cache`, `failed`, `widthsChecked`,
`prestaged`), the batch in hand, the program counter of the call (`phase`, with
the locals `at` for `b_it` and `slot`, `copying` for the arguments of
ReplayCudaGraphEntry), and the metric increments. Actions are the calls:
`WarmupBucket` is an iteration of WarmupCudaGraphs, `CollectBatch` the lookup
and prestaging block of SetInputTensors with the collection,
`EnterGraphPath` ExecuteWithCudaGraph up to the bucket loop (with the width
check), `SelectCaptured`, `SelectByCapture`, `SkipFailedCapture`,
`NoCandidate`, `PadThrows`, `PadTraps` the ways an iteration can end,
`ReplaySucceeds` and `ReplayFails` ReplayCudaGraphEntry, `RunEager` the rest of
Execute. `tries` is a history variable: it counts captures and influences
nothing.

Abstractions. The instance is KIND_GPU with the graph path on. The three
tensors are a record of rows, elements and request end positions; a row or an
element is one of three marks (of this batch, of an earlier one, zero), the
positions keep their values. Marks age when the next batch arrives. Each
request has one row in `packed_single`, which has rank 2; data types match; outputs have
a row per request of the bucket (an output that does not is the subject of
`RequestCycle`); `request_end_position` is declared as a batch input of
accumulated element counts; `prestaged_entry_`, a pointer into the cache, is
modelled by its key. A capture or a replay may fail wherever the code can throw,
a `copy_` must fit (it broadcasts a dimension of one, as the library does), and
a division by zero is a state of its own, `trapped`: the process is gone.
PadRequestsUp allocates and copies on the device (`cc:429-441`), so `PadThrows` is
possible for every candidate larger than the batch, whether or not the batch
fits. Exhausted host memory is not modelled.

### RequestCycle and RequestContract

`pc` names the statements of ProcessRequests. The three error macros are told
apart by what they reset: `RESPOND_ALL_AND_SET_TRUE_IF_ERROR` is `FailAll`,
`RESPOND_ALL_AND_SET_NULL_IF_ERROR` and the responses of one request are
`Refuse`, which leaves `all_response_failed` as it is. Every call that can fail
does, before or after it queued work; the stream is the set of kinds of work
that may still run, and the device finishes any of it at any time. `outputs`
records which run pushed which output, so that a replay that fails while slicing
shows. A replay of a batch that fills its bucket slices nothing. `advanced` is
the set of requests whose sequence state was updated.

A model has a kind. Only a KIND_GPU instance has the graph path and waits for
its stream after an eager run (`cc:335-340`, the condition is on `device_`, which
is the CPU for KIND_MODEL); a KIND_CPU instance has no stream; a KIND_MODEL
instance uses the first stream of `stream_vec_` and takes the timestamp before
the outputs from the clock.

Abstractions:
RequestsRespondWithError answers and releases the requests that are not null; of
the counting loop only RequestInputByIndex fails; an output either scales with
the requests or has one row; batch outputs are placed as outputs are; a model
keeps states for all its requests or for none; errors of cudaStreamQuery that
stick are left out. Of a KIND_MODEL instance only its own stream is tracked, not
what the package runs elsewhere.

`RequestContract` is what Triton sees: a request is out, held, without a
response object (mute), answered, or lost. The refinement mapping `StateOf`
reads a slot's state off the response pointers, the answers sent and the
releases; a second answer maps to a state the contract does not have. `Drop` is
in the contract because the code has the exception (section 6).

### GraphStreams

A stream is a queue of work, each reading a buffer and writing one; the device
takes the head of any stream. `Launch` is the protocol of ReplayCudaGraphEntry:
`cuda_graph_input_ready_event_` (the graph's stream waits for what is queued on
the instance's), copies, replay, `cuda_graph_output_ready_event_` (the
instance's stream waits for the graph's). A wait is kept as the number of pieces
of work ahead of the event on the other stream, which is what an event is. A
buffer holds the data of the batch in hand or of an earlier one, and `Arrive`
turns the first into the second; the payloads of an earlier batch that are still
queued keep their own buffer. Which graphs exist, which bucket a batch gets and
which stream of the pool a graph has are arbitrary, so that two graphs may share
a stream. `PadThrows` is the exception of the padding, which ends the batch with
its copies queued or not. `SyncInputs`, `EndCapture`, `SyncRun` and `Send` are the
synchronizations: they wait until a queue is empty.

Abstractions: one instance; buffers as a whole, the three inputs as one; event
calls succeed (their return codes are dropped by the code); the exception of a
capture and of a replay is free, but `OrderedFailures` leaves out the one of
section 6 so that the rest can be checked. The one eviction of the cache, which
comes before the first replay, is left to `GraphCache`.

### BucketMetrics

GetOrCreateBucketMetric is three steps of the calling instance's thread,
`FindMetric`, `CreateMetric` and `InsertMetric`, followed by `IncrementMetric`,
since the threads of the instances call it without a lock. `table` is
`cuda_graph_bucket_metrics_`, with Null for a failed creation that is cached;
`handles` are the metrics that exist in the server, each named by its creator;
`asked` is a history of the attempts. Concurrent accesses to a std::map are
undefined: that they happen is what NoDataRace denies, and the other properties
say what holds if each operation still has its sequential effect. Counter values
are left to `GraphCache` (CountedOnce). The server refuses to delete a family
that has a metric left, as `model_state.cc:50-53` relies on.

### CapturePool

`taken` counts how often the pool of a device handed out a stream; the stream is
that number modulo PoolSize, which is what `getStreamFromPool` does. `entries`
and `pinned` are `cuda_graph_cache_` and `cuda_graph_failed_` of each instance,
`graph` the capture or replay it has under way. A capture takes a stream,
succeeds or not; an entry keeps it.

### InputNaming

GetNamingConvention, ValidateInputs, ValidateOutputs and the checks of the
sequence controls as operators on a configuration's tensors. A tensor is what
these checks read off it: is its name of the form `<name>__<index>`, is its type
supported. For boolean controls the check of the type is the library's. Where
an accepted tensor goes in the argument list (AddInputToMap and the output map)
is left out: the code takes the position from the name or from the order and
checks neither range nor repetition, so nothing holds of it that the
configuration did not already promise.

### ModelLifecycle and Backend

`ModelLifecycle` has one action per step in which something is acquired or may
fail: ModelInitialize (ParseParameters and the override of weight sharing),
InstanceInitialize, CreateEvents, ReuseModel, LoadModel, LoadModelFails,
CreateStreams, ValidateNames, InstanceFinalize, ModelFinalize. A constructor
that throws releases its members (the loader) and leaves its raw handles, for
the destructor's body does not run. A loader is a record of how it was made
(owner, runners, single-threaded or not). The server is external: it initializes
instances one after the other, runs them at the same time, and finalizes
instances before the model.

`Backend` gives each instance a thread: construction, warmup (`todo` are the
buckets it has not reached), and batches (`stage` is select, count or eager),
and lets captures, replays and metric calls of different instances interleave.
`owed` are the metric calls an instance has yet to make, in program order.
Abstractions: an exception of the padding counts as `FallBack`; a capture that
fails before it took its stream counts as having taken one; which bucket a batch
needs and how its capture ends is open.

## 3. The runs

| Run | Checks | Distinct states |
|---|---|---|
| `graphcache` | TypeOK, CapturedOrPinned, ReplaysFirstHealthy, CapturesBounded, CountedOnce, ReplayReadsBatch, FailsOnlyInPadding, EvictionSparesPrestaged, ComesToRest | 160 146 |
| `requestcycle_faults` | TypeOK, StatisticsTruthful, SuccessMeansRan, OnlyRowlessBatchesStranded, SuccessIsComplete, StateFollowsSuccess, AnswersArrive, KeepsContract | 72 592 |
| `graphstreams_order` | TypeOK, RaceFree, AnswerIsOwn, CollectionBehindGraph, Drains | 213 860 |
| `backend` | TypeOK, RunnersSuffice, LoaderOnOwnDevice, NothingHeld, GraphsOwnLoader, AskedOnce, IncrementsLive, ReleasedUnlessRaced, StreamsApart, InstanceSettles | 144 741 |
| eight runs that expect a violation | one property each that the code's comments state and the code breaks: section 6 | |

**graphcache** enumerates batches of up to three requests (`MaxRows`)
in eight configurations: warmup at the traffic's widths and at others, with
buckets below and above the batches, an allowlist with a nonpositive bucket and
no warmup, the empty allowlist, a model with two inputs, rows of a single
column. The traffic of a
configuration is ragged (element counts equal, unequal, zero, fewer than the
requests, and too uneven for the padding) or uniform. Two
buckets are enough for the loop to fail in one and go on to the next, and the
state space is complete: every sequence of these batches and failures of every
length is covered, nothing bounds the number of batches. It
shows that the lookup of SetInputTensors and the loop of ExecuteWithCudaGraph
agree on the bucket, that the negative cache and the eviction never contradict
each other, and that each batch is counted once.
FailsOnlyInPadding: what the graph path itself fails a batch by is the padding
to a larger bucket, so neither an unpinned bucket of the batch's own size nor an
empty allowlist ever costs an answer, and under uniform traffic it is the device
that failed the padding, not the shape of the batch. ReplayReadsBatch has the
precondition `UniformTraffic`: a batch answered by a
replay was computed from its own rows, elements and positions with zeros around
them, on the slow and on the prestaged path and after failures half way through
the copies. On ragged batches it does not hold, as the regenerated positions
of a padded batch are those of equal requests: the code states that layout
(`cc:413-424`, "uniform: candidates padded to bucket"), so it is a precondition
and not a finding. `UniformTraffic`
also leaves out requests of a single element, and rows of a single column mixed
with wider ones, because `copy_` broadcasts either into the wider buffers of a
capture instead of failing (`cc:703`). The second exclusion came out of the
proof: without it the step of ReplayReadsBatch fails.

**requestcycle_faults** has two requests of zero to two rows or null, and four
models: a batching one on the graph path that keeps sequence states, one run
eagerly that refers to an output it lacks, one on the CPU that does not batch,
and a KIND_MODEL one. Two requests are enough to tell one
request's fate from the batch's; batches follow each other without bound.
StateFollowsSuccess: success implies that the state moved, and no state moves in
a batch whose run lacks an output. The converse of the first is not promised:
TRITONBACKEND_StateUpdate is called inside the loop over the outputs
(`cc:1373-1376`), and a later output may still fail the batch.

**graphstreams_order** has two buckets, whose graphs are on two pooled streams
or on one. `MaxQueued` bounds the work still queued when the next batch arrives
to one per stream, which is enough for an unfinished replay, copy, response or
eager run of an earlier batch to meet the next; larger bounds only add
longer queues of the same work. RaceFree leaves out the clones of a
capture by name: they race with the padding on the instance's stream, and the
replay that follows overwrites them, which AnswerIsOwn confirms. CollectionBehindGraph, which fails in
`graphstreams_stale_copy`, holds with `OrderedFailures`. Drains: every batch
ends, the host leaves the bucket loop although captures keep failing, and
what it synchronizes with is done in time. That event waits form no circle is not
claimed as a property of the code: an event names work already recorded, so it
holds for any order the host uses.

**backend** takes a model from its initialization to its end. Its configurations:
two instances on one GPU with CUDA graphs and weight sharing both asked for,
with and without warmup; a graph instance beside a CPU one; weight sharing over
two groups one of which is on two GPUs; CPU and MODEL instances on one key; no
sharing; a malformed parameter; and eleven further choices of names and types of
the tensors, two that are accepted and one for each reason to refuse. Three
instances are needed for RunnersSuffice, two for everything that races. One
bucket (the cache's choice among several is `graphcache`), a pool of three
streams so that it can come round with two instances, two devices, and the
metric families in three groups (`Outcomes`) to keep the runs of different
families apart. Nothing bounds the number of batches: a bucket is tried until
captured or pinned, so the counters are finite, except that the eviction
happens once.

Each checked property is shown to depend on the code by a mutant listed in
`PROJECT.json`, a definition with a plausible bug that stands before the one it
mutates in the module and is used by nothing.

## 4. Fairness and deadlock

`FairSpec` of `GraphCache` and `RequestCycle` is weak fairness of the
instance's thread within a call: BLOCKING execution (`libtorch.cc:195-199`)
means that the thread returns only when it is done, every CUDA call is taken to
return, and nothing is assumed about the arrival of batches. `FairSpec` of
`GraphStreams` adds weak fairness of each stream: work that is not waiting for
an event runs. `FairSpec` of `Backend` is weak fairness of each instance's
thread; the server is not fair, it may leave a model alone for ever. No fairness
picks an outcome: a call may fail every time.

Deadlock is checked in `requestcycle_*` and `graphstreams_*`, where one would be
a statement of the host with no way on in some state. It is off in `graphcache*`, since the
process is dead in the state `trapped`, and in `backend*`, since nothing follows
a model that was refused or finalized.

## 5. The proofs

`tlapm` checks every theorem for every value of the constants, under the
assumptions named in the modules and nothing else: `CacheAssumption` (a batch
has one to MaxRows requests and its positions do not decrease),
`CycleAssumption` (the graph path is on only on a GPU), `StreamsAssumption`
(names of streams), `BucketAssumption`, `MetricsAssumption`, `PoolAssumption`
(types), `LifecycleAssumption` (a configuration has finitely many instances, and
a group `count` of them on each of its devices) and `BackendAssumption` (a
KIND_GPU instance is on a device with a stream pool).

`GraphCache_proofs` proves `Spec => []IndInv` and from it TypeCorrect,
CapturedNeverPinned, CaptureBound, ReplayedBucket, BatchesCounted and
SelfHealSparesPrestaged. The properties are not inductive alone.

* CapturesBounded needs `CapturesCounted`: since the last eviction a bucket was
  tried exactly once if it is captured or pinned and not otherwise, and the
  width check, which happens once, is the only eviction.
* ReplaysFirstHealthy needs `PrestagedFits` (a prestaged batch lines up with
  buffers of the bucket the loop would select), `LoopSkipsPinned` (the loop
  has passed pinned buckets only) and CapturedOrPinned.
* EvictionSparesPrestaged, which the comment at `cc:582-586` claims, needs
  `WarmupShapes` (until the width check every entry has the warmup's shape), and
  then the arithmetic of `NoEvictionUnderPrestage`: what lines up with an entry
  of the warmup's shape has the warmup's widths.
* CountedOnce needs `TallyInFlight`, and TypeOK of the buffers needs
  `CopyIsPadded`, so that no padding of a batch without elements is copied.
* GraphPathFailsOnlyInPadding (FailsOnlyInPadding) holds because
  `LoopSkipsPinned`: the loop does not pass the batch's own bucket unless it is
  pinned.
* ReplaysReadTheirBatch (ReplayReadsBatch) and the part of FailsOnlyInPadding on
  uniform traffic need `ReadsInv`: under uniform traffic the buffers of
  every bucket hold one row per request, equally many elements for each and the
  positions of equal requests (`BuffersRegular`); once the widths are checked
  they are as wide as some batch (`WidthsOfTraffic`), so that what fits without
  being broadcast fits exactly; and what a batch was collected into holds it and
  zeros (`PrestagedReads`).

The step is proved group by group (ControlStep, CaptureStep, ShapeStep,
SelectionStep, BuffersStep, TallyStep, then RegularStep, WidthsStep,
PrestagedStep and AnswerStep for `ReadsInv`), each with a step per action.

`RequestCycle_proofs` proves `Spec => []IndInv`, CycleTypeCorrect,
StatisticsAgree, SuccessNeedsOutputs, StrandedOnlyRowless,
StateMovesWithSuccess, SuccessWaitsForCopies, and CycleKeepsContract, the
refinement. The key conjunct is
`AnswersFollowResponses`: a response pointer is not null exactly as long as its
request has no answer, except between the sending and the statistics, where it
means success. `FailedAnswersAll` and `OutputsChecked` carry it over the error
paths. `GateHeld` says that whoever is about to be answered has no copy pending:
the two ways around the Finalize gate, everyone having failed before the outputs
or an error returned while reading them, leave nobody to be answered. The refinement has a step per action: ContractStep names for each the
step of the contract it is, or shows that it stutters.

`GraphStreams_proofs` proves TypeOK whatever fails, and RaceFree
and CollectionBehindGraph under the hypothesis that no replay fails with its
copies queued (`"copy" \notin Failures`; with it, section 6 has the
counterexample: that failure is the only way to break the order). RaceFree speaks of the heads of the queues only; the
invariant has to say what stands anywhere in them. `GraphWork`: a pooled stream
holds work on the buffers of its own graphs, and of the capture in progress.
`InstanceWork`: the instance's stream writes static inputs only of captured
buckets. `LaunchesFenced`: for every copy and replay that is queued, the
instance's stream has a wait for it, and this wait is either at the head or is
behind work the graph's stream first waits for. When the copy or the replay
comes to the head of its stream, the wait is at the head of the instance's and is
not ready. Host steps only append (`Queued`, one lemma per shape of work), the
device takes heads and counts waits down (`DeviceKeeps`), and both preserve the
three. The order does not depend on the pool: graphs may share a stream.

`GraphAnswers_proofs` goes on from there to AnswerIsOwn, under the same
hypothesis. `OwnInv` follows the data of the batch in hand from the request's
payloads to the response: the inputs hold it from the synchronization on
(`InputsOwn`), its padding does or is about to (`PaddingOwn`), and the answer's
source does or is about to (`OutputsOwn`), where "about to" is said of the
queues: the last work that writes the buffer reads one that holds the batch. For
an answer by a graph this is a chain over two streams: the replay is the last
work of its stream, the copy before it is behind a wait for all that may still
change what it reads (`CopyQueued`, `Covered`), and the response's copy is behind
the replay. `ClonesApart` keeps the unordered clones of captures out of the
buckets that are replayed.

`BucketMetrics_proofs` proves `MetricsSpec => []MetricsInv` and NeverAskedTwice,
NeverIncrementsDead, LeakedOnlyByRace. AskedOnce needs `AskedIsCached` (who asked
for a metric has it in the map or is about to insert it); ReleasedUnlessRaced
needs `UnmappedWereRaced` (a metric that is neither mapped nor in its creator's
hand was asked for by a second instance).

`CapturePool_proofs` proves PoolInvariant and StreamsDedicated: what an instance
holds was taken from its device's pool (`HeldWasTaken`) by it alone (`HeldOnce`),
and before the pool comes round different takings are different streams.

`Backend_proofs` shows that `Backend` implements both, `Spec => MetricsSpec` and
`Spec => PoolSpec` (an action of the composition is one of the component or
leaves its variables alone), which carries their results over to the whole model
(ModelAskedOnce, ModelIncrementsLive, ModelLeaksOnlyByRace, ModelStreamsApart).
With `LifeInv` and `PathInv` it proves SharedLoadersMatch, TeardownComplete and
GraphLoadersOwned. TeardownComplete (NothingHeld) is about loaders and about the
graph events and streams of instances whose constructor succeeded: the three
compute events are destroyed by nobody, and the handles of a constructor that
threw are lost (section 6). `ModelOK` says that weight sharing and CUDA graphs exclude
each other and that a shared loader was made for the device it is filed under;
`InstanceOK` says what an instance has at each stage of its thread; `PathOK` that
captures and replays are found on the graph path only.

`ModelLifecycle_proofs` adds what is about a model's configuration.
RunnersForAll (RunnersSuffice): every loader, shared or not, was made with the
`Allowance` of runners, one, or the model's TotalCount when weights are shared
(`RunnersInv`). The arithmetic is `DeviceBound`: the instances placed on a device are no more
than TotalCount sums up over the groups. TotalCount is a recursive function; the
bound is proved from its least counterexample, so that no induction scheme is
needed. BackendTypeCorrect is TypeOK of the composition, by a type for each variable
(`TypesInv`).

Every invariant and action property of the passing runs is thereby proved for all
instances. Only model-checked are the liveness properties (ComesToRest,
AnswersArrive, Drains, InstanceSettles) and the absence of deadlock, which are out
of the prover's reach, and the counterexamples of section 6.

## 6. Where the code and its documentation disagree

Each is a run that violates one property stated by a comment; the quotations are
in `PROJECT.json`.

| Run | Property | What happens |
|---|---|---|
| `graphcache_padding_error` | FallsThroughToEager | a ragged batch whose padded tensor is the shorter one makes PadRequestsUp throw past the fallback, with no failure of the device: every request gets an error |
| `graphcache_stale_positions` | PrestagedPositionsHold | after a ragged batch the static positions are no longer those of the capture, and a prestaged batch replays with them |
| `requestcycle_stranded` | EveryRequestReleased | a batch whose rows sum to zero is neither answered nor released |
| `requestcycle_unsynced_release` | InputsIdleAtRelease | an error of SetInputTensors skips the synchronization, and requests are released under copies |
| `requestcycle_misplaced_outputs` | OutputsInPlace | a replay that fails while slicing leaves outputs in front of those of the eager run |
| `graphstreams_stale_copy` | CollectionBehindGraph | a replay that fails with copies queued records no output event: the next collection is not ordered behind them |
| `backend_metric_race` | NoDataRace | two instances are in the unlocked metric map at once, one inserting |
| `backend_pool_sharing` | CapturesAlone | when the pool has come round, an instance records a graph on the stream another instance is using |

Noticed while modelling, without a run of their own:

* KIND_MODEL: `cc:93-100` says that the streams are synchronized before
  timestamps are taken, `cc:1393-1394` that Execute synchronized; Execute does
  so only if `device_` is not the CPU, which it is for KIND_MODEL.
* A bucket whose warmup capture fails is pinned to eager (`cc:524`), though lazy
  capture is called the safety net for it (`cc:785-787`, `cc:842-843`).
* The comment on naming (`cc:860-863`) speaks of the names of inputs and outputs;
  only output names decide the convention, and an input without `__` then gets
  the position atoi makes of its name after the first character. States are said
  to follow both conventions (`cc:913-914`), only `output_name` is checked.
  An index is checked neither for range nor for repetition.
* A constructor that throws after the graph events were made loses them;
  `hh:91-93` says that the destructor destroys them. The three compute events
  are destroyed by nobody.
* A model whose Create fails after its state was allocated leaks the state
  (`libtorch.cc:102`).

## 7. What is not modelled

* What a KIND_MODEL package runs on other devices' streams.
* Failing event calls, whose results the code drops.
* Parameters that are stored and handed to libraries: thread counts, pinned
  input, cuDNN, inference mode; auto-completion of configurations; ClearCache.
* ParseCsvInt64Set, but for its result: an ordered set that may hold
  nonpositive buckets.
* BYTES inputs, which SetInputTensors refuses; the type tables and the string
  serialization (`libtorch_utils.cc`, `string_utils.cc`): straight-line
  conversions without state, the latter without a caller on this path.
* The Python runtime (`model.py`): no state between batches, no concurrency.
* The position of a tensor in the argument list (AddInputToMap, the output map;
  see `InputNaming` in section 2).
* Triton, CUDA, the responder and the collector are external: they appear as
  what the code relies on (a call fails or succeeds, a stream is in order).
* Build files, packaging and tests.

## 8. The plan

Done: A. `GraphCache` with its proofs; B. `RequestContract`, `RequestCycle` with
its proofs and the refinement; C. `GraphStreams`; D. `BucketMetrics` and
`CapturePool`; E. `InputNaming`, `ModelLifecycle` and the composition `Backend`
with its refinements; F. the proof of RaceFree; G. AnswerIsOwn
from the invariants of `GraphStreams`; H. ReplayReadsBatch and
FailsOnlyInPadding, and the theorems on runners and types.

Left:

I. The kernels of a KIND_MODEL instance on the streams of several devices, with
   the synchronization the comments promise as a property.
