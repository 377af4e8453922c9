------------------------------ MODULE GraphCache ------------------------------
(***************************************************************************)
(* The CUDA-graph bucket cache of one model instance                       *)
(* (model_instance_state.cc): load-time warmup, the one-time width check,  *)
(* input prestaging, bucket selection with capture on first use, replay,   *)
(* and the fall back to an eager run.  One instance processes its batches  *)
(* one at a time, so the state below belongs to one thread.                *)
(*                                                                         *)
(* The three request-batch tensors are modelled by what the properties     *)
(* tell apart.  Every row of packed_single and every element of            *)
(* packed_multiple is a Mark saying whose data it is, and                  *)
(* request_end_position keeps its values: row i owns the elements after    *)
(* ends[i-1] up to ends[i].                                                *)
(***************************************************************************)
EXTENDS Integers, Sequences

CONSTANTS
    Configs,  \* the model configurations of interest, chosen once in Init,
              \*   each with the batches its clients send
    Batches,  \* the batches the scheduler may hand to the instance
    MaxRows   \* bound on the requests of a batch

Batch == [single : Nat, ends : Seq(Nat)]
Config == [inputs : Nat, buckets : SUBSET Int, single : Int, multi : Int,
           traffic : SUBSET Batches]

(* A batch has at least one request: ProcessRequests returns before any of *)
(* this when total_batch_size is 0.  A nonpositive bucket is legal input,  *)
(* ParseCsvInt64Set keeps it.                                              *)
ASSUME CacheAssumption ==
    /\ MaxRows \in Nat
    /\ Configs \subseteq Config
    /\ Batches \subseteq Batch
    /\ \A b \in Batches :
          /\ Len(b.ends) \in 1..MaxRows
          /\ \A i \in 2..Len(b.ends) : b.ends[i-1] <= b.ends[i]

VARIABLES
    conf,           \* parameters parsed once from config.pbtxt
    phase,          \* where the instance's thread is
    todo,           \* buckets WarmupCudaGraphs has not reached yet
    cache,          \* cuda_graph_cache_: bucket -> static input buffers
    failed,         \* cuda_graph_failed_
    widthsChecked,  \* warmup_widths_checked_
    prestaged,      \* prestaged_bucket_, and with it prestaged_entry_
    batch,          \* the batch in hand
    at,             \* b_it, where the bucket loop has got to
    slot,           \* the bucket to replay, and whether its buffers are
    copying,        \*   first overwritten (copy_from # nullptr)
    answer,         \* how the last batch ended
    tally,          \* metric increments made for the batch in hand
    failures,       \* the capture-failure metric, per bucket
    tries           \* history: captures tried per bucket since an eviction

batchVars == <<batch, answer, tally>>
captureVars == <<cache, failed, failures, tries>>
vars == <<conf, phase, todo, widthsChecked, prestaged, at, slot, copying,
          batchVars, captureVars>>

-----------------------------------------------------------------------------
(* Tensors *)

Mark == {"live", "stale", "zero"}
Inputs == [width : Int, rows : Seq(Mark), elems : Seq(Mark), ends : Seq(Nat)]

None == -1
Keys == 0..MaxRows \cup UNION {c.buckets : c \in Configs}
NoTally == [replay |-> 0, eager |-> 0, waste |-> 0]

Filled(n, mark) == [i \in 1..n |-> mark]
ZeroExtend(s, n) == [i \in 1..n |-> IF i <= Len(s) THEN s[i] ELSE "zero"]
Overwrite(s, n) == [i \in 1..Len(s) |-> IF i <= n THEN "live" ELSE s[i]]
Aged(s) == [i \in 1..Len(s) |-> IF s[i] = "live" THEN "stale" ELSE s[i]]

Requests(b) == Len(b.ends)
Elements(b) == b.ends[Len(b.ends)]
(* R of ExecuteWithCudaGraph: the smallest leading dimension of the three. *)
R == IF Elements(batch) < Requests(batch) THEN Elements(batch)
                                         ELSE Requests(batch)

BatchInputs(b) ==
    [width |-> b.single, rows  |-> Filled(Requests(b), "live"),
     ends  |-> b.ends,   elems |-> Filled(Elements(b), "live")]

WarmupInputs(bucket) ==
    [width |-> conf.single,
     rows  |-> Filled(bucket, "zero"),
     elems |-> Filled(bucket * conf.multi, "zero"),
     ends  |-> [i \in 1..bucket |-> i * conf.multi]]

PadRequestsUp(in, r, bucket) ==
    [width |-> in.width,
     rows  |-> ZeroExtend(in.rows, (Len(in.rows) \div r) * bucket),
     elems |-> ZeroExtend(in.elems, (Len(in.elems) \div r) * bucket),
     ends  |-> [i \in 1..bucket |-> i * (Len(in.elems) \div r)]]

(* narrow(0, 0, t.size(0)) throws when a padded tensor is the shorter one. *)
PadFits(in, r, bucket) ==
    LET out == PadRequestsUp(in, r, bucket)
    IN  Len(in.rows) <= Len(out.rows) /\ Len(in.elems) <= Len(out.elems)

InputsAt(bucket) == IF bucket = R THEN BatchInputs(batch)
                                  ELSE PadRequestsUp(BatchInputs(batch), R, bucket)

(* Tensor::copy_ broadcasts a source dimension of 1. *)
FitsInto(n, m) == n = m \/ n = 1
Broadcast(s, n) == IF Len(s) = n THEN s ELSE [i \in 1..n |-> s[1]]
CopyFits(e, in, i) ==
    CASE i = 1 -> FitsInto(Len(in.rows), Len(e.rows)) /\ FitsInto(in.width, e.width)
      [] i = 2 -> FitsInto(Len(in.elems), Len(e.elems))
      [] i = 3 -> FitsInto(Len(in.ends), Len(e.ends))

(* The static buffers after the first n of the three copies. *)
CopyInto(e, in, n) ==
    [e EXCEPT !.rows  = IF n >= 1 THEN Broadcast(in.rows, Len(e.rows)) ELSE @,
              !.elems = IF n >= 2 THEN Broadcast(in.elems, Len(e.elems)) ELSE @,
              !.ends  = IF n >= 3 THEN Broadcast(in.ends, Len(e.ends)) ELSE @]

-----------------------------------------------------------------------------
(* Bucket selection *)

First(S) == {b \in S : \A c \in S : b <= c}
Healthy(buckets, r) == {b \in buckets : b >= r /\ b \notin failed}

(* A plausible bug: the bucket loop forgets the negative cache. *)
CandidateIgnoringFailures ==
    First({b \in (IF conf.buckets = {} THEN {R} ELSE conf.buckets) : b >= at})

(* A plausible bug: the loop starts past r (upper_bound for lower_bound). *)
CandidatePastOwn ==
    First({b \in Healthy(IF conf.buckets = {} THEN {R} ELSE conf.buckets, at) : b > R})

(* The bucket loop; an empty allowlist means the exact count is the bucket. *)
Candidate == First(Healthy(IF conf.buckets = {} THEN {R} ELSE conf.buckets, at))

(* A plausible bug: a bucket that is not captured yet is passed over. *)
ReadyPastUncaptured(r) ==
    First(Healthy(conf.buckets, r) \cap DOMAIN cache)

(* FindReadyCudaGraphEntry, as the set of its at most one hit. *)
Ready(r) ==
    IF conf.buckets = {} THEN {r} \cap DOMAIN cache
                         ELSE First(Healthy(conf.buckets, r)) \cap DOMAIN cache

FindReady(r) == IF Ready(r) = {} THEN None ELSE CHOOSE b \in Ready(r) : TRUE

(* One declared input of n batch elements against a static buffer of numel *)
(* elements and leading dimension dim0, at r requests in the bucket.       *)
LinesUp(n, numel, dim0, r, bucket) ==
    /\ numel % bucket = 0
    /\ dim0 % bucket = 0
    /\ n = r * (numel \div bucket)
    /\ n > 0

Uniform(b) == \A i \in 1..Requests(b) : b.ends[i] = i * b.ends[1]

(* A plausible bug: the widths are left out of the prestaging decision. *)
ViableAtAnyWidth(e, bucket, b) ==
    /\ conf.inputs = 3
    /\ bucket >= Requests(b)
    /\ Uniform(b)
    /\ Len(e.ends) % bucket = 0

Viable(e, bucket, b) ==
    /\ conf.inputs = 3
    /\ bucket >= Requests(b)
    /\ LinesUp(Requests(b) * b.single, Len(e.rows) * e.width, Len(e.rows),
               Requests(b), bucket)
    /\ LinesUp(Elements(b), Len(e.elems), Len(e.elems), Requests(b), bucket)
    /\ Uniform(b)
    /\ Len(e.ends) % bucket = 0

(* A plausible bug: the tail keeps the rows of a previous, larger batch. *)
PrestageLeavingTail(e, bucket, b) ==
    [e EXCEPT !.rows  = Overwrite(@, Requests(b) * (Len(@) \div bucket)),
              !.elems = Overwrite(@, Requests(b) * (Len(@) \div bucket))]

(* Direct collection of the declared inputs, and the zeroing of the tail.  *)
(* request_end_position is a batch input: its collection is skipped.       *)
Prestage(e, bucket, b) ==
    [e EXCEPT
       !.rows  = ZeroExtend(Filled(Requests(b) * (Len(@) \div bucket), "live"), Len(@)),
       !.elems = ZeroExtend(Filled(Requests(b) * (Len(@) \div bucket), "live"), Len(@))]

-----------------------------------------------------------------------------
(* Load time *)

WarmupOn == conf.single > 0 /\ conf.multi > 0 /\ conf.buckets # {}

Init ==
    /\ conf \in Configs
    /\ phase = "warmup"
    /\ todo = IF WarmupOn THEN conf.buckets ELSE {}
    /\ cache = <<>> /\ failed = {}
    /\ widthsChecked = FALSE
    /\ prestaged = None
    /\ batch \in Batches
    /\ at = 0 /\ slot = None /\ copying = FALSE
    /\ answer = "none" /\ tally = NoTally
    /\ failures = [k \in Keys |-> 0] /\ tries = [k \in Keys |-> 0]

(* CaptureBucket: the clone of the inputs becomes the entry's buffers ... *)
CaptureBucket(bucket, in) ==
    /\ cache' = [k \in DOMAIN cache \cup {bucket} |->
                   IF k = bucket THEN in ELSE cache[k]]
    /\ tries' = [tries EXCEPT ![bucket] = @ + 1]
    /\ UNCHANGED <<failed, failures>>

(* A plausible bug: the failure is not remembered. *)
CaptureForgotten(bucket) ==
    /\ tries' = [tries EXCEPT ![bucket] = @ + 1]
    /\ failures' = [failures EXCEPT ![bucket] = @ + 1]
    /\ UNCHANGED <<cache, failed>>

(* ... or the bucket is pinned to eager, and the partial graph leaked. *)
CaptureFails(bucket) ==
    /\ failed' = failed \cup {bucket}
    /\ tries' = [tries EXCEPT ![bucket] = @ + 1]
    /\ failures' = [failures EXCEPT ![bucket] = @ + 1]
    /\ UNCHANGED cache

(* One iteration of the warmup loop.  Allocating the zero inputs may throw *)
(* before the capture starts, as it does for a negative bucket.            *)
WarmupBucket(bucket) ==
    /\ phase = "warmup"
    /\ bucket \in First(todo)
    /\ todo' = todo \ {bucket}
    /\ \/ bucket >= 0 /\ CaptureBucket(bucket, WarmupInputs(bucket))
       \/ bucket >= 0 /\ CaptureFails(bucket)
       \/ UNCHANGED captureVars
    /\ UNCHANGED <<conf, phase, widthsChecked, prestaged, at, slot, copying,
                   batchVars>>

GoReady ==
    /\ phase = "warmup" /\ todo = {}
    /\ phase' = "idle"
    /\ UNCHANGED <<conf, todo, widthsChecked, prestaged, at, slot, copying,
                   batchVars, captureVars>>

-----------------------------------------------------------------------------
(* ProcessRequests up to Execute: the marks of the last batch become stale *)
(* as the next one arrives.                                                *)

AgedCache ==
    [k \in DOMAIN cache |->
       [cache[k] EXCEPT !.rows = Aged(@), !.elems = Aged(@)]]

NewBatch(b, outcome) ==
    /\ phase = "idle"
    /\ b \in conf.traffic
    /\ batch' = b
    /\ answer' = outcome /\ tally' = NoTally
    /\ UNCHANGED <<conf, todo, widthsChecked, at, slot, copying, failed,
                   failures, tries>>

CollectBatch(b) ==
    LET k == FindReady(Requests(b))
        viable == k # None /\ Viable(cache[k], k, b)
    IN  /\ NewBatch(b, "none")
        /\ phase' = "collected"
        /\ prestaged' = IF viable THEN k ELSE None
        /\ cache' = IF viable THEN [AgedCache EXCEPT ![k] = Prestage(@, k, b)]
                              ELSE AgedCache

(* A failed event record or an error of SetInputTensors before collection: *)
(* every request is answered with it, and prestaged_entry_ stays as it is. *)
RejectBatch(b) ==
    /\ NewBatch(b, "rejected")
    /\ prestaged' \in {None, FindReady(Requests(b))}
    /\ cache' = AgedCache
    /\ phase' = "idle"

(* RecordBackendTimestamp fails after the inputs were collected: Execute is *)
(* skipped, and the prestaged entry is still set when the call returns.     *)
AbortBatch ==
    /\ phase = "collected"
    /\ phase' = "idle" /\ answer' = "rejected"
    /\ UNCHANGED <<conf, todo, widthsChecked, prestaged, batch, at, slot,
                   copying, tally, captureVars>>

-----------------------------------------------------------------------------
(* ExecuteWithCudaGraph *)

SetupUnchanged == UNCHANGED <<conf, todo, batch>>

OtherLayout ==
    /\ phase = "collected"
    /\ conf.inputs # 3
    /\ phase' = "eager"
    /\ tally' = [tally EXCEPT !.eager = @ + 1]
    /\ SetupUnchanged
    /\ UNCHANGED <<widthsChecked, prestaged, at, slot, copying, answer, captureVars>>

WidthMismatch ==
    /\ conf.single > 0 /\ conf.multi > 0
    /\ R > 0
    /\ \/ batch.single # conf.single
       \/ Elements(batch) \div R # conf.multi

(* The one-time width check, then the prestaged replay or the bucket loop. *)
EnterGraphPath ==
    LET evict == ~widthsChecked /\ WidthMismatch
        held  == IF evict THEN None ELSE prestaged
    IN  /\ phase = "collected"
        /\ conf.inputs = 3
        /\ widthsChecked' = TRUE
        /\ cache' = IF evict THEN <<>> ELSE cache
        /\ failed' = IF evict THEN {} ELSE failed
        /\ tries' = IF evict THEN [k \in Keys |-> 0] ELSE tries
        /\ phase' = IF held # None THEN "replay" ELSE "select"
        /\ slot' = held /\ copying' = FALSE
        /\ at' = R
        /\ prestaged' = None
        /\ SetupUnchanged
        /\ UNCHANGED <<answer, tally, failures>>

SelectUnchanged ==
    /\ SetupUnchanged
    /\ UNCHANGED <<widthsChecked, prestaged>>

(* A plausible bug: only an allowlist exhausted by failures is handled. *)
NoCandidateAboveLargest ==
    /\ phase = "select"
    /\ Candidate = {} /\ \E b \in conf.buckets : b >= R
    /\ phase' = "eager"
    /\ tally' = [tally EXCEPT !.eager = @ + 1]
    /\ SelectUnchanged
    /\ UNCHANGED <<at, slot, copying, answer, captureVars>>

NoCandidate ==
    /\ phase = "select"
    /\ Candidate = {}
    /\ phase' = "eager"
    /\ tally' = [tally EXCEPT !.eager = @ + 1]
    /\ SelectUnchanged
    /\ UNCHANGED <<at, slot, copying, answer, captureVars>>

(* PadRequestsUp divides by R: with no element in the batch that is a *)
(* division by zero, which kills the process.                         *)
PadTraps ==
    /\ phase = "select"
    /\ R = 0 /\ \E bucket \in Candidate : bucket # R
    /\ phase' = "trapped"
    /\ SelectUnchanged
    /\ UNCHANGED <<at, slot, copying, answer, tally, captureVars>>

(* PadRequestsUp allocates and copies on the device, which may fail for    *)
(* any inputs, and cannot succeed where they do not fit.  Its exception is *)
(* caught by Execute, which answers every request with the error.          *)
PadThrows ==
    /\ phase = "select"
    /\ R > 0
    /\ \E bucket \in Candidate : bucket # R
    /\ phase' = "idle" /\ answer' = "error"
    /\ SelectUnchanged
    /\ UNCHANGED <<at, slot, copying, tally, captureVars>>

Paddable(bucket) ==
    bucket = R \/ (R > 0 /\ PadFits(BatchInputs(batch), R, bucket))

SelectCaptured ==
    /\ phase = "select"
    /\ \E bucket \in Candidate \cap DOMAIN cache :
          Paddable(bucket) /\ slot' = bucket
    /\ phase' = "replay" /\ copying' = TRUE
    /\ SelectUnchanged
    /\ UNCHANGED <<at, answer, tally, captureVars>>

SelectByCapture ==
    /\ phase = "select"
    /\ \E bucket \in Candidate \ DOMAIN cache :
          /\ Paddable(bucket)
          /\ CaptureBucket(bucket, InputsAt(bucket))
          /\ slot' = bucket
    /\ phase' = "replay" /\ copying' = TRUE
    /\ SelectUnchanged
    /\ UNCHANGED <<at, answer, tally>>

SkipFailedCapture ==
    /\ phase = "select"
    /\ \E bucket \in Candidate \ DOMAIN cache :
          /\ Paddable(bucket)
          /\ CaptureFails(bucket)
          /\ at' = bucket + 1
    /\ UNCHANGED <<phase, slot, copying, answer, tally>>
    /\ SelectUnchanged

-----------------------------------------------------------------------------
(* ReplayCudaGraphEntry, and the eager run of Execute *)

Copied(n) == IF copying THEN CopyInto(cache[slot], InputsAt(slot), n)
                        ELSE cache[slot]

(* A plausible bug: the operands swapped. *)
PadWasteRowsReversed(r, bucket) == IF bucket > r THEN r - bucket ELSE 0

PadWasteRows(r, bucket) == IF bucket > r THEN bucket - r ELSE 0

ReplaySucceeds ==
    /\ phase = "replay"
    /\ copying => \A i \in 1..3 : CopyFits(cache[slot], InputsAt(slot), i)
    /\ cache' = [cache EXCEPT ![slot] = Copied(3)]
    /\ phase' = "idle" /\ answer' = "graph"
    /\ tally' = [tally EXCEPT !.replay = @ + 1,
                              !.waste = @ + PadWasteRows(R, slot)]
    /\ SetupUnchanged
    /\ UNCHANGED <<widthsChecked, prestaged, at, slot, copying, failed,
                   failures, tries>>

(* A plausible bug: the fall back after a failed replay is not counted. *)
ReplayFailsUncounted ==
    /\ phase = "replay"
    /\ \E n \in (IF copying THEN 0..3 ELSE {0}) :
          /\ \A i \in 1..n : CopyFits(cache[slot], InputsAt(slot), i)
          /\ cache' = [cache EXCEPT ![slot] = Copied(n)]
    /\ phase' = "eager"
    /\ SetupUnchanged
    /\ UNCHANGED <<widthsChecked, prestaged, at, slot, copying, answer, tally,
                   failed, failures, tries>>

(* A copy_ that does not fit throws, and so may any CUDA call: the buffers *)
(* copied before it keep the new content.                                  *)
ReplayFails ==
    /\ phase = "replay"
    /\ \E n \in (IF copying THEN 0..3 ELSE {0}) :
          /\ \A i \in 1..n : CopyFits(cache[slot], InputsAt(slot), i)
          /\ cache' = [cache EXCEPT ![slot] = Copied(n)]
    /\ phase' = "eager"
    /\ tally' = [tally EXCEPT !.eager = @ + 1]
    /\ SetupUnchanged
    /\ UNCHANGED <<widthsChecked, prestaged, at, slot, copying, answer, failed,
                   failures, tries>>

RunEager ==
    /\ phase = "eager"
    /\ phase' = "idle"
    /\ answer' \in {"eager", "error"}
    /\ SetupUnchanged
    /\ UNCHANGED <<widthsChecked, prestaged, at, slot, copying, tally, captureVars>>

-----------------------------------------------------------------------------
Warmup == GoReady \/ \E bucket \in todo : WarmupBucket(bucket)

Select == \/ NoCandidate \/ PadTraps \/ PadThrows
          \/ SelectCaptured \/ SelectByCapture \/ SkipFailedCapture

Execute == \/ OtherLayout \/ EnterGraphPath \/ Select
           \/ ReplaySucceeds \/ ReplayFails \/ RunEager

Next == \/ Warmup
        \/ \E b \in Batches : CollectBatch(b) \/ RejectBatch(b)
        \/ AbortBatch
        \/ Execute

Spec == Init /\ [][Next]_vars

(* The thread that loads the instance, or runs a batch, keeps running. *)
FairSpec == Spec /\ WF_vars(Warmup) /\ WF_vars(Execute)

-----------------------------------------------------------------------------
(* Properties *)

(* Type correctness of the instance's state: the control state, and the    *)
(* buffers of every captured bucket.                                       *)
ControlTypeOK ==
    /\ conf \in Configs
    /\ phase \in {"warmup", "idle", "collected", "select", "replay", "eager",
                  "trapped"}
    /\ todo \subseteq (IF WarmupOn THEN conf.buckets ELSE {})
    /\ widthsChecked \in BOOLEAN
    /\ prestaged \in Keys \cup {None}
    /\ batch \in Batches
    /\ at \in Nat
    /\ slot \in Keys \cup {None}
    /\ copying \in BOOLEAN
    /\ answer \in {"none", "graph", "eager", "rejected", "error"}
    /\ tally \in [replay : Nat, eager : Nat, waste : Nat]

CaptureTypeOK ==
    /\ DOMAIN cache \subseteq Keys
    /\ failed \subseteq Keys
    /\ failures \in [Keys -> Nat]
    /\ tries \in [Keys -> Nat]

BuffersTypeOK == \A k \in DOMAIN cache : cache[k] \in Inputs

TypeOK == ControlTypeOK /\ CaptureTypeOK /\ BuffersTypeOK

(* A bucket is never both captured and pinned to eager: the prestaging     *)
(* lookup and the bucket loop, which consult the two in different orders   *)
(* when the allowlist is empty, would disagree about it.                   *)
CapturedOrPinned == DOMAIN cache \cap failed = {}

(* The self-heal never pulls the buffers from under a prestaged batch,     *)
(* whose inputs are views of them: the claim of the comment in             *)
(* ExecuteWithCudaGraph that prestaged_entry_ "cannot actually be set".    *)
EvictionSparesPrestaged ==
    [][EnterGraphPath /\ ~widthsChecked /\ WidthMismatch => prestaged = None]_vars

(* Whichever path chose it, a batch replays the first bucket >= R that is  *)
(* not pinned to eager, and that bucket is captured: FindReady mirrors the *)
(* selection of ExecuteWithCudaGraph.                                      *)
ReplaysFirstHealthy ==
    phase = "replay" =>
       /\ slot \in DOMAIN cache
       /\ slot >= R
       /\ \A b \in conf.buckets : b >= R /\ b < slot => b \in failed

(* No retry storm: between evictions each bucket is captured at most once, *)
(* and over the instance's life at most two captures of it fail and leak.  *)
CapturesBounded == \A k \in Keys : tries[k] <= 1 /\ failures[k] <= 2

(* Every batch that ran is counted once, as a replay or as a fallback, and *)
(* under the counter of the path that answered it.  A batch that was       *)
(* refused before Execute, or failed in the padding, is counted nowhere.   *)
CountedOnce ==
    phase = "idle" =>
       /\ answer = "graph" => tally.replay = 1 /\ tally.eager = 0
       /\ answer = "eager" => tally.replay = 0 /\ tally.eager = 1
       /\ answer = "error" => tally.replay = 0 /\ tally.eager <= 1
       /\ answer = "rejected" => tally = NoTally

(* Warmup ends and every batch is answered, whatever captures and replays  *)
(* fail, unless the padding kills the process: the bucket loop ends.       *)
ComesToRest == phase # "idle" ~> phase \in {"idle", "trapped"}

ReadsBatch(e) ==
    /\ e.width = batch.single
    /\ \A i \in 1..Len(e.rows) :
          e.rows[i] = IF i <= Requests(batch) THEN "live" ELSE "zero"
    /\ \A i \in 1..Len(e.elems) :
          e.elems[i] = IF i <= Elements(batch) THEN "live" ELSE "zero"
    /\ \A i \in 1..Requests(batch) : i <= Len(e.ends) /\ e.ends[i] = batch.ends[i]
    /\ Len(e.rows) >= Requests(batch) /\ Len(e.elems) >= Elements(batch)

(* The layout the padding is written for: within a batch every request has *)
(* as many elements, and more than one, and rows of a single column are    *)
(* not mixed with wider ones.  copy_ would broadcast a batch of a single   *)
(* element, or column, into wider buffers instead of failing.              *)
UniformTraffic ==
    \A b \in conf.traffic :
       /\ Uniform(b) /\ b.ends[1] >= 2
       /\ \A c \in conf.traffic : c.single = b.single \/ b.single # 1

(* Under uniform traffic a batch answered by a replay was computed from    *)
(* its own rows, elements and request end positions, every other row being *)
(* zero: PadRequestsUp's "dummy requests are inert" and "a zero-padded     *)
(* cumsum would be wrong".                                                 *)
ReplayReadsBatch ==
    UniformTraffic /\ phase = "idle" /\ answer = "graph" =>
       ReadsBatch(cache[slot])

(* "A bucket's batch-input content is invariant across batches (uniform    *)
(* per-request widths make the accumulated-count values identical to what  *)
(* capture recorded)": a prestaged batch, which is uniform, replays with   *)
(* its own request end positions although their collection was skipped.    *)
PrestagedPositionsHold ==
    phase = "idle" /\ answer = "graph" /\ ~copying =>
       \A i \in 1..Requests(batch) : cache[slot].ends[i] = batch.ends[i]

(* "Falls through to the eager run below if capture is not possible for    *)
(* these inputs": a batch fails without an eager run only where the device *)
(* failed its padding, never for the shape of its inputs.                  *)
FallsThroughToEager ==
    phase = "idle" /\ answer = "error" /\ tally.eager = 0 =>
       \A bucket \in Candidate : Paddable(bucket)

(* What the graph path may fail a batch by: the padding to a bucket larger *)
(* than the batch.  Not without an allowlist, not while the bucket of the  *)
(* batch's own size is healthy, and under uniform traffic not by the       *)
(* arithmetic of the padding, but by the device alone.                     *)
FailsOnlyInPadding ==
    phase = "idle" /\ answer = "error" /\ tally.eager = 0 =>
       /\ conf.buckets # {}
       /\ R \in conf.buckets => R \in failed
       /\ UniformTraffic => \A bucket \in Candidate : Paddable(bucket)

-----------------------------------------------------------------------------
(* The inductive invariant behind the properties above *)

(* A capture in the current epoch (since load, or since the eviction) left *)
(* its bucket captured or pinned, and only the width check starts another. *)
CapturesCounted ==
    /\ phase = "warmup" => ~widthsChecked /\ todo \cap (DOMAIN cache \cup failed) = {}
    /\ \A k \in Keys :
          /\ tries[k] = IF k \in DOMAIN cache \cup failed THEN 1 ELSE 0
          /\ failures[k] <= (IF k \in failed THEN 1 ELSE 0)
                              + (IF widthsChecked THEN 1 ELSE 0)

(* Until the width check every entry has the warmup's shape. *)
WarmupShapes ==
    /\ phase \in {"select", "replay"} => widthsChecked
    /\ ~widthsChecked =>
          \A k \in DOMAIN cache :
             /\ cache[k].width = conf.single
             /\ Len(cache[k].rows) = k
             /\ Len(cache[k].elems) = k * conf.multi

(* A collected batch is prestaged only in buffers it lines up with, at the *)
(* bucket the loop would select.                                           *)
PrestagedFits ==
    phase = "collected" /\ prestaged # None =>
       /\ prestaged \in DOMAIN cache
       /\ Viable(cache[prestaged], prestaged, batch)
       /\ prestaged >= Requests(batch)
       /\ \A b \in conf.buckets : b >= Requests(batch) /\ b < prestaged => b \in failed

(* The bucket loop has passed only pinned buckets. *)
LoopSkipsPinned ==
    phase = "select" =>
       /\ at >= R
       /\ \A b \in conf.buckets : b >= R /\ b < at => b \in failed

(* What is copied into the static buffers could be padded. *)
CopyIsPadded == phase = "replay" /\ copying => slot = R \/ R > 0

(* The counters while a batch is under way. *)
TallyInFlight ==
    /\ phase \in {"warmup", "collected", "select", "replay"} => tally = NoTally
    /\ phase = "eager" => tally.replay = 0 /\ tally.eager = 1
    /\ phase # "idle" => answer = "none"

IndInv ==
    /\ TypeOK
    /\ CapturedOrPinned
    /\ CapturesCounted
    /\ WarmupShapes
    /\ PrestagedFits
    /\ LoopSkipsPinned
    /\ ReplaysFirstHealthy
    /\ CopyIsPadded
    /\ TallyInFlight
    /\ CountedOnce

-----------------------------------------------------------------------------
(* The inductive invariant behind ReplayReadsBatch and FailsOnlyInPadding, *)
(* beside IndInv                                                           *)

OnTraffic == phase \notin {"warmup", "idle", "trapped"} => batch \in conf.traffic

(* The static buffers of a bucket hold one row and one position for each   *)
(* of its requests, and equally many elements.                             *)
Regular(e, bucket) ==
    /\ Len(e.rows) = bucket /\ Len(e.ends) = bucket
    /\ \E m \in 0..Len(e.elems) :
          /\ Len(e.elems) = bucket * m
          /\ \A i \in 1..bucket : e.ends[i] = i * m

BuffersRegular == \A k \in DOMAIN cache : Regular(cache[k], k)

(* From the width check on, the buffers are as wide as some batch; before  *)
(* it, they are the warmup's.                                              *)
WidthsOfTraffic ==
    /\ widthsChecked =>
          \A k \in DOMAIN cache : \E c \in conf.traffic : cache[k].width = c.single
    /\ ~widthsChecked /\ DOMAIN cache # {} => conf.single > 0 /\ conf.multi > 0

(* Buffers the batch was collected into hold nothing else. *)
PrestagedReads ==
    /\ phase = "collected" /\ prestaged # None => ReadsBatch(cache[prestaged])
    /\ phase = "replay" /\ ~copying => ReadsBatch(cache[slot])

ReadsInv ==
    /\ OnTraffic
    /\ UniformTraffic => /\ BuffersRegular
                         /\ WidthsOfTraffic
                         /\ PrestagedReads
    /\ ReplayReadsBatch
    /\ FailsOnlyInPadding

=============================================================================
