------------------------------- MODULE Backend -------------------------------
(***************************************************************************)
(* One model of the backend with all its instances: the life of the model  *)
(* (ModelLifecycle), the metrics its instances share (BucketMetrics) and   *)
(* the stream pool they capture on (CapturePool), put together the way     *)
(* WarmupCudaGraphs, Execute, ExecuteWithCudaGraph, CaptureBucket and      *)
(* ReplayCudaGraphEntry call them.  Each instance has a thread; the server *)
(* never runs one instance twice at the same time, and all of them at once.*)
(*                                                                         *)
(* Which bucket a batch needs, and whether a capture or a replay succeeds, *)
(* is left open: GraphCache is the detailed model of that choice.          *)
(***************************************************************************)
EXTENDS ModelLifecycle, BucketMetrics, CapturePool

VARIABLES
    todo,     \* buckets the warmup of an instance has not reached
    checked,  \* warmup_widths_checked_
    owed      \* metrics an instance has yet to count, in order

threadVars == <<todo, checked, owed>>
vars == <<lifecycleVars, metricVars, poolVars, threadVars>>

(* An instance of KIND_GPU is on a device that has a stream pool. *)
ASSUME BackendAssumption ==
    \A c \in Configs : \A i \in DOMAIN c.members :
       GroupOf(c, i).kind = "GPU" => c.members[i].device \in Devices

-----------------------------------------------------------------------------
GraphPath(i) == params.graph /\ OnGpu(i)
Settled(i) == owed[i] = <<>> /\ Doing(i, "idle")
Lowest(bs) == {b \in bs : \A c \in bs : b <= c}
Owe(i, keys) == owed' = [owed EXCEPT ![i] = @ \o keys]

Init ==
    /\ LifecycleInit /\ MetricsInit /\ PoolInit
    /\ todo = [i \in Instances |-> {}]
    /\ checked = [i \in Instances |-> FALSE]
    /\ owed = [i \in Instances |-> <<>>]

-----------------------------------------------------------------------------
(* The server *)

CreateModel ==
    /\ ModelInitialize
    /\ IF Parsed(conf).graph THEN InitCudaGraphMetrics ELSE UNCHANGED metricVars
    /\ UNCHANGED <<poolVars, threadVars>>

DestroyModel ==
    /\ ModelFinalize
    /\ DeleteMetrics
    /\ UNCHANGED <<poolVars, threadVars>>

DestroyInstance(i) ==
    /\ InstanceFinalize(i)
    /\ DropEntries(i)
    /\ UNCHANGED <<metricVars, threadVars>>

(* TRITONBACKEND_ModelInstanceExecute up to the choice of the path.  The   *)
(* first batch on the graph path may evict what warmup captured (a model   *)
(* whose layout is not the graphs' never replays: FallBack).               *)
Execute(i) ==
    /\ model = "serving" /\ At(i, "ready")
    /\ Go(i, IF GraphPath(i) THEN "select" ELSE "eager")
    /\ checked' = [checked EXCEPT ![i] = @ \/ GraphPath(i)]
    /\ \/ UNCHANGED poolVars
       \/ GraphPath(i) /\ conf.warmup /\ ~checked[i] /\ DropEntries(i)
    /\ UNCHANGED <<setupVars, loader, events, streams, metricVars, todo, owed>>

Server ==
    \/ CreateModel
    \/ DestroyModel
    \/ /\ ModelInitializeFails \/ StartServing \/ StartUnloading
          \/ \E i \in Instances : InstanceInitialize(i)
       /\ UNCHANGED <<metricVars, poolVars, threadVars>>
    \/ \E i \in Instances : DestroyInstance(i) \/ Execute(i)

-----------------------------------------------------------------------------
(* The thread of an instance: construction and warmup *)

Construct(i) ==
    /\ \/ CreateEvents(i) \/ ReuseModel(i) \/ LoadModel(i) \/ LoadModelFails(i)
       \/ CreateStreams(i)
    /\ UNCHANGED <<metricVars, poolVars, threadVars>>

Validate(i) ==
    /\ ValidateNames(i)
    /\ todo' = [todo EXCEPT ![i] = IF GraphPath(i) /\ conf.warmup THEN Buckets ELSE {}]
    /\ UNCHANGED <<metricVars, poolVars, checked, owed>>

(* A plausible bug: a bucket is left only once it is captured. *)
WarmBucketUntilCaptured(i, bucket) ==
    /\ At(i, "warmup") /\ ~UnderWay(i) /\ Settled(i)
    /\ bucket \in Lowest(todo[i])
    /\ \/ BeginCapture(i, DeviceOf(i), bucket) /\ UNCHANGED todo
       \/ /\ bucket \in DOMAIN entries[i]
          /\ todo' = [todo EXCEPT ![i] = @ \ {bucket}]
          /\ UNCHANGED poolVars
    /\ UNCHANGED <<lifecycleVars, metricVars, checked, owed>>

(* The inputs of a bucket may fail to be allocated: it is passed over. *)
WarmBucket(i, bucket) ==
    /\ At(i, "warmup") /\ ~UnderWay(i) /\ Settled(i)
    /\ bucket \in Lowest(todo[i])
    /\ todo' = [todo EXCEPT ![i] = @ \ {bucket}]
    /\ BeginCapture(i, DeviceOf(i), bucket) \/ UNCHANGED poolVars
    /\ UNCHANGED <<lifecycleVars, metricVars, checked, owed>>

Warmed(i) ==
    /\ At(i, "warmup") /\ ~UnderWay(i) /\ Settled(i)
    /\ todo[i] = {}
    /\ Go(i, "ready")
    /\ UNCHANGED <<setupVars, loader, events, streams, metricVars, poolVars, threadVars>>

-----------------------------------------------------------------------------
(* The thread of an instance: capture, replay and the eager run *)

Select(i, bucket) ==
    /\ At(i, "select") /\ Settled(i)
    /\ BeginCapture(i, DeviceOf(i), bucket) \/ BeginReplay(i, bucket)
    /\ UNCHANGED <<lifecycleVars, metricVars, threadVars>>

Capture(i) ==
    /\ RecordGraph(i)
    /\ UNCHANGED <<lifecycleVars, metricVars, threadVars>>

(* A graph captured for a batch is replayed for it. *)
Captured(i) ==
    /\ CaptureEnds(i, IF At(i, "warmup") THEN "none" ELSE "replaying")
    /\ UNCHANGED <<lifecycleVars, metricVars, threadVars>>

(* A plausible bug: the failure is counted without its bucket. *)
CaptureFailedUnlabeled(i) ==
    /\ CaptureFails(i)
    /\ Owe(i, <<<<"capture_failures", 0>>>>)
    /\ UNCHANGED <<lifecycleVars, metricVars, todo, checked>>

CaptureFailed(i) ==
    /\ CaptureFails(i)
    /\ Owe(i, <<<<"capture_failures", graph[i].bucket>>>>)
    /\ UNCHANGED <<lifecycleVars, metricVars, todo, checked>>

(* No candidate is left, or the layout is another: the unlabeled counter. *)
FallBack(i) ==
    /\ At(i, "select") /\ ~UnderWay(i) /\ Settled(i)
    /\ Go(i, "eager")
    /\ UNCHANGED <<setupVars, loader, events, streams, metricVars, poolVars, threadVars>>

(* The host goes on while the replay drains: it counts the replay, and the *)
(* padding if the bucket is larger than the batch.                         *)
Replayed(i) ==
    LET b == graph[i].bucket
    IN  /\ At(i, "select") /\ graph[i].at = "replaying"
        /\ Go(i, "count")
        /\ \/ Owe(i, <<<<"replays", b>>>>)
           \/ Owe(i, <<<<"replays", b>>, <<"pad_waste", b>>>>)
        /\ UNCHANGED <<setupVars, loader, events, streams, metricVars, poolVars,
                       todo, checked>>

ReplayFailed(i) ==
    /\ At(i, "select")
    /\ EndReplay(i)
    /\ Go(i, "eager")
    /\ UNCHANGED <<setupVars, loader, events, streams, metricVars, threadVars>>

(* The response gate waits for the replay. *)
Responded(i) ==
    /\ At(i, "count") /\ Settled(i)
    /\ EndReplay(i)
    /\ Go(i, "ready")
    /\ UNCHANGED <<setupVars, loader, events, streams, metricVars, threadVars>>

RunEager(i) ==
    /\ At(i, "eager")
    /\ Go(i, "ready")
    /\ UNCHANGED <<setupVars, loader, events, streams, metricVars, poolVars, threadVars>>

(* CudaGraphMetricReplay, PadWaste and CaptureFailure: nothing is done when *)
(* their family could not be created.                                       *)
CountMetric(i) ==
    /\ owed[i] # <<>> /\ Doing(i, "idle")
    /\ IF families[Head(owed[i])[1]] = "live"
         THEN CallMetric(i, Head(owed[i])[1], Head(owed[i])[2])
         ELSE UNCHANGED metricVars
    /\ owed' = [owed EXCEPT ![i] = Tail(@)]
    /\ UNCHANGED <<lifecycleVars, poolVars, todo, checked>>

InCall(i) ==
    /\ MetricStep(i)
    /\ UNCHANGED <<lifecycleVars, poolVars, threadVars>>

Thread(i) ==
    \/ Construct(i) \/ Validate(i)
    \/ \E bucket \in Buckets : WarmBucket(i, bucket) \/ Select(i, bucket)
    \/ Warmed(i)
    \/ Capture(i) \/ Captured(i) \/ CaptureFailed(i)
    \/ FallBack(i) \/ Replayed(i) \/ ReplayFailed(i) \/ Responded(i) \/ RunEager(i)
    \/ CountMetric(i) \/ InCall(i)

Next == Server \/ \E i \in Instances : Thread(i)

Spec == Init /\ [][Next]_vars

(* The thread that constructs an instance, or runs its batch, goes on. *)
FairSpec == Spec /\ \A i \in Instances : WF_vars(Thread(i))

-----------------------------------------------------------------------------
(* Properties *)

TypeOK ==
    /\ LifecycleTypeOK /\ MetricsTypeOK /\ PoolTypeOK
    /\ todo \in [Instances -> SUBSET Buckets]
    /\ checked \in [Instances -> BOOLEAN]
    /\ \A i \in Instances : owed[i] \in Seq(Key)

(* "CUDA-graph capture requires the loader to run single-threaded", and an *)
(* instance that captures or replays shares its loader with no other,      *)
(* whatever the parameters say of weight sharing, and has both the events  *)
(* that order the replay.                                                  *)
GraphsOwnLoader ==
    \A i \in Instances :
       UnderWay(i) =>
          /\ loader[i].single
          /\ Users(loader[i]) = {i}
          /\ Elements(GraphEvents) \subseteq events[i]

(* Construction ends, in a ready instance or in a failed one; a warmup,    *)
(* whatever fails in it, ends ("Never abort instance creation on a warmup  *)
(* failure"), and so does every batch: no thread stays inside for ever.    *)
Inside == Constructing \cup {"select", "eager", "count"}
InstanceSettles == \A i \in Instances : []<>(stage[i] \notin Inside)

-----------------------------------------------------------------------------
(* The inductive invariant behind them *)

Unbuilt == {"absent", "events", "load", "failed", "gone"}
MadeFor(l, pair) ==
    l.owner \in Members /\ DevicePair(l.owner) = pair /\ l.single = params.graph

(* Weight sharing and CUDA graphs exclude each other; the map of shared    *)
(* loaders is keyed by the device each was made for; a model not yet       *)
(* initialized has no instance, and a finalized one none that is built.    *)
ModelOK ==
    /\ conf \in Configs
    /\ ~(params.graph /\ params.sharing)
    /\ \A k \in DOMAIN shared : MadeFor(shared[k], k)
    /\ model = "unloaded" => shared = <<>> /\ \A i \in Instances : At(i, "absent")
    /\ model = "finalized" =>
          shared = <<>> /\ \A i \in Members : stage[i] \in {"absent", "failed", "gone"}

(* What an instance has follows from where its thread is. *)
InstanceOK(i) ==
    /\ ~At(i, "absent") => i \in Members
    /\ At(i, "streams") => ~OnGpu(i)
    /\ stage[i] \in Unbuilt => loader[i] = NoLoader
    /\ stage[i] \notin Unbuilt /\ GraphPath(i) => loader[i] # NoLoader
    /\ (At(i, "load") \/ stage[i] \notin Unbuilt) /\ GraphPath(i) =>
          Elements(GraphEvents) \subseteq events[i]
    /\ loader[i] # NoLoader =>
          /\ i \in Members
          /\ MadeFor(loader[i], DevicePair(i))
          /\ params.sharing \/ loader[i].owner = i
    /\ At(i, "gone") => streams[i] = 0 /\ events[i] \cap Elements(GraphEvents) = {}

LifeInv ==
    /\ DOMAIN stage = Instances /\ DOMAIN loader = Instances
    /\ DOMAIN events = Instances /\ DOMAIN streams = Instances
    /\ ModelOK
    /\ \A i \in Instances : InstanceOK(i)

(* Buckets are warmed, captured and replayed on the graph path only, and   *)
(* what is owed is counted for a bucket of a family.                       *)
PathOK(i) ==
    /\ UnderWay(i) => stage[i] \in {"warmup", "select", "count"} /\ GraphPath(i)
    /\ stage[i] \in {"select", "count"} => GraphPath(i)
    /\ todo[i] # {} => ~At(i, "absent") /\ GraphPath(i)
    /\ owed[i] \in Seq(Key)

PathInv ==
    /\ DOMAIN todo = Instances /\ DOMAIN owed = Instances
    /\ \A i \in Instances : PathOK(i)

BackendInv == LifeInv /\ PathInv /\ PoolInv /\ MetricsInv
-----------------------------------------------------------------------------
(* The inductive invariant behind RunnersSuffice, beside BackendInv        *)

(* A loader is given its runners by the parameters alone, which are those  *)
(* of the configuration from the moment a loader can exist.                *)
Allowance == IF params.sharing THEN params.total ELSE 1
RunnersInv ==
    /\ params \in {NoParams, Parsed(conf)}
    /\ \A k \in DOMAIN shared : shared[k].runners = Allowance
    /\ \A i \in Instances : loader[i] # NoLoader => loader[i].runners = Allowance
=============================================================================
