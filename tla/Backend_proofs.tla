---------------------------- MODULE Backend_proofs ----------------------------
(***************************************************************************)
(* Machine-checked proofs about Backend, for every set of configurations,  *)
(* instances, devices and buckets: the composition implements its parts    *)
(* (BucketMetrics and CapturePool), so that what is proved of them holds   *)
(* of it, and the properties of loaders, events and teardown follow from   *)
(* the inductive invariant BackendInv.                                     *)
(***************************************************************************)
EXTENDS Backend, BucketMetrics_proofs, CapturePool_proofs, SequenceTheorems

LifeFunctions ==
    /\ DOMAIN stage = Instances /\ DOMAIN loader = Instances
    /\ DOMAIN events = Instances /\ DOMAIN streams = Instances

-----------------------------------------------------------------------------
(* Facts about the operators *)

(* The device pair of an instance is a matter of the configuration. *)
LEMMA PairsStay ==
    ASSUME conf' = conf, NEW i
    PROVE  /\ Members' = Members /\ OnGpu(i)' = OnGpu(i) /\ KindOf(i)' = KindOf(i)
           /\ DeviceOf(i)' = DeviceOf(i) /\ DevicePair(i)' = DevicePair(i)
BY DEF Members, OnGpu, KindOf, DeviceOf, DevicePair

(* CUDA graphs switch weight sharing off, whatever the configuration asks. *)
LEMMA GraphsOverrideSharing ==
    ASSUME NEW c
    PROVE  ~(Parsed(c).graph /\ Parsed(c).sharing)
BY DEF Parsed

(* The graph events are created last. *)
LEMMA AllEvents ==
    LET all == ComputeEvents \o GraphEvents
    IN  /\ all \in Seq({"input_start", "infer_start", "output_start",
                        "graph_input_ready", "graph_output_ready"})
        /\ Len(all) = 5 /\ SubSeq(all, 1, 5) = all
        /\ Elements(GraphEvents) \subseteq Elements(all)
<1>. DEFINE S == {"input_start", "infer_start", "output_start",
                  "graph_input_ready", "graph_output_ready"}
            all == ComputeEvents \o GraphEvents
<1>1. ComputeEvents \in Seq(S) /\ Len(ComputeEvents) = 3
  BY DEF ComputeEvents
<1>2. GraphEvents \in Seq(S) /\ Len(GraphEvents) = 2
  BY DEF GraphEvents
<1>3. /\ all \in Seq(S) /\ Len(all) = 5
      /\ \A n \in 1..2 : all[n + 3] = GraphEvents[n]
  <2>. HIDE DEF S
  <2>1. /\ all \in Seq(S) /\ Len(all) = Len(ComputeEvents) + Len(GraphEvents)
        /\ \A n \in 1..(Len(ComputeEvents) + Len(GraphEvents)) :
              all[n] = IF n <= Len(ComputeEvents) THEN ComputeEvents[n]
                       ELSE GraphEvents[n - Len(ComputeEvents)]
    BY <1>1, <1>2, ConcatProperties
  <2>. HIDE DEF all
  <2>2. ASSUME NEW n \in 1..2 PROVE all[n + 3] = GraphEvents[n]
    <3>1. n + 3 \in 1..5 /\ ~(n + 3 <= 3) /\ (n + 3) - 3 = n
      OBVIOUS
    <3>. QED  BY <1>1, <1>2, <2>1, <3>1
  <2>. QED  BY <1>1, <1>2, <2>1, <2>2
<1>4. SubSeq(all, 1, 5) = all
  BY <1>3, SubSeqFull
<1>5. ASSUME NEW n \in DOMAIN GraphEvents
      PROVE  GraphEvents[n] \in Elements(all)
  <2>1. n \in 1..2
    BY <1>2
  <2>2. n + 3 \in DOMAIN all /\ all[n + 3] = GraphEvents[n]
    BY <1>3, <2>1
  <2>. QED  BY <2>2 DEF Elements
<1>. QED  BY <1>3, <1>4, <1>5 DEF Elements

LEMMA NoParamsExclude == ~(NoParams.graph /\ NoParams.sharing)
BY DEF NoParams

-----------------------------------------------------------------------------
(* What a step of the lifecycle keeps.  Most steps leave the parameters    *)
(* and the map of shared loaders alone and touch one instance.             *)

(* The other instances are as they were. *)
LEMMA OthersKept ==
    ASSUME NEW j \in Instances, InstanceOK(j), conf' = conf, params' = params,
           stage'[j] = stage[j], loader'[j] = loader[j],
           events'[j] = events[j], streams'[j] = streams[j]
    PROVE  InstanceOK(j)'
BY PairsStay DEF InstanceOK, MadeFor, GraphPath, At

(* A step of one instance of a model that stays initialized. *)
LEMMA OneInstance ==
    ASSUME LifeInv, LifeFunctions', NEW i \in Instances,
           conf' = conf, params' = params, model' = model, shared' = shared,
           stage[i] \notin {"absent", "failed", "gone"},
           InstanceOK(i)',
           \A j \in Instances \ {i} :
              /\ stage'[j] = stage[j] /\ loader'[j] = loader[j]
              /\ events'[j] = events[j] /\ streams'[j] = streams[j]
    PROVE  LifeInv'
<1>1. \A j \in Instances : InstanceOK(j)'
  BY OthersKept DEF LifeInv
<1>2. i \in Members
  BY DEF LifeInv, InstanceOK, At
<1>3. model # "unloaded" /\ model # "finalized"
  BY <1>2 DEF LifeInv, ModelOK, At
<1>4. ModelOK'
  <2>1. \A k \in DOMAIN shared : MadeFor(shared[k], k)'
    BY PairsStay DEF LifeInv, ModelOK, MadeFor
  <2>. QED  BY <1>3, <2>1, PairsStay DEF LifeInv, ModelOK, MadeFor
<1>. QED  BY <1>1, <1>4 DEF LifeInv, LifeFunctions

(* A step that only takes the model on. *)
LEMMA ModelOnly ==
    ASSUME LifeInv, conf' = conf, params' = params, shared' = shared,
           UNCHANGED instanceVars,
           model' \notin {"unloaded", "finalized"}
    PROVE  LifeInv'
<1>. USE DEF instanceVars
<1>1. \A j \in Instances : InstanceOK(j)'
  BY OthersKept DEF LifeInv
<1>2. ModelOK'
  <2>1. \A k \in DOMAIN shared : MadeFor(shared[k], k)'
    BY PairsStay DEF LifeInv, ModelOK, MadeFor
  <2>. QED  BY <2>1 DEF LifeInv, ModelOK, MadeFor
<1>. QED  BY <1>1, <1>2 DEF LifeInv

(* A step of the thread of an instance that is built. *)
LEMMA StageOnly ==
    ASSUME LifeInv, UNCHANGED <<setupVars, loader, events, streams>>,
           NEW i \in Instances, NEW s, Go(i, s),
           stage[i] \notin Unbuilt, s \notin Unbuilt \cup {"streams"}
    PROVE  LifeInv'
<1>. USE DEF setupVars
<1>1. /\ DOMAIN stage' = Instances /\ stage'[i] = s
      /\ \A j \in Instances : j # i => stage'[j] = stage[j]
  BY DEF Go, LifeInv
<1>2. InstanceOK(i)'
  BY <1>1, PairsStay DEF LifeInv, InstanceOK, MadeFor, GraphPath, At, Unbuilt
<1>3. LifeFunctions'
  BY <1>1 DEF LifeFunctions, LifeInv
<1>. QED  BY <1>1, <1>2, <1>3, OneInstance DEF Unbuilt

(* A step of other parts of the model. *)
LEMMA LifeKept == LifeInv /\ UNCHANGED lifecycleVars => LifeInv'
<1>. SUFFICES ASSUME LifeInv, UNCHANGED lifecycleVars PROVE LifeInv'
  OBVIOUS
<1>. USE DEF lifecycleVars, setupVars, instanceVars
<1>1. \A j \in Instances : InstanceOK(j)'
  BY OthersKept DEF LifeInv
<1>2. ModelOK'
  <2>1. \A k \in DOMAIN shared : MadeFor(shared[k], k)'
    BY PairsStay DEF LifeInv, ModelOK, MadeFor
  <2>. QED  BY <2>1, PairsStay DEF LifeInv, ModelOK, MadeFor, At
<1>. QED  BY <1>1, <1>2 DEF LifeInv

-----------------------------------------------------------------------------
(* One lemma per action of ModelLifecycle *)

LEMMA InitLifeInv == Init => LifeInv
<1>. SUFFICES ASSUME Init PROVE LifeInv
  OBVIOUS
<1>. USE DEF Init, LifecycleInit
<1>1. DOMAIN shared = {}
  BY EmptyDomain
<1>2. \A i \in Instances : stage[i] = "absent" /\ loader[i] = NoLoader
  OBVIOUS
<1>3. ModelOK
  BY <1>1, <1>2, NoParamsExclude DEF ModelOK, At
<1>4. \A i \in Instances : InstanceOK(i)
  BY <1>2 DEF InstanceOK, At, Unbuilt
<1>. QED  BY <1>3, <1>4 DEF LifeInv

LEMMA ModelInitializeKeepsLife == LifeInv /\ ModelInitialize => LifeInv'
<1>. SUFFICES ASSUME LifeInv, ModelInitialize PROVE LifeInv'
  OBVIOUS
<1>. USE DEF ModelInitialize, instanceVars
<1>1. /\ \A i \in Instances : At(i, "absent") /\ loader[i] = NoLoader
      /\ shared = <<>>
  BY DEF LifeInv, ModelOK, InstanceOK, At, Unbuilt
<1>2. DOMAIN shared' = {}
  BY <1>1, EmptyDomain
<1>3. ModelOK'
  BY <1>1, <1>2, GraphsOverrideSharing DEF LifeInv, ModelOK, At
<1>4. \A i \in Instances : InstanceOK(i)'
  BY <1>1 DEF InstanceOK, At, Unbuilt
<1>. QED  BY <1>3, <1>4 DEF LifeInv

LEMMA ModelFinalizeKeepsLife == LifeInv /\ ModelFinalize => LifeInv'
<1>. SUFFICES ASSUME LifeInv, ModelFinalize PROVE LifeInv'
  OBVIOUS
<1>. USE DEF ModelFinalize, instanceVars
<1>1. \A j \in Instances : InstanceOK(j)'
  BY OthersKept DEF LifeInv
<1>2. DOMAIN shared' = {}
  BY EmptyDomain
<1>3. ModelOK'
  BY <1>2, PairsStay DEF LifeInv, ModelOK, At
<1>. QED  BY <1>1, <1>3 DEF LifeInv

LEMMA InstanceInitializeKeepsLife ==
    ASSUME LifeInv, NEW i \in Instances, InstanceInitialize(i)
    PROVE  LifeInv'
<1>. USE DEF InstanceInitialize, setupVars
<1>1. /\ DOMAIN stage' = Instances
      /\ stage'[i] = IF OnGpu(i) THEN "events" ELSE "load"
      /\ \A j \in Instances : j # i => stage'[j] = stage[j]
      /\ loader[i] = NoLoader
  BY DEF Go, LifeInv, InstanceOK, At, Unbuilt
<1>2. InstanceOK(i)'
  BY <1>1, PairsStay DEF LifeInv, InstanceOK, GraphPath, At, Unbuilt
<1>3. \A j \in Instances : InstanceOK(j)'
  BY <1>1, <1>2, OthersKept DEF LifeInv
<1>4. ModelOK'
  <2>1. \A k \in DOMAIN shared : MadeFor(shared[k], k)'
    BY PairsStay DEF LifeInv, ModelOK, MadeFor
  <2>. QED  BY <2>1 DEF LifeInv, ModelOK
<1>. QED  BY <1>1, <1>3, <1>4 DEF LifeInv

LEMMA CreateEventsKeepsLife ==
    ASSUME LifeInv, NEW i \in Instances, CreateEvents(i)
    PROVE  LifeInv'
<1>. DEFINE wanted == ComputeEvents \o (IF params.graph THEN GraphEvents ELSE <<>>)
<1>1. PICK n \in 0..Len(wanted) :
         /\ events' = [events EXCEPT ![i] = Elements(SubSeq(wanted, 1, n))]
         /\ Go(i, IF n = Len(wanted) THEN "load" ELSE "failed")
  BY DEF CreateEvents
<1>2. At(i, "events") /\ UNCHANGED <<setupVars, loader, streams>>
  BY DEF CreateEvents
<1>3. /\ DOMAIN stage' = Instances
      /\ stage'[i] = (IF n = Len(wanted) THEN "load" ELSE "failed")
      /\ \A j \in Instances : j # i => stage'[j] = stage[j]
  BY <1>1 DEF Go, LifeInv
<1>4. /\ DOMAIN events' = Instances
      /\ events'[i] = Elements(SubSeq(wanted, 1, n))
      /\ \A j \in Instances : j # i => events'[j] = events[j]
  BY <1>1 DEF LifeInv
<1>5. loader[i] = NoLoader /\ i \in Members
  BY <1>2 DEF LifeInv, InstanceOK, At, Unbuilt
<1>6. n = Len(wanted) /\ params.graph => Elements(GraphEvents) \subseteq events'[i]
  <2>. SUFFICES ASSUME n = Len(wanted), params.graph
                PROVE  Elements(GraphEvents) \subseteq events'[i]
    OBVIOUS
  <2>1. wanted = ComputeEvents \o GraphEvents /\ Len(wanted) = 5
    BY AllEvents
  <2>2. SubSeq(wanted, 1, n) = wanted
    BY <2>1, AllEvents
  <2>. QED  BY <1>4, <2>1, <2>2, AllEvents
<1>7. InstanceOK(i)'
  BY <1>2, <1>3, <1>5, <1>6, PairsStay DEF InstanceOK, GraphPath, At, Unbuilt, setupVars
<1>8. LifeFunctions'
  BY <1>2, <1>3, <1>4 DEF LifeFunctions, LifeInv
<1>. QED  BY <1>2, <1>3, <1>4, <1>7, <1>8, OneInstance DEF At, setupVars

(* An instance gets its loader. *)
LEMMA LoadedOK ==
    ASSUME LifeInv, NEW i \in Instances, At(i, "load"), NEW l,
           conf' = conf, params' = params, UNCHANGED <<events, streams>>,
           loader' = [loader EXCEPT ![i] = l], Loaded(i),
           MadeFor(l, DevicePair(i)), params.sharing \/ l.owner = i
    PROVE  /\ LifeFunctions' /\ InstanceOK(i)'
           /\ \A j \in Instances \ {i} : stage'[j] = stage[j] /\ loader'[j] = loader[j]
<1>1. /\ DOMAIN stage' = Instances
      /\ stage'[i] = IF KindOf(i) = "MODEL" THEN "streams" ELSE "validate"
      /\ \A j \in Instances : j # i => stage'[j] = stage[j]
  BY DEF Loaded, Go, LifeInv
<1>2. /\ DOMAIN loader' = Instances /\ loader'[i] = l
      /\ \A j \in Instances : j # i => loader'[j] = loader[j]
  BY DEF LifeInv
<1>3. i \in Members
  BY DEF LifeInv, InstanceOK, At
<1>4. KindOf(i) = "MODEL" => ~OnGpu(i)
  BY DEF OnGpu
<1>5. GraphPath(i) => l # NoLoader /\ Elements(GraphEvents) \subseteq events[i]
  <2>1. GraphPath(i) => Elements(GraphEvents) \subseteq events[i]
    BY DEF LifeInv, InstanceOK
  <2>2. GraphPath(i) => l.single
    BY DEF GraphPath, MadeFor
  <2>3. ~NoLoader.single
    BY DEF NoLoader
  <2>. QED  BY <2>1, <2>2, <2>3
<1>6. MadeFor(l, DevicePair(i))'
  BY PairsStay DEF MadeFor
<1>7. InstanceOK(i)'
  BY <1>1, <1>2, <1>3, <1>4, <1>5, <1>6, PairsStay DEF InstanceOK, GraphPath, At, Unbuilt
<1>. QED  BY <1>1, <1>2, <1>7 DEF LifeFunctions, LifeInv

LEMMA ReuseModelKeepsLife ==
    ASSUME LifeInv, NEW i \in Instances, ReuseModel(i)
    PROVE  LifeInv'
<1>. DEFINE l == shared[DevicePair(i)]
<1>1. MadeFor(l, DevicePair(i)) /\ params.sharing
  BY DEF ReuseModel, LifeInv, ModelOK
<1>2. /\ LifeFunctions' /\ InstanceOK(i)'
      /\ \A j \in Instances \ {i} : stage'[j] = stage[j] /\ loader'[j] = loader[j]
  BY <1>1, LoadedOK DEF ReuseModel, setupVars
<1>. QED  BY <1>2, OneInstance DEF ReuseModel, setupVars, At

LEMMA LoadModelKeepsLife ==
    ASSUME LifeInv, NEW i \in Instances, LoadModel(i)
    PROVE  LifeInv'
<1>. DEFINE new == [owner |-> i, runners |-> Runners(i), single |-> params.graph]
<1>1. /\ At(i, "load") /\ Loaded(i)
      /\ loader' = [loader EXCEPT ![i] = new]
      /\ shared' = IF ~params.sharing THEN shared
                   ELSE [k \in DOMAIN shared \cup {DevicePair(i)} |->
                           IF k = DevicePair(i) THEN new ELSE shared[k]]
      /\ UNCHANGED <<conf, model, params, events, streams>>
  BY DEF LoadModel
<1>2. i \in Members /\ new.owner = i /\ new.single = params.graph
  BY <1>1 DEF LifeInv, InstanceOK, At
<1>. HIDE DEF new
<1>3. MadeFor(new, DevicePair(i))
  BY <1>2 DEF MadeFor
<1>4. /\ LifeFunctions' /\ InstanceOK(i)'
      /\ \A j \in Instances \ {i} : stage'[j] = stage[j] /\ loader'[j] = loader[j]
  BY <1>1, <1>2, <1>3, LoadedOK
<1>5. \A j \in Instances : InstanceOK(j)'
  BY <1>1, <1>4, OthersKept DEF LifeInv
<1>6. \A k \in DOMAIN shared' : MadeFor(shared'[k], k)
  BY <1>1, <1>3 DEF LifeInv, ModelOK
<1>7. \A k \in DOMAIN shared' : MadeFor(shared[k], k)'
  BY <1>1, <1>6, PairsStay DEF MadeFor
<1>8. model # "unloaded" /\ model # "finalized"
  BY <1>1, <1>2 DEF LifeInv, ModelOK, At
<1>9. ModelOK'
  BY <1>1, <1>7, <1>8 DEF LifeInv, ModelOK
<1>. QED  BY <1>4, <1>5, <1>9 DEF LifeInv, LifeFunctions

LEMMA LoadModelFailsKeepsLife ==
    ASSUME LifeInv, NEW i \in Instances, LoadModelFails(i)
    PROVE  LifeInv'
<1>. USE DEF LoadModelFails, setupVars
<1>1. /\ DOMAIN stage' = Instances /\ stage'[i] = "failed"
      /\ \A j \in Instances : j # i => stage'[j] = stage[j]
      /\ loader[i] = NoLoader /\ i \in Members
  BY DEF Go, LifeInv, InstanceOK, At, Unbuilt
<1>2. InstanceOK(i)'
  BY <1>1, PairsStay DEF InstanceOK, GraphPath, At, Unbuilt
<1>3. LifeFunctions'
  BY <1>1 DEF LifeFunctions, LifeInv
<1>. QED  BY <1>1, <1>2, <1>3, OneInstance DEF At

(* A constructor that throws, and the destructor, release the loader. *)
LEMMA ReleaseKeepsLife ==
    ASSUME LifeInv, UNCHANGED setupVars, NEW i \in Instances, NEW s \in {"failed", "gone"},
           stage[i] \notin {"absent", "failed", "gone"},
           Go(i, s), Release(i), LifeFunctions',
           \A j \in Instances \ {i} : events'[j] = events[j] /\ streams'[j] = streams[j],
           s = "gone" => streams'[i] = 0 /\ events'[i] \cap Elements(GraphEvents) = {}
    PROVE  LifeInv'
<1>. USE DEF setupVars
<1>1. /\ stage'[i] = s /\ loader'[i] = NoLoader
      /\ \A j \in Instances : j # i => stage'[j] = stage[j] /\ loader'[j] = loader[j]
  BY DEF Go, Release, LifeInv
<1>2. i \in Members
  BY DEF LifeInv, InstanceOK, At
<1>3. InstanceOK(i)'
  BY <1>1, <1>2, PairsStay DEF InstanceOK, GraphPath, At, Unbuilt
<1>. QED  BY <1>1, <1>3, OneInstance

LEMMA CreateStreamsKeepsLife ==
    ASSUME LifeInv, NEW i \in Instances, CreateStreams(i)
    PROVE  LifeInv'
<1>1. PICK n \in 0..DeviceCount, m \in 0..Len(ComputeEvents) :
         /\ streams' = [streams EXCEPT ![i] = n]
         /\ events' = [events EXCEPT ![i] = Elements(SubSeq(ComputeEvents, 1, m))]
         /\ \/ Go(i, "validate") /\ UNCHANGED loader
            \/ Go(i, "failed") /\ Release(i)
  BY DEF CreateStreams
<1>2. /\ At(i, "streams") /\ UNCHANGED setupVars
      /\ stage[i] = "streams" /\ ~OnGpu(i) /\ i \in Members
  BY DEF CreateStreams, LifeInv, InstanceOK, At
<1>3. /\ DOMAIN streams' = Instances /\ DOMAIN events' = Instances
      /\ \A j \in Instances \ {i} : events'[j] = events[j] /\ streams'[j] = streams[j]
  BY <1>1 DEF LifeInv
<1>4. CASE Go(i, "validate") /\ UNCHANGED loader
  <2>1. /\ DOMAIN stage' = Instances /\ stage'[i] = "validate"
        /\ \A j \in Instances : j # i => stage'[j] = stage[j]
    BY <1>4 DEF Go, LifeInv
  <2>2. InstanceOK(i)'
    BY <1>2, <1>4, <2>1, PairsStay DEF LifeInv, InstanceOK, MadeFor, GraphPath, At,
                                       Unbuilt, setupVars
  <2>3. LifeFunctions'
    BY <1>3, <1>4, <2>1 DEF LifeFunctions, LifeInv
  <2>. QED  BY <1>2, <1>3, <1>4, <2>1, <2>2, <2>3, OneInstance DEF setupVars
<1>5. CASE Go(i, "failed") /\ Release(i)
  <2>1. LifeFunctions'
    BY <1>3, <1>5 DEF LifeFunctions, LifeInv, Go, Release
  <2>. QED  BY <1>2, <1>3, <1>5, <2>1, ReleaseKeepsLife
<1>. QED  BY <1>1, <1>4, <1>5

LEMMA ValidateNamesKeepsLife ==
    ASSUME LifeInv, NEW i \in Instances, ValidateNames(i)
    PROVE  LifeInv'
<1>1. /\ stage[i] = "validate" /\ UNCHANGED <<setupVars, events, streams>>
      /\ \/ Go(i, "failed") /\ Release(i)
         \/ Go(i, "warmup") /\ UNCHANGED loader
  BY DEF ValidateNames, At
<1>2. CASE Go(i, "failed") /\ Release(i)
  <2>1. LifeFunctions'
    BY <1>1, <1>2 DEF LifeFunctions, LifeInv, Go, Release
  <2>. QED  BY <1>1, <1>2, <2>1, ReleaseKeepsLife
<1>3. CASE Go(i, "warmup") /\ UNCHANGED loader
  BY <1>1, <1>3, StageOnly DEF Unbuilt
<1>. QED  BY <1>1, <1>2, <1>3

LEMMA InstanceFinalizeKeepsLife ==
    ASSUME LifeInv, NEW i \in Instances, InstanceFinalize(i)
    PROVE  LifeInv'
<1>1. /\ stage[i] = "ready" /\ UNCHANGED setupVars
      /\ Go(i, "gone") /\ Release(i)
      /\ events' = [events EXCEPT ![i] = @ \ Elements(GraphEvents)]
      /\ streams' = [streams EXCEPT ![i] = 0]
  BY DEF InstanceFinalize, At
<1>2. /\ LifeFunctions'
      /\ \A j \in Instances \ {i} : events'[j] = events[j] /\ streams'[j] = streams[j]
      /\ streams'[i] = 0 /\ events'[i] \cap Elements(GraphEvents) = {}
  BY <1>1 DEF LifeFunctions, LifeInv, Go, Release
<1>. QED  BY <1>1, <1>2, ReleaseKeepsLife

(* The steps of the composition, by what they do to the lifecycle. *)
LEMMA ServerKeepsLife == LifeInv /\ Server => LifeInv'
<1>. SUFFICES ASSUME LifeInv, Server PROVE LifeInv'
  OBVIOUS
<1>1. CASE CreateModel
  BY <1>1, ModelInitializeKeepsLife DEF CreateModel
<1>2. CASE DestroyModel
  BY <1>2, ModelFinalizeKeepsLife DEF DestroyModel
<1>3. CASE ModelInitializeFails \/ StartServing \/ StartUnloading
  BY <1>3, ModelOnly DEF ModelInitializeFails, StartServing, StartUnloading
<1>4. ASSUME NEW i \in Instances, InstanceInitialize(i) PROVE LifeInv'
  BY <1>4, InstanceInitializeKeepsLife
<1>5. ASSUME NEW i \in Instances, DestroyInstance(i) PROVE LifeInv'
  BY <1>5, InstanceFinalizeKeepsLife DEF DestroyInstance
<1>6. ASSUME NEW i \in Instances, Execute(i) PROVE LifeInv'
  <2>1. stage[i] = "ready" /\ UNCHANGED <<setupVars, loader, events, streams>>
    BY <1>6 DEF Execute, At
  <2>2. Go(i, "select") \/ Go(i, "eager")
    BY <1>6 DEF Execute
  <2>. QED  BY <2>1, <2>2, StageOnly DEF Unbuilt
<1>. QED  BY <1>1, <1>2, <1>3, <1>4, <1>5, <1>6 DEF Server

LEMMA ThreadKeepsLife ==
    ASSUME LifeInv, NEW i \in Instances, Thread(i)
    PROVE  LifeInv'
<1>1. CASE Construct(i)
  BY <1>1, CreateEventsKeepsLife, ReuseModelKeepsLife, LoadModelKeepsLife,
     LoadModelFailsKeepsLife, CreateStreamsKeepsLife DEF Construct
<1>2. CASE Validate(i)
  BY <1>2, ValidateNamesKeepsLife DEF Validate
<1>3. CASE \/ \E bucket \in Buckets : WarmBucket(i, bucket) \/ Select(i, bucket)
           \/ Capture(i) \/ Captured(i) \/ CaptureFailed(i)
           \/ CountMetric(i) \/ InCall(i)
  BY <1>3, LifeKept DEF WarmBucket, Select, Capture, Captured, CaptureFailed,
                        CountMetric, InCall
<1>4. CASE Warmed(i) \/ FallBack(i) \/ Replayed(i) \/ ReplayFailed(i)
           \/ Responded(i) \/ RunEager(i)
  <2>1. /\ stage[i] \in {"warmup", "select", "count", "eager"}
        /\ UNCHANGED <<setupVars, loader, events, streams>>
        /\ Go(i, "ready") \/ Go(i, "eager") \/ Go(i, "count")
    BY <1>4 DEF Warmed, FallBack, Replayed, ReplayFailed, Responded, RunEager, At
  <2>. QED  BY <2>1, StageOnly DEF Unbuilt
<1>. QED  BY <1>1, <1>2, <1>3, <1>4 DEF Thread

-----------------------------------------------------------------------------
(* The composition implements its parts: a step of the model is a step of  *)
(* the metrics and a step of the pool, or leaves them alone.               *)

(* A metric that is counted is one of a family and a bucket. *)
LEMMA StepRefinesMetrics ==
    PathInv /\ [Next]_vars => [MetricsNext]_metricVars
<1>. SUFFICES ASSUME PathInv, [Next]_vars PROVE [MetricsNext]_metricVars
  OBVIOUS
<1>1. CASE CreateModel
  BY <1>1 DEF CreateModel, MetricsNext
<1>2. CASE DestroyModel
  BY <1>2 DEF DestroyModel, MetricsNext
<1>3. CASE /\ ModelInitializeFails \/ StartServing \/ StartUnloading
              \/ \E i \in Instances : InstanceInitialize(i)
           /\ UNCHANGED <<metricVars, poolVars, threadVars>>
  BY <1>3
<1>4. ASSUME NEW i \in Instances, DestroyInstance(i) \/ Execute(i)
      PROVE  UNCHANGED metricVars
  BY <1>4 DEF DestroyInstance, Execute
<1>5. ASSUME NEW i \in Instances, Thread(i)
      PROVE  [MetricsNext]_metricVars
  <2>1. CASE CountMetric(i)
    <3>1. CASE UNCHANGED metricVars
      BY <3>1
    <3>2. CASE CallMetric(i, Head(owed[i])[1], Head(owed[i])[2])
      <4>1. owed[i] \in Seq(Key) /\ owed[i] # <<>>
        BY <2>1 DEF CountMetric, PathInv, PathOK
      <4>2. Head(owed[i]) \in Key
        BY <4>1
      <4>3. Head(owed[i])[1] \in BucketFamily /\ Head(owed[i])[2] \in Buckets
        BY <4>2 DEF Key
      <4>. QED  BY <3>2, <4>3 DEF MetricsNext
    <3>. QED  BY <2>1, <3>1, <3>2 DEF CountMetric
  <2>2. CASE InCall(i)
    BY <2>2 DEF InCall, MetricsNext
  <2>3. CASE Construct(i) \/ Validate(i) \/ Warmed(i) \/ Capture(i) \/ Captured(i)
             \/ CaptureFailed(i) \/ FallBack(i) \/ Replayed(i) \/ ReplayFailed(i)
             \/ Responded(i) \/ RunEager(i)
             \/ \E bucket \in Buckets : WarmBucket(i, bucket) \/ Select(i, bucket)
    BY <2>3 DEF Construct, Validate, Warmed, Capture, Captured, CaptureFailed, FallBack,
         Replayed, ReplayFailed, Responded, RunEager, WarmBucket, Select
  <2>. QED  BY <1>5, <2>1, <2>2, <2>3 DEF Thread
<1>6. CASE UNCHANGED vars
  BY <1>6 DEF vars
<1>. QED  BY <1>1, <1>2, <1>3, <1>4, <1>5, <1>6 DEF Next, Server

(* An instance on the graph path is on a device with a pool. *)
LEMMA GraphPathHasPool ==
    ASSUME LifeInv, NEW i \in Instances, GraphPath(i), ~At(i, "absent")
    PROVE  DeviceOf(i) \in Devices
<1>1. i \in DOMAIN conf.members /\ conf \in Configs
  BY DEF LifeInv, ModelOK, InstanceOK, Members
<1>2. GroupOf(conf, i).kind = "GPU"
  BY DEF GraphPath, OnGpu, KindOf
<1>. QED  BY <1>1, <1>2, BackendAssumption DEF BackendAssumption, DeviceOf

LEMMA StepRefinesPool ==
    LifeInv /\ PathInv /\ [Next]_vars => [PoolNext]_poolVars
<1>. SUFFICES ASSUME LifeInv, PathInv, [Next]_vars PROVE [PoolNext]_poolVars
  OBVIOUS
<1>1. CASE CreateModel \/ DestroyModel
           \/ /\ ModelInitializeFails \/ StartServing \/ StartUnloading
                 \/ \E i \in Instances : InstanceInitialize(i)
              /\ UNCHANGED <<metricVars, poolVars, threadVars>>
  BY <1>1 DEF CreateModel, DestroyModel
<1>2. ASSUME NEW i \in Instances, DestroyInstance(i) \/ Execute(i)
      PROVE  UNCHANGED poolVars \/ DropEntries(i)
  BY <1>2 DEF DestroyInstance, Execute
<1>3. ASSUME NEW i \in Instances, Thread(i)
      PROVE  UNCHANGED poolVars \/ GraphStep(i)
  <2>1. ASSUME NEW bucket \in Buckets, WarmBucket(i, bucket)
        PROVE  UNCHANGED poolVars \/ GraphStep(i)
    <3>1. GraphPath(i) /\ ~At(i, "absent")
      BY <2>1 DEF WarmBucket, PathInv, PathOK, Lowest, At
    <3>. QED  BY <2>1, <3>1, GraphPathHasPool DEF WarmBucket, GraphStep
  <2>2. ASSUME NEW bucket \in Buckets, Select(i, bucket)
        PROVE  GraphStep(i)
    <3>1. GraphPath(i) /\ ~At(i, "absent")
      BY <2>2 DEF Select, PathInv, PathOK, At
    <3>. QED  BY <2>2, <3>1, GraphPathHasPool DEF Select, GraphStep
  <2>3. CASE Capture(i) \/ Captured(i) \/ CaptureFailed(i) \/ ReplayFailed(i) \/ Responded(i)
    BY <2>3 DEF Capture, Captured, CaptureFailed, ReplayFailed, Responded, GraphStep
  <2>4. CASE Construct(i) \/ Validate(i) \/ Warmed(i) \/ FallBack(i) \/ Replayed(i)
             \/ RunEager(i) \/ CountMetric(i) \/ InCall(i)
    BY <2>4 DEF Construct, Validate, Warmed, FallBack, Replayed, RunEager, CountMetric, InCall
  <2>. QED  BY <1>3, <2>1, <2>2, <2>3, <2>4 DEF Thread
<1>4. CASE UNCHANGED vars
  BY <1>4 DEF vars
<1>. QED  BY <1>1, <1>2, <1>3, <1>4 DEF Next, Server, PoolNext, GraphStep

-----------------------------------------------------------------------------
(* What the threads of the instances keep *)

(* A step of one instance. *)
LEMMA PathOfOne ==
    ASSUME PathInv, NEW i \in Instances, conf' = conf, params' = params,
           DOMAIN todo' = Instances, DOMAIN owed' = Instances, PathOK(i)',
           \A j \in Instances \ {i} :
              /\ stage'[j] = stage[j] /\ graph'[j] = graph[j]
              /\ todo'[j] = todo[j] /\ owed'[j] = owed[j]
    PROVE  PathInv'
<1>1. \A j \in Instances \ {i} : PathOK(j)'
  BY PairsStay DEF PathInv, PathOK, UnderWay, GraphPath, At
<1>. QED  BY <1>1 DEF PathInv

(* A step that takes an instance from a stage without graphs to another. *)
LEMMA PathOfStage ==
    ASSUME LifeInv, PathInv, NEW i \in Instances, NEW s, Go(i, s),
           conf' = conf, params' = params, UNCHANGED <<graph, threadVars>>,
           stage[i] \notin {"warmup", "select", "count"}, s # "absent",
           s \in {"select", "count"} => GraphPath(i)
    PROVE  PathInv'
<1>. USE DEF threadVars
<1>1. stage'[i] = s /\ \A j \in Instances \ {i} : stage'[j] = stage[j]
  BY DEF Go, LifeInv
<1>2. PathOK(i)'
  BY <1>1, PairsStay DEF PathInv, PathOK, UnderWay, GraphPath, At
<1>. QED  BY <1>1, <1>2, PathOfOne DEF PathInv

(* A step of the model. *)
LEMMA PathKept ==
    ASSUME PathInv, UNCHANGED <<conf, params, stage, graph, threadVars>>
    PROVE  PathInv'
<1>. USE DEF threadVars
<1>1. \A j \in Instances : PathOK(j)'
  BY PairsStay DEF PathInv, PathOK, UnderWay, GraphPath, At
<1>. QED  BY <1>1 DEF PathInv

LEMMA InitPathInv == Init => PathInv
<1>. SUFFICES ASSUME Init PROVE PathInv
  OBVIOUS
<1>1. ASSUME NEW i \in Instances PROVE PathOK(i)
  <2>1. stage[i] = "absent" /\ todo[i] = {} /\ owed[i] = <<>>
    BY DEF Init, LifecycleInit
  <2>2. graph[i].at = "none"
    BY DEF Init, PoolInit, NoGraph
  <2>3. <<>> \in Seq(Key)
    OBVIOUS
  <2>. QED  BY <2>1, <2>2, <2>3 DEF PathOK, UnderWay
<1>. QED  BY <1>1 DEF Init, PathInv

LEMMA ServerKeepsPath == LifeInv /\ PathInv /\ Server => PathInv'
<1>. SUFFICES ASSUME LifeInv, PathInv, Server PROVE PathInv'
  OBVIOUS
<1>1. CASE CreateModel
  <2>1. \A i \in Instances : stage[i] = "absent" /\ stage'[i] = "absent"
    BY <1>1 DEF CreateModel, ModelInitialize, instanceVars, LifeInv, ModelOK, At
  <2>2. UNCHANGED <<graph, todo, owed>>
    BY <1>1 DEF CreateModel, poolVars, threadVars
  <2>3. \A i \in Instances : PathOK(i)'
    BY <2>1, <2>2 DEF PathInv, PathOK, UnderWay, At
  <2>. QED  BY <2>2, <2>3 DEF PathInv
<1>2. CASE DestroyModel
  BY <1>2, PathKept DEF DestroyModel, ModelFinalize, instanceVars, poolVars
<1>3. CASE /\ ModelInitializeFails \/ StartServing \/ StartUnloading
           /\ UNCHANGED <<metricVars, poolVars, threadVars>>
  BY <1>3, PathKept DEF ModelInitializeFails, StartServing, StartUnloading,
                        instanceVars, poolVars
<1>4. ASSUME NEW i \in Instances, InstanceInitialize(i),
             UNCHANGED <<metricVars, poolVars, threadVars>>
      PROVE  PathInv'
  <2>1. /\ stage[i] = "absent" /\ UNCHANGED <<conf, params, graph, threadVars>>
        /\ Go(i, "events") \/ Go(i, "load")
    BY <1>4 DEF InstanceInitialize, setupVars, poolVars, At
  <2>. QED  BY <2>1, PathOfStage
<1>5. ASSUME NEW i \in Instances, DestroyInstance(i) PROVE PathInv'
  <2>1. /\ stage[i] = "ready" /\ UNCHANGED <<conf, params, graph, threadVars>>
        /\ Go(i, "gone")
    BY <1>5 DEF DestroyInstance, InstanceFinalize, DropEntries, setupVars, At
  <2>. QED  BY <2>1, PathOfStage
<1>6. ASSUME NEW i \in Instances, Execute(i) PROVE PathInv'
  <2>. DEFINE s == IF GraphPath(i) THEN "select" ELSE "eager"
  <2>1. /\ stage[i] = "ready" /\ UNCHANGED <<conf, params, graph, todo, owed>>
        /\ Go(i, s)
    BY <1>6 DEF Execute, DropEntries, setupVars, poolVars, At
  <2>2. stage'[i] = s /\ \A j \in Instances \ {i} : stage'[j] = stage[j]
    BY <2>1 DEF Go, LifeInv
  <2>3. PathOK(i)'
    BY <2>1, <2>2, PairsStay DEF PathInv, PathOK, UnderWay, GraphPath, At
  <2>. QED  BY <2>1, <2>2, <2>3, PathOfOne DEF PathInv
<1>. QED  BY <1>1, <1>2, <1>3, <1>4, <1>5, <1>6 DEF Server

LEMMA ConstructKeepsPath ==
    ASSUME LifeInv, PathInv, NEW i \in Instances, Construct(i)
    PROVE  PathInv'
<1>1. UNCHANGED <<conf, params, graph, threadVars>>
  BY DEF Construct, CreateEvents, ReuseModel, LoadModel, LoadModelFails, CreateStreams,
         setupVars, poolVars
<1>2. stage[i] \in {"events", "load", "streams"}
  BY DEF Construct, CreateEvents, ReuseModel, LoadModel, LoadModelFails, CreateStreams, At
<1>3. Go(i, "load") \/ Go(i, "failed") \/ Go(i, "streams") \/ Go(i, "validate")
  BY DEF Construct, CreateEvents, ReuseModel, LoadModel, LoadModelFails, CreateStreams, Loaded
<1>. QED  BY <1>1, <1>2, <1>3, PathOfStage

LEMMA ValidateKeepsPath ==
    ASSUME LifeInv, PathInv, NEW i \in Instances, Validate(i)
    PROVE  PathInv'
<1>1. /\ UNCHANGED <<conf, params, graph, owed>>
      /\ stage[i] = "validate"
      /\ Go(i, "failed") \/ Go(i, "warmup")
  BY DEF Validate, ValidateNames, setupVars, poolVars, At
<1>2. /\ stage'[i] \in {"failed", "warmup"}
      /\ \A j \in Instances \ {i} : stage'[j] = stage[j]
  BY <1>1 DEF Go, LifeInv
<1>3. /\ DOMAIN todo' = Instances
      /\ todo'[i] # {} => GraphPath(i)
      /\ \A j \in Instances \ {i} : todo'[j] = todo[j]
  BY DEF Validate, PathInv
<1>4. PathOK(i)'
  BY <1>1, <1>2, <1>3, PairsStay DEF PathInv, PathOK, UnderWay, GraphPath, At
<1>. QED  BY <1>1, <1>2, <1>3, <1>4, PathOfOne DEF PathInv

(* Capture and replay: the instance stays on the graph path. *)
LEMMA GraphStepKeepsPath ==
    ASSUME LifeInv, PathInv, NEW i \in Instances,
           UNCHANGED <<lifecycleVars, owed>>, GraphPath(i),
           stage[i] \in {"warmup", "select", "count"},
           DOMAIN todo' = Instances, todo'[i] \subseteq todo[i],
           \A j \in Instances \ {i} : todo'[j] = todo[j] /\ graph'[j] = graph[j]
    PROVE  PathInv'
<1>. USE DEF lifecycleVars, setupVars, instanceVars
<1>1. PathOK(i)'
  BY PairsStay DEF PathInv, PathOK, GraphPath, At
<1>. QED  BY <1>1, PathOfOne DEF PathInv

(* An instance owes more, or less, to count. *)
LEMMA OweKeepsPath ==
    ASSUME PathInv, NEW i \in Instances, NEW keys \in Seq(Key), Owe(i, keys)
    PROVE  /\ DOMAIN owed' = Instances /\ owed'[i] \in Seq(Key)
           /\ \A j \in Instances \ {i} : owed'[j] = owed[j]
<1>1. owed[i] \in Seq(Key) /\ DOMAIN owed = Instances
  BY DEF PathInv, PathOK
<1>2. owed'[i] = owed[i] \o keys
  BY <1>1 DEF Owe
<1>3. owed[i] \o keys \in Seq(Key)
  BY <1>1, ConcatProperties
<1>. QED  BY <1>1, <1>2, <1>3 DEF Owe

LEMMA CaptureFailedKeepsPath ==
    ASSUME LifeInv, PathInv, PoolInv, NEW i \in Instances, CaptureFailed(i)
    PROVE  PathInv'
<1>. DEFINE keys == <<<<"capture_failures", graph[i].bucket>>>>
<1>1. /\ UNCHANGED <<conf, params, stage, todo>>
      /\ Owe(i, keys) /\ CaptureFails(i)
  BY DEF CaptureFailed, lifecycleVars, setupVars, instanceVars
<1>2. UnderWay(i) /\ graph[i].bucket \in Buckets
  BY <1>1 DEF CaptureFails, Capturing, UnderWay, PoolInv, UnderWayOnBucket
<1>3. keys \in Seq(Key)
  <2>1. <<"capture_failures", graph[i].bucket>> \in Key
    BY <1>2 DEF Key, BucketFamily
  <2>. QED  BY <2>1
<1>4. /\ DOMAIN owed' = Instances /\ owed'[i] \in Seq(Key)
      /\ \A j \in Instances \ {i} : owed'[j] = owed[j]
  BY <1>1, <1>3, OweKeepsPath
<1>5. /\ graph'[i].at = "none"
      /\ \A j \in Instances \ {i} : graph'[j] = graph[j]
  BY <1>1 DEF CaptureFails, NoGraph, PoolInv, PoolTypeOK
<1>6. PathOK(i)'
  BY <1>1, <1>4, <1>5, PairsStay DEF PathInv, PathOK, UnderWay, GraphPath, At
<1>. QED  BY <1>1, <1>4, <1>5, <1>6, PathOfOne DEF PathInv

LEMMA ReplayedKeepsPath ==
    ASSUME LifeInv, PathInv, PoolInv, NEW i \in Instances, Replayed(i)
    PROVE  PathInv'
<1>. DEFINE b == graph[i].bucket
            one == <<<<"replays", b>>>>
            two == <<<<"replays", b>>, <<"pad_waste", b>>>>
<1>1. /\ UNCHANGED <<conf, params, graph, todo>>
      /\ stage[i] = "select" /\ graph[i].at = "replaying"
      /\ Go(i, "count")
      /\ Owe(i, one) \/ Owe(i, two)
  BY DEF Replayed, setupVars, poolVars, At
<1>2. b \in Buckets
  BY <1>1 DEF UnderWay, PoolInv, UnderWayOnBucket
<1>3. one \in Seq(Key) /\ two \in Seq(Key)
  <2>1. <<"replays", b>> \in Key /\ <<"pad_waste", b>> \in Key
    BY <1>2 DEF Key, BucketFamily
  <2>. QED  BY <2>1
<1>4. /\ DOMAIN owed' = Instances /\ owed'[i] \in Seq(Key)
      /\ \A j \in Instances \ {i} : owed'[j] = owed[j]
  BY <1>1, <1>3, OweKeepsPath
<1>5. stage'[i] = "count" /\ \A j \in Instances \ {i} : stage'[j] = stage[j]
  BY <1>1 DEF Go, LifeInv
<1>6. PathOK(i)'
  BY <1>1, <1>4, <1>5, PairsStay DEF PathInv, PathOK, UnderWay, GraphPath, At
<1>. QED  BY <1>1, <1>4, <1>5, <1>6, PathOfOne DEF PathInv

(* The steps that leave the graph path for another stage. *)
LEMMA LeaveKeepsPath ==
    ASSUME LifeInv, PathInv, PoolInv, NEW i \in Instances,
           \/ Warmed(i) \/ FallBack(i) \/ ReplayFailed(i) \/ Responded(i) \/ RunEager(i)
    PROVE  PathInv'
<1>1. /\ UNCHANGED <<conf, params, todo, owed>>
      /\ Go(i, "ready") \/ Go(i, "eager")
      /\ stage[i] # "absent"
  BY DEF Warmed, FallBack, ReplayFailed, Responded, RunEager, setupVars, threadVars, At
<1>2. \A j \in Instances \ {i} : graph'[j] = graph[j]
  BY DEF Warmed, FallBack, ReplayFailed, Responded, RunEager, EndReplay, poolVars,
         PoolInv, PoolTypeOK
<1>3. graph'[i].at = "none"
  <2>1. CASE Warmed(i) \/ FallBack(i)
    BY <2>1 DEF Warmed, FallBack, poolVars, UnderWay
  <2>2. CASE ReplayFailed(i) \/ Responded(i)
    BY <2>2 DEF ReplayFailed, Responded, EndReplay, NoGraph, PoolInv, PoolTypeOK
  <2>3. CASE RunEager(i)
    <3>1. stage[i] = "eager" /\ graph' = graph
      BY <2>3 DEF RunEager, poolVars, At
    <3>. QED  BY <3>1 DEF PathInv, PathOK, UnderWay
  <2>. QED  BY <2>1, <2>2, <2>3
<1>4. /\ stage'[i] \in {"ready", "eager"}
      /\ \A j \in Instances \ {i} : stage'[j] = stage[j]
  BY <1>1 DEF Go, LifeInv
<1>5. PathOK(i)'
  BY <1>1, <1>3, <1>4, PairsStay DEF PathInv, PathOK, UnderWay, GraphPath, At
<1>. QED  BY <1>1, <1>2, <1>4, <1>5, PathOfOne DEF PathInv

LEMMA ThreadKeepsPath ==
    ASSUME LifeInv, PathInv, PoolInv, NEW i \in Instances, Thread(i)
    PROVE  PathInv'
<1>1. CASE Construct(i)
  BY <1>1, ConstructKeepsPath
<1>2. CASE Validate(i)
  BY <1>2, ValidateKeepsPath
<1>3. ASSUME NEW bucket \in Buckets, WarmBucket(i, bucket)
      PROVE  PathInv'
  <2>1. /\ stage[i] = "warmup" /\ GraphPath(i) /\ UNCHANGED <<lifecycleVars, owed>>
    BY <1>3 DEF WarmBucket, PathInv, PathOK, Lowest, At
  <2>2. /\ DOMAIN todo' = Instances /\ todo'[i] \subseteq todo[i]
        /\ \A j \in Instances \ {i} : todo'[j] = todo[j]
    BY <1>3 DEF WarmBucket, PathInv
  <2>3. \A j \in Instances \ {i} : graph'[j] = graph[j]
    BY <1>3 DEF WarmBucket, BeginCapture, poolVars, PoolInv, PoolTypeOK
  <2>. QED  BY <2>1, <2>2, <2>3, GraphStepKeepsPath
<1>4. ASSUME NEW bucket \in Buckets, Select(i, bucket)
      PROVE  PathInv'
  <2>1. /\ stage[i] = "select" /\ GraphPath(i) /\ UNCHANGED <<lifecycleVars, todo, owed>>
    BY <1>4 DEF Select, PathInv, PathOK, threadVars, At
  <2>2. \A j \in Instances \ {i} : graph'[j] = graph[j]
    BY <1>4 DEF Select, BeginCapture, BeginReplay, PoolInv, PoolTypeOK
  <2>. QED  BY <2>1, <2>2, GraphStepKeepsPath DEF PathInv
<1>5. CASE Capture(i) \/ Captured(i)
  <2>1. /\ UnderWay(i) /\ UNCHANGED <<lifecycleVars, todo, owed>>
        /\ \A j \in Instances \ {i} : graph'[j] = graph[j]
    BY <1>5 DEF Capture, Captured, RecordGraph, CaptureEnds, threadVars, UnderWay,
                PoolInv, PoolTypeOK
  <2>2. stage[i] \in {"warmup", "select", "count"} /\ GraphPath(i)
    BY <2>1 DEF PathInv, PathOK
  <2>. QED  BY <2>1, <2>2, GraphStepKeepsPath DEF PathInv
<1>6. CASE CaptureFailed(i)
  BY <1>6, CaptureFailedKeepsPath
<1>7. CASE Replayed(i)
  BY <1>7, ReplayedKeepsPath
<1>8. CASE Warmed(i) \/ FallBack(i) \/ ReplayFailed(i) \/ Responded(i) \/ RunEager(i)
  BY <1>8, LeaveKeepsPath
<1>9. CASE CountMetric(i)
  <2>1. /\ UNCHANGED <<conf, params, stage, graph, todo>>
        /\ owed[i] # <<>> /\ owed' = [owed EXCEPT ![i] = Tail(@)]
    BY <1>9 DEF CountMetric, lifecycleVars, setupVars, instanceVars, poolVars
  <2>2. /\ DOMAIN owed' = Instances /\ owed'[i] = Tail(owed[i])
        /\ \A j \in Instances \ {i} : owed'[j] = owed[j]
        /\ owed[i] \in Seq(Key)
    BY <2>1 DEF PathInv, PathOK
  <2>3. Tail(owed[i]) \in Seq(Key)
    BY <2>1, <2>2
  <2>4. PathOK(i)'
    BY <2>1, <2>2, <2>3, PairsStay DEF PathInv, PathOK, UnderWay, GraphPath, At
  <2>. QED  BY <2>1, <2>2, <2>4, PathOfOne DEF PathInv
<1>10. CASE InCall(i)
  BY <1>10, PathKept DEF InCall, lifecycleVars, setupVars, instanceVars, poolVars
<1>. QED  BY <1>1, <1>2, <1>3, <1>4, <1>5, <1>6, <1>7, <1>8, <1>9, <1>10 DEF Thread

-----------------------------------------------------------------------------
(* The invariant, the refinements and the properties *)

LEMMA StepKeepsBackendInv ==
    LifeInv /\ PathInv /\ PoolInv /\ [Next]_vars => LifeInv' /\ PathInv' /\ PoolInv'
<1>. SUFFICES ASSUME LifeInv, PathInv, PoolInv, [Next]_vars
              PROVE  LifeInv' /\ PathInv' /\ PoolInv'
  OBVIOUS
<1>1. PoolInv'
  BY StepRefinesPool, StepKeepsPoolInv
<1>2. CASE Server
  BY <1>1, <1>2, ServerKeepsLife, ServerKeepsPath
<1>3. ASSUME NEW i \in Instances, Thread(i)
      PROVE  LifeInv' /\ PathInv'
  BY <1>3, ThreadKeepsLife, ThreadKeepsPath
<1>4. CASE UNCHANGED vars
  BY <1>1, <1>4, LifeKept, PathKept DEF vars, lifecycleVars, setupVars, instanceVars, poolVars
<1>. QED  BY <1>1, <1>2, <1>3, <1>4 DEF Next

LEMMA InitHolds == Init => LifeInv /\ PathInv /\ PoolInv /\ MetricsInit /\ PoolInit
BY InitLifeInv, InitPathInv, InitPoolInv DEF Init

(* The metrics of a model, driven by its instances, are those of           *)
(* BucketMetrics.                                                          *)
THEOREM ImplementsMetrics == Spec => MetricsSpec
<1>1. Spec => [](LifeInv /\ PathInv /\ PoolInv)
  BY InitHolds, StepKeepsBackendInv, PTL DEF Spec
<1>2. PathInv /\ [Next]_vars => [MetricsNext]_metricVars
  BY StepRefinesMetrics
<1>. QED  BY <1>1, <1>2, InitHolds, PTL DEF Spec, MetricsSpec

(* The captures and replays of a model's instances are those of            *)
(* CapturePool.                                                            *)
THEOREM ImplementsPool == Spec => PoolSpec
<1>1. Spec => [](LifeInv /\ PathInv /\ PoolInv)
  BY InitHolds, StepKeepsBackendInv, PTL DEF Spec
<1>. QED  BY <1>1, StepRefinesPool, InitHolds, PTL DEF Spec, PoolSpec

(* Where a thread is, what its instance has, and what the model and the    *)
(* other instances have agree, in the composition of all parts.            *)
THEOREM BackendInvariant == Spec => []BackendInv
<1>1. Spec => [](LifeInv /\ PathInv /\ PoolInv)
  BY InitHolds, StepKeepsBackendInv, PTL DEF Spec
<1>2. BackendInv <=> (LifeInv /\ PathInv /\ PoolInv) /\ MetricsInv
  BY DEF BackendInv
<1>. QED  BY <1>1, <1>2, ImplementsMetrics, MetricsInvariant, PTL

(* However a model's instances interleave, none asks for a metric twice.   *)
THEOREM ModelAskedOnce == Spec => []AskedOnce
BY ImplementsMetrics, NeverAskedTwice, PTL

(* ... and none increments a metric that does not exist. *)
THEOREM ModelIncrementsLive == Spec => []IncrementsLive
BY ImplementsMetrics, NeverIncrementsDead, PTL

(* A finalized model leaves a metric family behind only if two of its *)
(* instances raced to create one of its metrics.                      *)
THEOREM ModelLeaksOnlyByRace == Spec => []ReleasedUnlessRaced
BY ImplementsMetrics, LeakedOnlyByRace, PTL

(* Until a device has handed out its pool once, the streams its instances  *)
(* capture and replay on are their own.                                    *)
THEOREM ModelStreamsApart == Spec => []StreamsApart
BY ImplementsPool, StreamsDedicated, PTL

(* With weight sharing, the loader an instance reuses was made for its own *)
(* device, or, off the GPU, off the GPU.                                   *)
THEOREM SharedLoadersMatch == Spec => []LoaderOnOwnDevice
<1>1. BackendInv => LoaderOnOwnDevice
  <2>. SUFFICES ASSUME BackendInv, NEW i \in Instances, loader[i] # NoLoader
                PROVE  /\ OnGpu(loader[i].owner) = OnGpu(i)
                       /\ OnGpu(i) => DeviceOf(loader[i].owner) = DeviceOf(i)
    BY DEF LoaderOnOwnDevice
  <2>1. DevicePair(loader[i].owner) = DevicePair(i)
    BY DEF BackendInv, LifeInv, InstanceOK, MadeFor
  <2>2. OnGpu(loader[i].owner) = OnGpu(i)
    BY <2>1 DEF DevicePair
  <2>. QED  BY <2>1, <2>2 DEF DevicePair
<1>. QED  BY BackendInvariant, <1>1, PTL

(* A finalized model holds no loader, whatever failed while its instances  *)
(* were built, and neither a stream nor one of the two graph events of an  *)
(* instance whose constructor succeeded.  Nothing is said of the compute   *)
(* events, which the code never destroys, nor of the raw handles that a    *)
(* throwing constructor had created.                                       *)
THEOREM TeardownComplete == Spec => []NothingHeld
<1>1. BackendInv => NothingHeld
  <2>. SUFFICES ASSUME BackendInv, model = "finalized"
                PROVE  /\ shared = <<>>
                       /\ \A i \in Members :
                             /\ loader[i] = NoLoader
                             /\ At(i, "gone") =>
                                   /\ streams[i] = 0
                                   /\ events[i] \cap Elements(GraphEvents) = {}
    BY DEF NothingHeld
  <2>1. shared = <<>> /\ \A i \in Members : stage[i] \in {"absent", "failed", "gone"}
    BY DEF BackendInv, LifeInv, ModelOK
  <2>2. Members \subseteq Instances
    BY LifecycleAssumption DEF LifecycleAssumption, Members, BackendInv, LifeInv, ModelOK
  <2>3. \A i \in Members : InstanceOK(i)
    BY <2>2 DEF BackendInv, LifeInv
  <2>. QED  BY <2>1, <2>3 DEF InstanceOK, Unbuilt
<1>. QED  BY BackendInvariant, <1>1, PTL

(* "Each cudagraph instance needs its own single-runner loader": while it  *)
(* captures or replays, no other instance uses the loader, even where the  *)
(* configuration asks for weight sharing, and both graph events exist.     *)
THEOREM GraphLoadersOwned == Spec => []GraphsOwnLoader
<1>1. BackendInv => GraphsOwnLoader
  <2>. SUFFICES ASSUME BackendInv, NEW i \in Instances, UnderWay(i)
                PROVE  /\ loader[i].single
                       /\ Users(loader[i]) = {i}
                       /\ Elements(GraphEvents) \subseteq events[i]
    BY DEF GraphsOwnLoader
  <2>1. GraphPath(i) /\ stage[i] \notin Unbuilt
    BY DEF BackendInv, PathInv, PathOK, Unbuilt
  <2>2. loader[i] # NoLoader /\ Elements(GraphEvents) \subseteq events[i]
    BY <2>1 DEF BackendInv, LifeInv, InstanceOK
  <2>3. params.graph /\ ~params.sharing
    BY <2>1 DEF GraphPath, BackendInv, LifeInv, ModelOK
  <2>4. loader[i].single
    BY <2>2, <2>3 DEF BackendInv, LifeInv, InstanceOK, MadeFor
  <2>5. ASSUME NEW j \in Instances, loader[j] = loader[i]
        PROVE  j = i
    BY <2>2, <2>3, <2>5 DEF BackendInv, LifeInv, InstanceOK
  <2>. QED  BY <2>2, <2>4, <2>5 DEF Users
<1>. QED  BY BackendInvariant, <1>1, PTL
=============================================================================
