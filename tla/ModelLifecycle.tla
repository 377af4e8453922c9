---------------------------- MODULE ModelLifecycle ----------------------------
(***************************************************************************)
(* The life of one model and its instances: ModelState::Create with        *)
(* ParseParameters, ModelState::LoadModel with weight sharing, the         *)
(* constructor and destructor of ModelInstanceState, and the entry points  *)
(* of libtorch.cc that call them.                                          *)
(*                                                                         *)
(* External, and modelled from how src/ relies on it: the server           *)
(* initializes a model, then its instances one after the other, runs them, *)
(* and finalizes the instances before the model.  The AOTInductor loader   *)
(* is a record of how it was made; an instance, or the map of shared       *)
(* loaders, refers to it through a shared_ptr.                             *)
(***************************************************************************)
EXTENDS ModelInstances, InputNaming, FiniteSets

CONSTANTS
    Configs,      \* the model configurations of interest, chosen in Init
    DeviceCount   \* GPUs of the machine

(* A boolean parameter: absent, a boolean, or not a boolean. *)
Setting == {"absent", "true", "false", "malformed"}
Kind == {"GPU", "CPU", "MODEL"}
Group == [kind : Kind, devices : SUBSET Int, count : Nat]

(* members: the instances the server makes of the groups, count of them on *)
(* each device of a group.  warmup: both warmup widths are positive.       *)
GroupOf(c, i) == c.groups[c.members[i].group]
Placed(c, g, d) ==
    {i \in DOMAIN c.members : c.members[i] = [group |-> g, device |-> d]}

ASSUME LifecycleAssumption ==
    /\ DeviceCount \in Nat
    /\ \A c \in Configs :
          /\ c.sharing \in Setting /\ c.graph \in Setting /\ c.warmup \in BOOLEAN
          /\ c.groups \in Seq(Group) /\ c.naming \in Naming
          /\ DOMAIN c.members \subseteq Instances /\ IsFiniteSet(DOMAIN c.members)
          /\ \A i \in DOMAIN c.members :
                /\ c.members[i] \in [group : DOMAIN c.groups, device : Int]
                /\ c.members[i].device \in GroupOf(c, i).devices
          /\ \A g \in DOMAIN c.groups :
                /\ c.groups[g].kind # "GPU" => c.groups[g].devices = {0}
                /\ \A d \in c.groups[g].devices :
                      Cardinality(Placed(c, g, d)) = c.groups[g].count

VARIABLES
    conf,     \* config.pbtxt
    model,    \* where the server has got to with the model
    params,   \* what ParseParameters and Create keep of it
    shared,   \* aoti_models_: (on GPU, device index) -> loader
    stage,    \* where an instance's thread is
    loader,   \* aoti_model_
    events,   \* the CUDA events of an instance that exist
    streams   \* the CUDA streams made for a KIND_MODEL instance

setupVars == <<conf, model, params, shared>>
instanceVars == <<stage, loader, events, streams>>
lifecycleVars == <<setupVars, instanceVars>>

-----------------------------------------------------------------------------
NoLoader == [owner |-> "none", runners |-> 0, single |-> FALSE]
NoParams == [sharing |-> FALSE, graph |-> FALSE, total |-> 1]

ComputeEvents == <<"input_start", "infer_start", "output_start">>
GraphEvents == <<"graph_input_ready", "graph_output_ready">>
Elements(seq) == {seq[n] : n \in DOMAIN seq}

Members == DOMAIN conf.members
KindOf(i) == GroupOf(conf, i).kind
DeviceOf(i) == conf.members[i].device
OnGpu(i) == KindOf(i) = "GPU"

(* A plausible bug: the loaders of all GPUs are one. *)
DevicePairOfKind(i) == <<OnGpu(i), -1>>

(* The key of aoti_models_: device_ is the CPU, without an index, for every *)
(* kind but KIND_GPU.                                                       *)
DevicePair(i) == <<OnGpu(i), IF OnGpu(i) THEN DeviceOf(i) ELSE -1>>

TotalCount(c) ==
    LET sum[n \in 0..Len(c.groups)] ==
          IF n = 0 THEN 0 ELSE sum[n - 1] + c.groups[n].count
    IN  sum[Len(c.groups)]

Constructing == {"events", "load", "streams", "validate", "warmup"}
Serving == {"ready", "select", "eager", "count"}
At(i, s) == stage[i] = s
Go(i, s) == stage' = [stage EXCEPT ![i] = s]

LifecycleInit ==
    /\ conf \in Configs
    /\ model = "unloaded"
    /\ params = NoParams
    /\ shared = <<>>
    /\ stage = [i \in Instances |-> "absent"]
    /\ loader = [i \in Instances |-> NoLoader]
    /\ events = [i \in Instances |-> {}]
    /\ streams = [i \in Instances |-> 0]

-----------------------------------------------------------------------------
(* The model *)

(* A plausible bug: weight sharing is not overridden. *)
ParsedWithoutOverride(c) ==
    [sharing |-> c.sharing = "true", graph |-> c.graph = "true",
     total   |-> IF TotalCount(c) > 0 THEN TotalCount(c) ELSE 1]

(* What the configuration sets: with CUDA graphs weight sharing is off. *)
Parsed(c) ==
    [sharing |-> c.sharing = "true" /\ c.graph # "true", graph |-> c.graph = "true",
     total   |-> IF TotalCount(c) > 0 THEN TotalCount(c) ELSE 1]

ParametersRefused(c) == c.sharing = "malformed" \/ c.graph = "malformed"

ModelInitialize ==
    /\ model = "unloaded"
    /\ ~ParametersRefused(conf)
    /\ model' = "loading"
    /\ params' = Parsed(conf)
    /\ UNCHANGED <<conf, shared, instanceVars>>

(* Create fails, before or after its state was allocated. *)
ModelInitializeFails ==
    /\ model = "unloaded"
    /\ model' = "refused"
    /\ UNCHANGED <<conf, params, shared, instanceVars>>

StartServing ==
    /\ model = "loading"
    /\ \A i \in Members : At(i, "ready")
    /\ model' = "serving"
    /\ UNCHANGED <<conf, params, shared, instanceVars>>

(* A failed instance fails the model; a served model may be unloaded. *)
StartUnloading ==
    /\ \/ model = "loading" /\ \E i \in Members : At(i, "failed")
       \/ model = "serving"
    /\ model' = "unloading"
    /\ UNCHANGED <<conf, params, shared, instanceVars>>

ModelFinalize ==
    /\ model = "unloading"
    /\ \A i \in Members : stage[i] \in {"absent", "failed", "gone"}
    /\ model' = "finalized"
    /\ shared' = <<>>
    /\ UNCHANGED <<conf, params, instanceVars>>

-----------------------------------------------------------------------------
(* The constructor of an instance.  Where it throws, the loader reference  *)
(* is released with the other members; events and streams are raw handles  *)
(* that only the destructor body, which does not run, would destroy.       *)

InstanceInitialize(i) ==
    /\ model = "loading"
    /\ i \in Members /\ At(i, "absent")
    /\ \A j \in Members : stage[j] \notin Constructing \cup {"failed"}
    /\ Go(i, IF OnGpu(i) THEN "events" ELSE "load")
    /\ UNCHANGED <<setupVars, loader, events, streams>>

(* CreateCudaEvents and the two graph events, up to the first that fails. *)
CreateEvents(i) ==
    LET wanted == ComputeEvents \o (IF params.graph THEN GraphEvents ELSE <<>>)
    IN  /\ At(i, "events")
        /\ \E n \in 0..Len(wanted) :
              /\ events' = [events EXCEPT ![i] = Elements(SubSeq(wanted, 1, n))]
              /\ Go(i, IF n = Len(wanted) THEN "load" ELSE "failed")
        /\ UNCHANGED <<setupVars, loader, streams>>

Loaded(i) == Go(i, IF KindOf(i) = "MODEL" THEN "streams" ELSE "validate")

(* LoadModel finds the loader of an instance on the same device. *)
ReuseModel(i) ==
    /\ At(i, "load")
    /\ params.sharing /\ DevicePair(i) \in DOMAIN shared
    /\ loader' = [loader EXCEPT ![i] = shared[DevicePair(i)]]
    /\ Loaded(i)
    /\ UNCHANGED <<setupVars, events, streams>>

(* A plausible bug: a shared loader gets the runners of its own device's *)
(* first group only.                                                     *)
RunnersOfGroup(i) ==
    IF params.sharing /\ ~params.graph THEN GroupOf(conf, i).count ELSE 1

Runners(i) == IF params.sharing /\ ~params.graph THEN params.total ELSE 1

LoadModel(i) ==
    LET new == [owner |-> i, runners |-> Runners(i), single |-> params.graph]
    IN  /\ At(i, "load")
        /\ ~(params.sharing /\ DevicePair(i) \in DOMAIN shared)
        /\ loader' = [loader EXCEPT ![i] = new]
        /\ shared' = IF ~params.sharing THEN shared
                     ELSE [k \in DOMAIN shared \cup {DevicePair(i)} |->
                             IF k = DevicePair(i) THEN new ELSE shared[k]]
        /\ Loaded(i)
        /\ UNCHANGED <<conf, model, params, events, streams>>

(* The package is missing, or the loader throws. *)
LoadModelFails(i) ==
    /\ At(i, "load")
    /\ Go(i, "failed")
    /\ UNCHANGED <<setupVars, loader, events, streams>>

Release(i) == loader' = [loader EXCEPT ![i] = NoLoader]

(* KIND_MODEL: a stream per device, then the events on the first one. *)
CreateStreams(i) ==
    /\ At(i, "streams")
    /\ \E n \in 0..DeviceCount, m \in 0..Len(ComputeEvents) :
          /\ n < DeviceCount \/ DeviceCount = 0 => m = 0
          /\ streams' = [streams EXCEPT ![i] = n]
          /\ events' = [events EXCEPT ![i] = Elements(SubSeq(ComputeEvents, 1, m))]
          /\ IF n = DeviceCount /\ (DeviceCount = 0 \/ m = Len(ComputeEvents))
               THEN Go(i, "validate") /\ UNCHANGED loader
               ELSE Go(i, "failed") /\ Release(i)
    /\ UNCHANGED setupVars

NamesRefused(c) == ControlsRefused(c) \/ InputsRefused(c) \/ OutputsRefused(c)

ValidateNames(i) ==
    /\ At(i, "validate")
    /\ IF NamesRefused(conf.naming)
         THEN Go(i, "failed") /\ Release(i)
         ELSE Go(i, "warmup") /\ UNCHANGED loader
    /\ UNCHANGED <<setupVars, events, streams>>

-----------------------------------------------------------------------------
(* A plausible bug: the graph events are left alone too. *)
FinalizeKeepingEvents(i) ==
    /\ model = "unloading" /\ At(i, "ready")
    /\ Release(i)
    /\ streams' = [streams EXCEPT ![i] = 0]
    /\ Go(i, "gone")
    /\ UNCHANGED <<setupVars, events>>

(* ~ModelInstanceState: the graph events and the streams are destroyed, *)
(* the three compute events are not.                                    *)
InstanceFinalize(i) ==
    /\ model = "unloading" /\ At(i, "ready")
    /\ Release(i)
    /\ events' = [events EXCEPT ![i] = @ \ Elements(GraphEvents)]
    /\ streams' = [streams EXCEPT ![i] = 0]
    /\ Go(i, "gone")
    /\ UNCHANGED setupVars

-----------------------------------------------------------------------------
(* Properties *)

LifecycleTypeOK ==
    /\ conf \in Configs
    /\ model \in {"unloaded", "loading", "serving", "unloading", "finalized", "refused"}
    /\ params \in [sharing : BOOLEAN, graph : BOOLEAN, total : Nat]
    /\ stage \in [Instances -> {"absent", "failed", "gone"} \cup Constructing \cup Serving]
    /\ loader \in [Instances -> [owner : Instances, runners : Nat, single : BOOLEAN]
                                   \cup {NoLoader}]
    /\ \A k \in DOMAIN shared : shared[k] \in [owner : Instances, runners : Nat,
                                               single : BOOLEAN]
    /\ \A i \in Instances :
          /\ events[i] \subseteq Elements(ComputeEvents \o GraphEvents)
          /\ streams[i] \in 0..DeviceCount

Users(l) == {i \in Instances : loader[i] = l}

(* "Use num_runners equal to the instance count to allow concurrent        *)
(* inference from all instances sharing the model", and with CUDA graphs   *)
(* "each cudagraph instance needs its own single-runner loader": however   *)
(* the groups are laid out, a loader has a runner for each of its users.   *)
RunnersSuffice ==
    \A i \in Instances :
       loader[i] # NoLoader => Cardinality(Users(loader[i])) <= loader[i].runners

(* "Model instances on the same device share weights": the loader of an    *)
(* instance was made for the device the instance is on.                    *)
LoaderOnOwnDevice ==
    \A i \in Instances :
       loader[i] # NoLoader =>
          /\ OnGpu(loader[i].owner) = OnGpu(i)
          /\ OnGpu(i) => DeviceOf(loader[i].owner) = DeviceOf(i)

(* Whatever failed on the way, a finalized model leaves no loader, and an  *)
(* instance whose constructor succeeded leaves no stream and neither of    *)
(* its graph events: these are "destroyed in the destructor".  Not so its  *)
(* three compute events, and what a throwing constructor had created.      *)
NothingHeld ==
    model = "finalized" =>
       /\ shared = <<>>
       /\ \A i \in Members :
             /\ loader[i] = NoLoader
             /\ At(i, "gone") =>
                   streams[i] = 0 /\ events[i] \cap Elements(GraphEvents) = {}
=============================================================================
