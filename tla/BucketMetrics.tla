---------------------------- MODULE BucketMetrics ----------------------------
(***************************************************************************)
(* The CUDA-graph metrics of a ModelState (model_state.cc): four counter   *)
(* families made once when the model is created, and one metric per family *)
(* and bucket, made when it is first counted and kept in a std::map that   *)
(* all instances of the model use without a lock.                          *)
(*                                                                         *)
(* An instance's thread runs GetOrCreateBucketMetric in three steps: the   *)
(* lookup, the creation and the insertion.  Where two instances overlap,   *)
(* each map operation is taken to have its sequential effect; that they    *)
(* may overlap at all is what NoDataRace denies.                           *)
(***************************************************************************)
EXTENDS ModelInstances

CONSTANTS
    Null,     \* no metric
    Outcomes  \* which of the families the server may come to create

BucketFamily == {"replays", "pad_waste", "capture_failures"}
Family == BucketFamily \cup {"eager_fallbacks"}
Key == BucketFamily \X Buckets

ASSUME MetricsAssumption == Null \notin Instances /\ Outcomes \subseteq SUBSET Family

VARIABLES
    registry,  \* "none" before InitCudaGraphMetrics, "open", or "closed"
    families,  \* metric_family_*_
    eager,     \* metric_eager_fallbacks_
    table,     \* cuda_graph_bucket_metrics_: the creator's handle, or Null
    handles,   \* the bucket metrics that exist, each with its creator
    asked,     \* history: the instances that tried to create a metric
    call       \* the metric call an instance is in

metricVars == <<registry, families, eager, table, handles, asked, call>>

-----------------------------------------------------------------------------
Handle == Instances \cup {Null}
NoKey == <<"none", 0>>
Idle == [at |-> "idle", key |-> NoKey, metric |-> Null]
Doing(i, what) == call[i].at = what
KeyOf(i) == call[i].key
HandlesOf(f, hs) == {h \in hs : h[1][1] = f}

MetricsInit ==
    /\ registry = "none"
    /\ families = [f \in Family |-> "null"]
    /\ eager = "null"
    /\ table = <<>>
    /\ handles = {}
    /\ asked = [k \in Key |-> {}]
    /\ call = [i \in Instances |-> Idle]

(* The families are best effort: each may be missing, and so may the one *)
(* unlabeled metric.                                                     *)
InitCudaGraphMetrics ==
    /\ registry = "none"
    /\ registry' = "open"
    /\ \E made \in Outcomes :
          /\ families' = [f \in Family |-> IF f \in made THEN "live" ELSE "null"]
          /\ eager' \in (IF "eager_fallbacks" \in made THEN {"live", "null"}
                                                       ELSE {"null"})
    /\ UNCHANGED <<table, handles, asked, call>>

(* CudaGraphMetricReplay, PadWaste and CaptureFailure return at once when *)
(* the family is missing.                                                 *)
CallMetric(i, f, bucket) ==
    /\ registry = "open" /\ families[f] = "live"
    /\ Doing(i, "idle")
    /\ call' = [call EXCEPT ![i] = [at |-> "find", key |-> <<f, bucket>>,
                                    metric |-> Null]]
    /\ UNCHANGED <<registry, families, eager, table, handles, asked>>

FindMetric(i) ==
    /\ Doing(i, "find")
    /\ call' = [call EXCEPT ![i] =
                  IF KeyOf(i) \notin DOMAIN table THEN [@ EXCEPT !.at = "create"]
                  ELSE IF table[KeyOf(i)] = Null  THEN Idle
                  ELSE [@ EXCEPT !.at = "increment", !.metric = table[KeyOf(i)]]]
    /\ UNCHANGED <<registry, families, eager, table, handles, asked>>

(* A plausible bug: the handle is not reset when the creation fails. *)
CreateMetricKeepingHandle(i) ==
    /\ Doing(i, "create")
    /\ asked' = [asked EXCEPT ![KeyOf(i)] = @ \cup {i}]
    /\ \E made \in BOOLEAN :
          /\ handles' = IF made THEN handles \cup {<<KeyOf(i), i>>} ELSE handles
          /\ call' = [call EXCEPT ![i] = [@ EXCEPT !.at = "insert", !.metric = i]]
    /\ UNCHANGED <<registry, families, eager, table>>

CreateMetric(i) ==
    /\ Doing(i, "create")
    /\ asked' = [asked EXCEPT ![KeyOf(i)] = @ \cup {i}]
    /\ \E made \in BOOLEAN :
          /\ handles' = IF made THEN handles \cup {<<KeyOf(i), i>>} ELSE handles
          /\ call' = [call EXCEPT ![i] = [@ EXCEPT !.at = "insert",
                                          !.metric = IF made THEN i ELSE Null]]
    /\ UNCHANGED <<registry, families, eager, table>>

(* A plausible bug: only what was created is cached. *)
InsertCreatedMetric(i) ==
    /\ Doing(i, "insert")
    /\ table' = IF call[i].metric = Null THEN table
                ELSE [k \in DOMAIN table \cup {KeyOf(i)} |->
                        IF k = KeyOf(i) THEN call[i].metric ELSE table[k]]
    /\ call' = [call EXCEPT ![i] = IF @.metric = Null THEN Idle
                                   ELSE [@ EXCEPT !.at = "increment"]]
    /\ UNCHANGED <<registry, families, eager, handles, asked>>

(* A failed creation is cached too.  The counter that is then incremented *)
(* is the caller's own, whatever the map holds.                           *)
InsertMetric(i) ==
    /\ Doing(i, "insert")
    /\ table' = [k \in DOMAIN table \cup {KeyOf(i)} |->
                   IF k = KeyOf(i) THEN call[i].metric ELSE table[k]]
    /\ call' = [call EXCEPT ![i] = IF @.metric = Null THEN Idle
                                   ELSE [@ EXCEPT !.at = "increment"]]
    /\ UNCHANGED <<registry, families, eager, handles, asked>>

IncrementMetric(i) ==
    /\ Doing(i, "increment")
    /\ call' = [call EXCEPT ![i] = Idle]
    /\ UNCHANGED <<registry, families, eager, table, handles, asked>>

MetricStep(i) == \/ FindMetric(i) \/ CreateMetric(i) \/ InsertMetric(i)
                 \/ IncrementMetric(i)

(* A plausible bug: the families are deleted before their metrics. *)
DeleteFamiliesFirst ==
    /\ registry # "closed"
    /\ \A i \in Instances : Doing(i, "idle")
    /\ registry' = "closed"
    /\ handles' = {h \in handles : h[2] # table[h[1]]}
    /\ eager' = IF eager = "live" THEN "deleted" ELSE eager
    /\ families' = [f \in Family |->
                      IF families[f] # "live" THEN families[f]
                      ELSE IF HandlesOf(f, handles) = {} THEN "deleted" ELSE "live"]
    /\ UNCHANGED <<table, asked, call>>

(* ~ModelState: the mapped metrics, the unlabeled one, then the families. *)
(* The server refuses to delete a family that still has a metric.         *)
DeleteMetrics ==
    /\ registry # "closed"
    /\ \A i \in Instances : Doing(i, "idle")
    /\ registry' = "closed"
    /\ handles' = {h \in handles : h[2] # table[h[1]]}
    /\ eager' = IF eager = "live" THEN "deleted" ELSE eager
    /\ families' = [f \in Family |->
                      IF families[f] # "live" THEN families[f]
                      ELSE IF HandlesOf(f, handles') = {} THEN "deleted" ELSE "live"]
    /\ UNCHANGED <<table, asked, call>>

MetricsNext ==
    \/ InitCudaGraphMetrics
    \/ \E i \in Instances :
          \/ MetricStep(i)
          \/ \E f \in BucketFamily, bucket \in Buckets : CallMetric(i, f, bucket)
    \/ DeleteMetrics

MetricsSpec == MetricsInit /\ [][MetricsNext]_metricVars

-----------------------------------------------------------------------------
(* Properties *)

MetricsTypeOK ==
    /\ registry \in {"none", "open", "closed"}
    /\ families \in [Family -> {"null", "live", "deleted"}]
    /\ eager \in {"null", "live", "deleted"}
    /\ DOMAIN table \subseteq Key
    /\ \A k \in DOMAIN table : table[k] \in Handle
    /\ handles \subseteq Key \X Instances
    /\ asked \in [Key -> SUBSET Instances]
    /\ call \in [Instances -> [at : {"idle", "find", "create", "insert", "increment"},
                               key : Key \cup {NoKey}, metric : Handle]]

(* "Suggested practice for this is to use only function-local and          *)
(* model-instance-specific state ... which is what we do here": no         *)
(* instance writes the metric map while another reads or writes it.        *)
NoDataRace ==
    \A i, j \in Instances :
       i # j /\ Doing(i, "insert") => ~Doing(j, "find") /\ ~Doing(j, "insert")

(* "Cache even nullptr so a failed creation is not retried on every        *)
(* request": no instance tries twice to create a metric, however the calls *)
(* of the instances interleave, so a key is tried at most once by each.    *)
AskedOnce ==
    \A i \in Instances : Doing(i, "create") => i \notin asked[KeyOf(i)]

(* What an instance increments exists, whoever created it and whoever      *)
(* replaced it in the map meanwhile.                                       *)
IncrementsLive ==
    \A i \in Instances :
       Doing(i, "increment") => <<KeyOf(i), call[i].metric>> \in handles

(* "Metrics must be deleted before their families": the destructor leaves  *)
(* a family behind only if two instances raced to create one of its        *)
(* metrics; the metric that lost is in no map and is never deleted.        *)
ReleasedUnlessRaced ==
    registry = "closed" =>
       \A f \in Family :
          families[f] = "live" =>
             \E h \in HandlesOf(f, handles) :
                \E i, j \in asked[h[1]] : i # j

-----------------------------------------------------------------------------
(* The inductive invariant behind them *)

(* An instance that asked for a metric has it cached, or is about to. *)
AskedIsCached ==
    \A k \in Key : \A i \in asked[k] :
       k \in DOMAIN table \/ (Doing(i, "insert") /\ KeyOf(i) = k)

(* A call past its start is about a bucket metric. *)
CallsHaveKeys == \A i \in Instances : ~Doing(i, "idle") => KeyOf(i) \in Key

(* What is mapped or in hand exists, until the destructor runs. *)
MappedExist ==
    registry # "closed" =>
       \A k \in DOMAIN table : table[k] # Null => <<k, table[k]>> \in handles
InHandExist ==
    \A i \in Instances :
       Doing(i, "insert") =>
          /\ i \in asked[KeyOf(i)]
          /\ call[i].metric \in {i, Null}
          /\ call[i].metric = i <=> <<KeyOf(i), i>> \in handles

(* A metric that is not mapped is in its creator's hand, or another *)
(* instance asked for it too.                                       *)
UnmappedWereRaced ==
    \A h \in handles :
       /\ h[2] \in asked[h[1]]
       /\ \/ h[1] \in DOMAIN table /\ table[h[1]] = h[2] /\ registry # "closed"
          \/ Doing(h[2], "insert") /\ KeyOf(h[2]) = h[1] /\ call[h[2]].metric = h[2]
          \/ \E j \in asked[h[1]] : j # h[2]

(* Nothing is called once the metrics are gone, and a family that the   *)
(* destructor left has a metric left.                                   *)
ClosedIsQuiet ==
    registry = "closed" =>
       /\ \A i \in Instances : Doing(i, "idle")
       /\ \A f \in Family : families[f] = "live" => HandlesOf(f, handles) # {}

MetricsInv ==
    /\ MetricsTypeOK
    /\ AskedIsCached /\ CallsHaveKeys
    /\ MappedExist /\ InHandExist
    /\ UnmappedWereRaced /\ ClosedIsQuiet
    /\ AskedOnce /\ IncrementsLive
=============================================================================
