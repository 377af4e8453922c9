------------------------- MODULE BucketMetrics_proofs -------------------------
(***************************************************************************)
(* Machine-checked proofs about BucketMetrics, for every set of instances  *)
(* and of buckets.  MetricsInv is shown to be inductive action by action;  *)
(* the properties the runs check are among its conjuncts or follow from    *)
(* it.                                                                     *)
(***************************************************************************)
EXTENDS BucketMetrics, TLAPS

CallAt == {"idle", "find", "create", "insert", "increment"}
CallRecord == [at : CallAt, key : Key \cup {NoKey}, metric : Handle]

(* "none" is no family: the key of an idle call is not that of a metric. *)
LEMMA NoKeyIsNoKey == NoKey \notin Key
BY DEF NoKey, Key, BucketFamily

(* A key's family is a bucket family. *)
LEMMA KeyHasFamily ==
    ASSUME NEW k \in Key
    PROVE  k[1] \in Family /\ k[1] \in BucketFamily
BY DEF Key, Family

-----------------------------------------------------------------------------
(* The initial states *)

LEMMA InitMetricsInv == MetricsInit => MetricsInv
<1>. SUFFICES ASSUME MetricsInit PROVE MetricsInv
  OBVIOUS
<1>. USE DEF MetricsInit
<1>1. DOMAIN table = {}
  OBVIOUS
<1>2. \A i \in Instances : Doing(i, "idle")
  BY DEF Doing, Idle
<1>3. MetricsTypeOK
  BY <1>1 DEF MetricsTypeOK, Idle, Handle
<1>4. AskedIsCached /\ UnmappedWereRaced /\ MappedExist
  BY <1>1 DEF AskedIsCached, UnmappedWereRaced, MappedExist
<1>5. CallsHaveKeys /\ InHandExist /\ AskedOnce /\ IncrementsLive /\ ClosedIsQuiet
  BY <1>2 DEF CallsHaveKeys, InHandExist, AskedOnce, IncrementsLive, ClosedIsQuiet, Doing
<1>. QED  BY <1>3, <1>4, <1>5 DEF MetricsInv

-----------------------------------------------------------------------------
(* One lemma per action *)

LEMMA InitMetricsKeepsInv ==
    MetricsInv /\ InitCudaGraphMetrics => MetricsInv'
<1>. SUFFICES ASSUME MetricsInv, InitCudaGraphMetrics PROVE MetricsInv'
  OBVIOUS
<1>. USE DEF MetricsInv, InitCudaGraphMetrics
<1>1. MetricsTypeOK'
  <2>1. families' \in [Family -> {"null", "live", "deleted"}]
    OBVIOUS
  <2>2. eager' \in {"null", "live", "deleted"}
    OBVIOUS
  <2>. QED  BY <2>1, <2>2 DEF MetricsTypeOK
<1>2. AskedIsCached' /\ CallsHaveKeys' /\ InHandExist' /\ AskedOnce' /\ IncrementsLive'
  BY DEF AskedIsCached, CallsHaveKeys, InHandExist, AskedOnce, IncrementsLive, Doing, KeyOf
<1>3. MappedExist' /\ UnmappedWereRaced' /\ ClosedIsQuiet'
  BY DEF MappedExist, UnmappedWereRaced, ClosedIsQuiet, Doing, KeyOf
<1>. QED  BY <1>1, <1>2, <1>3

LEMMA CallKeepsInv ==
    ASSUME MetricsInv, NEW i \in Instances, NEW f \in BucketFamily,
           NEW bucket \in Buckets, CallMetric(i, f, bucket)
    PROVE  MetricsInv'
<1>. USE DEF MetricsInv, CallMetric
<1>1. <<f, bucket>> \in Key
  BY DEF Key
<1>2. /\ call' \in [Instances -> CallRecord]
      /\ call'[i] = [at |-> "find", key |-> <<f, bucket>>, metric |-> Null]
      /\ \A j \in Instances : j # i => call'[j] = call[j]
  BY <1>1 DEF MetricsTypeOK, CallRecord, CallAt, Handle
<1>3. MetricsTypeOK'
  BY <1>2 DEF MetricsTypeOK, CallRecord, CallAt
<1>4. AskedIsCached' /\ CallsHaveKeys' /\ InHandExist' /\ AskedOnce' /\ IncrementsLive'
  BY <1>1, <1>2 DEF AskedIsCached, CallsHaveKeys, InHandExist, AskedOnce, IncrementsLive,
                    Doing, KeyOf, MetricsTypeOK
<1>5. MappedExist' /\ ClosedIsQuiet'
  BY DEF MappedExist, ClosedIsQuiet
<1>6. UnmappedWereRaced'
  BY <1>2 DEF UnmappedWereRaced, Doing, KeyOf, MetricsTypeOK
<1>. QED  BY <1>3, <1>4, <1>5, <1>6

LEMMA FindKeepsInv ==
    ASSUME MetricsInv, NEW i \in Instances, FindMetric(i)
    PROVE  MetricsInv'
<1>. USE DEF MetricsInv, FindMetric
<1>1. KeyOf(i) \in Key
  BY DEF CallsHaveKeys, Doing
<1>2. call[i] \in CallRecord
  BY DEF MetricsTypeOK, CallRecord, CallAt
<1>3. CASE KeyOf(i) \notin DOMAIN table
  <2>1. /\ call' \in [Instances -> CallRecord]
        /\ call'[i] = [call[i] EXCEPT !.at = "create"]
        /\ \A j \in Instances : j # i => call'[j] = call[j]
    BY <1>2, <1>3 DEF MetricsTypeOK, CallRecord, CallAt
  <2>2. i \notin asked[KeyOf(i)]
    BY <1>1, <1>3 DEF AskedIsCached, Doing
  <2>3. MetricsTypeOK'
    BY <2>1 DEF MetricsTypeOK, CallRecord, CallAt
  <2>. call'[i].at = "create" /\ call'[i].key = KeyOf(i)
    BY <1>2, <2>1 DEF CallRecord, KeyOf
  <2>4. AskedIsCached' /\ CallsHaveKeys' /\ InHandExist'
    BY <1>1, <2>1 DEF AskedIsCached, CallsHaveKeys, InHandExist, Doing, KeyOf
  <2>7. AskedOnce' /\ IncrementsLive'
    BY <2>1, <2>2 DEF AskedOnce, IncrementsLive, Doing, KeyOf
  <2>5. MappedExist' /\ ClosedIsQuiet'
    BY <2>1 DEF MappedExist, ClosedIsQuiet, Doing
  <2>6. UnmappedWereRaced'
    BY <2>1 DEF UnmappedWereRaced, Doing, KeyOf, MetricsTypeOK
  <2>. QED  BY <2>3, <2>4, <2>5, <2>6, <2>7
<1>4. CASE KeyOf(i) \in DOMAIN table /\ table[KeyOf(i)] = Null
  <2>1. /\ call' \in [Instances -> CallRecord]
        /\ call'[i] = Idle
        /\ \A j \in Instances : j # i => call'[j] = call[j]
    BY <1>4 DEF MetricsTypeOK, CallRecord, CallAt, Idle, Handle
  <2>2. Idle.at = "idle"
    BY DEF Idle
  <2>3. MetricsTypeOK'
    BY <2>1 DEF MetricsTypeOK, CallRecord, CallAt
  <2>4. AskedIsCached' /\ CallsHaveKeys' /\ InHandExist'
    BY <2>1, <2>2 DEF AskedIsCached, CallsHaveKeys, InHandExist, Doing, KeyOf, MetricsTypeOK
  <2>7. AskedOnce' /\ IncrementsLive'
    BY <2>1, <2>2 DEF AskedOnce, IncrementsLive, Doing, KeyOf
  <2>5. MappedExist' /\ ClosedIsQuiet'
    BY <2>1 DEF MappedExist, ClosedIsQuiet, Doing
  <2>6. UnmappedWereRaced'
    BY <2>1, <2>2 DEF UnmappedWereRaced, Doing, KeyOf, MetricsTypeOK
  <2>. QED  BY <2>3, <2>4, <2>5, <2>6, <2>7
<1>5. CASE KeyOf(i) \in DOMAIN table /\ table[KeyOf(i)] # Null
  <2>1. table[KeyOf(i)] \in Handle
    BY <1>5 DEF MetricsTypeOK
  <2>2. /\ call' \in [Instances -> CallRecord]
        /\ call'[i] = [call[i] EXCEPT !.at = "increment", !.metric = table[KeyOf(i)]]
        /\ \A j \in Instances : j # i => call'[j] = call[j]
    BY <1>2, <1>5, <2>1 DEF MetricsTypeOK, CallRecord, CallAt
  <2>3. /\ call'[i].at = "increment" /\ call'[i].key = KeyOf(i)
        /\ call'[i].metric = table[KeyOf(i)]
    BY <1>2, <2>2 DEF CallRecord, KeyOf
  <2>4. registry # "closed"
    BY DEF ClosedIsQuiet, Doing
  <2>5. <<KeyOf(i), table[KeyOf(i)]>> \in handles
    BY <1>5, <2>4 DEF MappedExist
  <2>6. MetricsTypeOK'
    BY <2>2 DEF MetricsTypeOK, CallRecord, CallAt
  <2>7. AskedIsCached' /\ CallsHaveKeys' /\ InHandExist' /\ AskedOnce' /\ IncrementsLive'
    BY <1>1, <2>2, <2>3, <2>5 DEF AskedIsCached, CallsHaveKeys, InHandExist, AskedOnce,
         IncrementsLive, Doing, KeyOf
  <2>8. MappedExist' /\ ClosedIsQuiet'
    BY <2>2, <2>4 DEF MappedExist, ClosedIsQuiet
  <2>9. UnmappedWereRaced'
    BY <2>2, <2>3 DEF UnmappedWereRaced, Doing, KeyOf, MetricsTypeOK
  <2>. QED  BY <2>6, <2>7, <2>8, <2>9
<1>. QED  BY <1>3, <1>4, <1>5

LEMMA CreateKeepsInv ==
    ASSUME MetricsInv, NEW i \in Instances, CreateMetric(i)
    PROVE  MetricsInv'
<1>. DEFINE k == KeyOf(i)
<1>. USE DEF MetricsInv
<1>1. k \in Key /\ Doing(i, "create") /\ call[i] \in CallRecord
  BY DEF CreateMetric, CallsHaveKeys, Doing, MetricsTypeOK, CallRecord, CallAt
<1>2. PICK m \in {i, Null} :
         /\ handles' = IF m = i THEN handles \cup {<<k, i>>} ELSE handles
         /\ call' = [call EXCEPT ![i] = [@ EXCEPT !.at = "insert", !.metric = m]]
  <2>1. PICK made \in BOOLEAN :
           /\ handles' = IF made THEN handles \cup {<<k, i>>} ELSE handles
           /\ call' = [call EXCEPT ![i] = [@ EXCEPT !.at = "insert",
                                           !.metric = IF made THEN i ELSE Null]]
    BY DEF CreateMetric
  <2>2. i # Null
    BY MetricsAssumption DEF MetricsAssumption
  <2>3. CASE made
    BY <2>1, <2>3
  <2>4. CASE ~made
    BY <2>1, <2>2, <2>4
  <2>. QED  BY <2>3, <2>4
<1>3. /\ call' \in [Instances -> CallRecord]
      /\ call'[i].at = "insert" /\ call'[i].key = k /\ call'[i].metric = m
      /\ \A j \in Instances : j # i => call'[j] = call[j]
  <2>1. m \in Handle
    BY DEF Handle
  <2>2. /\ call' \in [Instances -> CallRecord]
        /\ call'[i] = [call[i] EXCEPT !.at = "insert", !.metric = m]
        /\ \A j \in Instances : j # i => call'[j] = call[j]
    BY <1>1, <1>2, <2>1 DEF MetricsTypeOK, CallRecord, CallAt
  <2>. QED  BY <1>1, <2>2 DEF CallRecord, KeyOf
<1>4. /\ asked' \in [Key -> SUBSET Instances]
      /\ asked'[k] = asked[k] \cup {i}
      /\ \A key \in Key : key # k => asked'[key] = asked[key]
  BY <1>1 DEF CreateMetric, MetricsTypeOK
<1>5. /\ UNCHANGED <<registry, families, eager, table>>
      /\ registry # "closed"
  BY <1>1 DEF CreateMetric, ClosedIsQuiet, Doing
<1>6. handles \subseteq handles' /\ handles' \subseteq handles \cup {<<k, i>>}
  BY <1>2
<1>7. MetricsTypeOK'
  BY <1>1, <1>3, <1>4, <1>5, <1>6 DEF MetricsTypeOK, CallRecord, CallAt
<1>8. AskedIsCached'
  BY <1>1, <1>3, <1>4, <1>5 DEF AskedIsCached, Doing, KeyOf
<1>9. CallsHaveKeys'
  BY <1>1, <1>3 DEF CallsHaveKeys, Doing, KeyOf
<1>10. MappedExist' /\ ClosedIsQuiet'
  BY <1>5, <1>6 DEF MappedExist, ClosedIsQuiet
<1>11. InHandExist'
  <2>1. <<k, i>> \notin handles
    <3>1. i \notin asked[k]
      BY <1>1 DEF AskedOnce
    <3>. QED  BY <3>1 DEF UnmappedWereRaced
  <2>2. call'[i].metric = i <=> <<k, i>> \in handles'
    BY <1>2, <1>3, <2>1
  <2>3. call'[i].metric \in {i, Null}
    BY <1>3
  <2>4. \A j \in Instances : j # i =>
           (<<KeyOf(j), j>> \in handles' <=> <<KeyOf(j), j>> \in handles)
    BY <1>2
  <2>. QED  BY <1>1, <1>3, <1>4, <2>2, <2>3, <2>4 DEF InHandExist, Doing, KeyOf, CallsHaveKeys
<1>12. IncrementsLive' /\ AskedOnce'
  <2>1. \A j \in Instances : Doing(j, "create")' => j # i /\ Doing(j, "create")
    BY <1>3 DEF Doing
  <2>2. AskedOnce'
    BY <1>3, <1>4, <2>1 DEF AskedOnce, Doing, KeyOf, CallsHaveKeys
  <2>3. IncrementsLive'
    BY <1>3, <1>6 DEF IncrementsLive, Doing, KeyOf
  <2>. QED  BY <2>2, <2>3
<1>13. UnmappedWereRaced'
  <2>. SUFFICES ASSUME NEW h \in handles'
                PROVE  /\ h[2] \in asked'[h[1]]
                       /\ \/ h[1] \in DOMAIN table' /\ table'[h[1]] = h[2] /\ registry' # "closed"
                          \/ /\ Doing(h[2], "insert")' /\ KeyOf(h[2])' = h[1]
                             /\ call'[h[2]].metric = h[2]
                          \/ \E j \in asked'[h[1]] : j # h[2]
    BY DEF UnmappedWereRaced
  <2>0. h[1] \in Key /\ h[2] \in Instances
    BY <1>1, <1>6 DEF MetricsTypeOK
  <2>1. CASE h \in handles
    <3>1. h[2] \in asked'[h[1]] /\ asked[h[1]] \subseteq asked'[h[1]]
      BY <1>4, <2>0, <2>1 DEF UnmappedWereRaced
    <3>. QED  BY <1>1, <1>3, <1>5, <2>0, <2>1, <3>1 DEF UnmappedWereRaced, Doing, KeyOf
  <2>2. CASE h = <<k, i>> /\ m = i
    BY <1>3, <1>4, <2>2 DEF Doing, KeyOf
  <2>. QED  BY <1>2, <2>1, <2>2
<1>. QED  BY <1>7, <1>8, <1>9, <1>10, <1>11, <1>12, <1>13

LEMMA InsertKeepsInv ==
    ASSUME MetricsInv, NEW i \in Instances, InsertMetric(i)
    PROVE  MetricsInv'
<1>. DEFINE k == KeyOf(i)
            m == call[i].metric
<1>. USE DEF MetricsInv
<1>1. k \in Key /\ Doing(i, "insert") /\ call[i] \in CallRecord
  BY DEF InsertMetric, CallsHaveKeys, Doing, MetricsTypeOK, CallRecord, CallAt
<1>2. /\ m \in {i, Null} /\ i # Null /\ i \in asked[k]
      /\ m # Null => <<k, m>> \in handles
  BY <1>1, MetricsAssumption DEF InHandExist, MetricsAssumption
<1>3. /\ call' \in [Instances -> CallRecord]
      /\ m = Null => call'[i] = Idle
      /\ m # Null => call'[i] = [at |-> "increment", key |-> k, metric |-> m]
      /\ \A j \in Instances : j # i => call'[j] = call[j]
  <2>1. [call[i] EXCEPT !.at = "increment"] = [at |-> "increment", key |-> k, metric |-> m]
    BY <1>1 DEF CallRecord, KeyOf
  <2>2. call' = [call EXCEPT ![i] = IF m = Null THEN Idle
                                    ELSE [at |-> "increment", key |-> k, metric |-> m]]
    BY <2>1 DEF InsertMetric
  <2>. QED  BY <1>1, <2>2 DEF MetricsTypeOK, CallRecord, CallAt, Handle, KeyOf, Idle
<1>4. call'[i].at # "insert" /\ call'[i].at # "create" /\ call'[i].at \in {"idle", "increment"}
  BY <1>3 DEF Idle
<1>5. /\ UNCHANGED <<registry, families, eager, handles, asked>>
      /\ registry # "closed"
  BY <1>1 DEF InsertMetric, ClosedIsQuiet, Doing
<1>6. /\ DOMAIN table' = DOMAIN table \cup {k}
      /\ table'[k] = m
      /\ \A key \in DOMAIN table : key # k => table'[key] = table[key]
  BY DEF InsertMetric
<1>7. MetricsTypeOK'
  <2>1. \A key \in DOMAIN table' : key \in Key /\ table'[key] \in Handle
    BY <1>1, <1>2, <1>6 DEF MetricsTypeOK, Handle
  <2>. QED  BY <1>3, <1>5, <2>1 DEF MetricsTypeOK, CallRecord, CallAt
<1>8. AskedIsCached'
  BY <1>1, <1>3, <1>5, <1>6 DEF AskedIsCached, Doing, KeyOf, MetricsTypeOK
<1>9. CallsHaveKeys'
  BY <1>1, <1>3, <1>4 DEF CallsHaveKeys, Doing, KeyOf, Idle
<1>10. MappedExist' /\ ClosedIsQuiet'
  BY <1>2, <1>5, <1>6 DEF MappedExist, ClosedIsQuiet
<1>11. InHandExist' /\ AskedOnce'
  BY <1>3, <1>4, <1>5 DEF InHandExist, AskedOnce, Doing, KeyOf
<1>12. IncrementsLive'
  BY <1>2, <1>3, <1>5 DEF IncrementsLive, Doing, KeyOf, Idle
<1>13. UnmappedWereRaced'
  <2>. SUFFICES ASSUME NEW h \in handles
                PROVE  /\ h[2] \in asked[h[1]]
                       /\ \/ h[1] \in DOMAIN table' /\ table'[h[1]] = h[2]
                          \/ /\ Doing(h[2], "insert")' /\ KeyOf(h[2])' = h[1]
                             /\ call'[h[2]].metric = h[2]
                          \/ \E j \in asked[h[1]] : j # h[2]
    BY <1>5 DEF UnmappedWereRaced
  <2>1. h[1] \in Key /\ h[2] \in Instances /\ h[2] \in asked[h[1]]
    BY DEF MetricsTypeOK, UnmappedWereRaced
  <2>2. CASE h[1] = k /\ h[2] # i
    BY <1>2, <2>1, <2>2
  <2>3. CASE h[1] = k /\ h[2] = i
    <3>1. h = <<k, i>>
      <4>1. handles \subseteq Key \X Instances
        BY DEF MetricsTypeOK
      <4>2. PICK a \in Key, b \in Instances : h = <<a, b>>
        BY <4>1
      <4>. QED  BY <2>3, <4>2
    <3>2. m = i
      BY <1>1, <3>1 DEF InHandExist
    <3>. QED  BY <1>6, <2>1, <2>3, <3>2
  <2>4. CASE h[1] # k
    BY <1>3, <1>6, <2>1, <2>4 DEF UnmappedWereRaced, Doing, KeyOf
  <2>. QED  BY <2>2, <2>3, <2>4
<1>. QED  BY <1>7, <1>8, <1>9, <1>10, <1>11, <1>12, <1>13

LEMMA IncrementKeepsInv ==
    ASSUME MetricsInv, NEW i \in Instances, IncrementMetric(i)
    PROVE  MetricsInv'
<1>. USE DEF MetricsInv, IncrementMetric
<1>1. /\ call' \in [Instances -> CallRecord]
      /\ call'[i] = Idle
      /\ \A j \in Instances : j # i => call'[j] = call[j]
  BY DEF MetricsTypeOK, CallRecord, CallAt, Idle, Handle
<1>2. Idle.at = "idle"
  BY DEF Idle
<1>3. MetricsTypeOK'
  BY <1>1 DEF MetricsTypeOK, CallRecord, CallAt
<1>4. AskedIsCached' /\ CallsHaveKeys' /\ InHandExist'
  BY <1>1, <1>2 DEF AskedIsCached, CallsHaveKeys, InHandExist, Doing, KeyOf, MetricsTypeOK
<1>5. AskedOnce' /\ IncrementsLive'
  BY <1>1, <1>2 DEF AskedOnce, IncrementsLive, Doing, KeyOf
<1>6. MappedExist' /\ ClosedIsQuiet'
  BY <1>1, <1>2 DEF MappedExist, ClosedIsQuiet, Doing
<1>7. UnmappedWereRaced'
  BY <1>1, <1>2 DEF UnmappedWereRaced, Doing, KeyOf, MetricsTypeOK
<1>. QED  BY <1>3, <1>4, <1>5, <1>6, <1>7

LEMMA DeleteKeepsInv ==
    MetricsInv /\ DeleteMetrics => MetricsInv'
<1>. SUFFICES ASSUME MetricsInv, DeleteMetrics PROVE MetricsInv'
  OBVIOUS
<1>. USE DEF MetricsInv
<1>1. /\ \A i \in Instances : Doing(i, "idle") /\ Doing(i, "idle")'
      /\ registry # "closed" /\ registry' = "closed"
      /\ handles' = {h \in handles : h[2] # table[h[1]]}
      /\ UNCHANGED <<table, asked, call>>
  BY DEF DeleteMetrics, Doing
<1>2. MetricsTypeOK'
  <2>1. families' \in [Family -> {"null", "live", "deleted"}]
    BY DEF DeleteMetrics, MetricsTypeOK
  <2>2. eager' \in {"null", "live", "deleted"}
    BY DEF DeleteMetrics, MetricsTypeOK
  <2>. QED  BY <1>1, <2>1, <2>2 DEF MetricsTypeOK
<1>3. AskedIsCached'
  BY <1>1 DEF AskedIsCached, Doing, KeyOf
<1>4. CallsHaveKeys' /\ MappedExist' /\ InHandExist' /\ AskedOnce' /\ IncrementsLive'
  BY <1>1 DEF CallsHaveKeys, MappedExist, InHandExist, AskedOnce, IncrementsLive, Doing
<1>5. ClosedIsQuiet'
  <2>1. \A f \in Family : families'[f] = "live" => HandlesOf(f, handles') # {}
    BY DEF DeleteMetrics
  <2>. QED  BY <1>1, <2>1 DEF ClosedIsQuiet
<1>6. UnmappedWereRaced'
  <2>. SUFFICES ASSUME NEW h \in handles'
                PROVE  /\ h[2] \in asked[h[1]]
                       /\ \E j \in asked[h[1]] : j # h[2]
    BY <1>1 DEF UnmappedWereRaced
  <2>1. h \in handles /\ h[2] # table[h[1]] /\ h[2] \in Instances
    BY <1>1 DEF MetricsTypeOK
  <2>. QED  BY <1>1, <2>1 DEF UnmappedWereRaced, Doing
<1>. QED  BY <1>2, <1>3, <1>4, <1>5, <1>6

-----------------------------------------------------------------------------
(* Every step, and the theorems *)

LEMMA StepKeepsMetricsInv ==
    MetricsInv /\ [MetricsNext]_metricVars => MetricsInv'
<1>. SUFFICES ASSUME MetricsInv, [MetricsNext]_metricVars PROVE MetricsInv'
  OBVIOUS
<1>1. CASE InitCudaGraphMetrics
  BY <1>1, InitMetricsKeepsInv
<1>2. CASE \E i \in Instances : MetricStep(i)
  BY <1>2, FindKeepsInv, CreateKeepsInv, InsertKeepsInv, IncrementKeepsInv DEF MetricStep
<1>3. CASE \E i \in Instances : \E f \in BucketFamily, bucket \in Buckets :
              CallMetric(i, f, bucket)
  BY <1>3, CallKeepsInv
<1>4. CASE DeleteMetrics
  BY <1>4, DeleteKeepsInv
<1>5. CASE UNCHANGED metricVars
  <2>. USE <1>5 DEF metricVars
  <2>1. MetricsTypeOK' /\ AskedIsCached' /\ CallsHaveKeys' /\ MappedExist'
    BY DEF MetricsInv, MetricsTypeOK, AskedIsCached, CallsHaveKeys, MappedExist, Doing, KeyOf
  <2>2. InHandExist' /\ AskedOnce' /\ IncrementsLive'
    BY DEF MetricsInv, InHandExist, AskedOnce, IncrementsLive, Doing, KeyOf
  <2>3. UnmappedWereRaced' /\ ClosedIsQuiet'
    BY DEF MetricsInv, UnmappedWereRaced, ClosedIsQuiet, Doing, KeyOf
  <2>. QED  BY <2>1, <2>2, <2>3 DEF MetricsInv
<1>. QED  BY <1>1, <1>2, <1>3, <1>4, <1>5 DEF MetricsNext

(* The invariant of the metrics: however the calls of the instances        *)
(* interleave, what is asked, held, mapped and left behind agree.          *)
THEOREM MetricsInvariant == MetricsSpec => []MetricsInv
BY InitMetricsInv, StepKeepsMetricsInv, PTL DEF MetricsSpec

(* A family that the destructor leaves alive has a metric two instances    *)
(* raced to create: the one leak of the metrics is the race.               *)
LEMMA LeftoverWasRaced == MetricsInv => ReleasedUnlessRaced
<1>. SUFFICES ASSUME MetricsInv, registry = "closed", NEW f \in Family,
                     families[f] = "live"
              PROVE  \E h \in HandlesOf(f, handles) : \E i, j \in asked[h[1]] : i # j
  BY DEF ReleasedUnlessRaced
<1>1. PICK h \in HandlesOf(f, handles) : TRUE
  BY DEF MetricsInv, ClosedIsQuiet
<1>2. h \in handles /\ h[2] \in Instances
  BY <1>1 DEF HandlesOf, MetricsInv, MetricsTypeOK
<1>3. \E j \in asked[h[1]] : j # h[2]
  BY <1>2 DEF MetricsInv, UnmappedWereRaced, ClosedIsQuiet, Doing
<1>4. h[2] \in asked[h[1]]
  BY <1>2 DEF MetricsInv, UnmappedWereRaced
<1>. QED  BY <1>1, <1>3, <1>4

(* "Cache even nullptr so a failed creation is not retried on every        *)
(* request": each instance asks for a metric once at most, whatever the    *)
(* others do to the map between its lookup and its insertion.              *)
THEOREM NeverAskedTwice == MetricsSpec => []AskedOnce
<1>1. MetricsInv => AskedOnce
  BY DEF MetricsInv
<1>. QED  BY MetricsInvariant, <1>1, PTL

(* What an instance increments exists, even if its metric lost the race to *)
(* be cached.                                                              *)
THEOREM NeverIncrementsDead == MetricsSpec => []IncrementsLive
<1>1. MetricsInv => IncrementsLive
  BY DEF MetricsInv
<1>. QED  BY MetricsInvariant, <1>1, PTL

(* The destructor deletes every family but those with a metric that lost   *)
(* a race between two instances.                                           *)
THEOREM LeakedOnlyByRace == MetricsSpec => []ReleasedUnlessRaced
BY MetricsInvariant, LeftoverWasRaced, PTL
=============================================================================
