----------------------------- MODULE CapturePool -----------------------------
(***************************************************************************)
(* What the instances of a model share when they capture and replay CUDA   *)
(* graphs: the streams.  CaptureBucket takes its stream from the device's  *)
(* pool, which hands out PoolSize streams in turn, again and again; an     *)
(* entry keeps the stream it was captured on and every replay of it runs   *)
(* there.  GraphCache says which bucket an instance captures or replays;   *)
(* here an instance picks any.                                             *)
(***************************************************************************)
EXTENDS ModelInstances

CONSTANTS
    Devices,
    PoolSize    \* streams of one device's pool (32 in c10)

ASSUME PoolAssumption == PoolSize \in Nat \ {0} /\ Devices \subseteq Nat

VARIABLES
    taken,    \* per device: how often the pool handed out a stream
    home,     \* history: the device of an instance that captures
    entries,  \* cuda_graph_cache_: bucket -> which taking its stream was
    pinned,   \* cuda_graph_failed_
    graph     \* the capture or replay an instance has under way

poolVars == <<taken, home, entries, pinned, graph>>

-----------------------------------------------------------------------------
NoDevice == -1
NoGraph == [at |-> "none", bucket |-> 0, taking |-> 0]
Capturing == {"warming", "capturing"}
UnderWay(i) == graph[i].at # "none"

(* getStreamFromPool: the pool's streams in turn, counted per device. *)
Stream(i, taking) == <<home[i], taking % PoolSize>>

(* The takings behind an instance's graphs. *)
Held(i) ==
    {entries[i][b] : b \in DOMAIN entries[i]}
      \cup (IF UnderWay(i) THEN {graph[i].taking} ELSE {})

PoolInit ==
    /\ taken = [d \in Devices |-> 0]
    /\ home = [i \in Instances |-> NoDevice]
    /\ entries = [i \in Instances |-> <<>>]
    /\ pinned = [i \in Instances |-> {}]
    /\ graph = [i \in Instances |-> NoGraph]

(* A plausible bug: the capture stays on the stream that is current. *)
BeginCaptureOnCurrent(i, d, bucket) ==
    /\ graph[i].at = "none"
    /\ home[i] \in {NoDevice, d}
    /\ bucket \notin DOMAIN entries[i] \cup pinned[i]
    /\ home' = [home EXCEPT ![i] = d]
    /\ graph' = [graph EXCEPT ![i] = [at |-> "warming", bucket |-> bucket,
                                      taking |-> taken[d]]]
    /\ UNCHANGED <<taken, entries, pinned>>

(* CaptureBucket: the pool's next stream, the clones of the inputs and *)
(* three warm-up runs on it.                                           *)
BeginCapture(i, d, bucket) ==
    /\ graph[i].at = "none"
    /\ home[i] \in {NoDevice, d}
    /\ bucket \notin DOMAIN entries[i] \cup pinned[i]
    /\ home' = [home EXCEPT ![i] = d]
    /\ taken' = [taken EXCEPT ![d] = @ + 1]
    /\ graph' = [graph EXCEPT ![i] = [at |-> "warming", bucket |-> bucket,
                                      taking |-> taken[d]]]
    /\ UNCHANGED <<entries, pinned>>

(* graph->capture_begin *)
RecordGraph(i) ==
    /\ graph[i].at = "warming"
    /\ graph' = [graph EXCEPT ![i].at = "capturing"]
    /\ UNCHANGED <<taken, home, entries, pinned>>

(* graph->capture_end and the emplacement.  next is what the caller does   *)
(* with it: replay it at once, or, in warmup, nothing.                     *)
CaptureEnds(i, next) ==
    /\ graph[i].at = "capturing"
    /\ entries' = [entries EXCEPT ![i] =
                     [b \in DOMAIN @ \cup {graph[i].bucket} |->
                        IF b = graph[i].bucket THEN graph[i].taking ELSE @[b]]]
    /\ graph' = [graph EXCEPT ![i] =
                   IF next = "replaying" THEN [@ EXCEPT !.at = next] ELSE NoGraph]
    /\ UNCHANGED <<taken, home, pinned>>

CaptureFails(i) ==
    /\ graph[i].at \in Capturing
    /\ pinned' = [pinned EXCEPT ![i] = @ \cup {graph[i].bucket}]
    /\ graph' = [graph EXCEPT ![i] = NoGraph]
    /\ UNCHANGED <<taken, home, entries>>

(* ReplayCudaGraphEntry, from its first event record until the work it *)
(* queued is done.                                                     *)
BeginReplay(i, bucket) ==
    /\ graph[i].at = "none"
    /\ bucket \in DOMAIN entries[i]
    /\ graph' = [graph EXCEPT ![i] = [at |-> "replaying", bucket |-> bucket,
                                      taking |-> entries[i][bucket]]]
    /\ UNCHANGED <<taken, home, entries, pinned>>

EndReplay(i) ==
    /\ graph[i].at = "replaying"
    /\ graph' = [graph EXCEPT ![i] = NoGraph]
    /\ UNCHANGED <<taken, home, entries, pinned>>

(* The width self-heal, and the end of the instance. *)
DropEntries(i) ==
    /\ graph[i].at = "none"
    /\ entries' = [entries EXCEPT ![i] = <<>>]
    /\ pinned' = [pinned EXCEPT ![i] = {}]
    /\ UNCHANGED <<taken, home, graph>>

GraphStep(i) ==
    \/ \E d \in Devices, bucket \in Buckets : BeginCapture(i, d, bucket)
    \/ RecordGraph(i)
    \/ \E next \in {"replaying", "none"} : CaptureEnds(i, next)
    \/ CaptureFails(i)
    \/ \E bucket \in Buckets : BeginReplay(i, bucket)
    \/ EndReplay(i)
    \/ DropEntries(i)

PoolNext == \E i \in Instances : GraphStep(i)

PoolSpec == PoolInit /\ [][PoolNext]_poolVars

-----------------------------------------------------------------------------
(* Properties *)

PoolTypeOK ==
    /\ taken \in [Devices -> Nat]
    /\ home \in [Instances -> Devices \cup {NoDevice}]
    /\ pinned \in [Instances -> SUBSET Buckets]
    /\ DOMAIN entries = Instances
    /\ \A i \in Instances : DOMAIN entries[i] \subseteq Buckets
    /\ \A i \in Instances : \A b \in DOMAIN entries[i] : entries[i][b] \in Nat
    /\ graph \in [Instances -> [at : {"none", "replaying"} \cup Capturing,
                                bucket : Buckets \cup {0}, taking : Nat]]

(* "We capture on a dedicated pool stream", "Dedicated stream so AOTI's    *)
(* caching-allocator scratch is captured on it": while an instance records *)
(* a graph, no other instance runs anything on the stream it records.      *)
CapturesAlone ==
    \A i, j \in Instances :
       i # j /\ graph[i].at = "capturing" /\ UnderWay(j) =>
          Stream(j, graph[j].taking) # Stream(i, graph[i].taking)

(* As long as a device's pool has not come round, its streams really are   *)
(* dedicated: no two captured graphs of different instances, and no        *)
(* capture or replay under way, are on one stream.                         *)
StreamsApart ==
    \A i, j \in Instances :
       i # j =>
          \A s \in Held(i), t \in Held(j) :
             taken[home[i]] <= PoolSize => Stream(i, s) # Stream(j, t)

-----------------------------------------------------------------------------
(* The inductive invariant behind them *)

(* What an instance holds was taken from its device's pool. *)
HeldWasTaken ==
    \A i \in Instances : \A s \in Held(i) :
       home[i] \in Devices /\ s < taken[home[i]]

(* What is under way is the capture or the replay of a bucket. *)
UnderWayOnBucket == \A i \in Instances : UnderWay(i) => graph[i].bucket \in Buckets

(* What the pool handed out is held by one instance. *)
HeldOnce ==
    \A i, j \in Instances :
       i # j /\ home[i] = home[j] => Held(i) \cap Held(j) = {}

PoolInv == PoolTypeOK /\ UnderWayOnBucket /\ HeldWasTaken /\ HeldOnce
=============================================================================
