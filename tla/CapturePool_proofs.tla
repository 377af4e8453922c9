-------------------------- MODULE CapturePool_proofs --------------------------
(***************************************************************************)
(* Machine-checked proofs about CapturePool, for every number of instances,*)
(* devices and buckets and every size of the pool: a taking of a stream is *)
(* held by one instance, and until the pool has come round different       *)
(* takings are different streams.                                          *)
(***************************************************************************)
EXTENDS CapturePool, TLAPS

GraphAt == {"none", "replaying"} \cup Capturing
GraphRecord == [at : GraphAt, bucket : Buckets \cup {0}, taking : Nat]

-----------------------------------------------------------------------------
(* Arithmetic *)

(* A natural number below the modulus is its own remainder. *)
LEMMA BelowModulus ==
    ASSUME NEW n \in Nat, NEW m \in Nat \ {0}, n < m
    PROVE  n % m = n
BY SMT

(* The cache of a new instance has no bucket. *)
LEMMA EmptyDomain == DOMAIN <<>> = {}
BY SMT

(* No device of the pool is the mark of an instance without one. *)
LEMMA NoDeviceIsNone == NoDevice \notin Devices
BY PoolAssumption DEF PoolAssumption, NoDevice

-----------------------------------------------------------------------------
(* What an instance holds *)

(* Takings are numbers. *)
LEMMA HeldNat ==
    ASSUME PoolTypeOK, NEW i \in Instances
    PROVE  Held(i) \subseteq Nat
BY DEF PoolTypeOK, Held

(* A step that takes no stream, moves no instance and lets nobody hold     *)
(* more than before keeps both facts about what is held.                   *)
LEMMA HoldingLess ==
    ASSUME PoolInv, taken' = taken, home' = home,
           \A i \in Instances : Held(i)' \subseteq Held(i)
    PROVE  HeldWasTaken' /\ HeldOnce'
BY DEF PoolInv, HeldWasTaken, HeldOnce

-----------------------------------------------------------------------------
(* The initial states *)

LEMMA InitPoolInv == PoolInit => PoolInv
<1>. SUFFICES ASSUME PoolInit PROVE PoolInv
  OBVIOUS
<1>. USE DEF PoolInit
<1>1. \A i \in Instances : DOMAIN entries[i] = {}
  BY EmptyDomain
<1>2. \A i \in Instances : Held(i) = {}
  BY <1>1 DEF Held, UnderWay, NoGraph
<1>3. PoolTypeOK
  <2>1. graph \in [Instances -> GraphRecord]
    BY DEF NoGraph, GraphRecord, GraphAt
  <2>. QED  BY <1>1, <2>1 DEF PoolTypeOK, NoDevice, GraphRecord, GraphAt
<1>4. UnderWayOnBucket
  BY DEF UnderWayOnBucket, UnderWay, NoGraph
<1>. QED  BY <1>2, <1>3, <1>4 DEF PoolInv, HeldWasTaken, HeldOnce

-----------------------------------------------------------------------------
(* One lemma per action *)

LEMMA BeginCaptureKeepsInv ==
    ASSUME PoolInv, NEW i \in Instances, NEW d \in Devices, NEW bucket \in Buckets,
           BeginCapture(i, d, bucket)
    PROVE  PoolInv'
<1>. USE DEF PoolInv
<1>1. /\ taken[d] \in Nat
      /\ taken' \in [Devices -> Nat] /\ taken'[d] = taken[d] + 1
      /\ \A e \in Devices : taken'[e] >= taken[e]
  BY DEF BeginCapture, PoolTypeOK
<1>2. /\ graph' \in [Instances -> GraphRecord]
      /\ graph'[i] = [at |-> "warming", bucket |-> bucket, taking |-> taken[d]]
      /\ \A j \in Instances : j # i => graph'[j] = graph[j]
  BY <1>1 DEF BeginCapture, PoolTypeOK, GraphRecord, GraphAt, Capturing
<1>3. /\ home' \in [Instances -> Devices \cup {NoDevice}]
      /\ home'[i] = d /\ home[i] \in {NoDevice, d}
      /\ \A j \in Instances : j # i => home'[j] = home[j]
  BY DEF BeginCapture, PoolTypeOK
<1>4. PoolTypeOK'
  BY <1>1, <1>2, <1>3 DEF BeginCapture, PoolTypeOK, GraphRecord, GraphAt
<1>5. Held(i)' \subseteq Held(i) \cup {taken[d]}
  BY <1>2 DEF BeginCapture, Held, UnderWay
<1>6. \A j \in Instances : j # i => Held(j)' = Held(j)
  BY <1>2 DEF BeginCapture, Held, UnderWay
<1>7. home[i] = NoDevice => Held(i) = {}
  BY NoDeviceIsNone DEF HeldWasTaken
<1>8. \A j \in Instances : Held(j) \subseteq Nat
  BY HeldNat
<1>9. HeldWasTaken'
  <2>. SUFFICES ASSUME NEW j \in Instances, NEW s \in Held(j)'
                PROVE  home'[j] \in Devices /\ s < taken'[home'[j]]
    BY DEF HeldWasTaken
  <2>1. CASE j = i /\ s = taken[d]
    BY <1>1, <1>3, <2>1
  <2>2. CASE j = i /\ s \in Held(i)
    <3>1. home[i] = d /\ s < taken[d] /\ s \in Nat
      BY <1>3, <1>7, <1>8, <2>2 DEF HeldWasTaken
    <3>. QED  BY <1>1, <1>3, <2>2, <3>1
  <2>3. CASE j # i
    <3>1. s \in Held(j) /\ s \in Nat
      BY <1>6, <1>8, <2>3
    <3>2. home[j] \in Devices /\ s < taken[home[j]]
      BY <3>1 DEF HeldWasTaken
    <3>3. taken[home[j]] \in Nat /\ taken'[home[j]] \in Nat /\ taken'[home[j]] >= taken[home[j]]
      BY <1>1, <3>2 DEF PoolTypeOK
    <3>. QED  BY <1>3, <2>3, <3>1, <3>2, <3>3
  <2>. QED  BY <1>5, <2>1, <2>2, <2>3
<1>10. \A j \in Instances : j # i /\ home'[j] = d => Held(i)' \cap Held(j)' = {}
  <2>. SUFFICES ASSUME NEW j \in Instances, j # i, home[j] = d, NEW s \in Held(j),
                       s \in Held(i)'
                PROVE  FALSE
    BY <1>3, <1>6
  <2>1. s < taken[d] /\ s \in Nat
    BY <1>8 DEF HeldWasTaken
  <2>2. s \in Held(i)
    BY <1>1, <1>5, <2>1
  <2>. QED  BY <1>3, <1>7, <2>2 DEF HeldOnce
<1>11. HeldOnce'
  <2>. SUFFICES ASSUME NEW j \in Instances, NEW k \in Instances, j # k, home'[j] = home'[k]
                PROVE  Held(j)' \cap Held(k)' = {}
    BY DEF HeldOnce
  <2>1. CASE j = i \/ k = i
    BY <1>3, <1>10, <2>1
  <2>2. CASE j # i /\ k # i
    BY <1>3, <1>6, <2>2 DEF HeldOnce
  <2>. QED  BY <2>1, <2>2
<1>12. UnderWayOnBucket'
  BY <1>2 DEF UnderWayOnBucket, UnderWay
<1>. QED  BY <1>4, <1>9, <1>11, <1>12

LEMMA RecordKeepsInv ==
    ASSUME PoolInv, NEW i \in Instances, RecordGraph(i)
    PROVE  PoolInv'
<1>. USE DEF PoolInv
<1>0. graph[i] \in GraphRecord
  BY DEF PoolTypeOK, GraphRecord, GraphAt
<1>1. /\ graph' \in [Instances -> GraphRecord]
      /\ graph'[i].at = "capturing" /\ graph'[i].taking = graph[i].taking
      /\ graph[i].at # "none"
      /\ \A j \in Instances : j # i => graph'[j] = graph[j]
  BY <1>0 DEF RecordGraph, PoolTypeOK, GraphRecord, GraphAt, Capturing
<1>2. PoolTypeOK'
  BY <1>1 DEF RecordGraph, PoolTypeOK, GraphRecord, GraphAt
<1>3. \A j \in Instances : Held(j)' \subseteq Held(j)
  BY <1>1 DEF RecordGraph, Held, UnderWay
<1>4. HeldWasTaken' /\ HeldOnce'
  BY <1>3, HoldingLess DEF RecordGraph
<1>5. UnderWayOnBucket'
  <2>1. graph'[i].bucket = graph[i].bucket
    BY <1>0 DEF RecordGraph, PoolTypeOK, GraphRecord
  <2>. QED  BY <1>1, <2>1 DEF UnderWayOnBucket, UnderWay
<1>. QED  BY <1>2, <1>4, <1>5

LEMMA CaptureEndsKeepsInv ==
    ASSUME PoolInv, NEW i \in Instances, NEW next \in {"replaying", "none"},
           CaptureEnds(i, next)
    PROVE  PoolInv'
<1>. DEFINE b == graph[i].bucket
            t == graph[i].taking
<1>. USE DEF PoolInv
<1>0. graph[i] \in GraphRecord
  BY DEF PoolTypeOK, GraphRecord, GraphAt
<1>1. /\ graph' \in [Instances -> GraphRecord]
      /\ graph'[i] = NoGraph \/ graph'[i].taking = t
      /\ graph[i].at = "capturing"
      /\ \A j \in Instances : j # i => graph'[j] = graph[j]
  BY <1>0 DEF CaptureEnds, PoolTypeOK, GraphRecord, GraphAt, Capturing, NoGraph
<1>2. /\ DOMAIN entries' = Instances
      /\ DOMAIN entries'[i] = DOMAIN entries[i] \cup {b}
      /\ \A c \in DOMAIN entries'[i] : entries'[i][c] = IF c = b THEN t ELSE entries[i][c]
      /\ \A j \in Instances : j # i => entries'[j] = entries[j]
  BY DEF CaptureEnds, PoolTypeOK
<1>3. b \in Buckets /\ t \in Nat
  BY <1>0, <1>1 DEF UnderWayOnBucket, UnderWay, GraphRecord
<1>4. PoolTypeOK'
  BY <1>0, <1>1, <1>2, <1>3 DEF CaptureEnds, PoolTypeOK, GraphRecord, GraphAt
<1>5. \A j \in Instances : Held(j)' \subseteq Held(j)
  <2>1. Held(i)' \subseteq Held(i)
    BY <1>1, <1>2 DEF Held, UnderWay, NoGraph
  <2>2. \A j \in Instances : j # i => Held(j)' = Held(j)
    BY <1>1, <1>2 DEF Held, UnderWay
  <2>. QED  BY <2>1, <2>2
<1>6. HeldWasTaken' /\ HeldOnce'
  BY <1>5, HoldingLess DEF CaptureEnds
<1>7. UnderWayOnBucket'
  <2>1. graph'[i] = NoGraph \/ graph'[i].bucket = b
    BY <1>0 DEF CaptureEnds, PoolTypeOK, GraphRecord
  <2>. QED  BY <1>1, <1>3, <2>1 DEF UnderWayOnBucket, UnderWay, NoGraph
<1>. QED  BY <1>4, <1>6, <1>7

(* A failed capture, a finished replay: what was under way is let go. *)
LEMMA LetGoKeepsInv ==
    ASSUME PoolInv, NEW i \in Instances, CaptureFails(i) \/ EndReplay(i)
    PROVE  PoolInv'
<1>. USE DEF PoolInv
<1>1. /\ graph' \in [Instances -> GraphRecord]
      /\ graph'[i] = NoGraph
      /\ \A j \in Instances : j # i => graph'[j] = graph[j]
      /\ UNCHANGED <<taken, home, entries>>
  BY DEF CaptureFails, EndReplay, PoolTypeOK, GraphRecord, GraphAt, NoGraph
<1>2. pinned' \in [Instances -> SUBSET Buckets]
  <2>1. CASE CaptureFails(i)
    <3>1. graph[i].bucket \in Buckets
      BY <2>1 DEF CaptureFails, Capturing, UnderWayOnBucket, UnderWay
    <3>. QED  BY <2>1, <3>1 DEF CaptureFails, PoolTypeOK
  <2>2. CASE EndReplay(i)
    BY <2>2 DEF EndReplay, PoolTypeOK
  <2>. QED  BY <2>1, <2>2
<1>3. PoolTypeOK'
  BY <1>1, <1>2 DEF PoolTypeOK, GraphRecord, GraphAt
<1>4. \A j \in Instances : Held(j)' \subseteq Held(j)
  BY <1>1 DEF Held, UnderWay, NoGraph
<1>5. HeldWasTaken' /\ HeldOnce'
  BY <1>1, <1>4, HoldingLess
<1>6. UnderWayOnBucket'
  BY <1>1 DEF UnderWayOnBucket, UnderWay, NoGraph
<1>. QED  BY <1>3, <1>5, <1>6

LEMMA BeginReplayKeepsInv ==
    ASSUME PoolInv, NEW i \in Instances, NEW bucket \in Buckets, BeginReplay(i, bucket)
    PROVE  PoolInv'
<1>. USE DEF PoolInv
<1>1. entries[i][bucket] \in Nat /\ bucket \in DOMAIN entries[i]
  BY DEF BeginReplay, PoolTypeOK
<1>2. /\ graph' \in [Instances -> GraphRecord]
      /\ graph'[i] = [at |-> "replaying", bucket |-> bucket, taking |-> entries[i][bucket]]
      /\ \A j \in Instances : j # i => graph'[j] = graph[j]
  BY <1>1 DEF BeginReplay, PoolTypeOK, GraphRecord, GraphAt
<1>3. PoolTypeOK'
  BY <1>2 DEF BeginReplay, PoolTypeOK, GraphRecord, GraphAt
<1>4. \A j \in Instances : Held(j)' \subseteq Held(j)
  BY <1>1, <1>2 DEF BeginReplay, Held, UnderWay
<1>5. HeldWasTaken' /\ HeldOnce'
  BY <1>4, HoldingLess DEF BeginReplay
<1>6. UnderWayOnBucket'
  BY <1>2 DEF UnderWayOnBucket, UnderWay
<1>. QED  BY <1>3, <1>5, <1>6

LEMMA DropKeepsInv ==
    ASSUME PoolInv, NEW i \in Instances, DropEntries(i)
    PROVE  PoolInv'
<1>. USE DEF PoolInv
<1>1. /\ DOMAIN entries' = Instances
      /\ DOMAIN entries'[i] = {}
      /\ \A j \in Instances : j # i => entries'[j] = entries[j]
  BY EmptyDomain DEF DropEntries, PoolTypeOK
<1>2. PoolTypeOK'
  BY <1>1 DEF DropEntries, PoolTypeOK
<1>3. \A j \in Instances : Held(j)' \subseteq Held(j)
  BY <1>1 DEF DropEntries, Held, UnderWay
<1>4. HeldWasTaken' /\ HeldOnce'
  BY <1>3, HoldingLess DEF DropEntries
<1>5. UnderWayOnBucket'
  BY DEF DropEntries, UnderWayOnBucket, UnderWay
<1>. QED  BY <1>2, <1>4, <1>5

-----------------------------------------------------------------------------
(* Every step, and the theorems *)

LEMMA StepKeepsPoolInv ==
    PoolInv /\ [PoolNext]_poolVars => PoolInv'
<1>. SUFFICES ASSUME PoolInv, [PoolNext]_poolVars PROVE PoolInv'
  OBVIOUS
<1>1. ASSUME NEW i \in Instances, GraphStep(i) PROVE PoolInv'
  BY <1>1, BeginCaptureKeepsInv, RecordKeepsInv, CaptureEndsKeepsInv, LetGoKeepsInv,
     BeginReplayKeepsInv, DropKeepsInv DEF GraphStep
<1>2. CASE UNCHANGED poolVars
  <2>. USE <1>2 DEF poolVars, PoolInv
  <2>1. PoolTypeOK' /\ UnderWayOnBucket'
    BY DEF PoolTypeOK, UnderWayOnBucket, UnderWay
  <2>2. \A j \in Instances : Held(j)' \subseteq Held(j)
    BY DEF Held, UnderWay
  <2>. QED  BY <2>1, <2>2, HoldingLess
<1>. QED  BY <1>1, <1>2 DEF PoolNext

(* What an instance holds of the pool was taken for it alone. *)
THEOREM PoolInvariant == PoolSpec => []PoolInv
BY InitPoolInv, StepKeepsPoolInv, PTL DEF PoolSpec

(* Different takings of a pool that has not come round are different *)
(* streams.                                                          *)
LEMMA HeldApart == PoolInv => StreamsApart
<1>. SUFFICES ASSUME PoolInv, NEW i \in Instances, NEW j \in Instances, i # j,
                     NEW s \in Held(i), NEW t \in Held(j),
                     taken[home[i]] <= PoolSize, Stream(i, s) = Stream(j, t)
              PROVE  FALSE
  BY DEF StreamsApart
<1>. USE DEF PoolInv
<1>1. home[i] = home[j] /\ s % PoolSize = t % PoolSize
  BY DEF Stream
<1>2. home[i] \in Devices /\ s < taken[home[i]] /\ t < taken[home[i]]
  BY <1>1 DEF HeldWasTaken
<1>3. s \in Nat /\ t \in Nat /\ taken[home[i]] \in Nat /\ PoolSize \in Nat \ {0}
  BY <1>2, HeldNat, PoolAssumption DEF PoolTypeOK, PoolAssumption
<1>4. s % PoolSize = s /\ t % PoolSize = t
  <2>1. s < PoolSize /\ t < PoolSize
    BY <1>2, <1>3
  <2>. QED  BY <1>3, <2>1, BelowModulus
<1>. QED  BY <1>1, <1>4 DEF HeldOnce

(* Until a device's pool has come round, no two instances capture, replay  *)
(* or keep graphs on one stream: there "dedicated stream" is true.         *)
THEOREM StreamsDedicated == PoolSpec => []StreamsApart
BY PoolInvariant, HeldApart, PTL
=============================================================================
