------------------------ MODULE ModelLifecycle_proofs ------------------------
(***************************************************************************)
(* Machine-checked proofs about Backend, continued: what every instance is *)
(* promised when its constructor returns, for every layout of the instance *)
(* groups.  A loader has a runner for each of its users, and every         *)
(* variable keeps its type.                                                *)
(*                                                                         *)
(* The recursive sum of TotalCount is unfolded by hand: that its equation  *)
(* has a solution, and what bounds the solution, is shown of the least     *)
(* number for which it would fail.                                         *)
(***************************************************************************)
EXTENDS Backend_proofs, FiniteSetTheorems

-----------------------------------------------------------------------------
(* Counting *)

(* A set of natural numbers that is not empty has a least element. *)
LEMMA LeastNat ==
    ASSUME NEW T \in SUBSET Nat, T # {}
    PROVE  \E n \in T : \A m \in T : n <= m
<1>1. PICK n \in T : \A m \in T : ~ (<<m, n>> \in OpToRel(<, Nat))
  BY WFMin, NatLessThanWellFounded, Zenon
<1>2. \A m \in T : ~(m < n)
  BY <1>1 DEF OpToRel
<1>. QED  BY <1>2

(* What TotalCount's sum is: the groups' counts, added one by one. *)
Sums(sum, groups, n) ==
    /\ sum[0] = 0
    /\ \A k \in 1..n : sum[k] = sum[k - 1] + groups[k].count

LEMMA SumsExist ==
    ASSUME NEW groups \in Seq(Group), NEW N \in Nat, N <= Len(groups)
    PROVE  \E sum \in [0..N -> Nat] : Sums(sum, groups, N)
<1>. DEFINE Bad == {n \in 0..N : ~\E sum \in [0..n -> Nat] : Sums(sum, groups, n)}
<1>. SUFFICES ASSUME ~\E sum \in [0..N -> Nat] : Sums(sum, groups, N)
              PROVE  FALSE
  OBVIOUS
<1>1. PICK n \in Bad : \A m \in Bad : n <= m
  <2>1. Bad \in SUBSET Nat /\ N \in Bad
    OBVIOUS
  <2>. HIDE DEF Bad
  <2>. QED  BY <2>1, LeastNat
<1>2. n \in Nat /\ n <= N
  OBVIOUS
<1>3. CASE n = 0
  <2>. DEFINE zero == [k \in 0..0 |-> 0]
  <2>1. zero \in [0..n -> Nat] /\ Sums(zero, groups, n)
    BY <1>3 DEF Sums
  <2>. QED  BY <2>1
<1>4. CASE n # 0
  <2>1. n - 1 \in 0..N /\ n - 1 \notin Bad
    <3>1. n - 1 \in 0..N
      BY <1>2, <1>4
    <3>2. n - 1 \in Bad => n <= n - 1
      <4>. HIDE DEF Bad
      <4>. QED  BY <1>1
    <3>. QED  BY <1>2, <3>1, <3>2
  <2>2. PICK sum \in [0..(n - 1) -> Nat] : Sums(sum, groups, n - 1)
    BY <2>1
  <2>3. groups[n].count \in Nat
    <3>1. n \in 1..Len(groups)
      BY <1>2, <1>4
    <3>2. groups[n] \in Group
      BY <3>1
    <3>. QED  BY <3>2 DEF Group
  <2>. DEFINE next == [k \in 0..n |-> IF k = n THEN sum[n - 1] + groups[n].count
                                      ELSE sum[k]]
  <2>4. next \in [0..n -> Nat]
    BY <1>2, <1>4, <2>3
  <2>5. next[0] = 0
    BY <1>2, <1>4, <2>2 DEF Sums
  <2>6. ASSUME NEW k \in 1..n
        PROVE  next[k] = next[k - 1] + groups[k].count
    <3>1. CASE k = n
      BY <1>2, <1>4, <3>1
    <3>2. CASE k # n
      <4>1. k \in 1..(n - 1) /\ k \in 0..n /\ k - 1 \in 0..n /\ k - 1 # n
        BY <1>2, <3>2
      <4>2. sum[k] = sum[k - 1] + groups[k].count
        BY <2>2, <4>1 DEF Sums
      <4>. QED  BY <3>2, <4>1, <4>2
    <3>. QED  BY <3>1, <3>2
  <2>. HIDE DEF next
  <2>7. Sums(next, groups, n)
    BY <2>5, <2>6 DEF Sums
  <2>. QED  BY <2>4, <2>7
<1>. QED  BY <1>3, <1>4

(* The sum is the one function that adds the counts up. *)
LEMMA TotalCountFacts ==
    ASSUME NEW c, c.groups \in Seq(Group)
    PROVE  \E sum \in [0..Len(c.groups) -> Nat] :
              Sums(sum, c.groups, Len(c.groups)) /\ TotalCount(c) = sum[Len(c.groups)]
<1>. DEFINE N == Len(c.groups)
            Step(f) == [n \in 0..N |-> IF n = 0 THEN 0 ELSE f[n - 1] + c.groups[n].count]
            the == CHOOSE f : f = Step(f)
<1>1. N \in Nat
  OBVIOUS
<1>2. PICK sum \in [0..N -> Nat] : Sums(sum, c.groups, N)
  BY <1>1, SumsExist
<1>3. sum = Step(sum)
  <2>1. \A n \in 0..N : sum[n] = Step(sum)[n]
    BY <1>1, <1>2 DEF Sums
  <2>. QED  BY <2>1
<1>4. the = Step(the)
  BY <1>3
<1>5. TotalCount(c) = the[N]
  BY DEF TotalCount
<1>. QED  OBVIOUS
(* The instances on one device are at most as many as the groups ask for:  *)
(* each group places its count on each device it lists, and none elsewhere.*)
LEMMA DeviceBound ==
    ASSUME NEW c \in Configs, NEW d
    PROVE  LET U == {j \in DOMAIN c.members : c.members[j].device = d}
           IN  /\ IsFiniteSet(U) /\ Cardinality(U) \in Nat
               /\ TotalCount(c) \in Nat /\ Cardinality(U) <= TotalCount(c)
<1>. DEFINE N == Len(c.groups)
            Upto(n) == {j \in DOMAIN c.members : /\ c.members[j].device = d
                                                 /\ c.members[j].group <= n}
<1>1. /\ c.groups \in Seq(Group) /\ IsFiniteSet(DOMAIN c.members)
      /\ \A j \in DOMAIN c.members :
            /\ c.members[j] \in [group : DOMAIN c.groups, device : Int]
            /\ c.members[j].device \in GroupOf(c, j).devices
      /\ \A g \in DOMAIN c.groups : \A e \in c.groups[g].devices :
            Cardinality(Placed(c, g, e)) = c.groups[g].count
  BY LifecycleAssumption
<1>2. N \in Nat /\ DOMAIN c.groups = 1..N
  BY <1>1
<1>3. PICK sum \in [0..N -> Nat] : Sums(sum, c.groups, N) /\ TotalCount(c) = sum[N]
  BY <1>1, TotalCountFacts
<1>4. ASSUME NEW n \in 0..N
      PROVE  IsFiniteSet(Upto(n)) /\ Cardinality(Upto(n)) \in Nat
  <2>1. Upto(n) \in SUBSET DOMAIN c.members
    OBVIOUS
  <2>. HIDE DEF Upto
  <2>. QED  BY <1>1, <2>1, FS_Subset, FS_CardinalityType
<1>. DEFINE Bad == {n \in 0..N : ~(Cardinality(Upto(n)) <= sum[n])}
<1>5. ASSUME Bad # {}
      PROVE  FALSE
  <2>1. PICK n \in Bad : \A m \in Bad : n <= m
    <3>1. Bad \in SUBSET Nat
      BY <1>2
    <3>. HIDE DEF Bad
    <3>. QED  BY <1>5, <3>1, LeastNat
  <2>2. n \in 0..N /\ n \in Nat /\ ~(Cardinality(Upto(n)) <= sum[n])
    BY <1>2
  <2>3. CASE n = 0
    <3>1. Upto(n) = {}
      BY <1>1, <1>2, <2>3
    <3>2. Cardinality(Upto(n)) = 0
      BY <3>1, FS_EmptySet
    <3>3. sum[n] = 0
      BY <1>3, <2>3 DEF Sums
    <3>. QED  BY <2>2, <3>2, <3>3
  <2>4. CASE n # 0
    <3>1. n - 1 \in 0..N /\ n - 1 \in Nat /\ n \in 1..N
      BY <1>2, <2>2, <2>4
    <3>2. Cardinality(Upto(n - 1)) <= sum[n - 1]
      <4>1. n - 1 \in Bad => n <= n - 1
        <5>. HIDE DEF Bad
        <5>. QED  BY <2>1
      <4>2. n - 1 \notin Bad
        BY <2>2, <4>1
      <4>. QED  BY <3>1, <4>2
    <3>3. sum[n] = sum[n - 1] + c.groups[n].count
      BY <1>3, <3>1 DEF Sums
    <3>4. c.groups[n].count \in Nat /\ sum[n - 1] \in Nat
      <4>1. c.groups[n] \in Group
        BY <1>1, <1>2, <3>1
      <4>. QED  BY <3>1, <4>1 DEF Group
    <3>. DEFINE here == Placed(c, n, d)
    <3>5. Upto(n) = Upto(n - 1) \cup {j \in DOMAIN c.members :
                                        /\ c.members[j].device = d
                                        /\ c.members[j].group = n}
      BY <1>1, <1>2, <3>1
    <3>6. {j \in DOMAIN c.members : c.members[j].device = d /\ c.members[j].group = n}
            = here
      BY <1>1 DEF Placed
    <3>7. IsFiniteSet(here) /\ Cardinality(here) \in Nat
      <4>1. here \in SUBSET DOMAIN c.members
        BY DEF Placed
      <4>. HIDE DEF here
      <4>. QED  BY <1>1, <4>1, FS_Subset, FS_CardinalityType
    <3>8. Cardinality(here) <= c.groups[n].count
      <4>1. CASE d \in c.groups[n].devices
        BY <1>1, <1>2, <3>1, <3>4, <4>1
      <4>2. CASE d \notin c.groups[n].devices
        <5>1. here = {}
          BY <1>1, <4>2 DEF Placed, GroupOf
        <5>. HIDE DEF here
        <5>. QED  BY <3>4, <5>1, FS_EmptySet
      <4>. QED  BY <4>1, <4>2
    <3>. DEFINE before == Upto(n - 1)
    <3>9. /\ IsFiniteSet(before) /\ Cardinality(before) \in Nat
          /\ Cardinality(before) <= sum[n - 1] /\ Upto(n) = before \cup here
      BY <1>4, <3>1, <3>2, <3>5, <3>6
    <3>10. Cardinality(Upto(n)) <= Cardinality(before) + Cardinality(here)
      <4>. HIDE DEF Upto, before, here
      <4>1. /\ IsFiniteSet(before \cup here)
            /\ Cardinality(before \cup here)
                 = Cardinality(before) + Cardinality(here) - Cardinality(before \cap here)
        BY <3>7, <3>9, FS_Union
      <4>2. Cardinality(before \cap here) \in Nat
        BY <3>7, FS_Subset, FS_CardinalityType
      <4>. QED  BY <3>7, <3>9, <4>1, <4>2
    <3>11. Cardinality(Upto(n)) \in Nat
      BY <1>4, <2>2
    <3>. HIDE DEF Upto, before, here
    <3>. QED  BY <2>2, <3>3, <3>4, <3>7, <3>8, <3>9, <3>10, <3>11
  <2>. QED  BY <2>3, <2>4
<1>6. {j \in DOMAIN c.members : c.members[j].device = d} = Upto(N)
  BY <1>1, <1>2
<1>7. N \in 0..N /\ N \notin Bad
  BY <1>2, <1>5
<1>8. IsFiniteSet(Upto(N)) /\ Cardinality(Upto(N)) \in Nat
  BY <1>4, <1>7
<1>9. Cardinality(Upto(N)) <= sum[N] /\ sum[N] \in Nat
  BY <1>7
<1>. HIDE DEF Upto
<1>. QED  BY <1>3, <1>6, <1>8, <1>9

-----------------------------------------------------------------------------
(* Runners *)

(* The steps that make a loader, or let another instance use it; all other *)
(* steps leave the parameters alone and at most release a loader.          *)
LEMMA LoadersOnlyReleased ==
    ASSUME LifeInv, [Next]_vars
    PROVE  \/ ModelInitialize
           \/ \E i \in Instances : ReuseModel(i) \/ LoadModel(i)
           \/ /\ conf' = conf /\ params' = params
              /\ shared' = shared \/ shared' = <<>>
              /\ loader' = loader \/ \E j \in Instances : Release(j)
<1>. USE DEF setupVars, instanceVars, lifecycleVars, Release
<1>a. DOMAIN loader = Instances
  BY DEF LifeInv
<1>1. CASE Server
  BY <1>a, <1>1 DEF Server, CreateModel, DestroyModel, ModelFinalize, ModelInitializeFails,
     StartServing, StartUnloading, InstanceInitialize, DestroyInstance, InstanceFinalize,
     Execute
<1>2. ASSUME NEW i \in Instances, Construct(i) \/ Validate(i)
      PROVE  \/ ReuseModel(i) \/ LoadModel(i)
             \/ /\ UNCHANGED setupVars
                /\ loader' = loader \/ Release(i)
  BY <1>2 DEF Construct, CreateEvents, LoadModelFails, CreateStreams, Validate,
     ValidateNames
<1>3. ASSUME NEW i \in Instances, Thread(i), ~(Construct(i) \/ Validate(i))
      PROVE  UNCHANGED <<setupVars, loader>>
  BY <1>3 DEF Thread, WarmBucket, Select, Warmed, Capture, Captured, CaptureFailed,
     FallBack, Replayed, ReplayFailed, Responded, RunEager, CountMetric, InCall
<1>4. CASE UNCHANGED vars
  BY <1>4 DEF vars
<1>. QED  BY <1>1, <1>2, <1>3, <1>4 DEF Next

LEMMA AllowanceStays ==
    ASSUME params' = params
    PROVE  Allowance' = Allowance
BY DEF Allowance

LEMMA RunnersStep == LifeInv /\ RunnersInv /\ [Next]_vars => RunnersInv'
<1>. SUFFICES ASSUME LifeInv, RunnersInv, [Next]_vars PROVE RunnersInv'
  OBVIOUS
<1>1. CASE ModelInitialize
  <2>1. /\ conf' = conf /\ params' = Parsed(conf) /\ UNCHANGED <<shared, loader>>
        /\ model = "unloaded"
    BY <1>1 DEF ModelInitialize, instanceVars
  <2>2. shared = <<>> /\ \A i \in Instances : loader[i] = NoLoader
    BY <2>1 DEF LifeInv, ModelOK, InstanceOK, At, Unbuilt
  <2>. QED  BY <2>1, <2>2, EmptyDomain DEF RunnersInv
<1>2. ASSUME NEW i \in Instances, ReuseModel(i)
      PROVE  RunnersInv'
  <2>1. /\ UNCHANGED <<conf, params, shared>>
        /\ loader' = [loader EXCEPT ![i] = shared[DevicePair(i)]]
        /\ DevicePair(i) \in DOMAIN shared
    BY <1>2 DEF ReuseModel, setupVars
  <2>2. \A j \in Instances : loader'[j] \in {loader[j], shared[DevicePair(i)]}
    BY <2>1 DEF LifeInv
  <2>. QED  BY <2>1, <2>2, AllowanceStays DEF RunnersInv
<1>3. ASSUME NEW i \in Instances, LoadModel(i)
      PROVE  RunnersInv'
  <2>. DEFINE new == [owner |-> i, runners |-> Runners(i), single |-> params.graph]
  <2>1. /\ UNCHANGED <<conf, params>>
        /\ loader' = [loader EXCEPT ![i] = new]
        /\ \A k \in DOMAIN shared' :
              \/ k \in DOMAIN shared /\ shared'[k] = shared[k]
              \/ shared'[k] = new
    BY <1>3 DEF LoadModel
  <2>2. new.runners = Allowance
    BY DEF Runners, Allowance, LifeInv, ModelOK
  <2>. HIDE DEF new
  <2>3. \A j \in Instances : loader'[j] \in {loader[j], new}
    BY <2>1 DEF LifeInv
  <2>. QED  BY <2>1, <2>2, <2>3, AllowanceStays DEF RunnersInv
<1>4. CASE /\ conf' = conf /\ params' = params
           /\ shared' = shared \/ shared' = <<>>
           /\ loader' = loader \/ \E j \in Instances : Release(j)
  <2>1. \A j \in Instances : loader'[j] = loader[j] \/ loader'[j] = NoLoader
    BY <1>4 DEF Release, LifeInv
  <2>. QED  BY <1>4, <2>1, AllowanceStays, EmptyDomain DEF RunnersInv
<1>. QED  BY <1>1, <1>2, <1>3, <1>4, LoadersOnlyReleased

LEMMA InitRunners == Init => RunnersInv
<1>. SUFFICES ASSUME Init PROVE RunnersInv
  OBVIOUS
<1>1. /\ params = NoParams /\ shared = <<>>
      /\ \A i \in Instances : loader[i] = NoLoader
  BY DEF Init, LifecycleInit
<1>. QED  BY <1>1, EmptyDomain DEF RunnersInv

(* "Use num_runners equal to the instance count to allow concurrent        *)
(* inference from all instances sharing the model": however the groups and *)
(* their devices are laid out, a loader has a runner for each instance     *)
(* that uses it, since all of these are on one device and a group places   *)
(* its count there at most once.                                           *)
THEOREM RunnersForAll == Spec => []RunnersSuffice
<1>1. LifeInv /\ RunnersInv => RunnersSuffice
  <2>. SUFFICES ASSUME LifeInv, RunnersInv, NEW i \in Instances, loader[i] # NoLoader
                PROVE  Cardinality(Users(loader[i])) <= loader[i].runners
    BY DEF RunnersSuffice
  <2>1. loader[i].runners = Allowance
    BY DEF RunnersInv
  <2>2. CASE ~params.sharing
    <3>1. \A j \in Users(loader[i]) : j = i
      BY <2>2 DEF Users, LifeInv, InstanceOK
    <3>2. Users(loader[i]) = {i}
      BY <3>1 DEF Users
    <3>3. Cardinality({i}) = 1
      BY FS_Singleton
    <3>. QED  BY <2>1, <2>2, <3>2, <3>3 DEF Allowance
  <2>3. CASE params.sharing
    <3>. DEFINE d == DeviceOf(i)
                U == {j \in DOMAIN conf.members : conf.members[j].device = d}
    <3>1. conf \in Configs /\ params = Parsed(conf)
      BY <2>3 DEF RunnersInv, NoParams, LifeInv, ModelOK
    <3>2. ASSUME NEW j \in Users(loader[i])
          PROVE  j \in U
      <4>1. /\ j \in Members /\ DevicePair(j) = DevicePair(i) /\ i \in Members
        BY DEF Users, LifeInv, InstanceOK, MadeFor
      <4>2. OnGpu(i) <=> OnGpu(j)
        BY <4>1 DEF DevicePair
      <4>3. CASE OnGpu(i)
        BY <4>1, <4>2, <4>3 DEF DevicePair, DeviceOf, Members
      <4>4. CASE ~OnGpu(i)
        <5>1. ASSUME NEW k \in Members, ~OnGpu(k)
              PROVE  DeviceOf(k) = 0
          <6>1. /\ conf.members[k] \in [group : DOMAIN conf.groups, device : Int]
                /\ conf.members[k].device \in GroupOf(conf, k).devices
                /\ \A g \in DOMAIN conf.groups :
                      conf.groups[g].kind # "GPU" => conf.groups[g].devices = {0}
            BY <3>1, LifecycleAssumption DEF Members
          <6>2. GroupOf(conf, k).devices = {0}
            BY <5>1, <6>1 DEF OnGpu, KindOf, GroupOf
          <6>. QED  BY <6>1, <6>2 DEF DeviceOf
        <5>. QED  BY <4>1, <4>2, <4>4, <5>1 DEF DeviceOf, Members
      <4>. QED  BY <4>3, <4>4
    <3>3. /\ IsFiniteSet(U) /\ Cardinality(U) \in Nat
          /\ TotalCount(conf) \in Nat /\ Cardinality(U) <= TotalCount(conf)
      BY <3>1, DeviceBound
    <3>. HIDE DEF U
    <3>4. Cardinality(Users(loader[i])) <= Cardinality(U)
      <4>1. Users(loader[i]) \in SUBSET U
        BY <3>2
      <4>. QED  BY <3>3, <4>1, FS_Subset
    <3>5. Cardinality(Users(loader[i])) \in Nat
      BY <3>2, <3>3, FS_Subset, FS_CardinalityType
    <3>6. Allowance = IF TotalCount(conf) > 0 THEN TotalCount(conf) ELSE 1
      BY <2>3, <3>1 DEF Allowance, Parsed
    <3>. QED  BY <2>1, <3>3, <3>4, <3>5, <3>6
  <2>. QED  BY <2>2, <2>3
<1>2. Spec => [](LifeInv /\ PathInv /\ PoolInv)
  BY InitHolds, StepKeepsBackendInv, PTL DEF Spec
<1>. QED  BY <1>1, <1>2, InitRunners, RunnersStep, PTL DEF Spec

-----------------------------------------------------------------------------
(* Types *)

Stages == {"absent", "failed", "gone"} \cup Constructing \cup Serving
LoaderRecord == [owner : Instances, runners : Nat, single : BOOLEAN]
AnyEvent == Elements(ComputeEvents \o GraphEvents)

LEMMA PrefixElements ==
    ASSUME NEW S, NEW s \in Seq(S), NEW n \in 0..Len(s)
    PROVE  Elements(SubSeq(s, 1, n)) \subseteq Elements(s)
<1>1. Len(SubSeq(s, 1, n)) = n /\ \A k \in 1..n : SubSeq(s, 1, n)[k] = s[k]
  OBVIOUS
<1>2. DOMAIN SubSeq(s, 1, n) = 1..n /\ DOMAIN s = 1..Len(s)
  OBVIOUS
<1>. QED  BY <1>1, <1>2 DEF Elements

(* A constructor that stops half way leaves events of the five. *)
LEMMA ComputeAmongAll == Elements(ComputeEvents) \subseteq AnyEvent
<1>. DEFINE S == {"input_start", "infer_start", "output_start",
                  "graph_input_ready", "graph_output_ready"}
            all == ComputeEvents \o GraphEvents
<1>1. ComputeEvents \in Seq(S) /\ Len(ComputeEvents) = 3
  BY DEF ComputeEvents
<1>2. GraphEvents \in Seq(S) /\ Len(GraphEvents) = 2
  BY DEF GraphEvents
<1>3. all \in Seq(S) /\ Len(all) = 5 /\ \A n \in 1..3 : all[n] = ComputeEvents[n]
  <2>. HIDE DEF S
  <2>1. /\ all \in Seq(S) /\ Len(all) = Len(ComputeEvents) + Len(GraphEvents)
        /\ \A n \in 1..(Len(ComputeEvents) + Len(GraphEvents)) :
              all[n] = IF n <= Len(ComputeEvents) THEN ComputeEvents[n]
                       ELSE GraphEvents[n - Len(ComputeEvents)]
    BY <1>1, <1>2, ConcatProperties
  <2>. HIDE DEF all
  <2>. QED  BY <1>1, <1>2, <2>1
<1>4. DOMAIN ComputeEvents = 1..3 /\ DOMAIN all = 1..5
  BY <1>1, <1>3
<1>. HIDE DEF all
<1>5. Elements(ComputeEvents) \subseteq Elements(all)
  BY <1>3, <1>4 DEF Elements
<1>. QED  BY <1>5 DEF AnyEvent, all

LEMMA SomeEvents ==
    ASSUME NEW wanted \in {ComputeEvents, ComputeEvents \o GraphEvents},
           NEW n \in 0..Len(wanted)
    PROVE  Elements(SubSeq(wanted, 1, n)) \subseteq AnyEvent
<1>. DEFINE S == {"input_start", "infer_start", "output_start",
                  "graph_input_ready", "graph_output_ready"}
<1>1. wanted \in Seq(S)
  <2>1. ComputeEvents \in Seq(S)
    BY DEF ComputeEvents
  <2>. QED  BY <2>1, AllEvents
<1>2. Elements(SubSeq(wanted, 1, n)) \subseteq Elements(wanted)
  BY <1>1, PrefixElements
<1>3. Elements(wanted) \subseteq AnyEvent
  BY ComputeAmongAll DEF AnyEvent
<1>. QED  BY <1>2, <1>3

(* What the configuration gives the parameters. *)
LEMMA ParsedType ==
    ASSUME NEW c \in Configs
    PROVE  Parsed(c) \in [sharing : BOOLEAN, graph : BOOLEAN, total : Nat]
<1>1. c.groups \in Seq(Group)
  BY LifecycleAssumption
<1>2. TotalCount(c) \in Nat
  <2>1. PICK sum \in [0..Len(c.groups) -> Nat] : TotalCount(c) = sum[Len(c.groups)]
    BY <1>1, TotalCountFacts
  <2>2. Len(c.groups) \in 0..Len(c.groups)
    BY <1>1
  <2>. QED  BY <2>1, <2>2
<1>. HIDE DEF TotalCount
<1>3. (IF TotalCount(c) > 0 THEN TotalCount(c) ELSE 1) \in Nat
  BY <1>2
<1>. QED  BY <1>3 DEF Parsed

(* The values that lifecycle variables take, variable by variable. *)
ModelTyped ==
    /\ model \in {"unloaded", "loading", "serving", "unloading", "finalized", "refused"}
    /\ params \in [sharing : BOOLEAN, graph : BOOLEAN, total : Nat]
StageTyped == stage \in [Instances -> Stages]
LoaderTyped ==
    /\ loader \in [Instances -> LoaderRecord \cup {NoLoader}]
    /\ \A k \in DOMAIN shared : shared[k] \in LoaderRecord
EventsTyped ==
    /\ events \in [Instances -> SUBSET AnyEvent]
    /\ streams \in [Instances -> 0..DeviceCount]
WarmupTyped ==
    /\ todo \in [Instances -> SUBSET Buckets]
    /\ checked \in [Instances -> BOOLEAN]

TypesInv == ModelTyped /\ StageTyped /\ LoaderTyped /\ EventsTyped /\ WarmupTyped

LEMMA ModelTypedStep ==
    ASSUME LifeInv, ModelTyped, [Next]_vars
    PROVE  ModelTyped'
<1>. USE DEF setupVars, instanceVars, lifecycleVars, ModelTyped
<1>1. CASE Server
  <2>1. CASE CreateModel
    <3>1. model' = "loading" /\ params' = Parsed(conf) /\ conf \in Configs
      BY <2>1 DEF CreateModel, ModelInitialize, LifeInv, ModelOK
    <3>. QED  BY <3>1, ParsedType
  <2>. QED  BY <1>1, <2>1 DEF Server, DestroyModel, ModelFinalize, ModelInitializeFails,
                              StartServing, StartUnloading, InstanceInitialize,
                              DestroyInstance, InstanceFinalize, Execute
<1>2. ASSUME NEW i \in Instances, Thread(i)
      PROVE  UNCHANGED <<model, params>>
  BY <1>2 DEF Thread, Construct, Validate, CreateEvents, ReuseModel, LoadModel,
     LoadModelFails, CreateStreams, ValidateNames, WarmBucket, Select, Warmed, Capture,
     Captured, CaptureFailed, FallBack, Replayed, ReplayFailed, Responded, RunEager,
     CountMetric, InCall
<1>3. CASE UNCHANGED vars
  BY <1>3 DEF vars
<1>. QED  BY <1>1, <1>2, <1>3 DEF Next

(* A step takes at most one instance to another stage. *)
LEMMA StageMoves ==
    ASSUME [Next]_vars
    PROVE  stage' = stage \/ \E i \in Instances, s \in Stages : Go(i, s)
<1>. USE DEF setupVars, instanceVars, lifecycleVars, Stages, Constructing, Serving
<1>1. CASE Server
  BY <1>1 DEF Server, CreateModel, DestroyModel, ModelInitialize, ModelFinalize,
     ModelInitializeFails, StartServing, StartUnloading, InstanceInitialize,
     DestroyInstance, InstanceFinalize, Execute
<1>2. ASSUME NEW i \in Instances, Construct(i) \/ Validate(i)
      PROVE  \E s \in Stages : Go(i, s)
  BY <1>2 DEF Construct, CreateEvents, ReuseModel, LoadModel, Loaded, LoadModelFails,
     CreateStreams, Validate, ValidateNames
<1>3. ASSUME NEW i \in Instances, Thread(i), ~(Construct(i) \/ Validate(i))
      PROVE  stage' = stage \/ \E s \in Stages : Go(i, s)
  BY <1>3 DEF Thread, WarmBucket, Select, Warmed, Capture, Captured, CaptureFailed,
     FallBack, Replayed, ReplayFailed, Responded, RunEager, CountMetric, InCall
<1>4. CASE UNCHANGED vars
  BY <1>4 DEF vars
<1>. QED  BY <1>1, <1>2, <1>3, <1>4 DEF Next

LEMMA LoaderTypedStep ==
    ASSUME LifeInv, ModelTyped, LoaderTyped, [Next]_vars
    PROVE  LoaderTyped'
<1>. USE DEF LoaderTyped
<1>1. CASE ModelInitialize
  BY <1>1 DEF ModelInitialize, instanceVars
<1>2. ASSUME NEW i \in Instances, ReuseModel(i)
      PROVE  LoaderTyped'
  BY <1>2 DEF ReuseModel, setupVars
<1>3. ASSUME NEW i \in Instances, LoadModel(i)
      PROVE  LoaderTyped'
  <2>. DEFINE new == [owner |-> i, runners |-> Runners(i), single |-> params.graph]
  <2>1. /\ loader' = [loader EXCEPT ![i] = new]
        /\ \A k \in DOMAIN shared' :
              \/ k \in DOMAIN shared /\ shared'[k] = shared[k]
              \/ shared'[k] = new
    BY <1>3 DEF LoadModel
  <2>2. new \in LoaderRecord
    BY DEF ModelTyped, Runners, LoaderRecord
  <2>. HIDE DEF new
  <2>. QED  BY <2>1, <2>2
<1>4. CASE /\ shared' = shared \/ shared' = <<>>
           /\ loader' = loader \/ \E j \in Instances : Release(j)
  <2>1. loader' \in [Instances -> LoaderRecord \cup {NoLoader}]
    BY <1>4 DEF Release
  <2>. QED  BY <1>4, <2>1, EmptyDomain
<1>. QED  BY <1>1, <1>2, <1>3, <1>4, LoadersOnlyReleased

(* The events and streams of an instance are made by its constructor and *)
(* undone by its destructor.                                             *)
LEMMA EventsMove ==
    ASSUME [Next]_vars
    PROVE  \/ UNCHANGED <<events, streams>>
           \/ \E i \in Instances : CreateEvents(i) \/ CreateStreams(i) \/ InstanceFinalize(i)
<1>. USE DEF setupVars, instanceVars, lifecycleVars
<1>1. CASE Server
  BY <1>1 DEF Server, CreateModel, DestroyModel, ModelInitialize, ModelFinalize,
     ModelInitializeFails, StartServing, StartUnloading, InstanceInitialize,
     DestroyInstance, Execute
<1>2. ASSUME NEW i \in Instances, Thread(i)
      PROVE  UNCHANGED <<events, streams>> \/ CreateEvents(i) \/ CreateStreams(i)
  BY <1>2 DEF Thread, Construct, Validate, ReuseModel, LoadModel, LoadModelFails,
     ValidateNames, WarmBucket, Select, Warmed, Capture, Captured, CaptureFailed,
     FallBack, Replayed, ReplayFailed, Responded, RunEager, CountMetric, InCall
<1>3. CASE UNCHANGED vars
  BY <1>3 DEF vars
<1>. QED  BY <1>1, <1>2, <1>3 DEF Next

LEMMA EventsTypedStep ==
    ASSUME EventsTyped, [Next]_vars
    PROVE  EventsTyped'
<1>. USE DEF EventsTyped
<1>1. CASE UNCHANGED <<events, streams>>
  BY <1>1
<1>2. ASSUME NEW i \in Instances, CreateEvents(i)
      PROVE  EventsTyped'
  <2>. DEFINE wanted == ComputeEvents \o (IF params.graph THEN GraphEvents ELSE <<>>)
  <2>1. wanted \in {ComputeEvents, ComputeEvents \o GraphEvents}
    <3>1. ComputeEvents \in Seq({"input_start", "infer_start", "output_start"})
      BY DEF ComputeEvents
    <3>2. ComputeEvents \o <<>> = ComputeEvents
      BY <3>1, ConcatEmptySeq
    <3>. QED  BY <3>2
  <2>2. streams' = streams
    BY <1>2 DEF CreateEvents
  <2>3. PICK n \in 0..Len(wanted) :
           events' = [events EXCEPT ![i] = Elements(SubSeq(wanted, 1, n))]
    BY <1>2 DEF CreateEvents
  <2>. HIDE DEF wanted
  <2>4. Elements(SubSeq(wanted, 1, n)) \subseteq AnyEvent
    BY <2>1, SomeEvents
  <2>. QED  BY <2>2, <2>3, <2>4
<1>3. ASSUME NEW i \in Instances, CreateStreams(i)
      PROVE  EventsTyped'
  <2>1. PICK n \in 0..DeviceCount, m \in 0..Len(ComputeEvents) :
           /\ streams' = [streams EXCEPT ![i] = n]
           /\ events' = [events EXCEPT ![i] = Elements(SubSeq(ComputeEvents, 1, m))]
    BY <1>3 DEF CreateStreams
  <2>2. Elements(SubSeq(ComputeEvents, 1, m)) \subseteq AnyEvent
    BY SomeEvents
  <2>. QED  BY <2>1, <2>2
<1>4. ASSUME NEW i \in Instances, InstanceFinalize(i)
      PROVE  EventsTyped'
  <2>1. 0 \in 0..DeviceCount
    BY LifecycleAssumption
  <2>. QED  BY <1>4, <2>1 DEF InstanceFinalize
<1>. QED  BY <1>1, <1>2, <1>3, <1>4, EventsMove

(* What a warmup has left to do shrinks, and a first batch is checked once. *)
LEMMA WarmupTypedStep ==
    ASSUME WarmupTyped, [Next]_vars
    PROVE  WarmupTyped'
<1>. USE DEF WarmupTyped, threadVars
<1>1. CASE Server
  BY <1>1 DEF Server, CreateModel, DestroyModel, DestroyInstance, Execute
<1>2. ASSUME NEW i \in Instances, Validate(i)
      PROVE  WarmupTyped'
  BY <1>2 DEF Validate
<1>3. ASSUME NEW i \in Instances, NEW bucket \in Buckets, WarmBucket(i, bucket)
      PROVE  WarmupTyped'
  BY <1>3 DEF WarmBucket
<1>4. ASSUME NEW i \in Instances, Thread(i), ~Validate(i),
             ~\E bucket \in Buckets : WarmBucket(i, bucket)
      PROVE  UNCHANGED <<todo, checked>>
  BY <1>4 DEF Thread, Construct, Select, Warmed, Capture, Captured, CaptureFailed,
     FallBack, Replayed, ReplayFailed, Responded, RunEager, CountMetric, InCall
<1>5. CASE UNCHANGED vars
  BY <1>5 DEF vars
<1>. QED  BY <1>1, <1>2, <1>3, <1>4, <1>5 DEF Next

LEMMA TypesStep == LifeInv /\ TypesInv /\ [Next]_vars => TypesInv'
<1>. SUFFICES ASSUME LifeInv, TypesInv, [Next]_vars PROVE TypesInv'
  OBVIOUS
<1>. USE DEF TypesInv
<1>1. StageTyped'
  BY StageMoves DEF StageTyped, Go
<1>. QED  BY <1>1, ModelTypedStep, LoaderTypedStep, EventsTypedStep, WarmupTypedStep

LEMMA InitTypes == Init => TypesInv
<1>. SUFFICES ASSUME Init PROVE TypesInv
  OBVIOUS
<1>. USE DEF Init, LifecycleInit
<1>1. ModelTyped
  BY DEF ModelTyped, NoParams
<1>2. StageTyped /\ WarmupTyped
  BY DEF StageTyped, Stages, WarmupTyped
<1>3. LoaderTyped
  BY EmptyDomain DEF LoaderTyped
<1>4. EventsTyped
  BY LifecycleAssumption DEF EventsTyped
<1>. QED  BY <1>1, <1>2, <1>3, <1>4 DEF TypesInv

(* Every variable of the composition keeps its type: what a constructor    *)
(* leaves half done, what a shared loader was made of and what an instance *)
(* still owes the metrics stay what the code can hold.                     *)
THEOREM BackendTypeCorrect == Spec => []TypeOK
<1>1. TypesInv /\ LifeInv => LifecycleTypeOK
  <2>. SUFFICES ASSUME TypesInv, LifeInv PROVE LifecycleTypeOK
    OBVIOUS
  <2>. USE DEF TypesInv
  <2>1. /\ stage \in [Instances -> Stages] /\ conf \in Configs
        /\ loader \in [Instances -> LoaderRecord \cup {NoLoader}]
        /\ \A k \in DOMAIN shared : shared[k] \in LoaderRecord
    BY DEF StageTyped, LoaderTyped, LifeInv, ModelOK
  <2>2. \A i \in Instances : events[i] \subseteq AnyEvent /\ streams[i] \in 0..DeviceCount
    BY DEF EventsTyped
  <2>. QED  BY <2>1, <2>2 DEF LifecycleTypeOK, ModelTyped, Stages, LoaderRecord, AnyEvent
<1>2. BackendInv => MetricsTypeOK /\ PoolTypeOK /\ \A i \in Instances : owed[i] \in Seq(Key)
  BY DEF BackendInv, MetricsInv, PoolInv, PathInv, PathOK
<1>3. BackendInv /\ TypesInv => TypeOK
  BY <1>1, <1>2 DEF BackendInv, TypesInv, WarmupTyped, TypeOK
<1>4. BackendInv => LifeInv
  BY DEF BackendInv
<1>. QED  BY BackendInvariant, <1>3, <1>4, InitTypes, TypesStep, PTL DEF Spec

===============================================================================
