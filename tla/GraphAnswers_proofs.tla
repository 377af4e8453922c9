--------------------------- MODULE GraphAnswers_proofs ---------------------------
(***************************************************************************)
(* Machine-checked proof about GraphStreams, for every set of buckets,     *)
(* every pool and queues of every length: a batch that is answered with    *)
(* outputs is answered with its own, as long as no replay fails between    *)
(* its copies and its launch.  OwnInv follows the data of the batch from   *)
(* the request's buffers to the response's, beside IndInv, which says what *)
(* the queues hold.                                                        *)
(***************************************************************************)
EXTENDS GraphStreams_proofs

-----------------------------------------------------------------------------
(* Facts about the queues *)

(* What the streams of the pool write. *)
LEMMA PoolWrites ==
    ASSUME IndInv, ClonesApart, NEW s \in Pool, NEW i \in DOMAIN queue[s]
    PROVE  /\ queue[s][i].to = Nothing \/ \E b \in Buckets : queue[s][i].to \in {In(b), Out(b)}
           /\ \A b \in Buckets : queue[s][i].to = Out(b) =>
                 queue[s][i].what = "replay" /\ graphs[b] = s
           /\ \A b \in Buckets : queue[s][i].to = In(b) /\ graphs[b] \in Pool =>
                 queue[s][i].what = "copy" /\ graphs[b] = s
<1>1. PICK w : w = queue[s][i]
  OBVIOUS
<1>2. PoolWork(s, w)
  BY <1>1 DEF IndInv, GraphWork
<1>3. CASE w.what = "clone"
  <2>1. PICK c \in Buckets :
           w.to = In(c) /\ (graphs[c] = "failed" \/ (pc = "capture" /\ c = bucket))
    BY <1>1, <1>3 DEF ClonesApart
  <2>2. graphs[c] \notin Pool
    BY <2>1, PoolFacts DEF IndInv, HostInPlace
  <2>. QED  BY <1>1, <2>1, <2>2, BufferFacts
<1>4. CASE w.what # "clone"
  <2>1. \/ w.to = Nothing
        \/ w.what = "copy" /\ \E b \in Buckets : graphs[b] = s /\ w.to = In(b)
        \/ w.what = "replay" /\ \E b \in Buckets : graphs[b] = s /\ w.to = Out(b)
    BY <1>2, <1>4 DEF PoolWork
  <2>. QED  BY <1>1, <2>1, BufferFacts
<1>. QED  BY <1>3, <1>4

(* The other buffers are written by the instance's stream alone. *)
LEMMA InstanceAlone ==
    ASSUME IndInv, ClonesApart, NEW b \in {Request, Earlier, Stage, Padded, Eager, Response}
    PROVE  \A s \in Pool : \A i \in DOMAIN queue[s] : queue[s][i].to # b
<1>1. b # Nothing /\ \A c \in Buckets : b # In(c) /\ b # Out(c)
  BY BufferFacts
<1>. QED  BY <1>1, PoolWrites

(* The instance's stream writes neither the payloads nor a graph's outputs. *)
LEMMA InstanceWrites ==
    ASSUME IndInv, NEW i \in DOMAIN queue["instance"]
    PROVE  /\ queue["instance"][i].to \notin {Request, Earlier}
           /\ \A b \in Buckets : queue["instance"][i].to # Out(b)
           /\ \A b \in Buckets : queue["instance"][i].to = In(b) => graphs[b] \in Pool
<1>1. PICK x : x = queue["instance"][i].to
  OBVIOUS
<1>2. x \in Writable
  BY <1>1 DEF IndInv, InstanceWork
<1>3. CASE x \in {Stage, Padded, Eager, Response, Nothing}
  BY <1>1, <1>3, BufferFacts
<1>4. CASE \E c \in Buckets : x = In(c) /\ graphs[c] \in Pool
  <2>1. PICK c \in Buckets : x = In(c) /\ graphs[c] \in Pool
    BY <1>4
  <2>2. x \notin {Request, Earlier} /\ \A b \in Buckets : x # Out(b)
    BY <2>1, BufferFacts
  <2>3. ASSUME NEW b \in Buckets, x = In(b)
        PROVE  graphs[b] \in Pool
    BY <2>1, <2>3, BufferFacts
  <2>. QED  BY <1>1, <2>2, <2>3
<1>5. x \in {Stage, Padded, Eager, Response, Nothing}
        \/ \E c \in Buckets : x = In(c) /\ graphs[c] \in Pool
  BY <1>2 DEF Writable
<1>. QED  BY <1>3, <1>4, <1>5

(* Once the instance's stream has no event to wait for, no launch is left. *)
LEMMA NothingLaunched ==
    ASSUME IndInv, \A j \in DOMAIN queue["instance"] : queue["instance"][j].on = "none",
           NEW s \in Pool, NEW i \in DOMAIN queue[s]
    PROVE  queue[s][i].what \notin {"copy", "replay"}
BY PoolFacts DEF IndInv, LaunchesFenced, Fenced

-----------------------------------------------------------------------------
(* Steps of the host: the queues grow, the buffers stay *)

Grown ==
    \A t \in Streams : \A i \in DOMAIN queue[t] :
       i \in DOMAIN queue'[t] /\ queue'[t][i] = queue[t][i]

AddsNone(b) ==
    \A t \in Streams : \A i \in DOMAIN queue'[t] :
       i \notin DOMAIN queue[t] => queue'[t][i].to # b

(* What is settled or coming stays so if nothing is added that writes it.  *)
LEMMA GrownKeeps ==
    ASSUME Grown, UNCHANGED contents, NEW b, AddsNone(b)
    PROVE  /\ Settled(b) => Settled(b)'
           /\ \A from : Coming(from, b) => Coming(from, b)'
<1>1. Settled(b) => Settled(b)'
  BY DEF Settled, Grown, AddsNone
<1>2. ASSUME NEW from, NEW l \in DOMAIN queue["instance"], Fills(l, from, b)
      PROVE  Fills(l, from, b)'
  BY <1>2, PoolFacts DEF Fills, Grown, AddsNone
<1>3. \A l \in DOMAIN queue["instance"] : l \in DOMAIN queue'["instance"]
  BY PoolFacts DEF Grown
<1>. QED  BY <1>1, <1>2, <1>3 DEF Coming

(* One more piece of work on one stream. *)
LEMMA OneMore ==
    ASSUME TypeOK, NEW s \in Streams, NEW w \in WorkType, Enqueue(s, <<w>>)
    PROVE  /\ Grown
           /\ Len(queue[s]) \in Nat /\ DOMAIN queue[s] = 1..Len(queue[s])
           /\ DOMAIN queue'[s] = 1..(Len(queue[s]) + 1)
           /\ Len(queue'[s]) = Len(queue[s]) + 1
           /\ queue'[s][Len(queue[s]) + 1] = w
           /\ \A t \in Streams : t # s => queue'[t] = queue[t]
           /\ \A b : w.to # b => AddsNone(b)
<1>1. queue \in [Streams -> Seq(WorkType)] /\ queue[s] \in Seq(WorkType)
  BY DEF TypeOK
<1>2. /\ queue'[s] = queue[s] \o <<w>>
      /\ \A t \in Streams : t # s => queue'[t] = queue[t]
  BY <1>1 DEF Enqueue
<1>3. /\ Len(queue[s]) \in Nat /\ DOMAIN queue[s] = 1..Len(queue[s])
      /\ DOMAIN queue'[s] = 1..(Len(queue[s]) + 1)
      /\ Len(queue'[s]) = Len(queue[s]) + 1
      /\ \A i \in 1..Len(queue[s]) : queue'[s][i] = queue[s][i]
      /\ queue'[s][Len(queue[s]) + 1] = w
  BY <1>1, <1>2
<1>4. Grown
  <2>1. ASSUME NEW i \in DOMAIN queue[s]
        PROVE  i \in DOMAIN queue'[s] /\ queue'[s][i] = queue[s][i]
    BY <1>3, <2>1
  <2>. QED  BY <1>2, <2>1 DEF Grown
<1>5. ASSUME NEW b, w.to # b
      PROVE  AddsNone(b)
  <2>1. ASSUME NEW i \in DOMAIN queue'[s], i \notin DOMAIN queue[s]
        PROVE  queue'[s][i] = w
    BY <1>3, <2>1
  <2>. QED  BY <1>2, <1>5, <2>1 DEF AddsNone
<1>. QED  BY <1>2, <1>3, <1>4, <1>5

(* The last piece of work of the instance's stream fills its buffer. *)
LEMMA LastFills ==
    ASSUME TypeOK, NEW w \in WorkType, w.on = "none", Enqueue("instance", <<w>>)
    PROVE  /\ Fills(Len(queue["instance"]), w.from, w.to)'
           /\ Coming(w.from, w.to)'
<1>1. /\ Len(queue["instance"]) \in Nat
      /\ DOMAIN queue'["instance"] = 1..(Len(queue["instance"]) + 1)
      /\ Len(queue'["instance"]) = Len(queue["instance"]) + 1
      /\ queue'["instance"][Len(queue["instance"]) + 1] = w
  BY OneMore, PoolFacts
<1>2. Fills(Len(queue["instance"]), w.from, w.to)'
  BY <1>1 DEF Fills
<1>3. Len(queue'["instance"]) \in DOMAIN queue'["instance"]
  BY <1>1
<1>. QED  BY <1>2, <1>3 DEF Coming

-----------------------------------------------------------------------------
(* Steps of the device: a head is gone, and has been done                  *)

(* What is left of the queues. *)
LEMMA DeviceLeaves ==
    ASSUME TypeOK, NEW s \in Streams, DeviceRuns(s)
    PROVE  /\ \A t \in Streams : \A i \in DOMAIN queue'[t] :
                 LET k == IF t = s THEN i + 1 ELSE i
                 IN  /\ k \in DOMAIN queue[t]
                     /\ queue'[t][i].what = queue[t][k].what
                     /\ queue'[t][i].from = queue[t][k].from
                     /\ queue'[t][i].to = queue[t][k].to
                     /\ queue'[t][i].on = queue[t][k].on
           /\ \A t \in Streams :
                 /\ DOMAIN queue[t] = 1..Len(queue[t]) /\ Len(queue[t]) \in Nat
                 /\ Len(queue'[t]) = IF t = s THEN Len(queue[t]) - 1 ELSE Len(queue[t])
                 /\ DOMAIN queue'[t] = 1..Len(queue'[t])
           /\ 1 \in DOMAIN queue[s] /\ queue[s][1].ahead = 0
           /\ contents' = [contents EXCEPT ![queue[s][1].to] = contents[queue[s][1].from]]
           /\ UNCHANGED <<pc, graphs, bucket, inputs, pads, stream, answer>>
<1>1. /\ queue \in [Streams -> Seq(WorkType)] /\ queue' \in [Streams -> Seq(WorkType)]
      /\ Len(queue[s]) \in Nat \ {0} /\ queue[s][1].ahead = 0
      /\ DOMAIN queue'[s] = 1..(Len(queue[s]) - 1)
      /\ \A i \in DOMAIN queue'[s] : queue'[s][i] = CountDown(queue[s][i + 1], s)
      /\ \A t \in Streams : t # s =>
            /\ DOMAIN queue'[t] = DOMAIN queue[t]
            /\ \A i \in DOMAIN queue[t] : queue'[t][i] = CountDown(queue[t][i], s)
  BY DeviceFacts DEF TypeOK
<1>2. \A t \in Streams : /\ DOMAIN queue[t] = 1..Len(queue[t]) /\ Len(queue[t]) \in Nat
                          /\ DOMAIN queue'[t] = 1..Len(queue'[t]) /\ Len(queue'[t]) \in Nat
                          /\ \A i \in DOMAIN queue[t] : queue[t][i] \in WorkType
  BY <1>1
<1>3. \A t \in Streams :
         Len(queue'[t]) = IF t = s THEN Len(queue[t]) - 1 ELSE Len(queue[t])
  BY <1>1, <1>2
<1>4. ASSUME NEW t \in Streams, NEW i \in DOMAIN queue'[t], NEW k,
             k = IF t = s THEN i + 1 ELSE i
      PROVE  k \in DOMAIN queue[t] /\ queue'[t][i] = CountDown(queue[t][k], s)
  <2>1. CASE t = s
    <3>1. i + 1 \in 1..Len(queue[s])
      BY <1>1, <1>4, <2>1
    <3>. QED  BY <1>1, <1>2, <1>4, <2>1, <3>1
  <2>2. CASE t # s
    BY <1>1, <1>4, <2>2
  <2>. QED  BY <2>1, <2>2
<1>5. ASSUME NEW t \in Streams, NEW i \in DOMAIN queue'[t], NEW k,
             k = IF t = s THEN i + 1 ELSE i
      PROVE  /\ k \in DOMAIN queue[t]
             /\ queue'[t][i].what = queue[t][k].what
             /\ queue'[t][i].from = queue[t][k].from
             /\ queue'[t][i].to = queue[t][k].to
             /\ queue'[t][i].on = queue[t][k].on
  <2>1. k \in DOMAIN queue[t] /\ queue'[t][i] = CountDown(queue[t][k], s)
    BY <1>4, <1>5
  <2>2. queue[t][k] \in WorkType
    BY <1>2, <2>1
  <2>. QED  BY <2>1, <2>2, CountDownFacts
<1>6. 1 \in DOMAIN queue[s] /\ Head(queue[s]) = queue[s][1]
  BY <1>1, <1>2
<1>7. /\ contents' = [contents EXCEPT ![queue[s][1].to] = contents[queue[s][1].from]]
      /\ UNCHANGED <<pc, graphs, bucket, inputs, pads, stream, answer>>
  BY <1>6 DEF DeviceRuns, batchVars
<1>. QED  BY <1>1, <1>2, <1>3, <1>5, <1>6, <1>7

(* A buffer that is settled stays so. *)
LEMMA SettledStays ==
    ASSUME TypeOK, NEW s \in Streams, DeviceRuns(s), NEW b \in Buffers, Settled(b)
    PROVE  Settled(b)'
<1>1. ASSUME NEW t \in Streams, NEW i \in DOMAIN queue'[t]
      PROVE  queue'[t][i].to # b
  <2>1. PICK k : k = IF t = s THEN i + 1 ELSE i
    OBVIOUS
  <2>2. k \in DOMAIN queue[t] /\ queue'[t][i].to = queue[t][k].to
    BY <1>1, <2>1, DeviceLeaves
  <2>. QED  BY <2>2 DEF Settled
<1>2. queue[s][1].to # b
  BY DeviceLeaves DEF Settled
<1>3. contents'[b] = contents[b]
  BY <1>2, DeviceLeaves DEF TypeOK
<1>. QED  BY <1>1, <1>3 DEF Settled

(* The last work to write a buffer stays the last, until it is done. *)
LEMMA FillsStays ==
    ASSUME TypeOK, NEW s \in Streams, DeviceRuns(s), NEW from, NEW to \in Buffers,
           NEW l, Fills(l, from, to)
    PROVE  \/ Fills(IF s = "instance" THEN l - 1 ELSE l, from, to)'
           \/ /\ s = "instance" /\ l = 1 /\ contents'[to] = contents[from]
              /\ \A i \in DOMAIN queue'["instance"] : queue'["instance"][i].to # to
<1>. DEFINE q == queue["instance"]
<1>1. /\ l \in 1..Len(q) /\ Len(q) \in Nat /\ DOMAIN q = 1..Len(q)
      /\ q[l].from = from /\ q[l].to = to /\ q[l].on = "none"
      /\ \A m \in DOMAIN q : m > l => q[m].to # to
  BY DeviceLeaves, PoolFacts DEF Fills
<1>2. /\ Len(q') = IF s = "instance" THEN Len(q) - 1 ELSE Len(q)
      /\ DOMAIN q' = 1..Len(q')
  BY DeviceLeaves, PoolFacts
<1>3. ASSUME NEW i \in DOMAIN q', NEW k, k = IF s = "instance" THEN i + 1 ELSE i
      PROVE  /\ k \in DOMAIN q /\ q'[i].from = q[k].from /\ q'[i].to = q[k].to
             /\ q'[i].on = q[k].on
  BY <1>3, DeviceLeaves, PoolFacts
<1>. HIDE DEF q
<1>4. CASE s = "instance" /\ l = 1
  <2>1. contents'[to] = contents[from]
    BY <1>1, <1>4, DeviceLeaves DEF TypeOK, q
  <2>2. ASSUME NEW i \in DOMAIN q'
        PROVE  q'[i].to # to
    <3>1. i + 1 \in DOMAIN q /\ q'[i].to = q[i + 1].to
      BY <1>3, <1>4, <2>2
    <3>2. i + 1 > 1
      BY <1>2, <2>2
    <3>. QED  BY <1>1, <1>4, <3>1, <3>2
  <2>. QED  BY <1>4, <2>1, <2>2 DEF q
<1>5. CASE ~(s = "instance" /\ l = 1)
  <2>1. PICK k : k = IF s = "instance" THEN l - 1 ELSE l
    OBVIOUS
  <2>2. k \in DOMAIN q' /\ l = IF s = "instance" THEN k + 1 ELSE k
    <3>1. CASE s = "instance"
      <4>1. k = l - 1 /\ l \in 2..Len(q) /\ DOMAIN q' = 1..(Len(q) - 1)
        BY <1>1, <1>2, <1>5, <2>1, <3>1
      <4>. QED  BY <1>1, <3>1, <4>1
    <3>2. CASE s # "instance"
      BY <1>1, <1>2, <2>1, <3>2
    <3>. QED  BY <3>1, <3>2
  <2>3. q'[k].from = from /\ q'[k].to = to /\ q'[k].on = "none"
    BY <1>1, <1>3, <2>2
  <2>4. ASSUME NEW m \in DOMAIN q', m > k
        PROVE  q'[m].to # to
    <3>1. PICK n : n = IF s = "instance" THEN m + 1 ELSE m
      OBVIOUS
    <3>2. n \in DOMAIN q /\ q'[m].to = q[n].to
      BY <1>3, <2>4, <3>1
    <3>3. n > l
      <4>1. m \in Nat
        <5>1. Len(q') \in Nat
          <6>1. CASE s = "instance"
            BY <1>1, <1>2, <6>1
          <6>2. CASE s # "instance"
            BY <1>1, <1>2, <6>2
          <6>. QED  BY <6>1, <6>2
        <5>. QED  BY <1>2, <2>4, <5>1
      <4>2. CASE s = "instance"
        BY <1>1, <2>1, <2>4, <3>1, <4>1, <4>2
      <4>3. CASE s # "instance"
        BY <1>1, <2>1, <2>4, <3>1, <4>3
      <4>. QED  BY <4>2, <4>3
    <3>. QED  BY <1>1, <3>2, <3>3
  <2>5. Fills(k, from, to)'
    BY <2>2, <2>3, <2>4 DEF Fills, q
  <2>. QED  BY <2>1, <2>5
<1>. QED  BY <1>4, <1>5

-----------------------------------------------------------------------------
(* What the host may do to the batch in hand                               *)

(* Work behind one stream. *)
LEMMA EnqueueGrows ==
    ASSUME TypeOK, NEW s \in Streams, NEW work \in Seq(WorkType), Enqueue(s, work)
    PROVE  /\ Grown
           /\ \A b : (\A i \in DOMAIN work : work[i].to # b) => AddsNone(b)
<1>1. queue[s] \in Seq(WorkType)
  BY DEF TypeOK
<1>2. queue'[s] = queue[s] \o work /\ \A t \in Streams : t # s => queue'[t] = queue[t]
  BY EnqueueFacts DEF TypeOK
<1>3. /\ \A i \in DOMAIN queue[s] : i \in DOMAIN queue'[s] /\ queue'[s][i] = queue[s][i]
      /\ \A i \in DOMAIN queue'[s] : i \notin DOMAIN queue[s] =>
            i - Len(queue[s]) \in DOMAIN work /\ queue'[s][i] = work[i - Len(queue[s])]
  BY <1>1, <1>2, JoinFacts
<1>4. Grown
  BY <1>2, <1>3 DEF Grown
<1>5. ASSUME NEW b, \A i \in DOMAIN work : work[i].to # b
      PROVE  AddsNone(b)
  <2>1. ASSUME NEW i \in DOMAIN queue'[s], i \notin DOMAIN queue[s]
        PROVE  queue'[s][i].to # b
    BY <1>3, <1>5, <2>1
  <2>. QED  BY <1>2, <2>1 DEF AddsNone
<1>. QED  BY <1>4, <1>5

(* The queues that do not change. *)
LEMMA UnchangedGrows ==
    ASSUME UNCHANGED queue
    PROVE  Grown /\ \A b : AddsNone(b)
BY DEF Grown, AddsNone

(* A launch writes the inputs, unless they are prestaged, and the outputs. *)
LEMMA LaunchGrows ==
    ASSUME TypeOK, HostInPlace, pc = "replay", Launch
    PROVE  /\ Grown
           /\ \A b : b # Nothing /\ b # Out(bucket) /\ (b # In(bucket) \/ Prestaged) =>
                 AddsNone(b)
<1>1. PICK launch : launch = InputReady \o CopyInputs \o Replay
  OBVIOUS
<1>2. stream \in Pool
  BY DEF TypeOK
<1>3. /\ queue'[stream] = queue[stream] \o launch
      /\ queue'["instance"] =
            Append(queue["instance"], Wait(stream, Len(queue[stream]) + Len(launch)))
      /\ \A t \in Streams \ {stream, "instance"} : queue'[t] = queue[t]
  BY <1>1, <1>2, LaunchedQueues
<1>4. launch \in Seq(WorkType) /\ Len(launch) \in 2..3
  BY <1>1, LaunchWork
<1>5. /\ queue[stream] \in Seq(WorkType) /\ queue["instance"] \in Seq(WorkType)
      /\ stream # "instance"
  BY <1>2, PoolFacts DEF TypeOK
<1>6. \A i \in DOMAIN launch :
         \/ launch[i].to = Nothing \/ launch[i].to = Out(bucket)
         \/ launch[i].to = In(bucket) /\ ~Prestaged
  <2>1. PICK a, c, r : /\ a = Wait("instance", Len(queue["instance"]))
                       /\ c = Work("copy", AtBucket, In(bucket))
                       /\ r = Work("replay", In(bucket), Out(bucket))
    OBVIOUS
  <2>2. a.to = Nothing /\ c.to = In(bucket) /\ r.to = Out(bucket)
    BY <2>1 DEF Wait, Work
  <2>3. a \in WorkType /\ c \in WorkType /\ r \in WorkType
    <3>1. Len(queue["instance"]) \in Nat /\ "instance" \in Streams
      BY <1>5, PoolFacts
    <3>2. AtBucket \in Buffers /\ In(bucket) \in Buffers /\ Out(bucket) \in Buffers
      BY LaunchFacts
    <3>. QED  BY <2>1, <3>1, <3>2, WorkFacts
  <2>4. CASE Prestaged
    <3>1. launch = <<a, r>>
      BY <1>1, <2>1, <2>3, <2>4, JoinShort DEF InputReady, CopyInputs, Replay
    <3>. QED  BY <2>2, <2>3, <3>1
  <2>5. CASE ~Prestaged
    <3>1. launch = <<a, c, r>>
      BY <1>1, <2>1, <2>3, <2>5, JoinShort DEF InputReady, CopyInputs, Replay
    <3>. QED  BY <2>2, <2>3, <2>5, <3>1
  <2>. QED  BY <2>4, <2>5
<1>7. PICK w \in WorkType : w = Wait(stream, Len(queue[stream]) + Len(launch))
  <2>1. PICK n \in Nat : n = Len(queue[stream]) + Len(launch)
    BY <1>4, <1>5
  <2>. QED  BY <1>2, <2>1, WorkFacts, PoolFacts
<1>8. w.to = Nothing
  BY <1>7 DEF Wait
<1>9. /\ \A i \in DOMAIN queue[stream] :
            i \in DOMAIN queue'[stream] /\ queue'[stream][i] = queue[stream][i]
      /\ \A i \in DOMAIN queue'[stream] : i \notin DOMAIN queue[stream] =>
            /\ i - Len(queue[stream]) \in DOMAIN launch
            /\ queue'[stream][i] = launch[i - Len(queue[stream])]
  BY <1>3, <1>4, <1>5, JoinFacts
<1>10. /\ \A i \in DOMAIN queue["instance"] :
             i \in DOMAIN queue'["instance"] /\ queue'["instance"][i] = queue["instance"][i]
       /\ \A i \in DOMAIN queue'["instance"] : i \notin DOMAIN queue["instance"] =>
             queue'["instance"][i] = w
  BY <1>3, <1>5, <1>7
<1>11. Grown
  BY <1>3, <1>9, <1>10 DEF Grown
<1>12. ASSUME NEW b, b # Nothing, b # Out(bucket), b # In(bucket) \/ Prestaged
       PROVE  AddsNone(b)
  <2>1. ASSUME NEW i \in DOMAIN queue'[stream], i \notin DOMAIN queue[stream]
        PROVE  queue'[stream][i].to # b
    BY <1>6, <1>9, <1>12, <2>1
  <2>2. ASSUME NEW i \in DOMAIN queue'["instance"], i \notin DOMAIN queue["instance"]
        PROVE  queue'["instance"][i].to # b
    BY <1>8, <1>10, <1>12, <2>2
  <2>. QED  BY <1>3, <2>1, <2>2 DEF AddsNone
<1>. QED  BY <1>11, <1>12

(* The host adds work and does none, and what it adds writes the buffer of *)
(* the stage the batch is at.                                              *)
HostWrites(b) ==
    \/ pc = "collect" /\ b = inputs /\ pc' \in {"syncInputs", "idle"}
    \/ pc = "execute" /\ b = Padded
    \/ pc = "select" /\ b = In(bucket)
    \/ pc = "replay" /\ b = In(bucket) /\ ~Prestaged
    \/ pc = "replay" /\ b = Out(bucket)
    \/ pc = "eager" /\ b = Eager
    \/ pc = "respond" /\ b = Response

LEMMA HostAdds ==
    ASSUME TypeOK, HostInPlace, Host, "copy" \notin Failures
    PROVE  /\ Grown /\ contents' = contents
           /\ \A b : b = Nothing \/ HostWrites(b) \/ AddsNone(b)
<1>. USE DEF Goto, batchVars, HostWrites
<1>a. /\ Out(bucket) \in Buffers /\ In(bucket) \in Buffers /\ AtBucket \in Buffers
      /\ inputs \in Buffers
      /\ {Request, Stage, Padded, Eager, Response, Nothing} \subseteq Buffers
  BY LaunchFacts, BufferFacts
<1>b. ASSUME NEW s \in Streams, NEW w \in WorkType, Enqueue(s, <<w>>)
      PROVE  Grown /\ \A b : w.to # b => AddsNone(b)
  BY <1>b, OneMore
<1>c. ASSUME NEW s \in Streams, Enqueue(s, <<>>)
      PROVE  Grown /\ \A b : AddsNone(b)
  <2>1. <<>> \in Seq(WorkType) /\ DOMAIN <<>> = {}
    OBVIOUS
  <2>. QED  BY <1>c, <2>1, EnqueueGrows
<1>d. "instance" \in Streams /\ stream \in Streams
  BY PoolFacts DEF TypeOK
<1>1. CASE CollectCopies \/ CollectFails
  <2>1. PICK w : w = Work("collect", Request, inputs)
    OBVIOUS
  <2>2. w \in WorkType /\ w.to = inputs
    BY <1>a, <2>1, WorkFacts DEF Work
  <2>3. Enqueue("instance", <<w>>)
    BY <1>1, <2>1 DEF CollectCopies, CollectFails, CollectWork
  <2>4. pc = "collect" /\ pc' \in {"syncInputs", "idle"} /\ contents' = contents
    BY <1>1 DEF CollectCopies, CollectFails
  <2>. QED  BY <1>b, <1>d, <2>2, <2>3, <2>4
<1>2. CASE CollectInPlace \/ SyncInputs \/ NoGraph \/ UsePrestaged \/ UseCaptured
           \/ EndCapture \/ CaptureFails \/ SyncRun \/ RespondEmpty \/ Send
  <2>1. queue' = queue /\ contents' = contents
    BY <1>2 DEF CollectInPlace, SyncInputs, NoGraph, UsePrestaged, UseCaptured,
       EndCapture, CaptureFails, SyncRun, RespondEmpty, Send, PinToEager
  <2>. QED  BY <2>1, UnchangedGrows
<1>3. CASE PadRequestsUp \/ PadThrows
  <2>1. pc = "execute" /\ contents' = contents
    BY <1>3 DEF PadRequestsUp, PadThrows
  <2>2. CASE pads
    <3>1. PICK w : w = Work("pad", inputs, Padded)
      OBVIOUS
    <3>2. w \in WorkType /\ w.to = Padded
      BY <1>a, <3>1, WorkFacts DEF Work
    <3>3. Enqueue("instance", <<w>>) \/ Enqueue("instance", <<>>)
      BY <1>3, <2>2, <3>1 DEF PadRequestsUp, PadThrows, PadWork
    <3>. QED  BY <1>b, <1>c, <1>d, <2>1, <3>2, <3>3
  <2>3. CASE ~pads
    <3>1. Enqueue("instance", <<>>)
      BY <1>3, <2>3 DEF PadRequestsUp, PadThrows
    <3>. QED  BY <1>c, <1>d, <2>1, <3>1
  <2>. QED  BY <2>2, <2>3
<1>4. CASE BeginCapture \/ WarmUpFails
  <2>1. PICK c, w : /\ c = Work("clone", AtBucket, In(bucket))
                    /\ w = Work("warm up", In(bucket), Nothing)
    OBVIOUS
  <2>2. c \in WorkType /\ w \in WorkType /\ c.to = In(bucket) /\ w.to = Nothing
    BY <1>a, <2>1, WorkFacts DEF Work
  <2>3. PICK s \in Pool, work \in {<<c>>, <<c, w>>} : Enqueue(s, work)
    BY <1>4, <2>1 DEF BeginCapture, WarmUpFails
  <2>4. work \in Seq(WorkType) /\ \A i \in DOMAIN work : work[i] \in {c, w}
    <3>1. /\ <<c>> \in Seq(WorkType) /\ <<c, w>> \in Seq(WorkType)
          /\ \A i \in DOMAIN <<c>> : <<c>>[i] = c
          /\ \A i \in DOMAIN <<c, w>> : <<c, w>>[i] \in {c, w}
      BY <2>2, ShortFacts
    <3>2. CASE work = <<c>>
      BY <3>1, <3>2
    <3>3. CASE work = <<c, w>>
      BY <3>1, <3>3
    <3>. QED  BY <2>3, <3>2, <3>3
  <2>5. Grown /\ \A b : b \notin {In(bucket), Nothing} => AddsNone(b)
    <3>1. s \in Streams
      BY PoolFacts
    <3>2. \A i \in DOMAIN work : work[i].to \in {In(bucket), Nothing}
      BY <2>2, <2>4
    <3>. QED  BY <2>3, <2>4, <3>1, <3>2, EnqueueGrows
  <2>6. pc = "select" /\ contents' = contents
    BY <1>4 DEF BeginCapture, WarmUpFails, PinToEager
  <2>. QED  BY <2>5, <2>6
<1>5. CASE ReplaySucceeds \/ ReplayFails
  <2>1. pc = "replay" /\ contents' = contents
    BY <1>5 DEF ReplaySucceeds, ReplayFails
  <2>2. CASE Launch
    BY <2>1, <2>2, LaunchGrows
  <2>3. CASE Enqueue(stream, InputReady)
    <3>1. PICK w : w = Wait("instance", Len(queue["instance"]))
      OBVIOUS
    <3>2. Len(queue["instance"]) \in Nat
      BY <1>d DEF TypeOK
    <3>3. w \in WorkType /\ w.to = Nothing
      BY <1>d, <3>1, <3>2, WorkFacts DEF Wait
    <3>4. Enqueue(stream, <<w>>)
      BY <2>3, <3>1 DEF InputReady
    <3>. QED  BY <1>b, <1>d, <2>1, <3>3, <3>4
  <2>. QED  BY <1>5, <2>2, <2>3 DEF ReplaySucceeds, ReplayFails
<1>6. CASE RunEager \/ RunThrows
  <2>1. PICK w : w = Work("run", inputs, Eager)
    OBVIOUS
  <2>2. w \in WorkType /\ w.to = Eager
    BY <1>a, <2>1, WorkFacts DEF Work
  <2>3. Enqueue("instance", <<w>>) \/ Enqueue("instance", <<>>)
    BY <1>6, <2>1 DEF RunEager, RunThrows
  <2>4. pc = "eager" /\ contents' = contents
    BY <1>6 DEF RunEager, RunThrows
  <2>. QED  BY <1>b, <1>c, <1>d, <2>2, <2>3, <2>4
<1>7. CASE Respond \/ RespondFails
  <2>1. PICK w : w = Work("respond", Source, Response)
    OBVIOUS
  <2>2. w \in WorkType /\ w.to = Response
    BY <1>a, <2>1, WorkFacts DEF Work, Source
  <2>3. Enqueue("instance", <<w>>)
    BY <1>7, <2>1 DEF Respond, RespondFails, CopyOutputs, Source
  <2>4. pc = "respond" /\ contents' = contents
    BY <1>7 DEF Respond, RespondFails
  <2>. QED  BY <1>b, <1>d, <2>2, <2>3, <2>4
<1>. QED  BY <1>1, <1>2, <1>3, <1>4, <1>5, <1>6, <1>7 DEF Host, Collect, Execute, Answer

-----------------------------------------------------------------------------
(* Steps of the host                                                       *)

(* The clones of a capture stay apart from the buckets with a graph. *)
LEMMA ClonesStep ==
    ASSUME IndInv, ClonesApart, [Next]_vars, "copy" \notin Failures
    PROVE  ClonesApart'
<1>. USE DEF Goto, batchVars
<1>a. ASSUME NEW s \in Pool, NEW i \in DOMAIN queue[s], queue[s][i].what = "clone"
      PROVE  \E b \in Buckets :
                /\ queue[s][i].to = In(b)
                /\ graphs[b] = "failed" \/ (pc = "capture" /\ s = stream /\ b = bucket)
  BY <1>a DEF ClonesApart
<1>b. TypeOK /\ HostInPlace
  BY DEF IndInv
<1>c. /\ graphs \in [Buckets -> Pool \cup {"none", "failed"}]
      /\ bucket \in Buckets /\ stream \in Pool
  BY <1>b DEF TypeOK
<1>1. CASE BeginCapture \/ WarmUpFails
  <2>1. PICK c, w : /\ c = Work("clone", AtBucket, In(bucket))
                    /\ w = Work("warm up", In(bucket), Nothing)
    OBVIOUS
  <2>2. /\ c \in WorkType /\ w \in WorkType
        /\ c.to = In(bucket) /\ w.what # "clone"
    BY <1>b, <2>1, LaunchFacts, WorkFacts, BufferFacts DEF Work
  <2>3. PICK work \in {<<c>>, <<c, w>>} : Enqueue(stream', work)
    BY <1>1, <2>1 DEF BeginCapture, WarmUpFails
  <2>4. stream' \in Pool
    BY <1>1 DEF BeginCapture, WarmUpFails
  <2>5. work \in Seq(WorkType) /\ \A i \in DOMAIN work : work[i] \in {c, w}
    <3>1. /\ <<c>> \in Seq(WorkType) /\ <<c, w>> \in Seq(WorkType)
          /\ \A i \in DOMAIN <<c>> : <<c>>[i] = c
          /\ \A i \in DOMAIN <<c, w>> : <<c, w>>[i] \in {c, w}
      BY <2>2, ShortFacts
    <3>2. CASE work = <<c>>
      BY <3>1, <3>2
    <3>3. CASE work = <<c, w>>
      BY <3>1, <3>3
    <3>. QED  BY <2>3, <3>2, <3>3
  <2>6. /\ pc = "select" /\ UNCHANGED inputs
        /\ \A b \in Buckets : graphs[b] = "failed" => graphs'[b] = "failed"
        /\ graphs'[bucket] = "failed" \/ (pc' = "capture" /\ bucket' = bucket)
    BY <1>1, <1>c DEF BeginCapture, WarmUpFails, PinToEager
  <2>7. PICK s \in Pool : s = stream'
    BY <2>4
  <2>8. /\ queue'[s] = queue[s] \o work
        /\ \A t \in Streams : t # s => queue'[t] = queue[t]
    BY <1>b, <2>3, <2>5, <2>7, EnqueueFacts, PoolFacts DEF TypeOK
  <2>9. queue[s] \in Seq(WorkType)
    BY <1>b, PoolFacts DEF TypeOK
  <2>10. ASSUME NEW t \in Pool, NEW i \in DOMAIN queue'[t], queue'[t][i].what = "clone"
         PROVE  \E b \in Buckets :
                   /\ queue'[t][i].to = In(b)
                   /\ \/ graphs'[b] = "failed"
                      \/ pc' = "capture" /\ t = stream' /\ b = bucket'
    <3>1. CASE t = s /\ i \notin DOMAIN queue[s]
      <4>1. i - Len(queue[s]) \in DOMAIN work /\ queue'[s][i] = work[i - Len(queue[s])]
        BY <2>5, <2>8, <2>9, <2>10, <3>1, JoinFacts
      <4>2. queue'[t][i].to = In(bucket)
        BY <2>2, <2>5, <2>10, <3>1, <4>1
      <4>. QED  BY <1>c, <2>6, <2>7, <3>1, <4>2
    <3>2. CASE ~(t = s /\ i \notin DOMAIN queue[s])
      <4>1. i \in DOMAIN queue[t] /\ queue'[t][i] = queue[t][i]
        <5>1. CASE t = s
          BY <2>10, <3>2, <5>1, <2>5, <2>8, <2>9, JoinFacts
        <5>2. CASE t # s
          BY <2>8, <2>10, <5>2, PoolFacts
        <5>. QED  BY <5>1, <5>2
      <4>. QED  BY <1>a, <2>6, <2>10, <4>1
    <3>. QED  BY <3>1, <3>2
  <2>. QED  BY <2>10 DEF ClonesApart
<1>2. CASE ReplaySucceeds \/ ReplayFails
  <2>1. /\ pc = "replay" /\ UNCHANGED <<graphs, bucket, stream>>
    BY <1>2 DEF ReplaySucceeds, ReplayFails
  <2>2. \A t \in Pool : t # stream => queue'[t] = queue[t]
    <3>1. CASE Launch
      BY <1>b, <1>c, <3>1, LaunchedQueues, PoolFacts
    <3>2. CASE Enqueue(stream, InputReady)
      BY <1>b, <1>c, <3>2, PoolFacts, EnqueueFacts, LaunchFacts DEF TypeOK
    <3>. QED  BY <1>2, <3>1, <3>2 DEF ReplaySucceeds, ReplayFails
  <2>3. PICK work \in Seq(WorkType) :
           /\ queue'[stream] = queue[stream] \o work
           /\ \A i \in DOMAIN work : work[i].what # "clone"
    <3>1. CASE Launch
      <4>1. PICK launch : launch = InputReady \o CopyInputs \o Replay
        OBVIOUS
      <4>2. /\ launch \in Seq(WorkType)
            /\ launch[1] = Wait("instance", Len(queue["instance"]))
            /\ \A i \in DOMAIN launch : i # 1 => launch[i].what \in {"copy", "replay"}
        BY <1>b, <2>1, <4>1, LaunchWork
      <4>3. launch[1].what # "clone"
        BY <4>2 DEF Wait
      <4>. QED  BY <1>b, <1>c, <3>1, <4>1, <4>2, <4>3, LaunchedQueues
    <3>2. CASE Enqueue(stream, InputReady)
      <4>1. PICK w : w = Wait("instance", Len(queue["instance"]))
        OBVIOUS
      <4>2. InputReady = <<w>> /\ InputReady \in Seq(WorkType) /\ w.what = "wait"
        BY <1>b, <4>1, LaunchFacts DEF InputReady, Wait
      <4>3. queue'[stream] = queue[stream] \o InputReady
        BY <1>b, <1>c, <3>2, <4>2, PoolFacts DEF Enqueue, TypeOK
      <4>4. \A i \in DOMAIN <<w>> : <<w>>[i] = w
        OBVIOUS
      <4>. QED  BY <4>2, <4>3, <4>4
    <3>. QED  BY <1>2, <3>1, <3>2 DEF ReplaySucceeds, ReplayFails
  <2>4. queue[stream] \in Seq(WorkType)
    BY <1>b, <1>c, PoolFacts DEF TypeOK
  <2>5. ASSUME NEW t \in Pool, NEW i \in DOMAIN queue'[t], queue'[t][i].what = "clone"
        PROVE  i \in DOMAIN queue[t] /\ queue'[t][i] = queue[t][i]
    <3>1. CASE t = stream
      <4>1. \A k \in DOMAIN queue'[stream] : k \notin DOMAIN queue[stream] =>
               queue'[stream][k].what # "clone"
        BY <2>3, <2>4, JoinFacts
      <4>2. \A k \in DOMAIN queue[stream] : queue'[stream][k] = queue[stream][k]
        BY <2>3, <2>4, JoinFacts
      <4>. QED  BY <2>5, <3>1, <4>1, <4>2
    <3>2. CASE t # stream
      BY <2>2, <2>5, <3>2
    <3>. QED  BY <3>1, <3>2
  <2>6. ASSUME NEW t \in Pool, NEW i \in DOMAIN queue'[t], queue'[t][i].what = "clone"
        PROVE  \E b \in Buckets : queue'[t][i].to = In(b) /\ graphs'[b] = "failed"
    BY <1>a, <2>1, <2>5, <2>6
  <2>. QED  BY <2>6 DEF ClonesApart
<1>3. CASE EndCapture \/ CaptureFails
  <2>1. /\ queue' = queue /\ queue[stream] = <<>>
        /\ \A b \in Buckets : graphs[b] = "failed" => graphs'[b] = "failed"
    BY <1>3, <1>b, <1>c, PoolFacts DEF EndCapture, CaptureFails, PinToEager, Idle, HostInPlace
  <2>2. ASSUME NEW s \in Pool, NEW i \in DOMAIN queue[s], queue[s][i].what = "clone"
        PROVE  s # stream
    <3>1. ASSUME s = stream PROVE FALSE
      <4>1. DOMAIN queue[s] = {}
        BY <2>1, <3>1
      <4>. QED  BY <4>1
    <3>. QED  BY <3>1
  <2>3. ASSUME NEW s \in Pool, NEW i \in DOMAIN queue[s], queue[s][i].what = "clone"
        PROVE  \E b \in Buckets : queue[s][i].to = In(b) /\ graphs'[b] = "failed"
    BY <1>a, <2>1, <2>2, <2>3
  <2>. QED  BY <2>1, <2>3 DEF ClonesApart
<1>4. CASE \E s \in Streams : DeviceRuns(s)
  <2>1. PICK s \in Streams : DeviceRuns(s)
    BY <1>4
  <2>2. ASSUME NEW t \in Pool, NEW i \in DOMAIN queue'[t]
        PROVE  \E k \in DOMAIN queue[t] : /\ queue'[t][i].what = queue[t][k].what
                                          /\ queue'[t][i].to = queue[t][k].to
    <3>1. PICK k : k = IF t = s THEN i + 1 ELSE i
      OBVIOUS
    <3>2. /\ k \in DOMAIN queue[t] /\ queue'[t][i].what = queue[t][k].what
          /\ queue'[t][i].to = queue[t][k].to
      BY <1>b, <2>1, <2>2, <3>1, DeviceLeaves, PoolFacts
    <3>. QED  BY <3>2
  <2>3. UNCHANGED <<pc, graphs, bucket, stream>>
    BY <2>1 DEF DeviceRuns
  <2>4. ASSUME NEW t \in Pool, NEW i \in DOMAIN queue'[t], queue'[t][i].what = "clone"
        PROVE  \E b \in Buckets :
                  /\ queue'[t][i].to = In(b)
                  /\ \/ graphs'[b] = "failed"
                     \/ pc' = "capture" /\ t = stream' /\ b = bucket'
    BY <1>a, <2>2, <2>3, <2>4
  <2>. QED  BY <2>4 DEF ClonesApart
<1>5. CASE Arrive
  <2>1. pc = "idle" /\ graphs' = graphs
    BY <1>5 DEF Arrive
  <2>2. ASSUME NEW s \in Pool, NEW i \in DOMAIN queue'[s]
        PROVE  /\ i \in DOMAIN queue[s]
               /\ queue'[s][i].what = queue[s][i].what /\ queue'[s][i].to = queue[s][i].to
    <3>1. i \in DOMAIN queue[s] /\ queue'[s][i] = Aged(queue[s][i])
      BY <1>5, <2>2, PoolFacts DEF Arrive
    <3>2. queue[s] \in Seq(WorkType)
      BY <1>b, PoolFacts DEF TypeOK
    <3>3. queue[s][i] \in WorkType
      BY <3>1, <3>2
    <3>. QED  BY <3>1, <3>3 DEF Aged, WorkType
  <2>. QED  BY <1>a, <2>1, <2>2 DEF ClonesApart
<1>6. CASE \/ UNCHANGED vars \/ Collect \/ Answer \/ NoGraph \/ UsePrestaged
           \/ PadRequestsUp \/ PadThrows \/ UseCaptured \/ RunEager \/ RunThrows \/ SyncRun
  <2>1. \A s \in Pool : queue'[s] = queue[s]
    BY <1>6, <1>b, PoolFacts DEF vars, Collect, Answer, NoGraph, UsePrestaged,
       PadRequestsUp, PadThrows, UseCaptured, RunEager, RunThrows, SyncRun, CollectCopies,
       CollectInPlace, CollectFails, SyncInputs, Respond, RespondEmpty, RespondFails,
       Send, Enqueue, CopyOutputs, TypeOK
  <2>2. graphs' = graphs
    BY <1>6 DEF vars, Collect, Answer, NoGraph, UsePrestaged,
       PadRequestsUp, PadThrows, UseCaptured, RunEager, RunThrows, SyncRun, CollectCopies,
       CollectInPlace, CollectFails, SyncInputs, Respond, RespondEmpty, RespondFails,
       Send
  <2>3. pc # "capture" \/ UNCHANGED <<pc, stream, bucket>>
    BY <1>6 DEF vars, Collect, Answer, NoGraph, UsePrestaged,
       PadRequestsUp, PadThrows, UseCaptured, RunEager, RunThrows, SyncRun, CollectCopies,
       CollectInPlace, CollectFails, SyncInputs, Respond, RespondEmpty, RespondFails,
       Send
  <2>. QED  BY <1>a, <2>1, <2>2, <2>3 DEF ClonesApart
<1>. QED  BY <1>1, <1>2, <1>3, <1>4, <1>5, <1>6 DEF Next, Host, Execute

(* The run that answers is chosen once. *)
LEMMA KnownStep ==
    ASSUME TypeOK, HostInPlace, AnswerKnown, [Next]_vars
    PROVE  AnswerKnown'
<1>. USE DEF AnswerKnown, Answering, Goto, batchVars
<1>1. CASE Arrive \/ Collect
  BY <1>1 DEF Arrive, Collect, CollectCopies, CollectInPlace, CollectFails, SyncInputs
<1>2. CASE \/ NoGraph \/ UsePrestaged \/ PadRequestsUp \/ PadThrows \/ UseCaptured
           \/ BeginCapture \/ RunEager \/ RunThrows \/ SyncRun
  BY <1>2 DEF NoGraph, UsePrestaged, PadRequestsUp, PadThrows, UseCaptured, BeginCapture,
     RunEager, RunThrows, SyncRun
<1>3. CASE WarmUpFails \/ EndCapture \/ CaptureFails
  BY <1>3 DEF WarmUpFails, EndCapture, CaptureFails, PinToEager
<1>4. CASE ReplaySucceeds \/ ReplayFails
  BY <1>4 DEF ReplaySucceeds, ReplayFails, HostInPlace
<1>5. CASE Answer
  BY <1>5 DEF Answer, Respond, RespondEmpty, RespondFails, Send
<1>6. CASE (\E s \in Streams : DeviceRuns(s)) \/ UNCHANGED vars
  BY <1>6 DEF DeviceRuns, vars
<1>. QED  BY <1>1, <1>2, <1>3, <1>4, <1>5, <1>6 DEF Next, Host, Execute

(* How far the batch in hand gets in a step of the host. *)
LEMMA HostMoves ==
    ASSUME TypeOK, HostInPlace, AnswerKnown, Host
    PROVE  /\ pc # "idle"
           /\ pc' = "syncInputs" => CollectCopies
           /\ pc' = "execute" /\ pc \notin {"collect", "syncInputs"} =>
                 pc \in {"select", "capture"} /\ inputs' = inputs
           /\ pc = "collect" => CollectCopies \/ CollectInPlace \/ CollectFails
           /\ pc = "syncInputs" => SyncInputs
           /\ pc \notin {"collect", "syncInputs"} => inputs' = inputs
           /\ pc \in Answering /\ pc' \in Answering => Respond
           /\ pc' \in Answering => pc \in {"replay", "syncRun"} \/ Respond
           /\ pc = "replay" /\ pc' \in Answering => ReplaySucceeds
           /\ pc = "syncRun" => SyncRun
           /\ pc' = "syncRun" => RunEager
           /\ pc' = "idle" => answer' = "none" \/ Send
           /\ pc' = "select" => PadRequestsUp
           /\ pc' = "capture" => BeginCapture
           /\ pc' = "replay" => UsePrestaged \/ UseCaptured \/ EndCapture
<1>. USE DEF AnswerKnown, Answering, Goto, batchVars
<1>1. CASE Collect
  BY <1>1 DEF Collect, CollectCopies, CollectInPlace, CollectFails, SyncInputs
<1>2. CASE \/ NoGraph \/ UsePrestaged \/ PadRequestsUp \/ PadThrows \/ UseCaptured
           \/ BeginCapture \/ RunEager \/ RunThrows \/ SyncRun
  BY <1>2 DEF NoGraph, UsePrestaged, PadRequestsUp, PadThrows, UseCaptured, BeginCapture,
     RunEager, RunThrows, SyncRun
<1>3. CASE WarmUpFails \/ EndCapture \/ CaptureFails
  BY <1>3 DEF WarmUpFails, EndCapture, CaptureFails, PinToEager
<1>4. CASE ReplaySucceeds \/ ReplayFails
  BY <1>4 DEF ReplaySucceeds, ReplayFails
<1>5. CASE Answer
  BY <1>5 DEF Answer, Respond, RespondEmpty, RespondFails, Send
<1>. QED  BY <1>1, <1>2, <1>3, <1>4, <1>5 DEF Host, Execute

(* What the host does not write stays settled, or on its way. *)
LEMMA HostKeeps ==
    ASSUME TypeOK, HostInPlace, Host, "copy" \notin Failures,
           NEW b, b # Nothing, ~HostWrites(b)
    PROVE  /\ Settled(b) => Settled(b)'
           /\ \A from : Coming(from, b) => Coming(from, b)'
BY HostAdds, GrownKeeps

(* The inputs stay the batch's. *)
LEMMA InputsHost ==
    ASSUME TypeOK, HostInPlace, AnswerKnown, InputsOwn, Host, "copy" \notin Failures
    PROVE  InputsOwn'
<1>. USE DEF Goto, batchVars
<1>a. /\ inputs \in {Stage, Request, In(bucket)}
      /\ bucket \in Buckets
      /\ inputs # Nothing /\ Request # Nothing /\ inputs \notin {Padded, Eager, Response}
      /\ inputs # Out(bucket) /\ (inputs = In(bucket) => Prestaged)
      /\ Request \notin {In(bucket), Out(bucket), Padded, Eager, Response}
  <2>1. /\ inputs \in {Stage, Request, In(bucket)} /\ bucket \in Buckets
        /\ (inputs = In(bucket) => Prestaged)
    BY DEF TypeOK, Prestaged
  <2>2. {Stage, Request} \cap {Padded, Eager, Response, Nothing} = {}
    BY DEF Stage, Request, Padded, Eager, Response, Nothing
  <2>3. /\ In(bucket) \notin {Request, Padded, Eager, Response, Nothing}
        /\ Out(bucket) \notin {In(bucket), Request, Stage}
    BY <2>1, BufferFacts
  <2>. QED  BY <2>1, <2>2, <2>3
<1>1. Settled(Request)'
  <2>1. ~HostWrites(Request)
    BY <1>a DEF HostWrites, HostInPlace
  <2>. QED  BY <1>a, <2>1, HostKeeps DEF InputsOwn
<1>2. ASSUME pc' = "syncInputs"
      PROVE  Fills(Len(queue["instance"]), Request, inputs)'
  <2>1. CollectCopies
    BY <1>2, HostMoves
  <2>2. PICK x : x = inputs
    OBVIOUS
  <2>3. PICK w : w = Work("collect", Request, x)
    OBVIOUS
  <2>4. w \in WorkType /\ w.on = "none" /\ w.from = Request /\ w.to = x
    BY <2>2, <2>3, LaunchFacts, BufferFacts, WorkFacts DEF Work
  <2>5. Enqueue("instance", <<w>>) /\ inputs' = x
    BY <2>1, <2>2, <2>3 DEF CollectCopies, CollectWork
  <2>6. Fills(Len(queue["instance"]), w.from, w.to)'
    BY <2>4, <2>5, LastFills
  <2>. QED  BY <2>4, <2>5, <2>6 DEF Fills
<1>3. ASSUME pc' \in Running
      PROVE  Settled(inputs)'
  <2>1. CASE pc = "collect"
    <3>1. CollectInPlace
      BY <1>3, <2>1, HostMoves DEF CollectCopies, CollectFails, Running, Answering
    <3>2. inputs' = Request
      BY <3>1 DEF CollectInPlace
    <3>. QED  BY <1>1, <3>2 DEF Settled
  <2>2. CASE pc # "collect"
    <3>1. PICK x : x = inputs
      OBVIOUS
    <3>2. inputs' = x
      <4>1. CASE pc = "syncInputs"
        BY <3>1, <4>1, HostMoves DEF SyncInputs
      <4>. QED  BY <2>2, <3>1, <4>1, HostMoves
    <3>3. Settled(x)
      <4>1. CASE pc = "syncInputs"
        <5>1. SyncInputs
          BY <4>1, HostMoves
        <5>2. DOMAIN queue["instance"] = {}
          BY <5>1 DEF SyncInputs, Idle
        <5>3. ~Fills(Len(queue["instance"]), Request, inputs)
          BY <5>2 DEF Fills
        <5>. QED  BY <3>1, <4>1, <5>3 DEF InputsOwn
      <4>2. CASE pc # "syncInputs"
        <5>1. pc \in Running
          BY <2>2, <4>2, HostMoves DEF Running, Answering, TypeOK
        <5>. QED  BY <3>1, <5>1 DEF InputsOwn
      <4>. QED  BY <4>1, <4>2
    <3>4. ~HostWrites(x) /\ x # Nothing
      <4>1. pc # "select" \/ x # In(bucket)
        BY <1>a, <3>1 DEF HostInPlace
      <4>. QED  BY <1>a, <2>2, <3>1, <4>1 DEF HostWrites
    <3>5. Settled(x)'
      BY <3>3, <3>4, HostKeeps
    <3>. QED  BY <3>2, <3>5 DEF Settled
  <2>. QED  BY <2>1, <2>2
<1>. QED  BY <1>1, <1>2, <1>3 DEF InputsOwn

(* The padding stays on its way. *)
LEMMA PaddingHost ==
    ASSUME TypeOK, HostInPlace, AnswerKnown, PaddingOwn, Host, "copy" \notin Failures
    PROVE  PaddingOwn'
<1>. USE DEF Goto, batchVars
<1>1. SUFFICES ASSUME pc' \in {"select", "capture", "replay"}
                        \/ (pc' \in Answering /\ answer' = "graph"),
                      pads', ~Prestaged'
               PROVE  Coming(inputs, Padded)'
  BY DEF PaddingOwn
<1>2. PICK x : x = inputs
  OBVIOUS
<1>3. Padded # Nothing /\ Padded \notin {Stage, Request, In(bucket), Out(bucket), Eager, Response}
  BY BufferFacts DEF TypeOK, Padded, Stage, Eager, Response, In, Out, Request
<1>4. CASE PadRequestsUp
  <2>1. PICK w : w = Work("pad", x, Padded)
    OBVIOUS
  <2>2. w \in WorkType /\ w.on = "none" /\ w.from = x /\ w.to = Padded
    BY <1>2, <2>1, LaunchFacts, BufferFacts, WorkFacts DEF Work
  <2>3. Enqueue("instance", <<w>>) /\ inputs' = x
    BY <1>1, <1>2, <1>4, <2>1 DEF PadRequestsUp, PadWork
  <2>4. Coming(w.from, w.to)'
    BY <2>2, <2>3, LastFills
  <2>. QED  BY <2>2, <2>3, <2>4 DEF Coming, Fills
<1>5. CASE UsePrestaged
  BY <1>1, <1>5 DEF UsePrestaged, Prestaged
<1>6. CASE UseCaptured \/ BeginCapture \/ EndCapture \/ ReplaySucceeds \/ Respond
  <2>1. /\ UNCHANGED <<inputs, bucket, pads>>
        /\ \/ pc \in {"select", "capture", "replay"}
           \/ pc = "respond" /\ pc' = "finalize" /\ answer' = answer
    BY <1>6 DEF UseCaptured, BeginCapture, EndCapture, ReplaySucceeds, Respond
  <2>2. Coming(x, Padded)
    BY <1>1, <1>2, <2>1 DEF PaddingOwn, Prestaged, Answering
  <2>3. ~HostWrites(Padded)
    <3>1. pc \notin {"collect", "execute"}
      BY <2>1
    <3>. QED  BY <1>3, <3>1 DEF HostWrites
  <2>4. Coming(x, Padded)'
    BY <1>3, <2>2, <2>3, HostKeeps
  <2>. QED  BY <1>2, <2>1, <2>4 DEF Coming, Fills
<1>. QED  BY <1>1, <1>4, <1>5, <1>6, HostMoves DEF SyncRun, Answering

(* A launch ends with the replay of the batch in hand. *)
LEMMA LaunchOwn ==
    ASSUME TypeOK, HostInPlace, InputsOwn, ReplaySucceeds, "copy" \notin Failures
    PROVE  ReplayOwn'
<1>1. /\ pc = "replay" /\ Launch
      /\ UNCHANGED <<bucket, stream, inputs, pads>>
  BY DEF ReplaySucceeds, batchVars
<1>2. PICK s \in Pool, c \in Buckets : s = stream /\ c = bucket
  BY DEF TypeOK
<1>3. PICK a \in Buffers : a = AtBucket /\ a = AtBucket'
  BY <1>1, LaunchFacts DEF AtBucket
<1>4. PICK n \in Nat, m \in Nat : n = Len(queue[s]) /\ m = Len(queue["instance"])
  BY PoolFacts DEF TypeOK
<1>5. PICK w, k, r : /\ w = Wait("instance", m)
                     /\ k = Work("copy", a, In(c)) /\ r = Work("replay", In(c), Out(c))
  OBVIOUS
<1>6. /\ w.on = "instance" /\ w.ahead = m
      /\ k.from = a /\ k.to = In(c)
      /\ r.what = "replay" /\ r.from = In(c) /\ r.to = Out(c)
  BY <1>5 DEF Wait, Work
<1>7. w \in WorkType /\ k \in WorkType /\ r \in WorkType
  BY <1>5, <1>3, WorkFacts, BufferFacts, PoolFacts
<1>8. PICK launch : launch = InputReady \o CopyInputs \o Replay
  OBVIOUS
<1>9. launch = IF Prestaged THEN <<w, r>> ELSE <<w, k, r>>
  <2>1. /\ InputReady = <<w>> /\ Replay = <<r>>
        /\ CopyInputs = IF Prestaged THEN <<>> ELSE <<k>>
    BY <1>2, <1>3, <1>4, <1>5 DEF InputReady, CopyInputs, Replay
  <2>2. /\ (<<w>> \o <<>>) \o <<r>> = <<w, r>>
        /\ (<<w>> \o <<k>>) \o <<r>> = <<w, k, r>>
    BY <1>7, JoinShort
  <2>. QED  BY <1>8, <2>1, <2>2
<1>10. /\ queue'[s] = queue[s] \o launch
       /\ queue'["instance"] = Append(queue["instance"], Wait(s, n + Len(launch)))
  BY <1>1, <1>2, <1>4, <1>8, LaunchedQueues
<1>11. queue[s] \in Seq(WorkType) /\ queue["instance"] \in Seq(WorkType)
  BY PoolFacts DEF TypeOK
<1>12. CASE Prestaged
  <2>1. launch = <<w, r>>
    BY <1>9, <1>12
  <2>2. Len(queue'[s]) = n + 2 /\ queue'[s][n + 2] = r /\ queue'[s] # <<>>
    BY <1>4, <1>7, <1>10, <1>11, <2>1
  <2>3. Settled(In(c))'
    <3>1. In(c) = inputs /\ Settled(In(c))
      BY <1>1, <1>2, <1>12 DEF Prestaged, InputsOwn, Running
    <3>2. In(c) # Nothing /\ ~HostWrites(In(c))
      BY <1>1, <1>2, <1>12, BufferFacts DEF HostWrites
    <3>3. Host
      BY DEF Host, Execute
    <3>. QED  BY <3>1, <3>2, <3>3, HostKeeps
  <2>4. Settled(In(bucket))'
    BY <1>1, <1>2, <2>3 DEF Settled
  <2>. QED  BY <1>1, <1>2, <1>6, <2>2, <2>4 DEF ReplayOwn
<1>13. CASE ~Prestaged
  <2>1. launch = <<w, k, r>>
    BY <1>9, <1>13
  <2>2. /\ Len(queue'[s]) = n + 3 /\ DOMAIN queue'[s] = 1..(n + 3)
        /\ queue'[s][n + 1] = w /\ queue'[s][n + 2] = k /\ queue'[s][n + 3] = r
    BY <1>4, <1>7, <1>10, <1>11, <2>1
  <2>3. ASSUME NEW l \in DOMAIN queue'["instance"]
        PROVE  queue'["instance"][l].to = Nothing \/ Covered(s, n + 2, l)'
    <3>1. DOMAIN queue'["instance"] = 1..(m + 1)
      BY <1>4, <1>10, <1>11
    <3>2. CASE l = m + 1
      <4>1. queue'["instance"][l] = Wait(s, n + Len(launch))
        BY <1>4, <1>10, <1>11, <3>2
      <4>. QED  BY <4>1 DEF Wait
    <3>3. CASE l # m + 1
      <4>1. n + 1 \in 1..((n + 2) - 1) /\ m >= l
        BY <3>1, <3>3
      <4>. QED  BY <1>6, <2>2, <4>1 DEF Covered
    <3>. QED  BY <3>2, <3>3
  <2>4. CopyQueued(n + 2)'
    <3>1. n + 2 \in DOMAIN queue'[s]
      BY <2>2
    <3>2. \A l \in DOMAIN queue'["instance"] :
             queue'["instance"][l].to \in {Nothing, Response} \/ Covered(stream, n + 2, l)'
      BY <1>1, <1>2, <2>3 DEF Covered
    <3>. QED  BY <1>1, <1>2, <1>3, <1>6, <2>2, <3>1, <3>2 DEF CopyQueued
  <2>5. Len(queue'[s]) - 1 = n + 2 /\ queue'[s] # <<>>
    BY <2>2
  <2>6. CopyQueued(Len(queue[stream]) - 1)'
    BY <1>1, <1>2, <2>4, <2>5 DEF CopyQueued, Covered
  <2>7. ~Prestaged'
    BY <1>1, <1>13 DEF Prestaged
  <2>. QED  BY <1>1, <1>2, <1>6, <2>2, <2>5, <2>6, <2>7 DEF ReplayOwn
<1>. QED  BY <1>12, <1>13

(* The copies of the response are queued behind the replay. *)
LEMMA RespondKeeps ==
    ASSUME TypeOK, HostInPlace, AnswerKnown, ReplayOwn, answer = "graph", Respond,
           "copy" \notin Failures
    PROVE  ReplayOwn'
<1>1. /\ pc = "respond" /\ UNCHANGED <<bucket, stream, inputs, pads>>
      /\ Host
  BY DEF Respond, batchVars, Host, Answer
<1>2. PICK s \in Pool, c \in Buckets : s = stream /\ c = bucket
  BY DEF TypeOK
<1>3. PICK w : w = Work("respond", Out(c), Response)
  OBVIOUS
<1>4. w \in WorkType /\ w.to = Response
  BY <1>3, WorkFacts, BufferFacts DEF Work
<1>5. Enqueue("instance", <<w>>)
  BY <1>2, <1>3 DEF Respond, CopyOutputs
<1>6. /\ queue'[s] = queue[s]
      /\ \A l \in DOMAIN queue'["instance"] :
            \/ l \in DOMAIN queue["instance"] /\ queue'["instance"][l] = queue["instance"][l]
            \/ queue'["instance"][l].to = Response
  <2>1. PICK m \in Nat : /\ DOMAIN queue["instance"] = 1..m
                         /\ DOMAIN queue'["instance"] = 1..(m + 1)
                         /\ queue'["instance"][m + 1] = w
                         /\ Grown
                         /\ \A t \in Streams : t # "instance" => queue'[t] = queue[t]
    BY <1>4, <1>5, OneMore, PoolFacts
  <2>2. queue'[s] = queue[s]
    BY <2>1, PoolFacts
  <2>3. ASSUME NEW l \in 1..(m + 1), l # m + 1
        PROVE  l \in DOMAIN queue["instance"] /\ queue'["instance"][l] = queue["instance"][l]
    BY <2>1, <2>3, PoolFacts DEF Grown
  <2>. QED  BY <1>4, <2>1, <2>2, <2>3
<1>7. ASSUME NEW b \in Buckets
      PROVE  /\ Settled(In(b)) => Settled(In(b))'
             /\ Settled(Out(b)) => Settled(Out(b))'
  <2>1. In(b) # Nothing /\ Out(b) # Nothing /\ ~HostWrites(In(b)) /\ ~HostWrites(Out(b))
    BY <1>1, BufferFacts DEF HostWrites
  <2>. QED  BY <1>1, <2>1, HostKeeps
<1>8. CASE Settled(Out(bucket))
  <2>1. Settled(Out(c))'
    BY <1>2, <1>7, <1>8
  <2>. QED  BY <1>1, <1>2, <2>1 DEF ReplayOwn, Settled
<1>9. CASE ~Settled(Out(bucket))
  <2>1. PICK n : n = Len(queue[s])
    OBVIOUS
  <2>2. /\ queue[s] # <<>> /\ queue[s][n].what = "replay"
        /\ queue[s][n].from = In(c) /\ queue[s][n].to = Out(c)
        /\ Settled(In(c)) \/ (~Prestaged /\ CopyQueued(n - 1))
    BY <1>2, <1>9, <2>1 DEF ReplayOwn
  <2>3. CASE Settled(In(c))
    <3>1. Settled(In(c))'
      BY <1>7, <2>3
    <3>2. Settled(In(bucket))'
      BY <1>1, <1>2, <3>1 DEF Settled
    <3>. QED  BY <1>1, <1>2, <1>6, <2>1, <2>2, <3>2 DEF ReplayOwn
  <2>4. CASE ~Prestaged /\ CopyQueued(n - 1)
    <3>1. PICK i : i = n - 1
      OBVIOUS
    <3>2. /\ i \in DOMAIN queue'[s]
          /\ queue'[s][i].from = AtBucket /\ queue'[s][i].to = In(c)
      BY <1>2, <1>6, <2>4, <3>1 DEF CopyQueued
    <3>3. ASSUME NEW l \in DOMAIN queue'["instance"]
          PROVE  queue'["instance"][l].to \in {Nothing, Response} \/ Covered(stream, i, l)'
      <4>1. ASSUME l \in DOMAIN queue["instance"], Covered(stream, i, l)
            PROVE  Covered(stream, i, l)'
        BY <1>1, <1>2, <1>6, <4>1 DEF Covered
      <4>. QED  BY <1>6, <2>4, <3>1, <4>1 DEF CopyQueued
    <3>4. CopyQueued(i)'
      BY <1>1, <1>2, <3>2, <3>3 DEF CopyQueued, AtBucket
    <3>5. CopyQueued(Len(queue[stream]) - 1)'
      BY <1>1, <1>2, <1>6, <2>1, <3>1, <3>4 DEF CopyQueued, Covered
    <3>6. ~Prestaged'
      BY <1>1, <2>4 DEF Prestaged
    <3>. QED  BY <1>1, <1>2, <1>6, <2>1, <2>2, <3>5, <3>6 DEF ReplayOwn
  <2>. QED  BY <2>2, <2>3, <2>4
<1>. QED  BY <1>8, <1>9

(* The outputs, and the response, stay the batch's or on their way. *)
LEMMA OutputsHost ==
    ASSUME TypeOK, HostInPlace, AnswerKnown, AnswerKnown', InputsOwn, OutputsOwn, Host,
           "copy" \notin Failures
    PROVE  OutputsOwn'
<1>. USE DEF Goto, batchVars
<1>1. ASSUME pc' = "syncRun"
      PROVE  Coming(inputs, Eager)'
  <2>1. RunEager
    BY <1>1, HostMoves
  <2>2. PICK x : x = inputs
    OBVIOUS
  <2>3. PICK w : w = Work("run", x, Eager)
    OBVIOUS
  <2>4. w \in WorkType /\ w.on = "none" /\ w.from = x /\ w.to = Eager
    BY <2>2, <2>3, LaunchFacts, BufferFacts, WorkFacts DEF Work
  <2>5. Enqueue("instance", <<w>>) /\ inputs' = x
    BY <2>1, <2>2, <2>3 DEF RunEager
  <2>6. Coming(w.from, w.to)'
    BY <2>4, <2>5, LastFills
  <2>. QED  BY <2>4, <2>5, <2>6 DEF Coming, Fills
<1>2. ASSUME pc' \in Answering
      PROVE  IF answer' = "graph" THEN ReplayOwn' ELSE Settled(Eager)'
  <2>1. CASE ReplaySucceeds
    <3>1. answer' = "graph"
      BY <2>1 DEF ReplaySucceeds
    <3>. QED  BY <2>1, <3>1, LaunchOwn
  <2>2. CASE SyncRun
    <3>1. answer' = "eager" /\ UNCHANGED <<queue, contents>> /\ pc = "syncRun"
      BY <2>2 DEF SyncRun
    <3>2. DOMAIN queue["instance"] = {}
      BY <2>2 DEF SyncRun, Idle
    <3>3. Settled(Eager)
      BY <3>1, <3>2 DEF OutputsOwn, Coming
    <3>. QED  BY <3>1, <3>3 DEF Settled
  <2>3. CASE Respond
    <3>1. pc = "respond" /\ answer' = answer
      BY <2>3 DEF Respond
    <3>2. CASE answer = "graph"
      BY <2>3, <3>1, <3>2, RespondKeeps DEF OutputsOwn, Answering
    <3>3. CASE answer # "graph"
      <4>1. Settled(Eager)
        BY <3>1, <3>3 DEF OutputsOwn, Answering
      <4>2. Eager # Nothing /\ ~HostWrites(Eager)
        BY <3>1 DEF HostWrites, Eager, Nothing, Response
      <4>. QED  BY <3>1, <3>3, <4>1, <4>2, HostKeeps
    <3>. QED  BY <3>2, <3>3
  <2>. QED  BY <1>2, <2>1, <2>2, <2>3, HostMoves
<1>3. ASSUME pc' = "finalize"
      PROVE  Fills(Len(queue["instance"]), Source, Response)'
  <2>1. Respond
    BY <1>3, HostMoves DEF Answering, ReplaySucceeds, SyncRun
  <2>2. PICK x : x = Source
    OBVIOUS
  <2>3. PICK w : w = Work("respond", x, Response)
    OBVIOUS
  <2>4. x \in Buffers
    BY <2>2, LaunchFacts, BufferFacts DEF Source
  <2>5. w \in WorkType /\ w.on = "none" /\ w.from = x /\ w.to = Response
    BY <2>3, <2>4, BufferFacts, WorkFacts DEF Work
  <2>6. Enqueue("instance", <<w>>) /\ UNCHANGED <<answer, bucket>>
    BY <2>1, <2>2, <2>3 DEF Respond, CopyOutputs, Source
  <2>7. Source' = x
    BY <2>2, <2>6 DEF Source
  <2>8. Fills(Len(queue["instance"]), w.from, w.to)'
    BY <2>5, <2>6, LastFills
  <2>. QED  BY <2>5, <2>7, <2>8 DEF Fills
<1>4. ASSUME pc' = "idle", answer' # "none"
      PROVE  Settled(Response)'
  <2>1. Send
    BY <1>4, HostMoves
  <2>2. DOMAIN queue["instance"] = {} /\ pc = "finalize" /\ UNCHANGED <<queue, contents>>
    BY <2>1 DEF Send, Idle
  <2>3. Settled(Response)
    BY <2>2 DEF OutputsOwn, Fills
  <2>. QED  BY <2>2, <2>3 DEF Settled
<1>. QED  BY <1>1, <1>2, <1>3, <1>4 DEF OutputsOwn

(* A batch arrives with its own payloads, which nothing queued will write. *)
LEMMA ArriveOwn ==
    ASSUME IndInv, ClonesApart, Arrive
    PROVE  InputsOwn' /\ PaddingOwn' /\ OutputsOwn'
<1>1. /\ pc' = "collect"
      /\ contents' = [b \in Buffers |-> IF b = Request THEN "new" ELSE "old"]
      /\ queue' = [s \in Streams |-> [i \in DOMAIN queue[s] |-> Aged(queue[s][i])]]
  BY DEF Arrive, Goto
<1>2. ASSUME NEW s \in Streams, NEW i \in DOMAIN queue'[s]
      PROVE  queue'[s][i].to # Request
  <2>1. i \in DOMAIN queue[s] /\ queue'[s][i] = Aged(queue[s][i])
    BY <1>1
  <2>2. queue[s] \in Seq(WorkType)
    BY DEF IndInv, TypeOK
  <2>3. queue[s][i] \in WorkType
    BY <2>1, <2>2
  <2>4. queue'[s][i].to = queue[s][i].to
    BY <2>1, <2>3 DEF Aged, WorkType
  <2>5. CASE s = "instance"
    BY <2>1, <2>4, <2>5, InstanceWrites
  <2>6. CASE s # "instance"
    BY <2>1, <2>4, <2>6, InstanceAlone DEF Streams
  <2>. QED  BY <2>5, <2>6
<1>3. contents'[Request] = "new"
  BY <1>1, BufferFacts
<1>4. Settled(Request)'
  BY <1>2, <1>3 DEF Settled
<1>. QED  BY <1>1, <1>4 DEF InputsOwn, PaddingOwn, OutputsOwn, Running, Answering

-----------------------------------------------------------------------------
(* Steps of the device and the batch in hand                               *)

(* What was coming from a settled buffer stays so, if no pooled stream     *)
(* writes it.                                                              *)
LEMMA ComingStays ==
    ASSUME TypeOK, NEW s \in Streams, DeviceRuns(s), NEW from, NEW to \in Buffers,
           contents[from] = "new", Coming(from, to),
           \A p \in Pool : \A i \in DOMAIN queue[p] : queue[p][i].to # to
    PROVE  Coming(from, to)'
<1>1. CASE Settled(to)
  BY <1>1, SettledStays DEF Coming
<1>2. CASE \E l \in DOMAIN queue["instance"] : Fills(l, from, to)
  <2>1. PICK l : Fills(l, from, to)
    BY <1>2
  <2>2. CASE Fills(IF s = "instance" THEN l - 1 ELSE l, from, to)'
    <3>1. PICK k : k = IF s = "instance" THEN l - 1 ELSE l
      OBVIOUS
    <3>2. Fills(k, from, to)'
      BY <2>2, <3>1
    <3>. QED  BY <3>2 DEF Coming, Fills
  <2>3. CASE /\ s = "instance" /\ contents'[to] = contents[from]
             /\ \A i \in DOMAIN queue'["instance"] : queue'["instance"][i].to # to
    <3>1. ASSUME NEW t \in Pool, NEW i \in DOMAIN queue'[t]
          PROVE  queue'[t][i].to # to
      <4>1. i \in DOMAIN queue[t] /\ queue'[t][i].to = queue[t][i].to
        BY <2>3, <3>1, DeviceLeaves, PoolFacts
      <4>. QED  BY <4>1
    <3>2. Settled(to)'
      BY <2>3, <3>1 DEF Settled, Streams
    <3>. QED  BY <3>2 DEF Coming
  <2>. QED  BY <2>1, <2>2, <2>3, FillsStays
<1>. QED  BY <1>1, <1>2 DEF Coming

(* The collection of the batch in hand is done, or still the last. *)
LEMMA InputsDevice ==
    ASSUME IndInv, ClonesApart, InputsOwn, NEW s \in Streams, DeviceRuns(s)
    PROVE  InputsOwn'
<1>a. TypeOK /\ HostInPlace
  BY DEF IndInv
<1>b. UNCHANGED <<pc, graphs, bucket, inputs, pads, stream, answer>>
  BY <1>a, DeviceLeaves
<1>c. PICK x \in Buffers : x = inputs /\ x = inputs'
  BY <1>a, <1>b, LaunchFacts
<1>1. Settled(Request)'
  BY <1>a, SettledStays, BufferFacts DEF InputsOwn
<1>2. Settled(x) => Settled(x)'
  BY <1>a, SettledStays
<1>3. ASSUME pc = "syncInputs", ~Settled(x)
      PROVE  Settled(x)' \/ Fills(Len(queue["instance"]), Request, x)'
  <2>1. PICK l : l = Len(queue["instance"])
    OBVIOUS
  <2>2. Fills(l, Request, x)
    BY <1>3, <1>c, <2>1 DEF InputsOwn
  <2>3. Len(queue'["instance"]) = IF s = "instance" THEN l - 1 ELSE l
    BY <1>a, <2>1, DeviceLeaves, PoolFacts
  <2>4. CASE Fills(IF s = "instance" THEN l - 1 ELSE l, Request, x)'
    <3>1. PICK k : k = Len(queue'["instance"])
      OBVIOUS
    <3>2. Fills(k, Request, x)'
      BY <2>3, <2>4, <3>1
    <3>. QED  BY <3>1, <3>2 DEF Fills
  <2>5. CASE /\ s = "instance" /\ l = 1 /\ contents'[x] = contents[Request]
             /\ \A i \in DOMAIN queue'["instance"] : queue'["instance"][i].to # x
    <3>1. contents'[x] = "new"
      BY <2>5 DEF InputsOwn, Settled
    <3>2. ASSUME NEW t \in Pool, NEW i \in DOMAIN queue[t]
          PROVE  queue[t][i].to # x
      <4>1. CASE x \in {Stage, Request}
        BY <3>2, <4>1, InstanceAlone
      <4>2. CASE x = In(bucket)
        <5>1. graphs[bucket] \in Pool /\ bucket \in Buckets
          BY <1>a, <1>c, <4>2 DEF HostInPlace, Prestaged, TypeOK
        <5>2. \A j \in DOMAIN queue["instance"] : j = 1
          <6>1. DOMAIN queue["instance"] = 1..Len(queue["instance"])
            BY <1>a, DeviceLeaves, PoolFacts
          <6>2. DOMAIN queue["instance"] = 1..1
            BY <2>1, <2>5, <6>1
          <6>. QED  BY <6>2
        <5>3. \A j \in DOMAIN queue["instance"] : queue["instance"][j].on = "none"
          BY <2>2, <2>5, <5>2 DEF Fills
        <5>4. queue[t][i].what # "copy"
          BY <3>2, <5>3, NothingLaunched
        <5>. QED  BY <3>2, <4>2, <5>1, <5>4, PoolWrites
      <4>. QED  BY <1>a, <1>c, <4>1, <4>2 DEF TypeOK
    <3>3. ASSUME NEW t \in Pool, NEW i \in DOMAIN queue'[t]
          PROVE  queue'[t][i].to # x
      <4>1. i \in DOMAIN queue[t] /\ queue'[t][i].to = queue[t][i].to
        BY <1>a, <2>5, <3>3, DeviceLeaves, PoolFacts
      <4>. QED  BY <3>2, <4>1
    <3>. QED  BY <2>5, <3>1, <3>3 DEF Settled, Streams
  <2>. QED  BY <1>a, <2>2, <2>4, <2>5, FillsStays
<1>4. pc' \in Running => Settled(x)'
  BY <1>2, <1>b, <1>c DEF InputsOwn
<1>5. pc' = "syncInputs" => Settled(x)' \/ Fills(Len(queue["instance"]), Request, x)'
  BY <1>2, <1>3, <1>b
<1>6. pc' \in Running => Settled(inputs)'
  BY <1>4, <1>c DEF Settled
<1>7. pc' = "syncInputs" => Settled(inputs)' \/ Fills(Len(queue["instance"]), Request, inputs)'
  BY <1>5, <1>c DEF Settled, Fills
<1>. QED  BY <1>1, <1>6, <1>7 DEF InputsOwn

(* So is its padding. *)
LEMMA PaddingDevice ==
    ASSUME IndInv, ClonesApart, InputsOwn, PaddingOwn, NEW s \in Streams, DeviceRuns(s)
    PROVE  PaddingOwn'
<1>a. TypeOK
  BY DEF IndInv
<1>b. UNCHANGED <<pc, graphs, bucket, inputs, pads, stream, answer>>
  BY <1>a, DeviceLeaves
<1>1. SUFFICES ASSUME pc \in {"select", "capture", "replay"}
                        \/ (pc \in Answering /\ answer = "graph"),
                      pads, ~Prestaged
               PROVE  Coming(inputs, Padded)'
  BY <1>b DEF PaddingOwn, Prestaged
<1>2. PICK x : x = inputs
  OBVIOUS
<1>3. Coming(x, Padded) /\ contents[x] = "new"
  BY <1>1, <1>2 DEF PaddingOwn, InputsOwn, Running, Settled
<1>4. \A p \in Pool : \A i \in DOMAIN queue[p] : queue[p][i].to # Padded
  BY InstanceAlone
<1>5. Padded \in Buffers
  BY BufferFacts
<1>6. Coming(x, Padded)'
  BY <1>a, <1>3, <1>4, <1>5, ComingStays
<1>. QED  BY <1>2, <1>6, <1>b DEF Coming, Fills

(* What is behind an event stays behind it. *)
LEMMA CoveredStays ==
    ASSUME TypeOK, NEW s \in Streams, DeviceRuns(s), NEW t \in Pool, NEW i \in Nat,
           NEW l \in DOMAIN queue'["instance"], NEW d, d = (IF t = s THEN i - 1 ELSE i),
           i \in DOMAIN queue[t],
           Covered(t, i, IF s = "instance" THEN l + 1 ELSE l)
    PROVE  Covered(t, d, l)'
<1>1. PICK a : a = IF s = "instance" THEN l + 1 ELSE l
  OBVIOUS
<1>2. PICK k \in 1..(i - 1) : queue[t][k].on = "instance" /\ queue[t][k].ahead >= a
  BY <1>1 DEF Covered
<1>3. /\ DOMAIN queue[t] = 1..Len(queue[t]) /\ Len(queue[t]) \in Nat
      /\ DOMAIN queue'["instance"] = 1..Len(queue'["instance"])
      /\ queue[t] \in Seq(WorkType)
  BY DeviceLeaves, PoolFacts DEF TypeOK
<1>4. k \in DOMAIN queue[t] /\ k \in Nat \ {0}
  BY <1>2, <1>3
<1>5. queue[t][k] \in WorkType
  BY <1>3, <1>4
<1>6. queue[t][k].ahead \in Nat
  BY <1>5 DEF WorkType
<1>7. l \in Nat \ {0}
  BY <1>3
<1>8. CASE s = "instance"
  <2>1. queue'[t][k] = CountDown(queue[t][k], s)
    BY <1>4, <1>8, DeviceFacts, PoolFacts
  <2>2. queue'[t][k].on = "instance" /\ queue'[t][k].ahead >= l
    BY <1>1, <1>2, <1>5, <1>6, <1>7, <1>8, <2>1, CountDownFacts
  <2>3. d = i
    BY <1>8, PoolFacts
  <2>. QED  BY <1>2, <2>2, <2>3 DEF Covered
<1>9. CASE s = t
  <2>1. /\ queue[s][1].ahead = 0 /\ DOMAIN queue'[s] = 1..(Len(queue[s]) - 1)
        /\ \A j \in DOMAIN queue'[s] : queue'[s][j] = CountDown(queue[s][j + 1], s)
    BY DeviceFacts
  <2>2. k # 1 /\ a = l
    BY <1>1, <1>2, <1>7, <1>9, <2>1, PoolFacts
  <2>3. PICK j \in Nat : j + 1 = k /\ j \in 1..(Len(queue[s]) - 1) /\ j \in 1..(d - 1)
    BY <1>2, <1>3, <1>4, <1>9, <2>2
  <2>4. queue'[t][j] = CountDown(queue[t][k], s)
    BY <1>9, <2>1, <2>3
  <2>5. queue'[t][j].on = "instance" /\ queue'[t][j].ahead >= l
    BY <1>2, <1>5, <1>9, <2>2, <2>4, CountDownFacts, PoolFacts
  <2>. QED  BY <2>3, <2>5 DEF Covered
<1>10. CASE s # "instance" /\ s # t
  <2>1. queue'[t][k] = CountDown(queue[t][k], s)
    BY <1>4, <1>10, DeviceFacts, PoolFacts
  <2>2. queue'[t][k].on = "instance" /\ queue'[t][k].ahead >= l
    BY <1>1, <1>2, <1>5, <1>10, <2>1, CountDownFacts
  <2>. QED  BY <1>2, <1>10, <2>2 DEF Covered
<1>. QED  BY <1>8, <1>9, <1>10

(* Nothing queued on the streams of the pool writes the static buffers of  *)
(* a captured bucket, but the stream of its graph.                         *)
LEMMA OthersLeave ==
    ASSUME IndInv, ClonesApart, NEW b \in Buckets, graphs[b] \in Pool,
           NEW t \in Pool, t # graphs[b], NEW i \in DOMAIN queue[t]
    PROVE  queue[t][i].to # In(b) /\ queue[t][i].to # Out(b)
BY PoolWrites

(* A copy that is done has put the batch into the static inputs. *)
LEMMA CopyDone ==
    ASSUME IndInv, ClonesApart, AnswerKnown, InputsOwn, PaddingOwn,
           pc \in Answering, answer = "graph", ~Prestaged, DeviceRuns(stream),
           Len(queue[stream]) = 2, queue[stream][2].to = Out(bucket), CopyQueued(1)
    PROVE  Settled(In(bucket))'
<1>a. TypeOK
  BY DEF IndInv
<1>1. PICK s \in Pool, c \in Buckets, a \in Buffers :
         s = stream /\ c = bucket /\ a = AtBucket
  BY <1>a, LaunchFacts DEF TypeOK
<1>2. s \in Streams /\ s # "instance" /\ graphs[c] = s /\ DeviceRuns(s)
  BY <1>1, PoolFacts DEF AnswerKnown
<1>3. \A l \in DOMAIN queue["instance"] : queue["instance"][l].to \in {Nothing, Response}
  <2>1. \A l : ~Covered(stream, 1, l)
    BY DEF Covered
  <2>. QED  BY <2>1 DEF CopyQueued
<1>4. contents[a] = "new"
  <2>1. Settled(inputs)
    BY DEF InputsOwn, Running
  <2>2. CASE ~pads
    BY <1>1, <2>1, <2>2 DEF AtBucket, Settled
  <2>3. CASE pads
    <3>1. Coming(inputs, Padded)
      BY <2>3 DEF PaddingOwn
    <3>2. Padded \notin {Nothing, Response}
      BY DEF Padded, Nothing, Response
    <3>3. Settled(Padded)
      BY <1>3, <3>1, <3>2 DEF Coming, Fills
    <3>. QED  BY <1>1, <2>3, <3>3 DEF AtBucket, Settled
  <2>. QED  BY <2>2, <2>3
<1>5. queue[s][1].from = a /\ queue[s][1].to = In(c)
  BY <1>1 DEF CopyQueued
<1>6. contents'[In(c)] = "new"
  <2>1. contents' = [contents EXCEPT ![queue[s][1].to] = contents[queue[s][1].from]]
    BY <1>a, <1>2, DeviceLeaves
  <2>. QED  BY <1>a, <1>4, <1>5, <2>1, BufferFacts DEF TypeOK
<1>7. ASSUME NEW t \in Streams, NEW i \in DOMAIN queue'[t]
      PROVE  queue'[t][i].to # In(c)
  <2>1. CASE t = s
    <3>1. /\ DOMAIN queue'[s] = 1..Len(queue'[s]) /\ Len(queue'[s]) = Len(queue[s]) - 1
      BY <1>a, <1>2, DeviceLeaves
    <3>2. i = 1
      BY <1>1, <1>7, <2>1, <3>1
    <3>3. queue'[s][1].to = queue[s][1 + 1].to
      BY <1>a, <1>2, <1>7, <2>1, <3>2, DeviceLeaves
    <3>4. queue'[s][1].to = Out(c)
      BY <1>1, <3>3
    <3>. QED  BY <2>1, <3>2, <3>4, BufferFacts
  <2>2. CASE t # s
    <3>1. i \in DOMAIN queue[t] /\ queue'[t][i].to = queue[t][i].to
      BY <1>a, <1>2, <1>7, <2>2, DeviceLeaves
    <3>2. CASE t = "instance"
      BY <1>3, <3>1, <3>2, BufferFacts
    <3>3. CASE t # "instance"
      BY <1>2, <2>2, <3>1, <3>3, OthersLeave DEF Streams
    <3>. QED  BY <3>2, <3>3
  <2>. QED  BY <2>1, <2>2
<1>8. Settled(In(c))'
  BY <1>6, <1>7 DEF Settled
<1>9. bucket' = c
  BY <1>1 DEF DeviceRuns, batchVars
<1>. QED  BY <1>8, <1>9 DEF Settled

(* A replay that is done has put the outputs of the batch in place. *)
LEMMA ReplayDone ==
    ASSUME IndInv, ClonesApart, AnswerKnown,
           pc \in Answering, answer = "graph", DeviceRuns(stream),
           Len(queue[stream]) = 1, Settled(In(bucket)),
           queue[stream][1].from = In(bucket), queue[stream][1].to = Out(bucket)
    PROVE  Settled(Out(bucket))'
<1>a. TypeOK
  BY DEF IndInv
<1>1. PICK s \in Pool, c \in Buckets : s = stream /\ c = bucket
  BY <1>a DEF TypeOK
<1>2. s \in Streams /\ s # "instance" /\ graphs[c] = s /\ DeviceRuns(s)
  BY <1>1, PoolFacts DEF AnswerKnown
<1>3. contents'[Out(c)] = "new"
  <2>1. contents' = [contents EXCEPT ![queue[s][1].to] = contents[queue[s][1].from]]
    BY <1>a, <1>2, DeviceLeaves
  <2>2. contents[In(c)] = "new"
    BY <1>1 DEF Settled
  <2>. QED  BY <1>a, <1>1, <2>1, <2>2, BufferFacts DEF TypeOK
<1>4. ASSUME NEW t \in Streams, NEW i \in DOMAIN queue'[t]
      PROVE  queue'[t][i].to # Out(c)
  <2>1. CASE t = s
    <3>1. /\ DOMAIN queue'[s] = 1..Len(queue'[s]) /\ Len(queue'[s]) = Len(queue[s]) - 1
      BY <1>a, <1>2, DeviceLeaves
    <3>2. FALSE
      BY <1>1, <1>4, <2>1, <3>1
    <3>. QED  BY <3>2
  <2>2. CASE t # s
    <3>1. i \in DOMAIN queue[t] /\ queue'[t][i].to = queue[t][i].to
      BY <1>a, <1>2, <1>4, <2>2, DeviceLeaves
    <3>2. CASE t = "instance"
      BY <3>1, <3>2, InstanceWrites
    <3>3. CASE t # "instance"
      BY <1>2, <2>2, <3>1, <3>3, OthersLeave DEF Streams
    <3>. QED  BY <3>2, <3>3
  <2>. QED  BY <2>1, <2>2
<1>5. Settled(Out(c))'
  BY <1>3, <1>4 DEF Settled
<1>6. bucket' = c
  BY <1>1 DEF DeviceRuns, batchVars
<1>. QED  BY <1>5, <1>6 DEF Settled

(* The replay of the batch in hand is done, or still the last. *)
LEMMA ReplayDevice ==
    ASSUME IndInv, ClonesApart, AnswerKnown, InputsOwn, PaddingOwn, ReplayOwn,
           pc \in Answering, answer = "graph", NEW s \in Streams, DeviceRuns(s)
    PROVE  ReplayOwn'
<1>a. TypeOK
  BY DEF IndInv
<1>b. UNCHANGED <<pc, graphs, bucket, inputs, pads, stream, answer>>
  BY <1>a, DeviceLeaves
<1>1. PICK t \in Pool, c \in Buckets, a \in {AtBucket} : t = stream /\ c = bucket
  BY <1>a DEF TypeOK
<1>2. CASE Settled(Out(bucket))
  <2>1. Settled(Out(c))'
    BY <1>a, <1>1, <1>2, SettledStays, BufferFacts
  <2>. QED  BY <1>b, <1>1, <2>1 DEF ReplayOwn, Settled
<1>3. CASE ~Settled(Out(bucket))
  <2>1. PICK n \in Nat : n = Len(queue[t])
    BY <1>a, DeviceLeaves, PoolFacts
  <2>2. /\ queue[t] # <<>> /\ queue[t][n].what = "replay"
        /\ queue[t][n].from = In(c) /\ queue[t][n].to = Out(c)
        /\ Settled(In(c)) \/ (~Prestaged /\ CopyQueued(n - 1))
    BY <1>1, <1>3, <2>1 DEF ReplayOwn
  <2>3. /\ DOMAIN queue[t] = 1..n
        /\ DOMAIN queue'[t] = 1..(IF t = s THEN n - 1 ELSE n)
        /\ Len(queue'[t]) = IF t = s THEN n - 1 ELSE n
    BY <1>a, <2>1, DeviceLeaves, PoolFacts
  <2>4. n # 0
    <3>1. queue[t] \in Seq(WorkType)
      BY <1>a, PoolFacts DEF TypeOK
    <3>. QED  BY <2>1, <2>2, <3>1
  <2>5. CASE t = s /\ n = 1
    <3>1. ~CopyQueued(n - 1)
      BY <1>1, <2>3, <2>5 DEF CopyQueued
    <3>. QED  BY <1>1, <2>1, <2>2, <2>5, <3>1, ReplayDone DEF ReplayOwn
  <2>6. CASE ~(t = s /\ n = 1)
    <3>1. PICK d : d = IF t = s THEN n - 1 ELSE n
      OBVIOUS
    <3>2. d \in Nat \ {0} /\ n = (IF t = s THEN d + 1 ELSE d)
      <4>1. CASE t = s
        BY <2>4, <2>6, <3>1, <4>1
      <4>2. CASE t # s
        BY <2>4, <3>1, <4>2
      <4>. QED  BY <4>1, <4>2
    <3>3. DOMAIN queue'[t] = 1..d /\ Len(queue'[t]) = d /\ d \in DOMAIN queue'[t]
      BY <2>3, <3>1, <3>2
    <3>4. /\ queue'[t][d].what = "replay" /\ queue'[t][d].from = In(c)
          /\ queue'[t][d].to = Out(c)
      BY <1>a, <2>2, <3>2, <3>3, DeviceLeaves, PoolFacts
    <3>5. queue'[t] # <<>>
      <4>1. DOMAIN <<>> = {}
        OBVIOUS
      <4>. QED  BY <3>3, <4>1
    <3>6. CASE Settled(In(c))
      <4>1. Settled(In(c))'
        BY <1>a, <3>6, SettledStays, BufferFacts
      <4>2. Settled(In(bucket))'
        BY <1>b, <1>1, <4>1 DEF Settled
      <4>. QED  BY <1>b, <1>1, <3>3, <3>4, <3>5, <4>2 DEF ReplayOwn
    <3>7. CASE ~Prestaged /\ CopyQueued(n - 1) /\ t = s /\ n = 2
      <4>1. CopyQueued(1)
        BY <3>7
      <4>2. Settled(In(bucket))'
        BY <1>1, <2>1, <2>2, <3>7, <4>1, CopyDone
      <4>. QED  BY <1>b, <1>1, <3>3, <3>4, <3>5, <4>2 DEF ReplayOwn
    <3>8. CASE ~Prestaged /\ CopyQueued(n - 1) /\ ~(t = s /\ n = 2)
      <4>1. PICK i : i = n - 1
        OBVIOUS
      <4>2. PICK e : e = d - 1
        OBVIOUS
      <4>3. /\ i \in DOMAIN queue[t] /\ queue[t][i].from = a /\ queue[t][i].to = In(c)
            /\ \A l \in DOMAIN queue["instance"] :
                  queue["instance"][l].to \in {Nothing, Response} \/ Covered(t, i, l)
        BY <1>1, <3>8, <4>1 DEF CopyQueued
      <4>4. i \in 1..n /\ i \in Nat /\ e \in DOMAIN queue'[t]
             /\ i = (IF t = s THEN e + 1 ELSE e) /\ e = (IF t = s THEN i - 1 ELSE i)
        <5>1. i \in 1..n /\ i \in Nat
          BY <2>3, <4>3
        <5>2. CASE t = s
          BY <2>3, <3>1, <3>3, <3>8, <4>1, <4>2, <5>1, <5>2
        <5>3. CASE t # s
          BY <2>3, <3>1, <3>3, <3>8, <4>1, <4>2, <5>1, <5>3
        <5>. QED  BY <5>1, <5>2, <5>3
      <4>5. queue'[t][e].from = a /\ queue'[t][e].to = In(c)
        BY <1>a, <4>3, <4>4, DeviceLeaves, PoolFacts
      <4>6. ASSUME NEW l \in DOMAIN queue'["instance"]
            PROVE  queue'["instance"][l].to \in {Nothing, Response} \/ Covered(t, e, l)'
        <5>1. PICK m : m = IF s = "instance" THEN l + 1 ELSE l
          OBVIOUS
        <5>2. m \in DOMAIN queue["instance"] /\ queue'["instance"][l].to = queue["instance"][m].to
          <6>1. CASE s = "instance"
            BY <1>a, <4>6, <5>1, <6>1, DeviceLeaves, PoolFacts
          <6>2. CASE s # "instance"
            BY <1>a, <4>6, <5>1, <6>2, DeviceLeaves, PoolFacts
          <6>. QED  BY <6>1, <6>2
        <5>3. ASSUME Covered(t, i, m)
              PROVE  Covered(t, e, l)'
          BY <1>a, <4>3, <4>4, <4>6, <5>1, <5>3, CoveredStays
        <5>. QED  BY <4>3, <5>2, <5>3
      <4>7. CopyQueued(e)'
        <5>1. AtBucket' = a
          BY <1>b, <1>1 DEF AtBucket
        <5>2. \A l \in DOMAIN queue'["instance"] :
                 queue'["instance"][l].to \in {Nothing, Response} \/ Covered(stream, e, l)'
          BY <1>b, <1>1, <4>6 DEF Covered
        <5>. QED  BY <1>b, <1>1, <4>4, <4>5, <5>1, <5>2 DEF CopyQueued
      <4>8. CopyQueued(Len(queue[stream]) - 1)'
        BY <1>b, <1>1, <3>3, <4>2, <4>7 DEF CopyQueued, Covered
      <4>9. ~Prestaged'
        BY <1>b, <3>8 DEF Prestaged
      <4>. QED  BY <1>b, <1>1, <3>3, <3>4, <3>5, <4>8, <4>9 DEF ReplayOwn
    <3>. QED  BY <2>2, <3>6, <3>7, <3>8
  <2>. QED  BY <2>5, <2>6
<1>. QED  BY <1>2, <1>3

(* The outputs and the response stay the batch's, or on their way. *)
LEMMA OutputsDevice ==
    ASSUME IndInv, OwnInv, NEW s \in Streams, DeviceRuns(s)
    PROVE  OutputsOwn'
<1>. USE DEF OwnInv
<1>a. TypeOK
  BY DEF IndInv
<1>b. UNCHANGED <<pc, graphs, bucket, inputs, pads, stream, answer>>
  BY <1>a, DeviceLeaves
<1>1. ASSUME pc = "syncRun"
      PROVE  Coming(inputs, Eager)'
  <2>1. PICK x : x = inputs
    OBVIOUS
  <2>2. Coming(x, Eager) /\ contents[x] = "new"
    BY <1>1, <2>1 DEF OutputsOwn, InputsOwn, Running, Settled
  <2>3. \A p \in Pool : \A i \in DOMAIN queue[p] : queue[p][i].to # Eager
    BY InstanceAlone
  <2>4. Coming(x, Eager)'
    BY <1>a, <2>2, <2>3, ComingStays, BufferFacts
  <2>. QED  BY <1>b, <2>1, <2>4 DEF Coming, Fills
<1>2. ASSUME pc \in Answering, answer = "graph"
      PROVE  ReplayOwn'
  BY <1>2, ReplayDevice DEF OutputsOwn
<1>3. ASSUME pc \in Answering, answer # "graph"
      PROVE  Settled(Eager)'
  BY <1>a, <1>3, SettledStays, BufferFacts DEF OutputsOwn
<1>4. Settled(Response) => Settled(Response)'
  BY <1>a, SettledStays, BufferFacts
<1>5. ASSUME pc = "finalize", ~Settled(Response)
      PROVE  Settled(Response)' \/ Fills(Len(queue["instance"]), Source, Response)'
  <2>1. PICK l, x : l = Len(queue["instance"]) /\ x = Source
    OBVIOUS
  <2>2. Fills(l, x, Response)
    BY <1>5, <2>1 DEF OutputsOwn
  <2>3. Len(queue'["instance"]) = IF s = "instance" THEN l - 1 ELSE l
    BY <1>a, <2>1, DeviceLeaves, PoolFacts
  <2>4. x = Source'
    BY <1>b, <2>1 DEF Source
  <2>5. CASE Fills(IF s = "instance" THEN l - 1 ELSE l, x, Response)'
    <3>1. PICK k : k = Len(queue'["instance"])
      OBVIOUS
    <3>2. Fills(k, x, Response)'
      BY <2>3, <2>5, <3>1
    <3>. QED  BY <2>4, <3>1, <3>2 DEF Fills
  <2>6. CASE /\ s = "instance" /\ l = 1 /\ contents'[Response] = contents[x]
             /\ \A i \in DOMAIN queue'["instance"] :
                   queue'["instance"][i].to # Response
    <3>1. \A j \in DOMAIN queue["instance"] : queue["instance"][j].on = "none"
      <4>1. DOMAIN queue["instance"] = 1..Len(queue["instance"])
        BY <1>a, DeviceLeaves, PoolFacts
      <4>2. DOMAIN queue["instance"] = 1..1
        BY <2>1, <2>6, <4>1
      <4>. QED  BY <2>2, <2>6, <4>2 DEF Fills
    <3>2. contents[x] = "new"
      <4>1. CASE answer = "graph"
        <5>1. ReplayOwn /\ x = Out(bucket)
          BY <1>5, <2>1, <4>1 DEF OutputsOwn, Answering, Source
        <5>2. CASE Settled(Out(bucket))
          BY <5>1, <5>2 DEF Settled
        <5>3. CASE ~Settled(Out(bucket))
          <6>1. PICK t \in Pool : t = stream
            BY <1>a DEF TypeOK
          <6>2. queue[t] # <<>> /\ queue[t][Len(queue[t])].what = "replay"
            BY <5>1, <5>3, <6>1 DEF ReplayOwn
          <6>3. queue[t] \in Seq(WorkType)
            BY <1>a, PoolFacts DEF TypeOK
          <6>4. Len(queue[t]) \in DOMAIN queue[t]
            BY <6>2, <6>3
          <6>. QED  BY <3>1, <6>2, <6>4, NothingLaunched
        <5>. QED  BY <5>2, <5>3
      <4>2. CASE answer # "graph"
        <5>1. Settled(Eager) /\ x = Eager
          BY <1>5, <2>1, <4>2 DEF OutputsOwn, Answering, Source
        <5>. QED  BY <5>1 DEF Settled
      <4>. QED  BY <4>1, <4>2
    <3>3. ASSUME NEW t \in Pool, NEW i \in DOMAIN queue'[t]
          PROVE  queue'[t][i].to # Response
      <4>1. i \in DOMAIN queue[t] /\ queue'[t][i].to = queue[t][i].to
        BY <1>a, <2>6, <3>3, DeviceLeaves, PoolFacts
      <4>. QED  BY <4>1, InstanceAlone
    <3>4. Settled(Response)'
      BY <2>6, <3>2, <3>3 DEF Settled, Streams
    <3>. QED  BY <3>4
  <2>. QED  BY <1>a, <2>2, <2>5, <2>6, FillsStays, BufferFacts
<1>6. pc' = "syncRun" => Coming(inputs, Eager)'
  BY <1>1, <1>b
<1>7. pc' \in Answering => IF answer' = "graph" THEN ReplayOwn' ELSE Settled(Eager)'
  BY <1>2, <1>3, <1>b
<1>8. pc' = "finalize" =>
         Settled(Response)' \/ Fills(Len(queue["instance"]), Source, Response)'
  BY <1>4, <1>5, <1>b
<1>9. pc' = "idle" /\ answer' # "none" => Settled(Response)'
  BY <1>4, <1>b DEF OutputsOwn
<1>. QED  BY <1>6, <1>7, <1>8, <1>9 DEF OutputsOwn

-----------------------------------------------------------------------------
(* The invariant, and what it shows *)

LEMMA OwnInit ==
    ASSUME Init
    PROVE  OwnInv
<1>1. \A s \in Streams : queue[s] = <<>> /\ DOMAIN queue[s] = {}
  BY DEF Init
<1>2. contents[Request] = "new" /\ pc = "idle" /\ answer = "none"
  BY BufferFacts DEF Init
<1>3. ClonesApart
  BY <1>1, PoolFacts DEF ClonesApart
<1>4. Settled(Request)
  BY <1>1, <1>2 DEF Settled
<1>. QED  BY <1>2, <1>3, <1>4 DEF OwnInv, AnswerKnown, InputsOwn, PaddingOwn, OutputsOwn,
          Running, Answering

LEMMA OwnStep ==
    ASSUME IndInv, OwnInv, [Next]_vars, "copy" \notin Failures
    PROVE  OwnInv'
<1>1. TypeOK /\ HostInPlace
  BY DEF IndInv
<1>2. ClonesApart' /\ AnswerKnown'
  BY <1>1, ClonesStep, KnownStep DEF OwnInv
<1>3. CASE Arrive
  BY <1>2, <1>3, ArriveOwn DEF OwnInv
<1>4. CASE Host
  BY <1>1, <1>2, <1>4, InputsHost, PaddingHost, OutputsHost DEF OwnInv
<1>5. CASE \E s \in Streams : DeviceRuns(s)
  <2>1. PICK s \in Streams : DeviceRuns(s)
    BY <1>5
  <2>. QED  BY <1>2, <2>1, InputsDevice, PaddingDevice, OutputsDevice DEF OwnInv
<1>6. CASE UNCHANGED vars
  <2>1. UNCHANGED <<pc, graphs, bucket, inputs, pads, stream, answer, queue, contents>>
    BY <1>6 DEF vars, batchVars
  <2>2. InputsOwn'
    BY <2>1 DEF OwnInv, InputsOwn, Settled, Fills
  <2>3. PaddingOwn'
    BY <2>1 DEF OwnInv, PaddingOwn, Prestaged, Coming, Settled, Fills
  <2>4. OutputsOwn'
    BY <2>1 DEF OwnInv, OutputsOwn, Coming, Settled, Fills, ReplayOwn, CopyQueued,
       Covered, AtBucket, Prestaged, Source
  <2>. QED  BY <1>2, <2>2, <2>3, <2>4 DEF OwnInv
<1>. QED  BY <1>3, <1>4, <1>5, <1>6 DEF Next

(* Every batch that is answered with outputs is answered with its own,     *)
(* complete, although nothing between the collection and the gate of       *)
(* ReadOutputTensors waits for the device on the graph path; as long as no *)
(* replay fails with its copies queued and its output event not recorded.  *)
THEOREM StreamsAnswerOwn ==
    ASSUME "copy" \notin Failures
    PROVE  Spec => []AnswerIsOwn
<1>1. Init => IndInv /\ OwnInv
  BY IndInit, OwnInit
<1>2. IndInv /\ OwnInv /\ [Next]_vars => (IndInv /\ OwnInv)'
  BY IndStep, OwnStep
<1>3. OwnInv => AnswerIsOwn
  BY DEF OwnInv, OutputsOwn, Settled, AnswerIsOwn
<1>. QED  BY <1>1, <1>2, <1>3, PTL DEF Spec

=============================================================================
