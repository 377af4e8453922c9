-------------------------- MODULE GraphStreams_proofs --------------------------
(***************************************************************************)
(* Machine-checked proofs about GraphStreams, for every set of buckets,    *)
(* every pool and queues of every length: type correctness; that no two    *)
(* streams work on one buffer at a time, and that no batch is collected    *)
(* into buffers a graph still uses, as long as no replay fails between its *)
(* copies and its launch.                                                  *)
(***************************************************************************)
EXTENDS GraphStreams, TLAPS

-----------------------------------------------------------------------------
(* Facts about buffers, work and queues *)

(* The buffers are told apart by their kind and their bucket. *)
LEMMA BufferFacts ==
    /\ \A b, c \in Buckets : In(b) = In(c) => b = c
    /\ \A b, c \in Buckets : Out(b) = Out(c) => b = c
    /\ \A b, c \in Buckets : In(b) # Out(c)
    /\ \A b \in Buckets : /\ In(b) \notin {Request, Earlier, Stage, Padded, Eager,
                                            Response, Nothing}
                          /\ Out(b) \notin {Request, Earlier, Stage, Padded, Eager,
                                            Response, Nothing}
    /\ \A b \in Buckets : In(b) \in Buffers /\ Out(b) \in Buffers
    /\ {Request, Earlier, Stage, Padded, Eager, Response, Nothing} \subseteq Buffers
    /\ Request # Earlier
    /\ {Stage, Padded, Eager, Response, Nothing} \cap {Request, Earlier} = {}
    /\ Nothing \notin {Request, Earlier, Stage, Padded, Eager, Response}
    /\ Response \notin {Stage, Padded, Eager}
BY DEF In, Out, Request, Earlier, Stage, Padded, Eager, Response, Nothing, Buffers

(* Work and waits are well typed. *)
LEMMA WorkFacts ==
    /\ \A what \in {"collect", "pad", "clone", "warm up", "copy", "replay", "run",
                    "respond"} : \A from, to \in Buffers :
          Work(what, from, to) \in WorkType
    /\ \A s \in Streams : \A n \in Nat : Wait(s, n) \in WorkType
BY BufferFacts DEF Work, Wait, WorkType

(* A pooled stream is not the instance's, nor a mark of the graphs. *)
LEMMA PoolFacts ==
    /\ Pool \subseteq Streams /\ "instance" \in Streams
    /\ \A s \in Pool : s # "instance" /\ s # "none" /\ s # "failed"
BY StreamsAssumption DEF Streams

(* Work is queued behind what the stream holds, and nowhere else. *)
LEMMA EnqueueFacts ==
    ASSUME queue \in [Streams -> Seq(WorkType)],
           NEW STATE s, NEW STATE work, s \in Streams, work \in Seq(WorkType), Enqueue(s, work)
    PROVE  /\ queue' \in [Streams -> Seq(WorkType)]
           /\ queue'[s] = queue[s] \o work
           /\ \A t \in Streams : t # s => queue'[t] = queue[t]
BY DEF Enqueue

(* Where the elements of two joined sequences come from. *)
LEMMA JoinFacts ==
    ASSUME NEW S, NEW q \in Seq(S), NEW r \in Seq(S)
    PROVE  /\ Len(q \o r) = Len(q) + Len(r) /\ Len(q) \in Nat /\ Len(r) \in Nat
           /\ \A i \in DOMAIN q : i \in DOMAIN (q \o r) /\ (q \o r)[i] = q[i]
           /\ \A i \in DOMAIN (q \o r) : i \notin DOMAIN q =>
                 i - Len(q) \in DOMAIN r /\ (q \o r)[i] = r[i - Len(q)]
OBVIOUS

(* The elements of short sequences. *)
LEMMA ShortFacts ==
    ASSUME NEW S, NEW a \in S, NEW b \in S
    PROVE  /\ <<a>> \in Seq(S) /\ <<a, b>> \in Seq(S)
           /\ \A i \in DOMAIN <<a>> : <<a>>[i] = a
           /\ \A i \in DOMAIN <<a, b>> : <<a, b>>[i] \in {a, b}
OBVIOUS

(* Counting an event down changes nothing else of a piece of work. *)
LEMMA CountDownFacts ==
    ASSUME NEW work \in WorkType, NEW s
    PROVE  /\ CountDown(work, s) \in WorkType
           /\ CountDown(work, s).what = work.what
           /\ CountDown(work, s).from = work.from
           /\ CountDown(work, s).to = work.to
           /\ CountDown(work, s).on = work.on
           /\ CountDown(work, s).ahead =
                 IF work.on = s /\ work.ahead > 0 THEN work.ahead - 1 ELSE work.ahead
<1>1. CASE work.on = s /\ work.ahead > 0
  <2>1. CountDown(work, s) = [work EXCEPT !.ahead = work.ahead - 1]
    BY <1>1 DEF CountDown
  <2>2. work.ahead \in Nat
    BY DEF WorkType
  <2>3. work.ahead - 1 \in Nat
    BY <1>1, <2>2
  <2>. QED  BY <1>1, <2>1, <2>3 DEF WorkType
<1>2. CASE ~(work.on = s /\ work.ahead > 0)
  BY <1>2 DEF CountDown
<1>. QED  BY <1>1, <1>2

(* The pieces of a launch are well typed. *)
LEMMA LaunchFacts ==
    ASSUME TypeOK
    PROVE  /\ InputReady \in Seq(WorkType) /\ CopyInputs \in Seq(WorkType)
           /\ Replay \in Seq(WorkType) /\ CollectWork \in Seq(WorkType)
           /\ AtBucket \in Buffers /\ inputs \in Buffers
           /\ In(bucket) \in Buffers /\ Out(bucket) \in Buffers
<1>. USE DEF TypeOK
<1>1. inputs \in Buffers /\ AtBucket \in Buffers
  BY BufferFacts DEF AtBucket
<1>2. In(bucket) \in Buffers /\ Out(bucket) \in Buffers /\ Request \in Buffers
  BY BufferFacts
<1>3. Len(queue["instance"]) \in Nat
  BY PoolFacts
<1>4. /\ Wait("instance", Len(queue["instance"])) \in WorkType
      /\ Work("copy", AtBucket, In(bucket)) \in WorkType
      /\ Work("replay", In(bucket), Out(bucket)) \in WorkType
      /\ Work("collect", Request, inputs) \in WorkType
  BY <1>1, <1>2, <1>3, WorkFacts, PoolFacts
<1>. QED  BY <1>1, <1>2, <1>4 DEF InputReady, CopyInputs, Replay, CollectWork

(* What Launch leaves on the two streams. *)
LEMMA LaunchedQueues ==
    ASSUME TypeOK, stream \in Pool, Launch
    PROVE  /\ queue' \in [Streams -> Seq(WorkType)]
           /\ queue'[stream] = queue[stream] \o (InputReady \o CopyInputs \o Replay)
           /\ queue'["instance"] =
                 Append(queue["instance"],
                        Wait(stream, Len(queue[stream])
                                        + Len(InputReady \o CopyInputs \o Replay)))
           /\ \A t \in Streams \ {stream, "instance"} : queue'[t] = queue[t]
<1>. DEFINE launch == InputReady \o CopyInputs \o Replay
<1>. DEFINE waits == Wait(stream, Len(queue[stream]) + Len(launch))
<1>1. launch \in Seq(WorkType)
  BY LaunchFacts
<1>2. stream \in Streams /\ stream # "instance" /\ "instance" \in Streams
  BY PoolFacts
<1>3. queue \in [Streams -> Seq(WorkType)]
  BY DEF TypeOK
<1>4. Len(queue[stream]) + Len(launch) \in Nat
  BY <1>1, <1>2, <1>3
<1>5. waits \in WorkType
  BY <1>2, <1>4, WorkFacts
<1>6. queue' = [queue EXCEPT ![stream] = @ \o launch,
                             !["instance"] = Append(@, waits)]
  BY DEF Launch
<1>. HIDE DEF launch, waits
<1>7. /\ queue'[stream] = queue[stream] \o launch
      /\ queue'["instance"] = Append(queue["instance"], waits)
      /\ \A t \in Streams \ {stream, "instance"} : queue'[t] = queue[t]
  BY <1>2, <1>3, <1>6
<1>8. /\ queue[stream] \o launch \in Seq(WorkType)
      /\ Append(queue["instance"], waits) \in Seq(WorkType)
  BY <1>1, <1>2, <1>3, <1>5
<1>9. queue' \in [Streams -> Seq(WorkType)]
  <2>1. queue' = [t \in Streams |-> queue'[t]]
    BY <1>3, <1>6
  <2>2. \A t \in Streams : queue'[t] \in Seq(WorkType)
    BY <1>3, <1>7, <1>8
  <2>. QED  BY <2>1, <2>2
<1>. QED  BY <1>7, <1>9 DEF launch, waits

(* What the device leaves: the head is gone, and the events count down.    *)
LEMMA DeviceFacts ==
    ASSUME TypeOK, NEW s \in Streams, DeviceRuns(s)
    PROVE  /\ queue' \in [Streams -> Seq(WorkType)]
           /\ contents' \in [Buffers -> {"new", "old"}]
           /\ DOMAIN queue[s] = 1..Len(queue[s]) /\ Len(queue[s]) \in Nat \ {0}
           /\ queue[s][1].ahead = 0
           /\ DOMAIN queue'[s] = 1..(Len(queue[s]) - 1)
           /\ \A i \in DOMAIN queue'[s] : queue'[s][i] = CountDown(queue[s][i + 1], s)
           /\ \A t \in Streams : t # s =>
                 /\ DOMAIN queue'[t] = DOMAIN queue[t]
                 /\ \A i \in DOMAIN queue[t] : queue'[t][i] = CountDown(queue[t][i], s)
<1>1. queue \in [Streams -> Seq(WorkType)] /\ contents \in [Buffers -> {"new", "old"}]
  BY DEF TypeOK
<1>. DEFINE rest == [queue EXCEPT ![s] = Tail(@)]
            work == Head(queue[s])
<1>2. /\ queue[s] # <<>> /\ Head(queue[s]).ahead = 0
      /\ contents' = [contents EXCEPT ![work.to] = contents[work.from]]
      /\ queue' = [t \in Streams |-> [i \in DOMAIN rest[t] |-> CountDown(rest[t][i], s)]]
  BY DEF DeviceRuns, Ready
<1>3. /\ Len(queue[s]) \in Nat \ {0} /\ DOMAIN queue[s] = 1..Len(queue[s])
      /\ Head(queue[s]) = queue[s][1] /\ work \in WorkType
  BY <1>1, <1>2
<1>4. /\ rest \in [Streams -> Seq(WorkType)]
      /\ Len(rest[s]) = Len(queue[s]) - 1
      /\ \A i \in 1..(Len(queue[s]) - 1) : rest[s][i] = queue[s][i + 1]
      /\ \A t \in Streams : t # s => rest[t] = queue[t]
  BY <1>1, <1>2, <1>3
<1>. HIDE DEF rest
<1>5. ASSUME NEW t \in Streams
      PROVE  /\ DOMAIN rest[t] = 1..Len(rest[t]) /\ Len(rest[t]) \in Nat
             /\ \A i \in DOMAIN rest[t] : CountDown(rest[t][i], s) \in WorkType
  <2>1. rest[t] \in Seq(WorkType)
    BY <1>4
  <2>. QED  BY <2>1, CountDownFacts
<1>6. ASSUME NEW t \in Streams
      PROVE  [i \in DOMAIN rest[t] |-> CountDown(rest[t][i], s)] \in Seq(WorkType)
  BY <1>5
<1>7. queue' \in [Streams -> Seq(WorkType)]
  BY <1>2, <1>6
<1>8. contents' \in [Buffers -> {"new", "old"}]
  <2>1. work.from \in Buffers
    BY <1>3 DEF WorkType
  <2>. HIDE DEF work
  <2>. QED  BY <1>1, <1>2, <2>1
<1>9. DOMAIN rest[s] = 1..(Len(queue[s]) - 1)
  BY <1>4, <1>5
<1>. QED  BY <1>2, <1>3, <1>4, <1>7, <1>8, <1>9

-----------------------------------------------------------------------------
(* Type correctness *)

(* No step leaves ill typed state. *)
LEMMA TypeStep ==
    ASSUME TypeOK, HostInPlace, [Next]_vars
    PROVE  TypeOK'
<1>. USE DEF TypeOK, batchVars, Goto
<1>q. /\ queue \in [Streams -> Seq(WorkType)] /\ "instance" \in Streams
      /\ stream \in Streams
  BY PoolFacts
<1>a. ASSUME NEW STATE s, NEW STATE work, s \in Streams, work \in Seq(WorkType),
             Enqueue(s, work)
      PROVE  queue' \in [Streams -> Seq(WorkType)]
  BY <1>a, EnqueueFacts
<1>b. ASSUME PinToEager
      PROVE  /\ graphs' \in [Buckets -> Pool \cup {"none", "failed"}]
             /\ bucket' \in Buckets /\ pads' \in BOOLEAN
             /\ pc' \in {"eager", "execute"} /\ UNCHANGED <<inputs, answer, contents>>
  BY <1>b DEF PinToEager
<1>c. ASSUME PinToEager, ~Prestaged
      PROVE  inputs' \in {Stage, Request, In(bucket')}
  BY <1>b, <1>c DEF Prestaged
<1>1. CASE Arrive
  <2>1. \A s \in Streams : \A i \in DOMAIN queue[s] : Aged(queue[s][i]) \in WorkType
    <3>1. \A s \in Streams : \A i \in DOMAIN queue[s] : queue[s][i] \in WorkType
      BY <1>q
    <3>2. ASSUME NEW work \in WorkType
          PROVE  Aged(work) \in WorkType
      BY BufferFacts DEF Aged, WorkType
    <3>. QED  BY <3>1, <3>2
  <2>2. queue' \in [Streams -> Seq(WorkType)]
    <3>1. ASSUME NEW s \in Streams
          PROVE  [i \in DOMAIN queue[s] |-> Aged(queue[s][i])] \in Seq(WorkType)
      <4>1. DOMAIN queue[s] = 1..Len(queue[s]) /\ Len(queue[s]) \in Nat
        BY <1>q
      <4>. QED  BY <2>1, <4>1
    <3>. QED  BY <1>1, <3>1 DEF Arrive
  <2>3. contents' \in [Buffers -> {"new", "old"}]
    BY <1>1 DEF Arrive
  <2>. QED  BY <1>1, <2>2, <2>3 DEF Arrive
<1>2. CASE CollectCopies \/ CollectFails
  BY <1>2, <1>a, <1>q, LaunchFacts DEF CollectCopies, CollectFails
<1>3. CASE CollectInPlace \/ SyncInputs \/ NoGraph
  BY <1>3 DEF CollectInPlace, SyncInputs, NoGraph
<1>4. CASE UsePrestaged
  BY <1>4 DEF UsePrestaged, HostInPlace
<1>5. CASE PadRequestsUp \/ PadThrows
  <2>1. PadWork \in Seq(WorkType) /\ <<>> \in Seq(WorkType)
    <3>1. Work("pad", inputs, Padded) \in WorkType
      BY LaunchFacts, WorkFacts, BufferFacts
    <3>. QED  BY <3>1 DEF PadWork
  <2>2. Enqueue("instance", PadWork) \/ Enqueue("instance", <<>>)
    BY <1>5 DEF PadRequestsUp, PadThrows
  <2>3. queue' \in [Streams -> Seq(WorkType)]
    BY <1>a, <1>q, <2>1, <2>2
  <2>. QED  BY <1>5, <2>3 DEF PadRequestsUp, PadThrows
<1>6. CASE UseCaptured
  BY <1>6 DEF UseCaptured, HostInPlace
<1>7. CASE BeginCapture \/ WarmUpFails
  <2>1. stream' \in Pool /\ stream' \in Streams
    BY <1>7, PoolFacts DEF BeginCapture, WarmUpFails
  <2>2. /\ Work("clone", AtBucket, In(bucket)) \in WorkType
        /\ Work("warm up", In(bucket), Nothing) \in WorkType
    BY LaunchFacts, WorkFacts, BufferFacts
  <2>3. CASE BeginCapture
    <3>. DEFINE work == <<Work("clone", AtBucket, In(bucket)),
                          Work("warm up", In(bucket), Nothing)>>
    <3>1. work \in Seq(WorkType)
      BY <2>2, ShortFacts
    <3>2. queue' = [queue EXCEPT ![stream'] = @ \o work]
      BY <2>3 DEF BeginCapture, Enqueue
    <3>. HIDE DEF work
    <3>3. queue' \in [Streams -> Seq(WorkType)]
      BY <1>q, <2>1, <3>1, <3>2
    <3>. QED  BY <2>1, <2>3, <3>3 DEF BeginCapture
  <2>4. CASE WarmUpFails
    <3>. DEFINE work == <<Work("clone", AtBucket, In(bucket))>>
    <3>1. work \in Seq(WorkType)
      BY <2>2, ShortFacts
    <3>2. queue' = [queue EXCEPT ![stream'] = @ \o work]
      BY <2>4 DEF WarmUpFails, Enqueue
    <3>. HIDE DEF work
    <3>3. queue' \in [Streams -> Seq(WorkType)]
      BY <1>q, <2>1, <3>1, <3>2
    <3>4. PinToEager /\ ~Prestaged
      BY <2>4 DEF WarmUpFails, HostInPlace
    <3>. QED  BY <1>b, <1>c, <2>1, <3>3, <3>4
  <2>. QED  BY <1>7, <2>3, <2>4
<1>8. CASE EndCapture
  BY <1>8 DEF EndCapture
<1>9. CASE CaptureFails
  <2>1. PinToEager /\ ~Prestaged /\ UNCHANGED <<stream, queue>>
    BY <1>9 DEF CaptureFails, HostInPlace
  <2>. QED  BY <1>b, <1>c, <2>1
<1>10. CASE ReplaySucceeds
  <2>1. queue' \in [Streams -> Seq(WorkType)]
    BY <1>10, LaunchedQueues DEF ReplaySucceeds
  <2>. QED  BY <1>10, <2>1 DEF ReplaySucceeds
<1>11. CASE ReplayFails
  <2>1. InputReady \o CopyInputs \in Seq(WorkType) /\ InputReady \in Seq(WorkType)
    BY LaunchFacts
  <2>2. queue' \in [Streams -> Seq(WorkType)]
    BY <1>11, <1>a, <1>q, <2>1, LaunchedQueues DEF ReplayFails
  <2>. QED  BY <1>11, <2>2 DEF ReplayFails
<1>12. CASE RunEager \/ RunThrows
  <2>1. <<Work("run", inputs, Eager)>> \in Seq(WorkType) /\ <<>> \in Seq(WorkType)
    <3>1. Work("run", inputs, Eager) \in WorkType
      BY LaunchFacts, WorkFacts, BufferFacts
    <3>. QED  BY <3>1
  <2>2. queue' \in [Streams -> Seq(WorkType)]
    BY <1>12, <1>a, <1>q, <2>1 DEF RunEager, RunThrows
  <2>. QED  BY <1>12, <2>2 DEF RunEager, RunThrows
<1>13. CASE SyncRun \/ RespondEmpty \/ Send
  BY <1>13 DEF SyncRun, RespondEmpty, Send
<1>14. CASE Respond \/ RespondFails
  <2>1. /\ <<Work("respond", Out(bucket), Response)>> \in Seq(WorkType)
        /\ <<Work("respond", Eager, Response)>> \in Seq(WorkType)
    <3>1. /\ Work("respond", Out(bucket), Response) \in WorkType
          /\ Work("respond", Eager, Response) \in WorkType
      BY LaunchFacts, WorkFacts, BufferFacts
    <3>. QED  BY <3>1
  <2>2. queue' \in [Streams -> Seq(WorkType)]
    BY <1>14, <1>a, <1>q, <2>1 DEF Respond, RespondFails, CopyOutputs
  <2>. QED  BY <1>14, <2>2 DEF Respond, RespondFails
<1>15. ASSUME NEW s \in Streams, DeviceRuns(s)
       PROVE  TypeOK'
  BY <1>15, DeviceFacts DEF DeviceRuns
<1>16. CASE UNCHANGED vars
  BY <1>16 DEF vars
<1>. QED  BY <1>1, <1>2, <1>3, <1>4, <1>5, <1>6, <1>7, <1>8, <1>9, <1>10, <1>11,
             <1>12, <1>13, <1>14, <1>15, <1>16
          DEF Next, Host, Collect, Execute, Answer

-----------------------------------------------------------------------------
(* The invariant behind RaceFree *)

(* A captured bucket keeps its graph, and its stream. *)
LEMMA GraphsStay ==
    ASSUME TypeOK, HostInPlace, [Next]_vars
    PROVE  \A b \in Buckets : graphs[b] \in Pool => graphs'[b] = graphs[b]
<1>1. CASE WarmUpFails \/ CaptureFails
  <2>1. PinToEager /\ graphs[bucket] = "none"
    BY <1>1 DEF WarmUpFails, CaptureFails, HostInPlace
  <2>. QED  BY <2>1, PoolFacts DEF PinToEager, TypeOK
<1>2. CASE EndCapture
  BY <1>2, PoolFacts DEF EndCapture, HostInPlace, TypeOK
<1>3. CASE ~(WarmUpFails \/ CaptureFails \/ EndCapture)
  BY <1>3 DEF Next, Host, Collect, Execute, Answer, vars, batchVars, Arrive,
     CollectCopies, CollectInPlace, CollectFails, SyncInputs, NoGraph, UsePrestaged,
     PadRequestsUp, PadThrows, UseCaptured, BeginCapture, ReplaySucceeds, ReplayFails,
     RunEager, RunThrows, SyncRun, Respond, RespondEmpty, RespondFails, Send, DeviceRuns
<1>. QED  BY <1>1, <1>2, <1>3

(* The host's knowledge of the bucket in hand survives every step. *)
LEMMA HostStep ==
    ASSUME TypeOK, HostInPlace, [Next]_vars
    PROVE  HostInPlace'
<1>. USE DEF HostInPlace, Prestaged, Goto, batchVars
<1>a. /\ \A b \in Buckets : In(b) \notin {Stage, Request}
      /\ bucket \in Buckets /\ inputs \in {Stage, Request, In(bucket)} /\ stream \in Pool
      /\ graphs \in [Buckets -> Pool \cup {"none", "failed"}]
  BY BufferFacts DEF TypeOK
<1>1. CASE WarmUpFails \/ CaptureFails
  <2>1. PinToEager /\ inputs \in {Stage, Request}
    BY <1>1, <1>a DEF WarmUpFails, CaptureFails
  <2>2. bucket' \in Buckets /\ inputs' = inputs /\ pc' \in {"eager", "execute"}
    BY <1>a, <2>1 DEF PinToEager
  <2>. QED  BY <1>a, <2>1, <2>2
<1>2. CASE EndCapture
  BY <1>2, <1>a DEF EndCapture
<1>3. CASE Arrive
  <2>1. /\ pc' = "collect" /\ bucket' \in Buckets /\ graphs' = graphs
        /\ \/ inputs' = Stage
           \/ inputs' = In(bucket') /\ graphs[bucket'] \in Pool
    BY <1>3, Zenon DEF Arrive
  <2>2. Stage # Request /\ In(bucket') # Request
    BY <2>1, BufferFacts
  <2>. QED  BY <1>a, <2>1, <2>2
<1>4. CASE CollectInPlace
  BY <1>4, <1>a DEF CollectInPlace
<1>5. CASE UseCaptured \/ UsePrestaged \/ PadRequestsUp \/ BeginCapture
  <2>1. UNCHANGED <<graphs, bucket, inputs>>
    BY <1>5 DEF UseCaptured, UsePrestaged, PadRequestsUp, BeginCapture
  <2>2. CASE UseCaptured \/ UsePrestaged
    BY <1>a, <2>1, <2>2 DEF UseCaptured, UsePrestaged
  <2>3. CASE PadRequestsUp
    BY <1>a, <2>1, <2>3 DEF PadRequestsUp
  <2>4. CASE BeginCapture
    BY <1>a, <2>1, <2>4 DEF BeginCapture
  <2>. QED  BY <1>5, <2>2, <2>3, <2>4
<1>6. CASE \/ CollectCopies \/ CollectFails \/ SyncInputs \/ NoGraph \/ ReplaySucceeds
           \/ ReplayFails \/ PadThrows \/ RunEager \/ RunThrows \/ SyncRun \/ Answer
           \/ UNCHANGED vars
  BY <1>6 DEF CollectCopies, CollectFails, SyncInputs, NoGraph, ReplaySucceeds,
     ReplayFails, PadThrows, RunEager, RunThrows, SyncRun, Answer, Respond, RespondEmpty,
     RespondFails, Send, vars
<1>7. ASSUME NEW s \in Streams, DeviceRuns(s)
      PROVE  HostInPlace'
  BY <1>7 DEF DeviceRuns
<1>. QED  BY <1>1, <1>2, <1>3, <1>4, <1>5, <1>6, <1>7
          DEF Next, Host, Collect, Execute

(* What the host's steps do to the queues: what is there stays, but for    *)
(* the batch it is about, and what is added is in place.                   *)
Queued ==
    /\ \A t \in Streams : \A i \in DOMAIN queue[t] :
          /\ i \in DOMAIN queue'[t]
          /\ queue'[t][i].what = queue[t][i].what /\ queue'[t][i].to = queue[t][i].to
          /\ queue'[t][i].on = queue[t][i].on /\ queue'[t][i].ahead = queue[t][i].ahead
          /\ \/ queue'[t][i].from = queue[t][i].from
             \/ queue[t][i].from = Request /\ queue'[t][i].from = Earlier
    /\ \A i \in DOMAIN queue'["instance"] :
          i \notin DOMAIN queue["instance"] => queue'["instance"][i].to \in Writable'
    /\ \A s \in Pool : \A i \in DOMAIN queue'[s] : i \notin DOMAIN queue[s] =>
          /\ PoolWork(s, queue[s][i])'
          /\ queue'[s][i].what \in {"copy", "replay"} =>
                \E j \in DOMAIN queue'["instance"] : Fenced(s, i, j)'

(* Such a step keeps the invariant, once the warm-up of a capture is done. *)
LEMMA QueuedKeeps ==
    ASSUME IndInv, TypeOK', Queued, pc # "capture" \/ Idle(stream),
           \A b \in Buckets : graphs[b] \in Pool => graphs'[b] = graphs[b]
    PROVE  InstanceWork' /\ GraphWork' /\ LaunchesFenced'
<1>. USE DEF IndInv
<1>1. InstanceWork'
  <2>1. Writable \subseteq Writable'
    BY DEF Writable
  <2>. QED  BY <2>1, PoolFacts DEF Queued, InstanceWork
<1>2. GraphWork'
  <2>1. ASSUME NEW s \in Pool, NEW i \in DOMAIN queue'[s], i \in DOMAIN queue[s]
        PROVE  PoolWork(s, queue[s][i])'
    <3>1. PoolWork(s, queue[s][i])
      BY <2>1 DEF GraphWork
    <3>2. queue[s][i].what # "warm up"
      <4>1. CASE pc # "capture"
        BY <3>1, <4>1 DEF PoolWork
      <4>2. CASE Idle(stream)
        <5>1. s # stream
          BY <2>1, <4>2 DEF Idle
        <5>. QED  BY <3>1, <5>1 DEF PoolWork
      <4>. QED  BY <4>1, <4>2
    <3>3. /\ queue'[s][i].what = queue[s][i].what /\ queue'[s][i].to = queue[s][i].to
          /\ \/ queue'[s][i].from = queue[s][i].from
             \/ queue[s][i].from = Request /\ queue'[s][i].from = Earlier
      BY <2>1, PoolFacts DEF Queued
    <3>4. \A b \in Buckets : graphs[b] = s => graphs'[b] = s
      BY <2>1
    <3>5. \A b \in Buckets : In(b) # Request
      BY BufferFacts
    <3>. QED  BY <3>1, <3>2, <3>3, <3>4, <3>5, BufferFacts DEF PoolWork
  <2>. QED  BY <2>1 DEF GraphWork, Queued
<1>3. LaunchesFenced'
  <2>1. ASSUME NEW s \in Pool, NEW i \in DOMAIN queue'[s], i \in DOMAIN queue[s],
               queue'[s][i].what \in {"copy", "replay"}
        PROVE  \E j \in DOMAIN queue'["instance"] : Fenced(s, i, j)'
    <3>1. queue[s][i].what \in {"copy", "replay"}
      BY <2>1, PoolFacts DEF Queued
    <3>2. PICK j \in DOMAIN queue["instance"] : Fenced(s, i, j)
      BY <2>1, <3>1 DEF LaunchesFenced
    <3>3. /\ j \in DOMAIN queue'["instance"]
          /\ queue'["instance"][j].on = queue["instance"][j].on
          /\ queue'["instance"][j].ahead = queue["instance"][j].ahead
      BY <3>2, PoolFacts DEF Queued
    <3>4. ASSUME NEW k \in 1..(i - 1)
          PROVE  /\ queue'[s][k].on = queue[s][k].on
                 /\ queue'[s][k].ahead = queue[s][k].ahead
      <4>1. k \in DOMAIN queue[s]
        <5>1. queue[s] \in Seq(WorkType)
          BY <2>1, PoolFacts DEF TypeOK
        <5>. QED  BY <2>1, <3>4, <5>1
      <4>. QED  BY <4>1, PoolFacts DEF Queued
    <3>. QED  BY <3>2, <3>3, <3>4 DEF Fenced
  <2>. QED  BY <2>1 DEF LaunchesFenced, Queued
<1>. QED  BY <1>1, <1>2, <1>3

(* Nothing queued. *)
LEMMA QueuedNothing ==
    ASSUME UNCHANGED queue
    PROVE  Queued
BY PoolFacts DEF Queued

(* Work queued on one stream, none of it a copy or a replay. *)
LEMMA QueuedOne ==
    ASSUME TypeOK, NEW s \in Streams, NEW work \in Seq(WorkType),
           queue' = [queue EXCEPT ![s] = @ \o work],
           s = "instance" => \A i \in DOMAIN work : work[i].to \in Writable',
           s \in Pool => \A i \in DOMAIN work :
              PoolWork(s, work[i])' /\ work[i].what \notin {"copy", "replay"}
    PROVE  Queued
<1>1. queue \in [Streams -> Seq(WorkType)]
  BY DEF TypeOK
<1>2. /\ queue'[s] = queue[s] \o work
      /\ \A t \in Streams : t # s => queue'[t] = queue[t]
  BY <1>1
<1>3. /\ \A i \in DOMAIN queue[s] : i \in DOMAIN queue'[s] /\ queue'[s][i] = queue[s][i]
      /\ \A i \in DOMAIN queue'[s] : i \notin DOMAIN queue[s] =>
            i - Len(queue[s]) \in DOMAIN work /\ queue'[s][i] = work[i - Len(queue[s])]
  BY <1>1, <1>2, JoinFacts
<1>4. ASSUME NEW t \in Streams, NEW i \in DOMAIN queue[t]
      PROVE  i \in DOMAIN queue'[t] /\ queue'[t][i] = queue[t][i]
  BY <1>2, <1>3, <1>4
<1>5. ASSUME NEW i \in DOMAIN queue'["instance"], i \notin DOMAIN queue["instance"]
      PROVE  queue'["instance"][i].to \in Writable'
  <2>1. s = "instance"
    BY <1>2, <1>5, PoolFacts
  <2>. QED  BY <1>3, <1>5, <2>1
<1>6. ASSUME NEW t \in Pool, NEW i \in DOMAIN queue'[t], i \notin DOMAIN queue[t]
      PROVE  PoolWork(t, queue[t][i])' /\ queue'[t][i].what \notin {"copy", "replay"}
  <2>1. t = s
    BY <1>2, <1>6, PoolFacts
  <2>2. /\ i - Len(queue[s]) \in DOMAIN work
        /\ queue'[t][i] = work[i - Len(queue[s])]
    BY <1>3, <1>6, <2>1
  <2>. QED  BY <1>6, <2>1, <2>2 DEF PoolWork
<1>. QED  BY <1>4, <1>5, <1>6 DEF Queued

(* Single pieces of work, joined. *)
LEMMA JoinShort ==
    ASSUME NEW S, NEW a \in S, NEW b \in S, NEW c \in S
    PROVE  /\ (<<a>> \o <<>>) \o <<b>> = <<a, b>>
           /\ (<<a>> \o <<b>>) \o <<c>> = <<a, b, c>>
           /\ <<a, b>> \in Seq(S) /\ <<a, b, c>> \in Seq(S)
<1>1. <<a>> \in Seq(S) /\ <<b>> \in Seq(S) /\ <<c>> \in Seq(S) /\ <<>> \in Seq(S)
  OBVIOUS
<1>2. <<a, b>> \in Seq(S) /\ <<a, b, c>> \in Seq(S)
  OBVIOUS
<1>3. \A q \in Seq(S) : q \o <<>> = q
  OBVIOUS
<1>4. <<a>> \o <<b>> = <<a, b>>
  <2>. DEFINE q == <<a>> \o <<b>>
  <2>1. q \in Seq(S) /\ Len(q) = 2 /\ q[1] = a /\ q[2] = b
    BY <1>1
  <2>. HIDE DEF q
  <2>2. q = <<a, b>>
    BY <2>1
  <2>. QED  BY <2>2 DEF q
<1>5. <<a, b>> \o <<c>> = <<a, b, c>>
  <2>. DEFINE q == <<a, b>> \o <<c>>
  <2>1. q \in Seq(S) /\ Len(q) = 3 /\ q[1] = a /\ q[2] = b /\ q[3] = c
    BY <1>1, <1>2
  <2>. HIDE DEF q
  <2>2. q = <<a, b, c>>
    BY <2>1
  <2>. QED  BY <2>2 DEF q
<1>. QED  BY <1>1, <1>2, <1>3, <1>4, <1>5

(* The wait for the input event, the copies and the replay of a launch. *)
LEMMA LaunchWork ==
    ASSUME TypeOK, HostInPlace, pc = "replay", NEW launch,
           launch = InputReady \o CopyInputs \o Replay
    PROVE  /\ launch \in Seq(WorkType) /\ Len(launch) \in 2..3
           /\ DOMAIN launch = 1..Len(launch)
           /\ launch[1] = Wait("instance", Len(queue["instance"]))
           /\ \A i \in DOMAIN launch : i # 1 => launch[i].what \in {"copy", "replay"}
           /\ \A i \in DOMAIN launch : PoolWork(stream, launch[i])
<1>. DEFINE wait == Wait("instance", Len(queue["instance"]))
            copy == Work("copy", AtBucket, In(bucket))
            replay == Work("replay", In(bucket), Out(bucket))
<1>1. /\ InputReady = <<wait>> /\ Replay = <<replay>>
      /\ CopyInputs = IF Prestaged THEN <<>> ELSE <<copy>>
  BY DEF InputReady, CopyInputs, Replay
<1>2. graphs[bucket] = stream /\ bucket \in Buckets
  BY DEF HostInPlace, TypeOK
<1>3. /\ wait.what = "wait" /\ wait.from = Nothing /\ wait.to = Nothing
      /\ replay.what = "replay" /\ replay.from = In(bucket) /\ replay.to = Out(bucket)
      /\ copy.what = "copy" /\ copy.from = AtBucket /\ copy.to = In(bucket)
  BY DEF Wait, Work
<1>4. ~Prestaged => AtBucket \in {Padded, Stage, Request, Earlier}
  BY DEF AtBucket, Prestaged, TypeOK
<1>5. /\ PoolWork(stream, wait) /\ PoolWork(stream, replay)
      /\ ~Prestaged => PoolWork(stream, copy)
  BY <1>2, <1>3, <1>4 DEF PoolWork
<1>8. wait \in WorkType /\ copy \in WorkType /\ replay \in WorkType
  <2>1. Len(queue["instance"]) \in Nat
    BY PoolFacts DEF TypeOK
  <2>. QED  BY <2>1, LaunchFacts, WorkFacts, PoolFacts
<1>. HIDE DEF wait, copy, replay
<1>6. CASE Prestaged
  <2>1. launch = (<<wait>> \o <<>>) \o <<replay>>
    BY <1>1, <1>6
  <2>a. launch = <<wait, replay>> /\ launch \in Seq(WorkType)
    BY <1>8, <2>1, JoinShort
  <2>2. launch = <<wait, replay>> /\ Len(launch) = 2 /\ DOMAIN launch = 1..2
    BY <2>a
  <2>3. launch[1] = wait /\ launch[2] = replay
    BY <2>2
  <2>4. \A i \in DOMAIN launch : i = 1 \/ i = 2
    BY <2>2
  <2>. QED  BY <1>3, <1>5, <2>a, <2>2, <2>3, <2>4 DEF wait
<1>7. CASE ~Prestaged
  <2>1. launch = (<<wait>> \o <<copy>>) \o <<replay>>
    BY <1>1, <1>7
  <2>b. /\ (<<wait>> \o <<copy>>) \o <<replay>> = <<wait, copy, replay>>
        /\ <<wait, copy, replay>> \in Seq(WorkType)
    BY <1>8, JoinShort, Zenon
  <2>a. launch = <<wait, copy, replay>> /\ launch \in Seq(WorkType)
    BY <2>1, <2>b, Zenon
  <2>2. launch = <<wait, copy, replay>> /\ Len(launch) = 3 /\ DOMAIN launch = 1..3
    BY <2>a
  <2>3. launch[1] = wait /\ launch[2] = copy /\ launch[3] = replay
    BY <2>2
  <2>4. \A i \in DOMAIN launch : i = 1 \/ i = 2 \/ i = 3
    BY <2>2
  <2>. QED  BY <1>3, <1>5, <1>7, <2>a, <2>2, <2>3, <2>4 DEF wait
<1>. QED  BY <1>6, <1>7

(* The two events of a launch fence it off. *)
LEMMA LaunchQueued ==
    ASSUME TypeOK, HostInPlace, pc = "replay", Launch,
           pc' # "capture", UNCHANGED <<graphs, bucket, stream>>
    PROVE  Queued
<1>2. /\ stream \in Pool /\ stream \in Streams /\ stream # "instance"
      /\ queue \in [Streams -> Seq(WorkType)] /\ "instance" \in Streams
  BY PoolFacts DEF TypeOK
<1>a. PICK n \in Nat, m \in Nat : n = Len(queue[stream]) /\ m = Len(queue["instance"])
  BY <1>2
<1>b. PICK launch : launch = InputReady \o CopyInputs \o Replay
  OBVIOUS
<1>1. /\ launch \in Seq(WorkType) /\ Len(launch) \in 2..3
      /\ DOMAIN launch = 1..Len(launch)
      /\ launch[1] = Wait("instance", m)
      /\ \A i \in DOMAIN launch : i # 1 => launch[i].what \in {"copy", "replay"}
      /\ \A i \in DOMAIN launch : PoolWork(stream, launch[i])
  BY <1>a, <1>b, LaunchWork
<1>c. PICK waits : waits = Wait(stream, n + Len(launch))
  OBVIOUS
<1>3. /\ queue'[stream] = queue[stream] \o launch
      /\ queue'["instance"] = Append(queue["instance"], waits)
      /\ \A t \in Streams \ {stream, "instance"} : queue'[t] = queue[t]
  BY <1>2, <1>a, <1>b, <1>c, LaunchedQueues
<1>4. waits.to = Nothing /\ waits.on = stream /\ waits.ahead = n + Len(launch)
  BY <1>c DEF Wait
<1>5. launch[1].on = "instance" /\ launch[1].ahead = m /\ launch[1].what = "wait"
  BY <1>1 DEF Wait
<1>6. DOMAIN queue["instance"] = 1..m /\ DOMAIN queue[stream] = 1..n
  BY <1>2, <1>a
<1>7. /\ \A i \in 1..m : queue'["instance"][i] = queue["instance"][i]
      /\ DOMAIN queue'["instance"] = 1..(m + 1) /\ queue'["instance"][m + 1] = waits
  BY <1>2, <1>3, <1>6, <1>a
<1>8. /\ \A i \in 1..n : queue'[stream][i] = queue[stream][i]
      /\ DOMAIN queue'[stream] = 1..(n + Len(launch))
      /\ \A i \in 1..Len(launch) : queue'[stream][n + i] = launch[i]
  BY <1>1, <1>2, <1>3, <1>6, <1>a
<1>9. ASSUME NEW t \in Streams, NEW i \in DOMAIN queue[t]
      PROVE  i \in DOMAIN queue'[t] /\ queue'[t][i] = queue[t][i]
  <2>1. CASE t = stream
    <3>1. i \in 1..n /\ i \in 1..(n + Len(launch))
      BY <1>1, <1>6, <1>9, <2>1
    <3>. QED  BY <1>8, <2>1, <3>1
  <2>2. CASE t = "instance"
    <3>1. i \in 1..m /\ i \in 1..(m + 1)
      BY <1>6, <1>9, <2>2
    <3>. QED  BY <1>7, <2>2, <3>1
  <2>3. CASE t \notin {stream, "instance"}
    BY <1>3, <1>9, <2>3
  <2>. QED  BY <2>1, <2>2, <2>3
<1>10. ASSUME NEW i \in DOMAIN queue'["instance"], i \notin DOMAIN queue["instance"]
       PROVE  queue'["instance"][i].to \in Writable'
  <2>1. i = m + 1
    BY <1>6, <1>7, <1>10
  <2>. QED  BY <1>4, <1>7, <2>1 DEF Writable
<1>11. ASSUME NEW s \in Pool, NEW i \in DOMAIN queue'[s], i \notin DOMAIN queue[s]
       PROVE  /\ PoolWork(s, queue[s][i])'
              /\ queue'[s][i].what \in {"copy", "replay"} =>
                    \E j \in DOMAIN queue'["instance"] : Fenced(s, i, j)'
  <2>1. s = stream
    BY <1>3, <1>11, PoolFacts
  <2>2. PICK k \in 1..Len(launch) : i = n + k
    <3>1. i \in 1..(n + Len(launch)) /\ i \notin 1..n
      BY <1>6, <1>8, <1>11, <2>1
    <3>2. i - n \in 1..Len(launch) /\ i = n + (i - n)
      BY <1>1, <3>1
    <3>. QED  BY <3>2
  <2>3. queue'[s][i] = launch[k] /\ k \in DOMAIN launch
    BY <1>1, <1>8, <2>1, <2>2
  <2>4. PoolWork(s, queue[s][i])'
    <3>1. PoolWork(stream, launch[k])
      BY <1>1, <2>3
    <3>2. launch[k].what # "warm up"
      <4>1. k # 1 => launch[k].what \in {"copy", "replay"}
        BY <1>1, <2>3
      <4>. QED  BY <1>5, <4>1
    <3>. QED  BY <2>1, <2>3, <3>1, <3>2 DEF PoolWork
  <2>5. ASSUME queue'[s][i].what \in {"copy", "replay"}
        PROVE  Fenced(s, i, m + 1)'
    <3>1. k # 1
      BY <1>5, <2>3, <2>5
    <3>2. n + 1 \in 1..(i - 1) /\ n + Len(launch) >= i
      BY <1>1, <2>2, <3>1
    <3>3. queue'[s][n + 1].on = "instance" /\ queue'[s][n + 1].ahead = m
      BY <1>1, <1>5, <1>8, <2>1
    <3>4. m >= (m + 1) - 1
      OBVIOUS
    <3>5. queue'["instance"][m + 1].on = s /\ queue'["instance"][m + 1].ahead >= i
      BY <1>4, <1>7, <2>1, <3>2
    <3>6. \E l \in 1..(i - 1) : queue'[s][l].on = "instance"
                                  /\ queue'[s][l].ahead >= (m + 1) - 1
      BY <3>2, <3>3, <3>4
    <3>. QED  BY <3>5, <3>6 DEF Fenced
  <2>6. m + 1 \in DOMAIN queue'["instance"]
    BY <1>7
  <2>. QED  BY <2>4, <2>5, <2>6
<1>. QED  BY <1>9, <1>10, <1>11 DEF Queued

(* One piece of work queued on the instance's stream. *)
LEMMA QueuedInstance ==
    ASSUME TypeOK, NEW w \in WorkType, Enqueue("instance", <<w>>), w.to \in Writable'
    PROVE  Queued
<1>1. queue' = [queue EXCEPT !["instance"] = @ \o <<w>>]
  BY DEF Enqueue
<1>2. <<w>> \in Seq(WorkType) /\ \A i \in DOMAIN <<w>> : <<w>>[i] = w
  OBVIOUS
<1>. QED  BY <1>1, <1>2, QueuedOne, PoolFacts

(* The events of a replay that fails at its start queue a wait, no more. *)
LEMMA StartQueued ==
    ASSUME TypeOK, HostInPlace, Enqueue(stream, InputReady)
    PROVE  Queued
<1>1. PICK s \in Pool : s = stream
  BY DEF TypeOK
<1>2. PICK w : w = Wait("instance", Len(queue["instance"]))
  OBVIOUS
<1>3. w \in WorkType /\ w.what = "wait" /\ w.from = Nothing /\ w.to = Nothing
  <2>1. Len(queue["instance"]) \in Nat
    BY PoolFacts DEF TypeOK
  <2>. QED  BY <1>2, <2>1, WorkFacts, PoolFacts DEF Wait
<1>4. queue' = [queue EXCEPT ![s] = @ \o <<w>>]
  BY <1>1, <1>2 DEF Enqueue, InputReady
<1>5. <<w>> \in Seq(WorkType) /\ \A i \in DOMAIN <<w>> : <<w>>[i] = w
  BY <1>3
<1>6. PoolWork(s, w)' /\ w.what \notin {"copy", "replay"}
  BY <1>3 DEF PoolWork
<1>. QED  BY <1>4, <1>5, <1>6, QueuedOne, PoolFacts

(* A capture queues its clones, and its warm-up once it is under way. *)
LEMMA CaptureQueued ==
    ASSUME TypeOK, NEW s \in Pool, s = stream',
           \/ Enqueue(s, <<Work("clone", AtBucket, In(bucket))>>)
           \/ /\ Enqueue(s, <<Work("clone", AtBucket, In(bucket)),
                              Work("warm up", In(bucket), Nothing)>>)
              /\ pc' = "capture" /\ bucket' = bucket
    PROVE  Queued
<1>1. PICK c, w : /\ c = Work("clone", AtBucket, In(bucket))
                  /\ w = Work("warm up", In(bucket), Nothing)
  OBVIOUS
<1>2. /\ c \in WorkType /\ c.what = "clone"
      /\ w \in WorkType /\ w.what = "warm up" /\ w.from = In(bucket) /\ w.to = Nothing
  BY <1>1, LaunchFacts, WorkFacts, BufferFacts DEF Work
<1>3. PoolWork(s, c)'
  BY <1>2 DEF PoolWork
<1>4. CASE Enqueue(s, <<Work("clone", AtBucket, In(bucket))>>)
  <2>1. queue' = [queue EXCEPT ![s] = @ \o <<c>>]
    BY <1>1, <1>4 DEF Enqueue
  <2>2. <<c>> \in Seq(WorkType) /\ \A i \in DOMAIN <<c>> : <<c>>[i] = c
    BY <1>2, ShortFacts
  <2>. QED  BY <1>2, <1>3, <2>1, <2>2, QueuedOne, PoolFacts
<1>5. CASE /\ Enqueue(s, <<Work("clone", AtBucket, In(bucket)),
                           Work("warm up", In(bucket), Nothing)>>)
           /\ pc' = "capture" /\ bucket' = bucket
  <2>1. queue' = [queue EXCEPT ![s] = @ \o <<c, w>>]
    BY <1>1, <1>5 DEF Enqueue
  <2>2. PoolWork(s, w)'
    BY <1>2, <1>5 DEF PoolWork, In
  <2>3. <<c, w>> \in Seq(WorkType) /\ \A i \in DOMAIN <<c, w>> : <<c, w>>[i] \in {c, w}
    BY <1>2, ShortFacts
  <2>4. \A i \in DOMAIN <<c, w>> :
           PoolWork(s, <<c, w>>[i])' /\ <<c, w>>[i].what \notin {"copy", "replay"}
    BY <1>2, <1>3, <2>2, <2>3
  <2>. QED  BY <2>1, <2>3, <2>4, QueuedOne, PoolFacts
<1>. QED  BY <1>4, <1>5

(* Every step of the host queues only work that is in place, as long as no *)
(* replay fails between its copies and its launch.                         *)
LEMMA HostQueued ==
    ASSUME TypeOK, HostInPlace, HostInPlace', Arrive \/ Host, "copy" \notin Failures
    PROVE  Queued
<1>. USE DEF Goto, batchVars
<1>a. {Stage, Padded, Eager, Response, Nothing} \subseteq Writable'
  BY DEF Writable
<1>b. /\ Out(bucket) \in Buffers /\ inputs \in Buffers
      /\ {Request, Stage, Padded, Eager, Response, Nothing} \subseteq Buffers
  BY LaunchFacts, BufferFacts
<1>1. CASE Arrive
  <2>1. queue' = [s \in Streams |-> [i \in DOMAIN queue[s] |-> Aged(queue[s][i])]]
    BY <1>1 DEF Arrive
  <2>2. \A t \in Streams : DOMAIN queue'[t] = DOMAIN queue[t]
    BY <2>1
  <2>3. ASSUME NEW t \in Streams, NEW i \in DOMAIN queue[t]
        PROVE  /\ queue'[t][i].what = queue[t][i].what
               /\ queue'[t][i].to = queue[t][i].to
               /\ queue'[t][i].on = queue[t][i].on
               /\ queue'[t][i].ahead = queue[t][i].ahead
               /\ \/ queue'[t][i].from = queue[t][i].from
                  \/ queue[t][i].from = Request /\ queue'[t][i].from = Earlier
    <3>1. queue'[t][i] = Aged(queue[t][i])
      BY <2>1, <2>3
    <3>2. queue[t][i] \in WorkType
      <4>1. queue[t] \in Seq(WorkType)
        BY <2>3 DEF TypeOK
      <4>. QED  BY <2>3, <4>1
    <3>. QED  BY <3>1, <3>2 DEF Aged, WorkType
  <2>. QED  BY <2>2, <2>3, PoolFacts DEF Queued
<1>2. CASE CollectCopies \/ CollectFails
  <2>1. PICK w : w = Work("collect", Request, inputs)
    OBVIOUS
  <2>2. w \in WorkType /\ w.to = inputs
    BY <1>b, <2>1, WorkFacts DEF Work
  <2>3. Enqueue("instance", <<w>>) /\ pc = "collect" /\ UNCHANGED <<graphs, bucket>>
    BY <1>2, <2>1 DEF CollectCopies, CollectFails, CollectWork, Enqueue
  <2>4. inputs \in {Stage, In(bucket)} /\ bucket \in Buckets
    BY <2>3 DEF TypeOK, HostInPlace
  <2>5. inputs \in Writable'
    <3>1. CASE inputs = Stage
      BY <1>a, <3>1
    <3>2. CASE inputs = In(bucket)
      <4>1. graphs'[bucket] \in Pool
        BY <2>3, <3>2 DEF HostInPlace, Prestaged
      <4>. QED  BY <2>4, <3>2, <4>1 DEF Writable, In
    <3>. QED  BY <2>4, <3>1, <3>2
  <2>. QED  BY <2>2, <2>3, <2>5, QueuedInstance
<1>3. CASE \/ CollectInPlace \/ SyncInputs \/ NoGraph \/ UsePrestaged \/ UseCaptured
           \/ EndCapture \/ CaptureFails \/ SyncRun \/ RespondEmpty \/ Send
  <2>1. UNCHANGED queue
    BY <1>3 DEF CollectInPlace, SyncInputs, NoGraph, UsePrestaged, UseCaptured,
       EndCapture, CaptureFails, SyncRun, RespondEmpty, Send
  <2>. QED  BY <2>1, QueuedNothing
<1>4. CASE PadRequestsUp \/ PadThrows \/ RunEager \/ RunThrows
  <2>1. PICK p, r : p = Work("pad", inputs, Padded) /\ r = Work("run", inputs, Eager)
    OBVIOUS
  <2>2. /\ p \in WorkType /\ p.to = Padded /\ r \in WorkType /\ r.to = Eager
    BY <1>b, <2>1, WorkFacts DEF Work
  <2>3. \/ Enqueue("instance", <<p>>) \/ Enqueue("instance", <<r>>)
        \/ Enqueue("instance", <<>>)
    BY <1>4, <2>1 DEF PadRequestsUp, PadThrows, PadWork, RunEager, RunThrows
  <2>4. ASSUME Enqueue("instance", <<>>)
        PROVE  Queued
    <3>1. queue' = [queue EXCEPT !["instance"] = @ \o <<>>]
      BY <2>4 DEF Enqueue
    <3>2. <<>> \in Seq(WorkType) /\ DOMAIN <<>> = {}
      OBVIOUS
    <3>. QED  BY <3>1, <3>2, QueuedOne, PoolFacts
  <2>. QED  BY <1>a, <2>2, <2>3, <2>4, QueuedInstance
<1>5. CASE Respond \/ RespondFails
  <2>1. PICK g, e : g = Work("respond", Out(bucket), Response)
                    /\ e = Work("respond", Eager, Response)
    OBVIOUS
  <2>2. g \in WorkType /\ g.to = Response /\ e \in WorkType /\ e.to = Response
    BY <1>b, <2>1, WorkFacts DEF Work
  <2>3. Enqueue("instance", <<g>>) \/ Enqueue("instance", <<e>>)
    BY <1>5, <2>1 DEF Respond, RespondFails, CopyOutputs
  <2>. QED  BY <1>a, <2>2, <2>3, QueuedInstance
<1>6. CASE BeginCapture \/ WarmUpFails
  <2>1. PICK s \in Pool : s = stream'
    BY <1>6 DEF BeginCapture, WarmUpFails
  <2>. QED  BY <1>6, <2>1, CaptureQueued DEF BeginCapture, WarmUpFails
<1>7. CASE ReplaySucceeds
  BY <1>7, LaunchQueued DEF ReplaySucceeds
<1>8. CASE ReplayFails
  <2>1. /\ pc = "replay" /\ pc' = "eager" /\ UNCHANGED <<graphs, bucket, stream>>
        /\ Enqueue(stream, InputReady) \/ Launch
    BY <1>8 DEF ReplayFails
  <2>. QED  BY <2>1, StartQueued, LaunchQueued
<1>. QED  BY <1>1, <1>2, <1>3, <1>4, <1>5, <1>6, <1>7, <1>8
          DEF Host, Collect, Execute, Answer

(* A step of the device: work is taken from the head of one queue, and the *)
(* waits for it count down.                                                *)
LEMMA DeviceKeeps ==
    ASSUME IndInv, NEW s \in Streams, DeviceRuns(s)
    PROVE  InstanceWork' /\ GraphWork' /\ LaunchesFenced'
<1>. USE DEF IndInv
<1>1. /\ DOMAIN queue[s] = 1..Len(queue[s]) /\ Len(queue[s]) \in Nat \ {0}
      /\ queue[s][1].ahead = 0
      /\ DOMAIN queue'[s] = 1..(Len(queue[s]) - 1)
      /\ \A i \in DOMAIN queue'[s] : queue'[s][i] = CountDown(queue[s][i + 1], s)
      /\ \A t \in Streams : t # s =>
            /\ DOMAIN queue'[t] = DOMAIN queue[t]
            /\ \A i \in DOMAIN queue[t] : queue'[t][i] = CountDown(queue[t][i], s)
  BY DeviceFacts
<1>2. UNCHANGED <<pc, graphs, bucket, stream>>
  BY DEF DeviceRuns, batchVars
<1>3. \A t \in Streams : /\ DOMAIN queue[t] = 1..Len(queue[t]) /\ Len(queue[t]) \in Nat
                          /\ \A i \in DOMAIN queue[t] : queue[t][i] \in WorkType
  BY DEF TypeOK
<1>9. ASSUME NEW t \in Streams, NEW i \in DOMAIN queue[t]
      PROVE  i \in Nat \ {0} /\ queue[t][i].ahead \in Nat
  <2>1. i \in 1..Len(queue[t]) /\ Len(queue[t]) \in Nat
    BY <1>3, <1>9
  <2>2. queue[t][i] \in WorkType
    BY <1>3, <1>9
  <2>3. queue[t][i].ahead \in Nat
    BY <2>2 DEF WorkType
  <2>. QED  BY <2>1, <2>3
<1>4. ASSUME NEW t \in Streams, NEW i \in DOMAIN queue'[t]
      PROVE  \E k \in DOMAIN queue[t] : queue'[t][i] = CountDown(queue[t][k], s)
  <2>1. CASE t = s
    <3>1. i + 1 \in DOMAIN queue[s]
      BY <1>1, <1>4, <2>1
    <3>. QED  BY <1>1, <1>4, <2>1, <3>1
  <2>2. CASE t # s
    BY <1>1, <1>4, <2>2
  <2>. QED  BY <2>1, <2>2
<1>5. ASSUME NEW t \in Streams, NEW i \in DOMAIN queue'[t]
      PROVE  \E k \in DOMAIN queue[t] :
                /\ queue'[t][i].what = queue[t][k].what
                /\ queue'[t][i].from = queue[t][k].from
                /\ queue'[t][i].to = queue[t][k].to
  <2>1. PICK k \in DOMAIN queue[t] : queue'[t][i] = CountDown(queue[t][k], s)
    BY <1>4, <1>5
  <2>2. queue[t][k] \in WorkType
    BY <1>3, <1>5, <2>1
  <2>. QED  BY <2>1, <2>2, CountDownFacts
<1>6. InstanceWork'
  <2>1. Writable' = Writable
    BY <1>2 DEF Writable
  <2>2. ASSUME NEW i \in DOMAIN queue'["instance"]
        PROVE  queue'["instance"][i].to \in Writable
    BY <1>5, <2>2, PoolFacts DEF InstanceWork
  <2>. QED  BY <2>1, <2>2 DEF InstanceWork
<1>7. GraphWork'
  <2>1. ASSUME NEW t \in Pool, NEW i \in DOMAIN queue'[t]
        PROVE  PoolWork(t, queue[t][i])'
    <3>1. PICK k \in DOMAIN queue[t] : /\ queue'[t][i].what = queue[t][k].what
                                       /\ queue'[t][i].from = queue[t][k].from
                                       /\ queue'[t][i].to = queue[t][k].to
      BY <1>5, <2>1, PoolFacts
    <3>2. PoolWork(t, queue[t][k])
      BY <2>1, <3>1 DEF GraphWork
    <3>. QED  BY <1>2, <3>1, <3>2 DEF PoolWork, In
  <2>. QED  BY <2>1 DEF GraphWork
<1>8. LaunchesFenced'
  <2>1. ASSUME NEW t \in Pool, NEW i \in DOMAIN queue'[t],
               queue'[t][i].what \in {"copy", "replay"}
        PROVE  \E j \in DOMAIN queue'["instance"] : Fenced(t, i, j)'
    <3>. DEFINE q == queue["instance"]
    <3>1. t \in Streams /\ t # "instance" /\ "instance" \in Streams
      BY <2>1, PoolFacts
    <3>2. CASE s = t
      <4>1. i + 1 \in DOMAIN queue[t] /\ queue'[t][i] = CountDown(queue[t][i + 1], t)
        BY <1>1, <2>1, <3>2
      <4>2. queue[t][i + 1].what \in {"copy", "replay"}
        BY <1>3, <2>1, <3>1, <4>1, CountDownFacts
      <4>3. PICK j \in DOMAIN q : Fenced(t, i + 1, j)
        BY <2>1, <4>1, <4>2 DEF LaunchesFenced
      <4>4. j \in Nat \ {0} /\ q[j] \in WorkType /\ q[j].ahead \in Nat /\ i \in Nat \ {0}
        <5>1. i \in Nat \ {0}
          BY <1>1, <2>1, <3>2
        <5>. QED  BY <1>3, <1>9, <3>1, <4>3, <5>1
      <4>5. /\ j \in DOMAIN queue'["instance"]
            /\ queue'["instance"][j] = CountDown(q[j], t)
        BY <1>1, <3>1, <3>2, <4>3
      <4>6. queue'["instance"][j].on = t /\ queue'["instance"][j].ahead >= i
        BY <4>3, <4>4, <4>5, CountDownFacts DEF Fenced
      <4>7. ASSUME j # 1
            PROVE  \E k \in 1..(i - 1) : /\ queue'[t][k].on = "instance"
                                          /\ queue'[t][k].ahead >= j - 1
        <5>1. PICK k \in 1..((i + 1) - 1) : /\ queue[t][k].on = "instance"
                                            /\ queue[t][k].ahead >= j - 1
          BY <4>3, <4>7 DEF Fenced
        <5>2. k # 1
          BY <1>1, <3>2, <4>4, <4>7, <5>1
        <5>3. k - 1 \in 1..(i - 1) /\ k - 1 \in DOMAIN queue'[t] /\ k \in DOMAIN queue[t]
          BY <1>1, <2>1, <3>2, <4>4, <5>1, <5>2
        <5>4. queue'[t][k - 1] = CountDown(queue[t][k], t)
          <6>1. (k - 1) + 1 = k
            BY <5>1
          <6>. QED  BY <1>1, <3>2, <5>3, <6>1
        <5>5. queue[t][k] \in WorkType
          BY <1>3, <3>1, <5>3
        <5>6. /\ queue'[t][k - 1].on = "instance"
              /\ queue'[t][k - 1].ahead = queue[t][k].ahead
          BY <3>1, <5>1, <5>4, <5>5, CountDownFacts
        <5>. QED  BY <5>1, <5>3, <5>6
      <4>. QED  BY <4>5, <4>6, <4>7 DEF Fenced
    <3>3. CASE s # t
      <4>1. i \in DOMAIN queue[t] /\ queue'[t][i] = CountDown(queue[t][i], s)
        BY <1>1, <2>1, <3>1, <3>3
      <4>2. queue[t][i].what \in {"copy", "replay"}
        BY <1>3, <2>1, <3>1, <4>1, CountDownFacts
      <4>3. PICK j \in DOMAIN q : Fenced(t, i, j)
        BY <2>1, <4>1, <4>2 DEF LaunchesFenced
      <4>4. /\ j \in Nat \ {0} /\ q[j] \in WorkType /\ q[j].ahead \in Nat
            /\ i \in Nat \ {0} /\ q[j].on = t /\ q[j].ahead >= i
        BY <1>3, <1>9, <3>1, <4>1, <4>3 DEF Fenced
      <4>5. /\ CountDown(q[j], s).on = t /\ CountDown(q[j], s).ahead >= i
        BY <3>3, <4>4, CountDownFacts
      <4>6. ASSUME NEW k \in 1..(i - 1), queue[t][k].on = "instance"
            PROVE  /\ queue'[t][k].on = "instance" /\ queue[t][k].ahead \in Nat
                   /\ queue'[t][k].ahead =
                         IF s = "instance" /\ queue[t][k].ahead > 0
                         THEN queue[t][k].ahead - 1 ELSE queue[t][k].ahead
        <5>1. k \in DOMAIN queue[t]
          BY <1>3, <3>1, <4>1, <4>6
        <5>2. queue[t][k] \in WorkType /\ queue'[t][k] = CountDown(queue[t][k], s)
          BY <1>1, <1>3, <3>1, <3>3, <5>1
        <5>3. queue[t][k].ahead \in Nat
          BY <1>9, <3>1, <5>1
        <5>. QED  BY <4>6, <5>2, <5>3, CountDownFacts
      <4>7. CASE s = "instance"
        <5>1. j # 1
          BY <1>1, <4>4, <4>7
        <5>2. PICK k \in 1..(i - 1) : /\ queue[t][k].on = "instance"
                                      /\ queue[t][k].ahead >= j - 1
          BY <4>3, <5>1 DEF Fenced
        <5>3. j - 1 \in DOMAIN queue'["instance"] /\ (j - 1) + 1 = j
          BY <1>1, <4>3, <4>4, <4>7, <5>1
        <5>4. queue'["instance"][j - 1] = CountDown(q[j], s)
          BY <1>1, <4>7, <5>3
        <5>5. queue'[t][k].on = "instance" /\ queue'[t][k].ahead >= (j - 1) - 1
          BY <4>4, <4>6, <4>7, <5>1, <5>2
        <5>6. Fenced(t, i, j - 1)'
          BY <4>5, <5>2, <5>4, <5>5 DEF Fenced
        <5>. QED  BY <5>3, <5>6
      <4>8. CASE s # "instance"
        <5>1. /\ j \in DOMAIN queue'["instance"]
              /\ queue'["instance"][j] = CountDown(q[j], s)
          BY <1>1, <3>1, <4>3, <4>8
        <5>2. ASSUME NEW k \in 1..(i - 1), queue[t][k].on = "instance",
                     queue[t][k].ahead >= j - 1
              PROVE  queue'[t][k].on = "instance" /\ queue'[t][k].ahead >= j - 1
          BY <4>6, <4>8, <5>2
        <5>3. Fenced(t, i, j)'
          BY <4>3, <4>5, <5>1, <5>2 DEF Fenced
        <5>. QED  BY <5>1, <5>3
      <4>. QED  BY <4>7, <4>8
    <3>. QED  BY <3>2, <3>3
  <2>. QED  BY <2>1 DEF LaunchesFenced
<1>. QED  BY <1>6, <1>7, <1>8

(* The invariant holds at the start, where nothing is queued. *)
LEMMA IndInit ==
    ASSUME Init
    PROVE  IndInv
<1>1. \A s \in Streams : queue[s] = <<>> /\ DOMAIN queue[s] = {}
  BY DEF Init
<1>2. TypeOK
  <2>1. queue \in [Streams -> Seq(WorkType)]
    BY DEF Init
  <2>2. contents \in [Buffers -> {"new", "old"}]
    BY DEF Init
  <2>. QED  BY <2>1, <2>2 DEF Init, TypeOK
<1>3. HostInPlace
  BY BufferFacts DEF Init, HostInPlace, Prestaged
<1>4. InstanceWork /\ GraphWork /\ LaunchesFenced
  BY <1>1, PoolFacts DEF InstanceWork, GraphWork, LaunchesFenced
<1>. QED  BY <1>2, <1>3, <1>4 DEF IndInv

(* Every step keeps the invariant. *)
LEMMA IndStep ==
    ASSUME IndInv, [Next]_vars, "copy" \notin Failures
    PROVE  IndInv'
<1>1. TypeOK' /\ HostInPlace'
  BY TypeStep, HostStep DEF IndInv
<1>2. \A b \in Buckets : graphs[b] \in Pool => graphs'[b] = graphs[b]
  BY GraphsStay DEF IndInv
<1>3. CASE Arrive \/ Host
  <2>1. Queued
    BY <1>1, <1>3, HostQueued DEF IndInv
  <2>2. pc # "capture" \/ Idle(stream)
    BY <1>3 DEF Host, Collect, Execute, Answer, Arrive, CollectCopies, CollectInPlace,
       CollectFails, SyncInputs, NoGraph, UsePrestaged, PadRequestsUp, PadThrows,
       UseCaptured, BeginCapture, WarmUpFails, EndCapture, CaptureFails, ReplaySucceeds,
       ReplayFails, RunEager, RunThrows, SyncRun, Respond, RespondEmpty,
       RespondFails, Send
  <2>. QED  BY <1>1, <1>2, <2>1, <2>2, QueuedKeeps DEF IndInv
<1>4. ASSUME NEW s \in Streams, DeviceRuns(s)
      PROVE  IndInv'
  BY <1>1, <1>4, DeviceKeeps DEF IndInv
<1>5. CASE UNCHANGED vars
  <2>1. UNCHANGED <<pc, graphs, bucket, stream, queue>>
    BY <1>5 DEF vars, batchVars
  <2>2. InstanceWork'
    <3>1. Writable' = Writable
      BY <2>1 DEF Writable
    <3>. QED  BY <2>1, <3>1 DEF IndInv, InstanceWork
  <2>3. GraphWork'
    <3>1. ASSUME NEW s \in Pool, NEW i \in DOMAIN queue[s]
          PROVE  PoolWork(s, queue[s][i])'
      <4>1. PoolWork(s, queue[s][i])
        BY <3>1 DEF IndInv, GraphWork
      <4>. QED  BY <2>1, <4>1 DEF PoolWork, In
    <3>. QED  BY <2>1, <3>1 DEF GraphWork
  <2>4. LaunchesFenced'
    BY <2>1 DEF IndInv, LaunchesFenced, Fenced
  <2>. QED  BY <1>1, <2>2, <2>3, <2>4 DEF IndInv
<1>. QED  BY <1>3, <1>4, <1>5 DEF Next

(* The head of a pooled stream, ready to run. *)
LEMMA PoolHead ==
    ASSUME IndInv, NEW s \in Pool, Ready(s)
    PROVE  /\ 1 \in DOMAIN queue[s] /\ Head(queue[s]) = queue[s][1]
           /\ PoolWork(s, Head(queue[s]))
           /\ Ready("instance") => Head(queue[s]).what \notin {"copy", "replay"}
<1>1. queue[s] \in Seq(WorkType) /\ queue["instance"] \in Seq(WorkType)
  BY PoolFacts DEF IndInv, TypeOK
<1>2. 1 \in DOMAIN queue[s] /\ Head(queue[s]) = queue[s][1]
  BY <1>1 DEF Ready
<1>3. PoolWork(s, queue[s][1])
  BY <1>2 DEF IndInv, GraphWork
<1>4. ASSUME Ready("instance"), queue[s][1].what \in {"copy", "replay"}
      PROVE  FALSE
  <2>1. PICK j \in DOMAIN queue["instance"] : Fenced(s, 1, j)
    BY <1>2, <1>4 DEF IndInv, LaunchesFenced
  <2>2. j = 1 /\ queue["instance"][1].ahead >= 1
    <3>1. ~ \E k \in 1..(1 - 1) : TRUE
      OBVIOUS
    <3>. QED  BY <2>1, <3>1 DEF Fenced
  <2>3. queue["instance"][1].ahead = 0
    BY <1>1, <1>4 DEF Ready
  <2>. QED  BY <2>2, <2>3
<1>. QED  BY <1>2, <1>3, <1>4

(* The invariant leaves no two streams at work on one buffer. *)
LEMMA IndRaceFree ==
    ASSUME IndInv
    PROVE  RaceFree
<1>1. SUFFICES ASSUME NEW s \in Streams, NEW t \in Streams, s # t, Ready(s), Ready(t),
                      Head(queue[s]).what # "clone", Head(queue[t]).what # "clone"
               PROVE  ~Conflict(Head(queue[s]), Head(queue[t]))
  BY DEF RaceFree
<1>2. ASSUME NEW p \in Pool, Ready(p), Head(queue[p]).what # "clone", Ready("instance")
      PROVE  /\ ~Conflict(Head(queue[p]), Head(queue["instance"]))
             /\ ~Conflict(Head(queue["instance"]), Head(queue[p]))
  <2>1. /\ Head(queue[p]).to = Nothing
        /\ \/ Head(queue[p]).from = Nothing
           \/ Head(queue[p]).from = In(bucket) /\ graphs[bucket] = "none"
    BY <1>2, PoolHead DEF PoolWork, IndInv, HostInPlace
  <2>2. Head(queue["instance"]).to \in Writable
    <3>1. queue["instance"] \in Seq(WorkType)
      BY PoolFacts DEF IndInv, TypeOK
    <3>2. 1 \in DOMAIN queue["instance"] /\ Head(queue["instance"]) = queue["instance"][1]
      BY <1>2, <3>1 DEF Ready
    <3>. QED  BY <3>2 DEF IndInv, InstanceWork
  <2>3. bucket \in Buckets
    BY DEF IndInv, TypeOK
  <2>4. graphs[bucket] = "none" => In(bucket) \notin Writable
    BY <2>3, PoolFacts, BufferFacts DEF Writable
  <2>. QED  BY <2>1, <2>2, <2>4 DEF Conflict
<1>3. ASSUME s \in Pool, t \in Pool
      PROVE  ~Conflict(Head(queue[s]), Head(queue[t]))
  <2>1. PICK a, b : a = Head(queue[s]) /\ b = Head(queue[t])
    OBVIOUS
  <2>2. PoolWork(s, a) /\ PoolWork(t, b) /\ a.what # "clone" /\ b.what # "clone"
    BY <1>1, <1>3, <2>1, PoolHead
  <2>3. bucket \in Buckets /\ (pc = "capture" => graphs[bucket] = "none")
    BY DEF IndInv, TypeOK, HostInPlace
  <2>. DEFINE Passive(w) == /\ w.to = Nothing
                             /\ \/ w.from = Nothing
                                \/ w.from = In(bucket) /\ graphs[bucket] = "none"
              Active(p, w) == \E c \in Buckets :
                 /\ graphs[c] = p
                 /\ \/ w.from \in {Padded, Stage, Request, Earlier} /\ w.to = In(c)
                    \/ w.from = In(c) /\ w.to = Out(c)
  <2>4. Passive(a) \/ Active(s, a)
    BY <2>2, <2>3 DEF PoolWork
  <2>5. Passive(b) \/ Active(t, b)
    BY <2>2, <2>3 DEF PoolWork
  <2>6. ASSUME NEW v, NEW w, NEW p \in Pool, Passive(v), Active(p, w)
        PROVE  ~Conflict(v, w) /\ ~Conflict(w, v)
    <3>1. PICK c \in Buckets : graphs[c] = p /\ w.to \in {In(c), Out(c)}
      BY <2>6
    <3>2. w.to \notin {v.from, v.to}
      BY <2>3, <2>6, <3>1, BufferFacts, PoolFacts
    <3>. QED  BY <2>6, <3>2 DEF Conflict
  <2>7. ASSUME Active(s, a), Active(t, b)
        PROVE  ~Conflict(a, b)
    <3>1. PICK c \in Buckets :
             /\ graphs[c] = s
             /\ \/ a.from \in {Padded, Stage, Request, Earlier} /\ a.to = In(c)
                \/ a.from = In(c) /\ a.to = Out(c)
      BY <2>7
    <3>2. PICK d \in Buckets :
             /\ graphs[d] = t
             /\ \/ b.from \in {Padded, Stage, Request, Earlier} /\ b.to = In(d)
                \/ b.from = In(d) /\ b.to = Out(d)
      BY <2>7
    <3>3. c # d
      BY <1>1, <3>1, <3>2
    <3>4. a.to \notin {b.from, b.to}
      BY <3>1, <3>2, <3>3, BufferFacts
    <3>5. b.to \notin {a.from, a.to}
      BY <3>1, <3>2, <3>3, BufferFacts
    <3>. QED  BY <3>4, <3>5 DEF Conflict
  <2>8. Passive(a) /\ Passive(b) => ~Conflict(a, b)
    BY DEF Conflict
  <2>. HIDE DEF Passive, Active
  <2>. QED  BY <1>3, <2>1, <2>4, <2>5, <2>6, <2>7, <2>8
<1>. QED  BY <1>1, <1>2, <1>3 DEF Streams

(* A copy or a replay that is queued while the instance's stream is free   *)
(* waits for the first piece of work there.                                *)
LEMMA IndCollection ==
    ASSUME IndInv
    PROVE  CollectionBehindGraph
<1>1. SUFFICES ASSUME Ready("instance"), NEW s \in Pool, NEW i \in DOMAIN queue[s],
                      queue[s][i].what \in {"copy", "replay"}
               PROVE  Covered(s, i, 1)
  BY DEF CollectionBehindGraph
<1>2. queue["instance"] \in Seq(WorkType) /\ queue[s] \in Seq(WorkType)
  BY <1>1, PoolFacts DEF IndInv, TypeOK
<1>3. PICK j \in DOMAIN queue["instance"] : Fenced(s, i, j)
  BY <1>1 DEF IndInv, LaunchesFenced
<1>4. i \in Nat \ {0} /\ j \in Nat \ {0} /\ queue["instance"][1].ahead = 0
  BY <1>1, <1>2, <1>3 DEF Ready
<1>5. j # 1
  BY <1>3, <1>4 DEF Fenced
<1>6. PICK k \in 1..(i - 1) : queue[s][k].on = "instance" /\ queue[s][k].ahead >= j - 1
  BY <1>3, <1>5 DEF Fenced
<1>7. queue[s][k].ahead \in Nat
  <2>1. k \in DOMAIN queue[s]
    BY <1>1, <1>2, <1>4, <1>6
  <2>2. queue[s][k] \in WorkType
    BY <1>2, <2>1
  <2>. QED  BY <2>2 DEF WorkType
<1>8. queue[s][k].ahead >= 1
  BY <1>4, <1>5, <1>6, <1>7
<1>. QED  BY <1>6, <1>8 DEF Covered

-----------------------------------------------------------------------------
(* Theorems *)

(* The streams and the host's state are well typed, whatever fails. *)
THEOREM StreamsTypeCorrect == Spec => []TypeOK
<1>1. Init => TypeOK /\ HostInPlace
  BY IndInit DEF IndInv
<1>2. TypeOK /\ HostInPlace /\ [Next]_vars => (TypeOK /\ HostInPlace)'
  BY TypeStep, HostStep
<1>. QED  BY <1>1, <1>2, PTL DEF Spec

(* No two streams work on one buffer at a time, one of them writing it, as *)
(* long as no replay fails with its copies queued and its output event not *)
(* recorded: then nothing keeps the next batch off the copies.             *)
THEOREM StreamsRaceFree ==
    ASSUME "copy" \notin Failures
    PROVE  Spec => []RaceFree
<1>1. Init => IndInv
  BY IndInit
<1>2. IndInv /\ [Next]_vars => IndInv'
  BY IndStep
<1>3. IndInv => RaceFree
  BY IndRaceFree
<1>. QED  BY <1>1, <1>2, <1>3, PTL DEF Spec

(* No batch is collected into buffers an earlier copy or replay may still  *)
(* use, but after a replay that failed with its copies queued: that        *)
(* failure, which GraphStreamsStaleCopy.cfg shows, is the only way.        *)
THEOREM StreamsCollectBehindGraph ==
    ASSUME "copy" \notin Failures
    PROVE  Spec => []CollectionBehindGraph
<1>1. Init => IndInv
  BY IndInit
<1>2. IndInv /\ [Next]_vars => IndInv'
  BY IndStep
<1>3. IndInv => CollectionBehindGraph
  BY IndCollection
<1>. QED  BY <1>1, <1>2, <1>3, PTL DEF Spec

=============================================================================
