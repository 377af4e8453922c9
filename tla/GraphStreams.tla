----------------------------- MODULE GraphStreams -----------------------------
(***************************************************************************)
(* The CUDA streams of one KIND_GPU instance on the graph path             *)
(* (model_instance_state.cc).  The host thread queues work: collection,    *)
(* padding, eager runs and responses on the instance's stream; captures,   *)
(* copies into the static inputs and replays on the stream of the bucket's *)
(* graph.  A stream runs its queue in order, and only the two events of    *)
(* ReplayCudaGraphEntry and the synchronizations relate the streams and    *)
(* the host.  GraphCache chooses the bucket; here any choice is possible.  *)
(*                                                                         *)
(* A buffer holds the data of the batch in hand ("new") or of an earlier   *)
(* one ("old"), and every piece of work reads a buffer and writes one.     *)
(***************************************************************************)
EXTENDS Naturals, Sequences

CONSTANTS
    Buckets,    \* R buckets of the instance
    Pool,       \* streams that getStreamFromPool may return
    Failures,   \* how far a failing replay may get: see ReplayFails
    MaxQueued   \* bound on the work queued on a stream when a batch arrives

ASSUME StreamsAssumption ==
    /\ "instance" \notin Pool
    /\ {"none", "failed"} \cap Pool = {}
    /\ Failures \subseteq {"start", "copy", "slice"}
    /\ MaxQueued \in Nat

VARIABLES
    pc,         \* where the host thread is
    graphs,     \* bucket -> the stream of its graph, "none" or "failed"
    bucket,     \* the bucket in hand
    stream,     \* e.stream, the stream of its graph
    inputs,     \* the buffer the input tensors are views of
    pads,       \* the bucket is larger than the batch
    answer,     \* the run whose outputs answer the batch, or "none"
    queue,      \* stream -> the work it has not done yet
    contents    \* buffer -> whose data it holds

batchVars == <<bucket, inputs, pads>>
vars == <<pc, graphs, batchVars, stream, answer, queue, contents>>

Streams == Pool \cup {"instance"}

In(b) == <<"static inputs", b>>
Out(b) == <<"static outputs", b>>
Request == <<"request", 0>>      \* the payloads of the batch in hand,
Earlier == <<"request", 1>>      \* and those of a batch before it
Stage == <<"collected", 0>>
Padded == <<"padded", 0>>
Eager == <<"eager outputs", 0>>
Response == <<"response", 0>>
Nothing == <<"nothing", 0>>
Buffers == {In(b) : b \in Buckets} \cup {Out(b) : b \in Buckets}
             \cup {Request, Earlier, Stage, Padded, Eager, Response, Nothing}

(* Work that reads and writes a buffer, and a wait for the work that was   *)
(* ahead of an event on another stream.                                    *)
Work(what, from, to) ==
    [what |-> what, from |-> from, to |-> to, on |-> "none", ahead |-> 0]
Wait(s, n) ==
    [what |-> "wait", from |-> Nothing, to |-> Nothing, on |-> s, ahead |-> n]

Init ==
    /\ pc = "idle"
    /\ graphs \in [Buckets -> Pool \cup {"none", "failed"}]
    /\ bucket \in Buckets /\ stream \in Pool
    /\ inputs = Stage /\ pads = FALSE /\ answer = "none"
    /\ queue = [s \in Streams |-> <<>>]
    /\ contents = [b \in Buffers |-> IF b = Request THEN "new" ELSE "old"]

Enqueue(s, work) == queue' = [queue EXCEPT ![s] = @ \o work]
Goto(label) == pc' = label
Idle(s) == queue[s] = <<>>

-----------------------------------------------------------------------------
(* ProcessRequests and SetInputTensors *)

(* What is still queued of an earlier batch is no longer about this one.   *)
Aged(work) == IF work.from = Request THEN [work EXCEPT !.from = Earlier] ELSE work

Arrive ==
    /\ pc = "idle"
    /\ \A s \in Streams : Len(queue[s]) <= MaxQueued
    /\ Goto("collect")
    /\ bucket' \in Buckets
    /\ \/ inputs' = Stage
       \/ inputs' = In(bucket') /\ graphs[bucket'] \in Pool
    /\ pads' \in BOOLEAN
    /\ answer' = "none"
    /\ queue' = [s \in Streams |-> [i \in DOMAIN queue[s] |-> Aged(queue[s][i])]]
    /\ contents' = [b \in Buffers |-> IF b = Request THEN "new" ELSE "old"]
    /\ UNCHANGED <<graphs, stream>>

(* Prestaging: the payloads go to the static inputs of the bucket's graph. *)
Prestaged == inputs = In(bucket)

CollectWork == <<Work("collect", Request, inputs)>>

CollectCopies ==
    /\ pc = "collect"
    /\ Goto("syncInputs")
    /\ Enqueue("instance", CollectWork)
    /\ UNCHANGED <<graphs, batchVars, stream, answer, contents>>

(* The collector may hand out a request's own device buffer.               *)
CollectInPlace ==
    /\ pc = "collect" /\ ~Prestaged
    /\ Goto("execute")
    /\ inputs' = Request
    /\ UNCHANGED <<graphs, bucket, pads, stream, answer, queue, contents>>

(* An error of SetInputTensors before Finalize: no synchronization.        *)
CollectFails ==
    /\ pc = "collect"
    /\ Goto("idle")
    /\ Enqueue("instance", CollectWork)
    /\ UNCHANGED <<graphs, batchVars, stream, answer, contents>>

SyncInputs ==
    /\ pc = "syncInputs" /\ Idle("instance")
    /\ Goto("execute")
    /\ UNCHANGED <<graphs, batchVars, stream, answer, queue, contents>>

-----------------------------------------------------------------------------
(* ExecuteWithCudaGraph and CaptureBucket *)

NoGraph ==
    /\ pc = "execute" /\ ~Prestaged
    /\ Goto("eager")
    /\ UNCHANGED <<graphs, batchVars, stream, answer, queue, contents>>

UsePrestaged ==
    /\ pc = "execute" /\ Prestaged
    /\ Goto("replay")
    /\ stream' = graphs[bucket]
    /\ UNCHANGED <<graphs, batchVars, answer, queue, contents>>

PadWork == <<Work("pad", inputs, Padded)>>

PadRequestsUp ==
    /\ pc = "execute" /\ ~Prestaged /\ graphs[bucket] # "failed"
    /\ Goto("select")
    /\ Enqueue("instance", IF pads THEN PadWork ELSE <<>>)
    /\ UNCHANGED <<graphs, batchVars, stream, answer, contents>>

(* An exception of the padding: Execute answers the batch with the error.  *)
PadThrows ==
    /\ pc = "execute" /\ ~Prestaged /\ graphs[bucket] # "failed" /\ pads
    /\ Goto("idle")
    /\ \E begun \in BOOLEAN : Enqueue("instance", IF begun THEN PadWork ELSE <<>>)
    /\ UNCHANGED <<graphs, batchVars, stream, answer, contents>>

AtBucket == IF pads THEN Padded ELSE inputs

(* A plausible bug: the end of the find is not checked. *)
UseUncaptured ==
    /\ pc = "select"
    /\ Goto("replay")
    /\ stream' = graphs[bucket]
    /\ UNCHANGED <<graphs, batchVars, answer, queue, contents>>

UseCaptured ==
    /\ pc = "select" /\ graphs[bucket] # "none"
    /\ Goto("replay")
    /\ stream' = graphs[bucket]
    /\ UNCHANGED <<graphs, batchVars, answer, queue, contents>>

(* The inputs are cloned, and the model is run on the clones, on the       *)
(* capture stream, which does not wait for the instance's.                 *)
BeginCapture ==
    /\ pc = "select" /\ graphs[bucket] = "none"
    /\ Goto("capture")
    /\ stream' \in Pool
    /\ Enqueue(stream', <<Work("clone", AtBucket, In(bucket)),
                          Work("warm up", In(bucket), Nothing)>>)
    /\ UNCHANGED <<graphs, batchVars, answer, contents>>

(* The loop goes on to a larger bucket, or gives up. *)
PinToEager ==
    /\ graphs' = [graphs EXCEPT ![bucket] = "failed"]
    /\ \/ Goto("eager") /\ UNCHANGED <<bucket, pads>>
       \/ /\ Goto("execute") /\ pads' = TRUE
          /\ bucket' \in {b \in Buckets : graphs'[b] # "failed"}
    /\ UNCHANGED <<inputs, answer, contents>>

(* An exception once the clones are queued, before they are waited for.    *)
WarmUpFails ==
    /\ pc = "select" /\ graphs[bucket] = "none"
    /\ stream' \in Pool
    /\ Enqueue(stream', <<Work("clone", AtBucket, In(bucket))>>)
    /\ PinToEager

EndCapture ==
    /\ pc = "capture" /\ Idle(stream)
    /\ Goto("replay")
    /\ graphs' = [graphs EXCEPT ![bucket] = stream]
    /\ UNCHANGED <<batchVars, stream, answer, queue, contents>>

(* A plausible bug: a failed capture is tried again, and never pinned. *)
CaptureFailsRetrying ==
    /\ pc = "capture" /\ Idle(stream)
    /\ Goto("select")
    /\ UNCHANGED <<graphs, batchVars, stream, answer, queue, contents>>

CaptureFails ==
    /\ pc = "capture" /\ Idle(stream)
    /\ PinToEager
    /\ UNCHANGED <<stream, queue>>

-----------------------------------------------------------------------------
(* ReplayCudaGraphEntry *)

(* cuda_graph_input_ready_event_: the graph's stream waits for what the    *)
(* instance's holds.                                                       *)
InputReady == <<Wait("instance", Len(queue["instance"]))>>
CopyInputs == IF Prestaged THEN <<>> ELSE <<Work("copy", AtBucket, In(bucket))>>
Replay == <<Work("replay", In(bucket), Out(bucket))>>

(* A plausible bug: the output event is left out. *)
LaunchUnordered ==
    LET launch == InputReady \o CopyInputs \o Replay
    IN  queue' = [queue EXCEPT ![stream] = @ \o launch]

(* The replay, and cuda_graph_output_ready_event_: the instance's stream   *)
(* waits for it.                                                           *)
Launch ==
    LET launch == InputReady \o CopyInputs \o Replay
        waits  == Wait(stream, Len(queue[stream]) + Len(launch))
    IN  queue' = [queue EXCEPT ![stream] = @ \o launch,
                               !["instance"] = Append(@, waits)]

ReplaySucceeds ==
    /\ pc = "replay"
    /\ Goto("respond") /\ answer' = "graph"
    /\ Launch
    /\ UNCHANGED <<graphs, batchVars, stream, contents>>

(* An exception, at the first copy or with nothing to copy at the replay,  *)
(* at the replay with the copies queued, or while slicing the outputs.     *)
ReplayFails ==
    /\ pc = "replay"
    /\ Goto("eager")
    /\ \/ "start" \in Failures /\ Enqueue(stream, InputReady)
       \/ "copy" \in Failures /\ Enqueue(stream, InputReady \o CopyInputs)
       \/ "slice" \in Failures /\ Launch
    /\ UNCHANGED <<graphs, batchVars, stream, answer, contents>>

-----------------------------------------------------------------------------
(* The eager run of Execute, ReadOutputTensors and the responses *)

RunEager ==
    /\ pc = "eager"
    /\ Goto("syncRun")
    /\ Enqueue("instance", <<Work("run", inputs, Eager)>>)
    /\ UNCHANGED <<graphs, batchVars, stream, answer, contents>>

RunThrows ==
    /\ pc = "eager"
    /\ Goto("idle")
    /\ \E begun \in BOOLEAN :
          Enqueue("instance", IF begun THEN <<Work("run", inputs, Eager)>> ELSE <<>>)
    /\ UNCHANGED <<graphs, batchVars, stream, answer, contents>>

SyncRun ==
    /\ pc = "syncRun" /\ Idle("instance")
    /\ Goto("respond") /\ answer' = "eager"
    /\ UNCHANGED <<graphs, batchVars, stream, queue, contents>>

CopyOutputs ==
    Enqueue("instance",
            <<Work("respond", IF answer = "graph" THEN Out(bucket) ELSE Eager, Response)>>)

Respond ==
    /\ pc = "respond"
    /\ Goto("finalize")
    /\ CopyOutputs
    /\ UNCHANGED <<graphs, batchVars, stream, answer, contents>>

(* No request asked for an output, so that there is nothing to copy. *)
RespondEmpty ==
    /\ pc = "respond"
    /\ Goto("idle") /\ answer' = "none"
    /\ UNCHANGED <<graphs, batchVars, stream, queue, contents>>

(* An error of ReadOutputTensors, before its gate. *)
RespondFails ==
    /\ pc = "respond"
    /\ Goto("idle") /\ answer' = "none"
    /\ CopyOutputs
    /\ UNCHANGED <<graphs, batchVars, stream, contents>>

(* A plausible bug: the responses are sent without the gate. *)
SendUngated ==
    /\ pc = "finalize"
    /\ Goto("idle")
    /\ UNCHANGED <<graphs, batchVars, stream, answer, queue, contents>>

(* The gate of ReadOutputTensors, and the responses. *)
Send ==
    /\ pc = "finalize" /\ Idle("instance")
    /\ Goto("idle")
    /\ UNCHANGED <<graphs, batchVars, stream, answer, queue, contents>>

-----------------------------------------------------------------------------
(* The device *)

Ready(s) == queue[s] # <<>> /\ Head(queue[s]).ahead = 0

CountDown(work, s) ==
    IF work.on = s /\ work.ahead > 0 THEN [work EXCEPT !.ahead = @ - 1] ELSE work

DeviceRuns(s) ==
    /\ Ready(s)
    /\ LET work == Head(queue[s])
           rest == [queue EXCEPT ![s] = Tail(@)]
       IN  /\ contents' = [contents EXCEPT ![work.to] = contents[work.from]]
           /\ queue' = [t \in Streams |->
                          [i \in DOMAIN rest[t] |-> CountDown(rest[t][i], s)]]
    /\ UNCHANGED <<pc, graphs, batchVars, stream, answer>>

Collect == \/ CollectCopies \/ CollectInPlace \/ CollectFails \/ SyncInputs

Execute == \/ NoGraph \/ UsePrestaged \/ PadRequestsUp \/ PadThrows \/ UseCaptured
           \/ BeginCapture \/ WarmUpFails \/ EndCapture \/ CaptureFails
           \/ ReplaySucceeds \/ ReplayFails \/ RunEager \/ RunThrows \/ SyncRun

Answer == \/ Respond \/ RespondEmpty \/ RespondFails \/ Send

Host == Collect \/ Execute \/ Answer

Next == Arrive \/ Host \/ \E s \in Streams : DeviceRuns(s)

Spec == Init /\ [][Next]_vars

(* The instance's thread runs on, and so does every stream of the device.  *)
FairSpec == Spec /\ WF_vars(Host) /\ \A s \in Streams : WF_vars(DeviceRuns(s))

-----------------------------------------------------------------------------
(* Properties *)

WorkType ==
    [what : {"wait", "collect", "pad", "clone", "warm up", "copy", "replay", "run",
             "respond"},
     from : Buffers, to : Buffers, on : Streams \cup {"none"}, ahead : Nat]

(* Type correctness of the streams and the host's state. *)
TypeOK ==
    /\ pc \in {"idle", "collect", "syncInputs", "execute", "select", "capture",
               "replay", "eager", "syncRun", "respond", "finalize"}
    /\ graphs \in [Buckets -> Pool \cup {"none", "failed"}]
    /\ bucket \in Buckets /\ stream \in Pool
    /\ inputs \in {Stage, Request, In(bucket)} /\ pads \in BOOLEAN
    /\ answer \in {"none", "graph", "eager"}
    /\ queue \in [Streams -> Seq(WorkType)]
    /\ contents \in [Buffers -> {"new", "old"}]

Conflict(a, b) ==
    \/ a.to # Nothing /\ a.to \in {b.from, b.to}
    \/ b.to # Nothing /\ b.to \in {a.from, a.to}

(* No two streams work on one buffer at a time, one of them writing it: a  *)
(* replay reads complete inputs, a response copies complete outputs, "so   *)
(* the next replay cannot race them".  The clones of a capture are left    *)
(* out: they race with the padding of the inputs they copy, and the replay *)
(* that follows copies these again.                                        *)
RaceFree ==
    \A s, t \in Streams :
       s # t /\ Ready(s) /\ Ready(t) =>
          \/ "clone" \in {Head(queue[s]).what, Head(queue[t]).what}
          \/ ~Conflict(Head(queue[s]), Head(queue[t]))

(* Every batch that is answered with outputs is answered with its own,     *)
(* complete, although nothing between the collection and the gate of       *)
(* ReadOutputTensors waits for the device on the graph path.               *)
AnswerIsOwn == pc = "idle" /\ answer # "none" => contents[Response] = "new"

(* The i-th piece of work of stream s waits for the l-th of the instance's. *)
Covered(s, i, l) ==
    \E k \in 1..(i - 1) : queue[s][k].on = "instance" /\ queue[s][k].ahead >= l

(* "Orders the instance stream (responder output copies + next batch's     *)
(* input collection) behind the graph replay": when a batch is collected,  *)
(* no copy or replay of a graph on the same buffers is left, unless it is  *)
(* a later one, which waits for the collection.                            *)
CollectionBehindGraph ==
    Ready("instance") /\ Head(queue["instance"]).what = "collect" =>
       \A s \in Pool : \A i \in DOMAIN queue[s] :
          /\ queue[s][i].what \in {"copy", "replay"}
          /\ Conflict(Head(queue["instance"]), queue[s][i])
          => Covered(s, i, 1)

(* Every batch comes to an end, whatever fails: the host leaves the bucket *)
(* loop although captures go on failing, and what it synchronizes with is  *)
(* done in time, on whichever streams it was queued.                       *)
Drains == pc # "idle" ~> pc = "idle"

-----------------------------------------------------------------------------
(* The inductive invariant behind RaceFree, with OrderedFailures           *)

(* Where the host is decides what it knows of the bucket in hand.          *)
HostInPlace ==
    /\ Prestaged => graphs[bucket] \in Pool
    /\ pc = "collect" => inputs # Request
    /\ pc \in {"select", "capture"} => ~Prestaged
    /\ pc = "select" => graphs[bucket] # "failed"
    /\ pc = "capture" => graphs[bucket] = "none"
    /\ pc = "replay" => graphs[bucket] = stream

(* The instance's stream writes static inputs only of captured buckets.    *)
Writable == {Stage, Padded, Eager, Response, Nothing}
              \cup {In(b) : b \in {c \in Buckets : graphs[c] \in Pool}}

InstanceWork ==
    \A i \in DOMAIN queue["instance"] : queue["instance"][i].to \in Writable

(* The work a pooled stream may hold: that of its own graphs, and of the   *)
(* capture in progress.                                                    *)
PoolWork(s, work) ==
    \/ work.what = "wait" /\ work.from = Nothing /\ work.to = Nothing
    \/ work.what = "clone"
    \/ /\ work.what = "warm up" /\ work.from = In(bucket) /\ work.to = Nothing
       /\ pc = "capture" /\ s = stream
    \/ /\ work.what = "copy" /\ work.from \in {Padded, Stage, Request, Earlier}
       /\ \E b \in Buckets : graphs[b] = s /\ work.to = In(b)
    \/ /\ work.what = "replay"
       /\ \E b \in Buckets : graphs[b] = s /\ work.from = In(b) /\ work.to = Out(b)

GraphWork == \A s \in Pool : \A i \in DOMAIN queue[s] : PoolWork(s, queue[s][i])

(* The j-th piece of work of the instance's stream waits for the i-th of   *)
(* stream s, which itself is behind what the instance's stream has before. *)
Fenced(s, i, j) ==
    /\ queue["instance"][j].on = s /\ queue["instance"][j].ahead >= i
    /\ \/ j = 1
       \/ \E k \in 1..(i - 1) :
             queue[s][k].on = "instance" /\ queue[s][k].ahead >= j - 1

(* The two events of a launch: every copy and replay that is queued is     *)
(* fenced off from the instance's stream on both sides.                    *)
LaunchesFenced ==
    \A s \in Pool : \A i \in DOMAIN queue[s] :
       queue[s][i].what \in {"copy", "replay"} =>
          \E j \in DOMAIN queue["instance"] : Fenced(s, i, j)

IndInv ==
    /\ TypeOK
    /\ HostInPlace
    /\ InstanceWork
    /\ GraphWork
    /\ LaunchesFenced

-----------------------------------------------------------------------------
(* The inductive invariant behind AnswerIsOwn, beside IndInv               *)

(* A buffer holds the data of the batch in hand, and nothing queued will   *)
(* overwrite it.                                                           *)
Settled(b) ==
    /\ contents[b] = "new"
    /\ \A s \in Streams : \A i \in DOMAIN queue[s] : queue[s][i].to # b

(* The l-th piece of work of the instance's stream is the last to write a  *)
(* buffer, and fills it from another.                                      *)
Fills(l, from, to) ==
    LET q == queue["instance"]
    IN  /\ l \in DOMAIN q
        /\ q[l].from = from /\ q[l].to = to /\ q[l].on = "none"
        /\ \A m \in DOMAIN q : m > l => q[m].to # to

Coming(from, to) ==
    Settled(to) \/ \E l \in DOMAIN queue["instance"] : Fills(l, from, to)

(* A clone writes into a bucket that is never replayed, or whose capture   *)
(* is in progress.                                                         *)
ClonesApart ==
    \A s \in Pool : \A i \in DOMAIN queue[s] :
       queue[s][i].what = "clone" =>
          \E b \in Buckets :
             /\ queue[s][i].to = In(b)
             /\ graphs[b] = "failed" \/ (pc = "capture" /\ s = stream /\ b = bucket)

(* Whose outputs answer the batch is known once it has been run.           *)
Answering == {"respond", "finalize"}
AnswerKnown ==
    /\ pc \notin Answering \cup {"idle"} => answer = "none"
    /\ pc \in Answering => answer # "none"
    /\ pc \in Answering /\ answer = "graph" => graphs[bucket] = stream

(* The inputs are the batch's from the synchronization on, and so is their *)
(* padding, by the time what is queued before it is done.                  *)
Running == {"execute", "select", "capture", "replay", "eager", "syncRun"} \cup Answering
InputsOwn ==
    /\ Settled(Request)
    /\ pc = "syncInputs" =>
          Settled(inputs) \/ Fills(Len(queue["instance"]), Request, inputs)
    /\ pc \in Running => Settled(inputs)
PaddingOwn ==
    /\ pc \in {"select", "capture", "replay"} \/ (pc \in Answering /\ answer = "graph")
    /\ pads /\ ~Prestaged
    => Coming(inputs, Padded)

(* The copy of the batch in hand is queued, behind all the work that may   *)
(* still change what it reads or what it writes.                           *)
CopyQueued(i) ==
    LET q == queue[stream]
    IN  /\ i \in DOMAIN q
        /\ q[i].from = AtBucket /\ q[i].to = In(bucket)
        /\ \A l \in DOMAIN queue["instance"] :
              queue["instance"][l].to \in {Nothing, Response} \/ Covered(stream, i, l)

(* The replay of the batch in hand is the last work of its stream, on      *)
(* inputs that are the batch's or are about to be; or it is done.          *)
ReplayOwn ==
    LET q == queue[stream]
    IN  \/ Settled(Out(bucket))
        \/ /\ q # <<>>
           /\ q[Len(q)].what = "replay"
           /\ q[Len(q)].from = In(bucket) /\ q[Len(q)].to = Out(bucket)
           /\ Settled(In(bucket)) \/ (~Prestaged /\ CopyQueued(Len(q) - 1))

Source == IF answer = "graph" THEN Out(bucket) ELSE Eager

(* The outputs are the batch's, and the response is, once its copies, the  *)
(* last work of the instance's stream, are done.                           *)
OutputsOwn ==
    /\ pc = "syncRun" => Coming(inputs, Eager)
    /\ pc \in Answering => IF answer = "graph" THEN ReplayOwn ELSE Settled(Eager)
    /\ pc = "finalize" =>
          Settled(Response) \/ Fills(Len(queue["instance"]), Source, Response)
    /\ pc = "idle" /\ answer # "none" => Settled(Response)

OwnInv == ClonesApart /\ AnswerKnown /\ InputsOwn /\ PaddingOwn /\ OutputsOwn

=============================================================================
