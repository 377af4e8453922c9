----------------------------- MODULE RequestCycle -----------------------------
(***************************************************************************)
(* One request cycle of a model instance: ProcessRequests with the calls   *)
(* it makes (model_instance_state.cc), from the batch Triton hands over    *)
(* to the release of its requests, with every call that can fail failing.  *)
(* GraphCache models what the graph path does with the inputs; here it is  *)
(* the outputs and the fate of each request that count.                    *)
(*                                                                         *)
(* The work queued on the instance's CUDA stream is kept as the set of the *)
(* kinds of work that may still be running.  The device finishes work at   *)
(* any time, and a synchronization waits for all of it.                    *)
(***************************************************************************)
EXTENDS Integers, Sequences

CONSTANTS
    Models,       \* the models of interest, one chosen in Init
    Rows,         \* leading dimensions a request's first input may have
    MaxRequests   \* bound on the requests of a batch

(* kind: KIND_GPU, KIND_CPU, or KIND_MODEL on a host with CUDA devices.    *)
(* graph: the CUDA graph path is enabled.  max: max_batch_size.            *)
(* scales[j]: whether output j has one row per request, as opposed to a    *)
(* single one.  declared: the output positions the configuration refers    *)
(* to, counted from 1.  stateful: one of them is a sequence state.         *)
Model == [kind : {"GPU", "CPU", "MODEL"}, graph : BOOLEAN, max : Nat,
          scales : Seq(BOOLEAN), declared : SUBSET Int, stateful : BOOLEAN]

ASSUME CycleAssumption ==
    /\ MaxRequests \in Nat
    /\ Rows \subseteq Nat
    /\ Models \subseteq Model
    /\ \A m \in Models : m.graph => m.kind = "GPU"

VARIABLES
    model,          \* the model configuration
    pc,             \* how far ProcessRequests has got
    requests,       \* the batch: the rows of each request, or Null
    counted, total, \* the counting loop, and total_batch_size
    open,           \* the requests whose response is not nullptr
    allFailed,      \* all_response_failed
    cudaCopy,       \* cuda_copy
    outputs,        \* output_tensors: which run pushed which output
    inFlight,       \* kinds of work the stream may still hold
    sent,           \* per request, the final responses sent for it
    advanced,       \* the requests whose sequence state was updated
    released,       \* the requests given back to Triton
    reported,       \* per request, what its statistics say
    batchReported   \* whether batch statistics were reported

countVars == <<counted, total>>
answerVars == <<open, allFailed, sent>>
doneVars == <<advanced, released, reported, batchReported>>
vars == <<model, pc, requests, countVars, answerVars, cudaCopy, outputs,
          inFlight, doneVars>>

Null == -1
Slots == 1..MaxRequests
Held == 1..Len(requests)
Batches == UNION {[1..n -> Rows \cup {Null}] : n \in Slots}
Work == {"event", "collect", "kernels", "respond"}

Init ==
    /\ model \in Models
    /\ pc = "idle"
    /\ requests = <<>> /\ counted = 0 /\ total = 0
    /\ open = {} /\ allFailed = FALSE /\ sent = <<>>
    /\ cudaCopy = FALSE /\ outputs = <<>> /\ inFlight = {}
    /\ advanced = {} /\ released = {} /\ reported = <<>> /\ batchReported = FALSE

-----------------------------------------------------------------------------
(* Answers *)

Answered(S, answer) ==
    [i \in Held |-> IF i \in S THEN Append(sent[i], answer) ELSE sent[i]]

(* The error goes to the requests of S, whose responses become nullptr. *)
Refuse(S) ==
    /\ open' = open \ S
    /\ sent' = Answered(S, "error")

(* RESPOND_ALL_AND_SET_TRUE_IF_ERROR, on an error. *)
FailAll == Refuse(open) /\ allFailed' = TRUE

(* ... and on success. *)
KeepAnswers == UNCHANGED answerVars

Goto(label) == pc' = label

-----------------------------------------------------------------------------
(* ProcessRequests: the batch *)

Receive(batch) ==
    /\ pc = "idle"
    /\ Goto("received")
    /\ requests' = batch /\ counted' = 0 /\ total' = 0
    /\ open' = {} /\ allFailed' = FALSE
    /\ sent' = [i \in DOMAIN batch |-> <<>>]
    /\ cudaCopy' = FALSE /\ outputs' = <<>>
    /\ advanced' = {} /\ released' = {} /\ batchReported' = FALSE
    /\ reported' = [i \in DOMAIN batch |-> "none"]
    /\ UNCHANGED <<model, inFlight>>

(* RequestsRespondWithError answers and releases every request. *)
RejectNull ==
    LET present == {i \in Held : requests[i] # Null}
    IN  /\ pc = "received"
        /\ present # Held
        /\ Goto("idle")
        /\ sent' = Answered(present, "error")
        /\ released' = present
        /\ UNCHANGED <<model, requests, countVars, open, allFailed, cudaCopy,
                       outputs, inFlight, advanced, reported, batchReported>>

(* Making a response fails for any subset of the requests. *)
CreateResponses ==
    /\ pc = "received"
    /\ \A i \in Held : requests[i] # Null
    /\ Goto("count")
    /\ open' \in SUBSET Held
    /\ UNCHANGED <<model, requests, countVars, allFailed, sent, cudaCopy,
                   outputs, inFlight, doneVars>>

(* A plausible bug: the batch dimension taken for a last index. *)
CountRowsFromZero ==
    /\ pc = "count" /\ counted < Len(requests)
    /\ counted' = counted + 1
    /\ total' = total + (IF model.max > 0 THEN requests[counted + 1] - 1 ELSE 1)
    /\ KeepAnswers
    /\ UNCHANGED <<model, pc, requests, cudaCopy, outputs, inFlight, doneVars>>

(* One request of the counting loop ... *)
CountRows ==
    /\ pc = "count" /\ counted < Len(requests)
    /\ counted' = counted + 1
    /\ total' = total + (IF model.max > 0 THEN requests[counted + 1] ELSE 1)
    /\ KeepAnswers
    /\ UNCHANGED <<model, pc, requests, cudaCopy, outputs, inFlight, doneVars>>

(* ... whose first input may be unavailable. *)
CountFails ==
    /\ pc = "count" /\ counted < Len(requests)
    /\ model.max > 0
    /\ counted' = counted + 1
    /\ FailAll
    /\ UNCHANGED <<model, pc, requests, total, cudaCopy, outputs, inFlight, doneVars>>

(* A plausible bug: a batch of one row taken for an empty one. *)
ReturnEarlyOnSingle ==
    /\ pc = "count" /\ counted = Len(requests)
    /\ total <= 1
    /\ Goto("idle")
    /\ KeepAnswers
    /\ UNCHANGED <<model, requests, countVars, cudaCopy, outputs, inFlight, doneVars>>

(* "If there are no valid payloads then no need to run the inference." *)
ReturnEarly ==
    /\ pc = "count" /\ counted = Len(requests)
    /\ total = 0
    /\ Goto("idle")
    /\ KeepAnswers
    /\ UNCHANGED <<model, requests, countVars, cudaCopy, outputs, inFlight, doneVars>>

Oversized == total # 1 /\ total > model.max

CheckBatchSize ==
    /\ pc = "count" /\ counted = Len(requests)
    /\ total # 0
    /\ Goto("inputStart")
    /\ IF ~allFailed /\ Oversized THEN FailAll ELSE KeepAnswers
    /\ UNCHANGED <<model, requests, countVars, cudaCopy, outputs, inFlight, doneVars>>

-----------------------------------------------------------------------------
(* Timestamps.  GetCudaStreamByInstanceKind: a KIND_MODEL instance uses    *)
(* the first of its streams, one of KIND_CPU has none.                     *)

HasStream == model.kind # "CPU"

(* The clock, or an event recorded on the stream, which may fail. *)
Timestamp(from, to, event) ==
    /\ pc = from
    /\ Goto(to)
    /\ \/ inFlight' = (IF event THEN inFlight \cup {"event"} ELSE inFlight)
          /\ KeepAnswers
       \/ event /\ FailAll /\ UNCHANGED inFlight
    /\ UNCHANGED <<model, requests, countVars, cudaCopy, outputs, doneVars>>

RecordInputStart == Timestamp("inputStart", "collect", HasStream)
RecordInferStart == Timestamp("inferStart", "run", HasStream)

(* A KIND_MODEL instance reads the clock. *)
RecordOutputStart == Timestamp("outputStart", "read", model.kind = "GPU")

-----------------------------------------------------------------------------
(* SetInputTensors *)

SkipWhenAllFailed(from, to) ==
    /\ pc = from /\ allFailed
    /\ Goto(to)
    /\ UNCHANGED <<model, requests, countVars, answerVars, cudaCopy, outputs,
                   inFlight, doneVars>>

SkipInputs == SkipWhenAllFailed("collect", "inferStart")

(* Asynchronous work is queued only on a stream. *)
Queue(work, some) ==
    /\ some => HasStream
    /\ inFlight' = IF some THEN inFlight \cup {work} ELSE inFlight

(* The error of a request goes to that request.  A failing batch input is  *)
(* answered to all of them, but all_response_failed stays false.  Finalize *)
(* tells whether copies were queued.                                       *)
CollectInputs ==
    /\ pc = "collect" /\ ~allFailed
    /\ Goto("syncInputs")
    /\ \E S \in SUBSET open : Refuse(S)
    /\ \E copies \in BOOLEAN : Queue("collect", copies) /\ cudaCopy' = copies
    /\ UNCHANGED <<model, requests, countVars, allFailed, outputs, doneVars>>

(* An error returned before Finalize, with payloads collected or not. *)
CollectFails ==
    /\ pc = "collect" /\ ~allFailed
    /\ Goto("syncInputs")
    /\ FailAll
    /\ \E copies \in BOOLEAN : Queue("collect", copies)
    /\ UNCHANGED <<model, requests, countVars, cudaCopy, outputs, doneVars>>

SyncInputs ==
    /\ pc = "syncInputs"
    /\ Goto("inferStart")
    /\ inFlight' = IF cudaCopy THEN {} ELSE inFlight
    /\ cudaCopy' = FALSE
    /\ UNCHANGED <<model, requests, countVars, answerVars, outputs, doneVars>>

-----------------------------------------------------------------------------
(* Execute *)

SkipRun == SkipWhenAllFailed("run", "verify")

Pushed(by, n) == [j \in 1..n |-> [by |-> by, nth |-> j]]

(* narrow(0, 0, r) needs r rows: an output of a single row has them only   *)
(* when r is 1, or when the batch fills its bucket and nothing is sliced.  *)
Sliced(padded) ==
    {j \in DOMAIN model.scales : padded /\ ~model.scales[j] /\ total > 1}

(* ReplayCudaGraphEntry returns without waiting: the instance's stream is  *)
(* made to wait for the replay instead.                                    *)
ReplayGraph ==
    /\ pc = "run" /\ ~allFailed /\ model.graph
    /\ \E padded \in BOOLEAN : Sliced(padded) = {}
    /\ Goto("verify")
    /\ outputs' = Pushed("graph", Len(model.scales))
    /\ Queue("kernels", TRUE)
    /\ UNCHANGED <<model, requests, countVars, answerVars, cudaCopy, doneVars>>

(* No graph for this batch, or its replay fails: before any output, or at  *)
(* the first that cannot be sliced, with the outputs before it pushed.     *)
ReplayFails ==
    /\ pc = "run" /\ ~allFailed /\ model.graph
    /\ Goto("eager")
    /\ \/ outputs' = <<>> /\ \E begun \in BOOLEAN : Queue("kernels", begun)
       \/ \E j \in Sliced(TRUE) :
             /\ \A k \in Sliced(TRUE) : j <= k
             /\ outputs' = Pushed("graph", j - 1)
             /\ Queue("kernels", TRUE)
    /\ UNCHANGED <<model, requests, countVars, answerVars, cudaCopy, doneVars>>

Eager == pc = "eager" \/ (pc = "run" /\ ~allFailed /\ ~model.graph)

(* The eager run pushes behind what is there.  It waits for its kernels if *)
(* the inputs' device is a GPU, which that of KIND_MODEL is not.           *)
RunEager ==
    /\ Eager
    /\ Goto("verify")
    /\ outputs' = outputs \o Pushed("eager", Len(model.scales))
    /\ IF model.kind = "GPU" THEN inFlight' = {}
       ELSE \E left \in BOOLEAN : Queue("kernels", left)
    /\ UNCHANGED <<model, requests, countVars, answerVars, cudaCopy, doneVars>>

(* A plausible bug: the responses are answered but not reset. *)
RunThrowsKeepingResponses ==
    /\ Eager \/ (pc = "run" /\ ~allFailed)
    /\ Goto("verify")
    /\ sent' = Answered(open, "error")
    /\ \E begun \in BOOLEAN : Queue("kernels", begun)
    /\ UNCHANGED <<model, requests, countVars, open, allFailed, cudaCopy, outputs,
                   doneVars>>

(* An exception, of the padding or of the eager run, is caught: every      *)
(* response gets the error, but all_response_failed stays false.           *)
RunThrows ==
    /\ Eager \/ (pc = "run" /\ ~allFailed)
    /\ Goto("verify")
    /\ Refuse(open)
    /\ \E begun \in BOOLEAN : Queue("kernels", begun)
    /\ UNCHANGED <<model, requests, countVars, allFailed, cudaCopy, outputs, doneVars>>

Missing == {d \in model.declared : d < 1 \/ d > Len(outputs)}

(* A plausible bug: any output will do. *)
VerifySomeOutput ==
    /\ pc = "verify"
    /\ Goto("outputStart")
    /\ IF ~allFailed /\ outputs = <<>> THEN FailAll ELSE KeepAnswers
    /\ UNCHANGED <<model, requests, countVars, cudaCopy, outputs, inFlight, doneVars>>

VerifyOutputs ==
    /\ pc = "verify"
    /\ Goto("outputStart")
    /\ IF ~allFailed /\ Missing # {} THEN FailAll ELSE KeepAnswers
    /\ UNCHANGED <<model, requests, countVars, cudaCopy, outputs, inFlight, doneVars>>

-----------------------------------------------------------------------------
(* ReadOutputTensors, the answers, and the release *)

SkipOutputs == SkipWhenAllFailed("read", "send")

(* The sequence state of some requests is updated, output by output. *)
Advance(S) ==
    /\ advanced' = IF model.stateful THEN S ELSE {}
    /\ UNCHANGED <<released, reported, batchReported>>

(* A plausible bug: an error of StateUpdate is logged and passed over. *)
PlaceOutputsLoggingStates ==
    /\ pc = "read" /\ ~allFailed
    /\ Goto("finalize")
    /\ \E S \in SUBSET open : Refuse(S)
    /\ \E S \in SUBSET open : Advance(S)
    /\ \E copies \in BOOLEAN : Queue("respond", copies) /\ cudaCopy' = copies
    /\ UNCHANGED <<model, requests, countVars, allFailed, outputs>>

(* The responder answers a request whose output or state it cannot place,  *)
(* before or after its state was updated.                                  *)
PlaceOutputs ==
    /\ pc = "read" /\ ~allFailed
    /\ Goto("finalize")
    /\ \E S \in SUBSET open, T \in SUBSET open :
          Refuse(S) /\ Advance((open \ S) \cup T)
    /\ \E copies \in BOOLEAN : Queue("respond", copies) /\ cudaCopy' = copies
    /\ UNCHANGED <<model, requests, countVars, allFailed, outputs>>

(* An error returned before the Finalize gate, with the states of some     *)
(* requests updated already.                                               *)
ReadFails ==
    /\ pc = "read" /\ ~allFailed
    /\ Goto("send")
    /\ \E S \in SUBSET open : Advance(S)
    /\ FailAll
    /\ \E copies \in BOOLEAN : Queue("respond", copies)
    /\ UNCHANGED <<model, requests, countVars, cudaCopy, outputs>>

(* A plausible bug: the gate trusts the synchronization in Execute. *)
FinalizeWithoutGate ==
    /\ pc = "finalize"
    /\ Goto("send")
    /\ UNCHANGED <<model, requests, countVars, answerVars, cudaCopy, outputs, doneVars,
                   inFlight>>

(* The gate: with copies queued and the stream still busy, wait for it. *)
FinalizeOutputs ==
    /\ pc = "finalize"
    /\ Goto("send")
    /\ inFlight' = IF cudaCopy THEN {} ELSE inFlight
    /\ UNCHANGED <<model, requests, countVars, answerVars, cudaCopy, outputs, doneVars>>

SendResponses ==
    /\ pc = "send"
    /\ Goto("report")
    /\ sent' = Answered(open, "ok")
    /\ UNCHANGED <<model, requests, countVars, open, allFailed, cudaCopy, outputs,
                   inFlight, doneVars>>

(* A plausible bug: a request's success taken from the batch's. *)
ReportByBatch ==
    /\ pc = "report"
    /\ Goto("idle")
    /\ reported' = [i \in Held |-> IF allFailed THEN "failure" ELSE "success"]
    /\ released' = Held
    /\ batchReported' = ~allFailed
    /\ UNCHANGED <<model, requests, countVars, answerVars, advanced, cudaCopy, outputs,
                   inFlight>>

ReportAndRelease ==
    /\ pc = "report"
    /\ Goto("idle")
    /\ reported' = [i \in Held |-> IF i \in open THEN "success" ELSE "failure"]
    /\ released' = Held
    /\ batchReported' = ~allFailed
    /\ UNCHANGED <<model, requests, countVars, answerVars, advanced, cudaCopy, outputs,
                   inFlight>>

-----------------------------------------------------------------------------
(* The device finishes some of the work queued on the stream. *)
DeviceFinishes ==
    /\ \E work \in inFlight : inFlight' = inFlight \ {work}
    /\ UNCHANGED <<model, pc, requests, countVars, answerVars, cudaCopy, outputs,
                   doneVars>>

Admit == \/ RejectNull \/ CreateResponses \/ CountRows \/ CountFails
         \/ ReturnEarly \/ CheckBatchSize

Collect == \/ RecordInputStart \/ SkipInputs \/ CollectInputs \/ CollectFails
           \/ SyncInputs

Run == \/ RecordInferStart \/ SkipRun \/ ReplayGraph \/ ReplayFails \/ RunEager
       \/ RunThrows \/ VerifyOutputs

Respond == \/ RecordOutputStart \/ SkipOutputs \/ PlaceOutputs \/ ReadFails
           \/ FinalizeOutputs \/ SendResponses \/ ReportAndRelease

ProcessRequests == Admit \/ Collect \/ Run \/ Respond

Next == \/ \E batch \in Batches : Receive(batch)
        \/ ProcessRequests
        \/ DeviceFinishes

Spec == Init /\ [][Next]_vars

(* The thread that executes the instance keeps running. *)
FairSpec == Spec /\ WF_vars(ProcessRequests)

-----------------------------------------------------------------------------
(* Properties *)

(* Type correctness of the request cycle. *)
TypeOK ==
    /\ model \in Models
    /\ pc \in {"idle", "received", "count", "inputStart", "collect", "syncInputs",
               "inferStart", "run", "eager", "verify", "outputStart", "read",
               "finalize", "send", "report"}
    /\ requests \in Seq(Rows \cup {Null})
    /\ Len(requests) <= MaxRequests
    /\ counted \in 0..Len(requests) /\ total \in Nat
    /\ open \subseteq Held
    /\ allFailed \in BOOLEAN /\ cudaCopy \in BOOLEAN
    /\ outputs \in Seq([by : {"graph", "eager"}, nth : Nat])
    /\ inFlight \subseteq Work
    /\ sent \in [Held -> Seq({"error", "ok"})]
    /\ advanced \subseteq Held /\ released \subseteq Held
    /\ reported \in [Held -> {"none", "success", "failure"}]
    /\ batchReported \in BOOLEAN

(* The statistics of a request tell the truth: success is reported for the *)
(* requests that were answered with a success, and for no other, although  *)
(* the code infers it from the response pointer.                           *)
StatisticsTruthful ==
    \A i \in Held : reported[i] # "none" =>
       (reported[i] = "success" <=> sent[i] = <<"ok">>)

(* A batch is reported as executed, and a request as served, only if every *)
(* output the configuration refers to was produced, although an exception  *)
(* in Execute leaves all_response_failed false.                            *)
SuccessMeansRan ==
    batchReported \/ (\E i \in Held : sent[i] = <<"ok">>) => Missing = {}

(* A sequence state moves on only from a run that left every output, and   *)
(* it has moved on for every request that is answered with a success,      *)
(* although each is updated before a later output may refuse the request   *)
(* or the batch.                                                           *)
StateFollowsSuccess ==
    /\ advanced # {} => Missing = {}
    /\ model.stateful => {i \in Held : sent[i] = <<"ok">>} \subseteq advanced

(* A success is sent only when the copies into the response's buffers are  *)
(* complete, the replay being asynchronous: "the responder's Finalize gate *)
(* in ReadOutputTensors confirms completion before responses send".        *)
SuccessIsComplete ==
    [][SendResponses /\ cudaCopy /\ open # {} => "respond" \notin inFlight]_vars

(* The only batch that is returned to Triton with requests unreleased is   *)
(* one without a row, and nothing in it was served.                        *)
OnlyRowlessBatchesStranded ==
    pc = "idle" /\ (\E i \in Held : requests[i] # Null /\ i \notin released) =>
       total = 0 /\ \A i \in Held : sent[i] # <<"ok">>

(* Every request for which a response could be made is answered, whatever  *)
(* fails, if its batch holds a row.                                        *)
AnswersArrive ==
    \A i \in Slots :
       (pc = "count" /\ counted = Len(requests) /\ total # 0 /\ i \in open)
          ~> (i \in Held /\ sent[i] # <<>>)

(* "If something does go wrong in processing a particular request then we  *)
(* send an error response just for the specific request", having accepted  *)
(* ownership of all of them: none is left neither released nor answered.   *)
EveryRequestReleased ==
    pc = "idle" => \A i \in Held : requests[i] # Null => i \in released

(* "We don't need an explicit CUDA syncrhonization here since we have      *)
(* already synchronized the stream in the ReadOutputTensors function": no  *)
(* copy out of a request's input buffers is running when it is released.   *)
InputsIdleAtRelease ==
    pc = "idle" /\ released # {} => "collect" \notin inFlight

(* "On success appends the cloned model outputs to output_tensors": what a *)
(* failed replay leaves there does not displace the outputs of the run     *)
(* that answers, and output d is read from the d-th output of the model.   *)
OutputsInPlace ==
    (\E i \in Held : sent[i] = <<"ok">>) =>
       \A d \in model.declared : outputs[d].nth = d

(* The contract of the backend, slot by slot. *)
StateOf(i) ==
    IF i \notin Held \/ i \in released THEN "out"
    ELSE IF requests[i] = Null THEN "out"
    ELSE IF pc = "idle" THEN "lost"
    ELSE IF sent[i] = <<"error">> THEN "error"
    ELSE IF sent[i] = <<"ok">> THEN "ok"
    ELSE IF sent[i] # <<>> THEN "answered twice"
    ELSE IF pc = "received" \/ i \in open THEN "held" ELSE "mute"

ContractState == [i \in Slots |-> StateOf(i)]

Contract == INSTANCE RequestContract WITH state <- ContractState

(* The request cycle keeps the contract: no second answer, no answer after *)
(* the release, no success beside a batch given back.                      *)
KeepsContract == Contract!Spec

-----------------------------------------------------------------------------
(* The inductive invariant behind the properties above *)

(* A response is non-null exactly as long as its request may still be      *)
(* answered, or was answered with the success.                             *)
AnswersFollowResponses ==
    /\ pc # "idle" => released = {}
    /\ pc = "received" => ~allFailed /\ open = {} /\ \A i \in Held : sent[i] = <<>>
    /\ pc \notin {"idle", "received"} =>
          \A i \in Held :
             /\ requests[i] # Null
             /\ i \in open => sent[i] = IF pc = "report" THEN <<"ok">> ELSE <<>>
             /\ i \notin open => sent[i] \in {<<>>, <<"error">>}

(* Whoever gave up has answered everyone. *)
FailedAnswersAll == allFailed => open = {}

(* Past the check of the output indices there is one of each. *)
OutputsChecked ==
    pc \in {"outputStart", "read", "finalize", "send", "report"} /\ ~allFailed =>
       Missing = {}

(* Past the outputs, the states of the open requests are those of the run. *)
StatesUpdated ==
    /\ advanced # {} => Missing = {}
    /\ pc \notin {"idle", "finalize", "send", "report"} => advanced = {}
    /\ pc \in {"finalize", "send", "report"} /\ model.stateful => open \subseteq advanced

(* Whoever is about to be answered has no copy of its outputs pending. *)
GateHeld == pc = "send" /\ cudaCopy /\ open # {} => "respond" \notin inFlight

(* Statistics are reported as the batch is given back. *)
ReportedAtRelease ==
    /\ pc # "idle" => ~batchReported /\ \A i \in Held : reported[i] = "none"
    /\ pc = "idle" =>
          \A i \in Held :
             /\ sent[i] \in {<<>>, <<"error">>, <<"ok">>}
             /\ sent[i] = <<"ok">> => i \in released

IndInv ==
    /\ TypeOK
    /\ AnswersFollowResponses
    /\ FailedAnswersAll
    /\ OutputsChecked
    /\ StatesUpdated
    /\ GateHeld
    /\ ReportedAtRelease
    /\ StatisticsTruthful
    /\ SuccessMeansRan
    /\ StateFollowsSuccess
    /\ OnlyRowlessBatchesStranded

=============================================================================
