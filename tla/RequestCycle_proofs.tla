-------------------------- MODULE RequestCycle_proofs --------------------------
(***************************************************************************)
(* Machine-checked proofs about RequestCycle, for every set of models and  *)
(* every bound on the batches: IndInv is inductive, the safety properties  *)
(* follow from it, and every step is a step of RequestContract.            *)
(***************************************************************************)
EXTENDS RequestCycle, TLAPS

-----------------------------------------------------------------------------
(* Facts about the operators the model is built from *)

(* A batch is a nonempty sequence of requests within the bound. *)
LEMMA BatchSeq ==
    ASSUME NEW batch \in Batches
    PROVE  /\ batch \in Seq(Rows \cup {Null})
           /\ Len(batch) \in Nat /\ Len(batch) <= MaxRequests
           /\ DOMAIN batch = 1..Len(batch)
<1>1. PICK n \in Slots : batch \in [1..n -> Rows \cup {Null}]
  BY DEF Batches
<1>2. n \in Nat /\ n <= MaxRequests
  BY CycleAssumption DEF Slots
<1>. QED  BY <1>1, <1>2

(* Answering some requests appends to what was sent for them alone. *)
LEMMA AnsweredSent ==
    ASSUME sent \in [Held -> Seq({"error", "ok"})], NEW STATE S,
           NEW answer \in {"error", "ok"}
    PROVE  /\ Answered(S, answer) \in [Held -> Seq({"error", "ok"})]
           /\ \A i \in Held : i \notin S => Answered(S, answer)[i] = sent[i]
           /\ \A i \in Held : i \in S /\ sent[i] = <<>> =>
                 Answered(S, answer)[i] = <<answer>>
<1>1. \A i \in Held : Append(sent[i], answer) \in Seq({"error", "ok"})
  OBVIOUS
<1>2. Append(<<>>, answer) = <<answer>>
  OBVIOUS
<1>. QED  BY <1>1, <1>2 DEF Answered

(* Refusing a null batch answers each of its requests at most once. *)
LEMMA RejectNullSent ==
    ASSUME RejectNull, \A i \in Held : sent[i] = <<>>
    PROVE  \A i \in Held' : sent'[i] \in {<<>>, <<"error">>}
<1>1. Append(<<>>, "error") = <<"error">>
  OBVIOUS
<1>2. Held' = Held
  BY DEF RejectNull, Held
<1>. QED  BY <1>1, <1>2 DEF RejectNull, Answered

(* The outputs a run pushes are well formed. *)
LEMMA PushedSeq ==
    ASSUME NEW by \in {"graph", "eager"}, NEW n \in Nat
    PROVE  Pushed(by, n) \in Seq([by : {"graph", "eager"}, nth : Nat])
BY DEF Pushed

(* A timestamp records an event, or refuses everyone. *)
LEMMA TimestampFacts ==
    ASSUME RecordInputStart \/ RecordInferStart \/ RecordOutputStart
    PROVE  /\ RecordInputStart => pc = "inputStart" /\ pc' = "collect"
           /\ RecordInferStart => pc = "inferStart" /\ pc' = "run"
           /\ RecordOutputStart => pc = "outputStart" /\ pc' = "read"
           /\ KeepAnswers \/ FailAll
           /\ inFlight' = inFlight \/ inFlight' = inFlight \cup {"event"}
           /\ UNCHANGED <<model, requests, countVars, cudaCopy, outputs, doneVars>>
BY DEF RecordInputStart, RecordInferStart, RecordOutputStart, Timestamp, Goto

-----------------------------------------------------------------------------
(* The invariant, group by group *)

(* No step leaves ill typed state. *)
LEMMA TypeStep ==
    ASSUME TypeOK, AnswersFollowResponses, [Next]_vars
    PROVE  TypeOK'
<1>. USE DEF TypeOK, countVars, answerVars, doneVars, Goto, Work
<1>b. ASSUME NEW STATE S, Refuse(S), UNCHANGED requests
      PROVE  open' \subseteq Held' /\ sent' \in [Held' -> Seq({"error", "ok"})]
  BY <1>b, AnsweredSent DEF Refuse, Held
<1>c. ASSUME FailAll, UNCHANGED requests
      PROVE  /\ open' \subseteq Held' /\ sent' \in [Held' -> Seq({"error", "ok"})]
             /\ allFailed' \in BOOLEAN
  BY <1>b, <1>c DEF FailAll
<1>d. ASSUME KeepAnswers, UNCHANGED requests
      PROVE  /\ open' \subseteq Held' /\ sent' \in [Held' -> Seq({"error", "ok"})]
             /\ allFailed' \in BOOLEAN
  BY <1>d DEF KeepAnswers, Held
<1>e. ASSUME UNCHANGED <<requests, doneVars>>
      PROVE  /\ released' \subseteq Held' /\ batchReported' \in BOOLEAN
             /\ reported' \in [Held' -> {"none", "success", "failure"}]
             /\ advanced' \subseteq Held'
  BY <1>e DEF Held
<1>g. ASSUME UNCHANGED requests, NEW S \in SUBSET open, Advance(S)
      PROVE  /\ released' \subseteq Held' /\ batchReported' \in BOOLEAN
             /\ reported' \in [Held' -> {"none", "success", "failure"}]
             /\ advanced' \subseteq Held'
  BY <1>g DEF Advance, Held
<1>f. ASSUME NEW work \in Work, NEW some, Queue(work, some)
      PROVE  inFlight' \subseteq Work
  BY <1>f DEF Queue
<1>1. ASSUME NEW batch \in Batches, Receive(batch)
      PROVE  TypeOK'
  <2>1. Held' = DOMAIN batch /\ Len(batch) \in Nat
    BY <1>1, BatchSeq DEF Receive, Held
  <2>2. /\ sent' \in [Held' -> Seq({"error", "ok"})]
        /\ reported' \in [Held' -> {"none", "success", "failure"}]
    BY <1>1, <2>1 DEF Receive
  <2>3. requests' \in Seq(Rows \cup {Null}) /\ Len(requests') <= MaxRequests
    BY <1>1, BatchSeq DEF Receive
  <2>4. outputs' \in Seq([by : {"graph", "eager"}, nth : Nat])
    BY <1>1 DEF Receive
  <2>5. counted' \in 0..Len(requests') /\ total' \in Nat /\ pc' = "received"
    BY <1>1, BatchSeq DEF Receive
  <2>6. /\ open' \subseteq Held' /\ released' \subseteq Held' /\ model' \in Models
        /\ allFailed' \in BOOLEAN /\ cudaCopy' \in BOOLEAN
        /\ batchReported' \in BOOLEAN /\ inFlight' \subseteq Work
        /\ advanced' \subseteq Held'
    BY <1>1 DEF Receive
  <2>. QED  BY <2>2, <2>3, <2>4, <2>5, <2>6
<1>2. CASE RejectNull
  BY <1>2, AnsweredSent DEF RejectNull, Held
<1>3. CASE CreateResponses
  BY <1>3 DEF CreateResponses, Held
<1>4. CASE CountRows \/ CountFails
  <2>1. counted' \in 0..Len(requests) /\ total' \in Nat
    <3>1. counted + 1 \in 1..Len(requests) /\ counted + 1 \in 0..Len(requests)
      BY <1>4 DEF CountRows, CountFails
    <3>2. requests[counted + 1] \in Rows \cup {Null}
      BY <3>1
    <3>3. requests[counted + 1] # Null
      BY <1>4, <3>1 DEF CountRows, CountFails, AnswersFollowResponses, Held
    <3>4. requests[counted + 1] \in Nat
      BY <3>2, <3>3, CycleAssumption
    <3>. QED  BY <1>4, <3>1, <3>4 DEF CountRows, CountFails
  <2>. QED  BY <1>4, <1>c, <1>d, <1>e, <2>1 DEF CountRows, CountFails
<1>5. CASE ReturnEarly \/ CheckBatchSize \/ VerifyOutputs
  BY <1>5, <1>c, <1>d, <1>e DEF ReturnEarly, CheckBatchSize, VerifyOutputs
<1>6. CASE RecordInputStart \/ RecordInferStart \/ RecordOutputStart
  BY <1>6, <1>c, <1>d, <1>e, TimestampFacts
<1>7. CASE SkipInputs \/ SkipRun \/ SkipOutputs
  BY <1>7, <1>d, <1>e DEF SkipInputs, SkipRun, SkipOutputs, SkipWhenAllFailed, KeepAnswers
<1>8. CASE CollectInputs \/ CollectFails
  BY <1>8, <1>b, <1>c, <1>e, <1>f DEF CollectInputs, CollectFails
<1>9. CASE PlaceOutputs \/ ReadFails
  <2>1. ASSUME NEW S \in SUBSET open, NEW T \in SUBSET open
        PROVE  (open \ S) \cup T \in SUBSET open
    OBVIOUS
  <2>. QED  BY <1>9, <1>b, <1>c, <1>f, <1>g, <2>1 DEF PlaceOutputs, ReadFails
<1>10. CASE SyncInputs \/ FinalizeOutputs
  BY <1>10, <1>d, <1>e DEF SyncInputs, FinalizeOutputs, KeepAnswers
<1>11. CASE ReplayGraph \/ ReplayFails \/ RunEager
  <2>1. outputs' \in Seq([by : {"graph", "eager"}, nth : Nat])
    <3>1. Len(model.scales) \in Nat /\ DOMAIN model.scales = 1..Len(model.scales)
      BY CycleAssumption DEF Model
    <3>2. ASSUME NEW j \in Sliced(TRUE)
          PROVE  j - 1 \in Nat
      BY <3>1, <3>2 DEF Sliced
    <3>3. CASE ReplayGraph
      BY <3>1, <3>3, PushedSeq DEF ReplayGraph
    <3>4. CASE ReplayFails
      <4>1. CASE outputs' = <<>>
        BY <4>1
      <4>2. ASSUME NEW j \in Sliced(TRUE), outputs' = Pushed("graph", j - 1)
            PROVE  outputs' \in Seq([by : {"graph", "eager"}, nth : Nat])
        BY <3>2, <4>2, PushedSeq
      <4>. QED  BY <3>4, <4>1, <4>2 DEF ReplayFails
    <3>5. CASE RunEager
      <4>1. Pushed("eager", Len(model.scales))
               \in Seq([by : {"graph", "eager"}, nth : Nat])
        BY <3>1, PushedSeq
      <4>. QED  BY <3>5, <4>1 DEF RunEager
    <3>. QED  BY <1>11, <3>3, <3>4, <3>5
  <2>. QED  BY <1>11, <1>d, <1>e, <1>f, <2>1
            DEF ReplayGraph, ReplayFails, RunEager, KeepAnswers
<1>12. CASE RunThrows
  BY <1>12, <1>b, <1>e, <1>f DEF RunThrows, Eager
<1>13. CASE SendResponses
  BY <1>13, <1>e, AnsweredSent DEF SendResponses, Held
<1>14. CASE ReportAndRelease
  BY <1>14, <1>d DEF ReportAndRelease, KeepAnswers, Held
<1>15. CASE DeviceFinishes
  BY <1>15, <1>d, <1>e DEF DeviceFinishes, KeepAnswers
<1>16. CASE UNCHANGED vars
  BY <1>16 DEF vars, Held
<1>. QED  BY <1>1, <1>2, <1>3, <1>4, <1>5, <1>6, <1>7, <1>8, <1>9, <1>10, <1>11,
             <1>12, <1>13, <1>14, <1>15, <1>16
          DEF Next, ProcessRequests, Admit, Collect, Run, Respond

(* The labels between the creation of the responses and their sending. *)
Working == {"count", "inputStart", "collect", "syncInputs", "inferStart", "run",
            "eager", "verify", "outputStart", "read", "finalize", "send"}

(* Refusing some open requests, or none, keeps answers and responses in    *)
(* step while the batch is being worked on.                                *)
LEMMA WorkingAnswers ==
    ASSUME TypeOK, AnswersFollowResponses, FailedAnswersAll, ReportedAtRelease,
           pc \in Working, pc' \in Working, UNCHANGED <<requests, released, reported, batchReported>>,
           \/ KeepAnswers
           \/ FailAll
           \/ UNCHANGED allFailed /\ \E S \in SUBSET open : Refuse(S)
    PROVE  AnswersFollowResponses' /\ FailedAnswersAll' /\ ReportedAtRelease'
<1>. USE DEF Working
<1>1. Held' = Held /\ sent \in [Held -> Seq({"error", "ok"})]
  BY DEF Held, TypeOK
<1>2. ReportedAtRelease'
  BY <1>1 DEF ReportedAtRelease
<1>3. CASE KeepAnswers
  BY <1>1, <1>2, <1>3 DEF KeepAnswers, answerVars, AnswersFollowResponses,
     FailedAnswersAll
<1>4. ASSUME NEW S \in SUBSET open, Refuse(S)
      PROVE  AnswersFollowResponses'
  <2>1. /\ open' = open \ S
        /\ \A i \in Held : i \notin S => sent'[i] = sent[i]
        /\ \A i \in Held : i \in S /\ sent[i] = <<>> => sent'[i] = <<"error">>
    BY <1>1, <1>4, AnsweredSent DEF Refuse
  <2>. QED  BY <1>1, <2>1 DEF AnswersFollowResponses
<1>5. CASE FailAll
  BY <1>2, <1>4, <1>5 DEF FailAll, FailedAnswersAll, Refuse
<1>6. CASE UNCHANGED allFailed /\ \E S \in SUBSET open : Refuse(S)
  BY <1>2, <1>4, <1>6 DEF FailedAnswersAll, Refuse
<1>. QED  BY <1>3, <1>5, <1>6

(* Every step inside a batch is one of those, but for the first and last. *)
LEMMA WorkingStep ==
    ASSUME TypeOK, \/ CountRows \/ CountFails \/ CheckBatchSize \/ Collect \/ Run
                   \/ RecordOutputStart \/ SkipOutputs \/ PlaceOutputs \/ ReadFails
                   \/ FinalizeOutputs
    PROVE  /\ pc \in Working /\ pc' \in Working
           /\ UNCHANGED <<model, requests, released, reported, batchReported>>
           /\ \/ KeepAnswers
              \/ FailAll
              \/ UNCHANGED allFailed /\ \E S \in SUBSET open : Refuse(S)
<1>. USE DEF Working, Goto, doneVars, Advance
<1>1. CASE CountRows \/ CountFails \/ CheckBatchSize
  BY <1>1 DEF CountRows, CountFails, CheckBatchSize
<1>2. CASE RecordInputStart \/ RecordInferStart \/ RecordOutputStart
  BY <1>2, TimestampFacts
<1>3. CASE SkipInputs \/ SkipRun \/ SkipOutputs
  BY <1>3 DEF SkipInputs, SkipRun, SkipOutputs, SkipWhenAllFailed, KeepAnswers
<1>4. CASE CollectInputs \/ CollectFails \/ SyncInputs
  BY <1>4 DEF CollectInputs, CollectFails, SyncInputs, KeepAnswers
<1>5. CASE ReplayGraph \/ ReplayFails \/ RunEager
  BY <1>5 DEF ReplayGraph, ReplayFails, RunEager, Eager, KeepAnswers
<1>6. CASE RunThrows
  BY <1>6 DEF RunThrows, Eager
<1>7. CASE VerifyOutputs
  BY <1>7 DEF VerifyOutputs
<1>8. CASE PlaceOutputs \/ ReadFails \/ FinalizeOutputs
  BY <1>8 DEF PlaceOutputs, ReadFails, FinalizeOutputs, KeepAnswers
<1>. QED  BY <1>1, <1>2, <1>3, <1>4, <1>5, <1>6, <1>7, <1>8 DEF Collect, Run

(* No step lets an answer and a response get out of step. *)
LEMMA AnswersStep ==
    ASSUME TypeOK, AnswersFollowResponses, FailedAnswersAll, ReportedAtRelease,
           [Next]_vars
    PROVE  AnswersFollowResponses' /\ FailedAnswersAll' /\ ReportedAtRelease'
<1>. USE DEF AnswersFollowResponses, FailedAnswersAll, ReportedAtRelease, Goto,
             doneVars, answerVars
<1>a. sent \in [Held -> Seq({"error", "ok"})]
  BY DEF TypeOK
<1>1. ASSUME NEW batch \in Batches, Receive(batch)
      PROVE  AnswersFollowResponses' /\ FailedAnswersAll' /\ ReportedAtRelease'
  <2>1. Held' = DOMAIN batch
    BY <1>1, BatchSeq DEF Receive, Held
  <2>. QED  BY <1>1, <2>1 DEF Receive
<1>2. CASE RejectNull
  <2>1. Held' = Held
    BY <1>2 DEF RejectNull, Held
  <2>2. \A i \in Held' : sent'[i] \in {<<>>, <<"error">>}
    <3>1. pc = "received"
      BY <1>2 DEF RejectNull
    <3>. QED  BY <1>2, <3>1, RejectNullSent
  <2>3. <<"error">> # <<"ok">> /\ <<>> # <<"ok">>
    OBVIOUS
  <2>. QED  BY <1>2, <2>1, <2>2, <2>3 DEF RejectNull
<1>3. CASE CreateResponses
  <2>1. Held' = Held
    BY <1>3 DEF CreateResponses, Held
  <2>. QED  BY <1>3, <2>1 DEF CreateResponses
<1>4. CASE ReturnEarly
  <2>1. Held' = Held
    BY <1>4 DEF ReturnEarly, Held
  <2>2. <<"error">> # <<"ok">> /\ <<>> # <<"ok">>
    OBVIOUS
  <2>. QED  BY <1>4, <2>1, <2>2 DEF ReturnEarly, KeepAnswers
<1>5. CASE \/ CountRows \/ CountFails \/ CheckBatchSize \/ Collect \/ Run
           \/ RecordOutputStart \/ SkipOutputs \/ PlaceOutputs \/ ReadFails
           \/ FinalizeOutputs
  BY <1>5, WorkingStep, WorkingAnswers
<1>6. CASE SendResponses
  <2>1. Held' = Held
    BY <1>6 DEF SendResponses, Held
  <2>2. /\ \A i \in Held : i \notin open => sent'[i] = sent[i]
        /\ \A i \in Held : i \in open => sent'[i] = <<"ok">>
    BY <1>a, <1>6, AnsweredSent DEF SendResponses
  <2>. QED  BY <1>6, <2>1, <2>2 DEF SendResponses
<1>7. CASE ReportAndRelease
  <2>1. Held' = Held
    BY <1>7 DEF ReportAndRelease, Held
  <2>. QED  BY <1>7, <2>1 DEF ReportAndRelease, KeepAnswers
<1>8. CASE DeviceFinishes
  <2>1. Held' = Held
    BY <1>8 DEF DeviceFinishes, Held
  <2>. QED  BY <1>8, <2>1 DEF DeviceFinishes
<1>9. CASE UNCHANGED vars
  <2>1. Held' = Held
    BY <1>9 DEF vars, Held
  <2>. QED  BY <1>9, <2>1 DEF vars
<1>. QED  BY <1>1, <1>2, <1>3, <1>4, <1>5, <1>6, <1>7, <1>8, <1>9
          DEF Next, ProcessRequests, Admit, Respond

(* The steps before the outputs are verified stay before them. *)
LEMMA StepBefore ==
    ASSUME \/ CountRows \/ CountFails \/ CheckBatchSize \/ Collect
           \/ (Run /\ ~VerifyOutputs)
    PROVE  pc' \notin {"outputStart", "read", "finalize", "send", "report"}
<1>. USE DEF Goto
<1>1. CASE CountRows \/ CountFails \/ CheckBatchSize
  BY <1>1 DEF CountRows, CountFails, CheckBatchSize
<1>2. CASE RecordInputStart \/ RecordInferStart
  BY <1>2, TimestampFacts
<1>3. CASE SkipInputs \/ CollectInputs \/ CollectFails \/ SyncInputs
  BY <1>3 DEF SkipInputs, SkipWhenAllFailed, CollectInputs, CollectFails,
     SyncInputs
<1>4. CASE SkipRun \/ ReplayGraph \/ ReplayFails \/ RunEager \/ RunThrows
  BY <1>4 DEF SkipRun, SkipWhenAllFailed, ReplayGraph, ReplayFails, RunEager,
     RunThrows
<1>. QED  BY <1>1, <1>2, <1>3, <1>4 DEF Collect, Run

(* Past the check, no step loses an output, and only a checked batch is    *)
(* reported, or has a request answered with a success.                     *)
LEMMA OutputsStep ==
    ASSUME IndInv, [Next]_vars
    PROVE  OutputsChecked' /\ SuccessMeansRan'
<1>. USE DEF OutputsChecked, SuccessMeansRan, Goto, doneVars, answerVars, IndInv
<1>a. sent \in [Held -> Seq({"error", "ok"})] /\ <<"error">> # <<"ok">> /\ <<>> # <<"ok">>
  BY DEF TypeOK
<1>b. ASSUME pc' \notin {"outputStart", "read", "finalize", "send", "report"},
             ~batchReported', \A i \in Held' : sent'[i] # <<"ok">>
      PROVE  OutputsChecked' /\ SuccessMeansRan'
  BY <1>b
<1>c. ASSUME pc \in Working, pc' \in Working,
             AnswersFollowResponses', ReportedAtRelease'
      PROVE  ~batchReported' /\ \A i \in Held' : sent'[i] # <<"ok">>
  <2>1. \A i \in Held' : sent'[i] \in {<<>>, <<"error">>}
    BY <1>c DEF AnswersFollowResponses, Working
  <2>. QED  BY <1>a, <1>c, <2>1 DEF ReportedAtRelease, Working
<1>d. AnswersFollowResponses' /\ FailedAnswersAll' /\ ReportedAtRelease'
  BY AnswersStep
<1>1. ASSUME NEW batch \in Batches, Receive(batch)
      PROVE  OutputsChecked' /\ SuccessMeansRan'
  <2>1. Held' = DOMAIN batch
    BY <1>1, BatchSeq DEF Receive, Held
  <2>. QED  BY <1>1, <1>a, <2>1 DEF Receive
<1>2. CASE RejectNull \/ CreateResponses \/ ReturnEarly
  <2>1. ~batchReported' /\ pc' \in {"idle", "count"}
    BY <1>2 DEF RejectNull, CreateResponses, ReturnEarly, ReportedAtRelease
  <2>2. \A i \in Held' : sent'[i] \in {<<>>, <<"error">>}
    <3>1. CASE RejectNull
      <4>1. \A i \in Held : sent[i] = <<>>
        BY <3>1 DEF RejectNull, AnswersFollowResponses
      <4>. QED  BY <3>1, <4>1, RejectNullSent
    <3>2. CASE CreateResponses \/ ReturnEarly
      BY <1>a, <3>2 DEF CreateResponses, ReturnEarly, KeepAnswers,
         AnswersFollowResponses, Held
    <3>. QED  BY <1>2, <3>1, <3>2
  <2>. QED  BY <1>a, <1>b, <2>1, <2>2
<1>3. CASE CountRows \/ CountFails \/ CheckBatchSize \/ Collect \/ Run
           \/ RecordOutputStart \/ SkipOutputs \/ PlaceOutputs \/ ReadFails
           \/ FinalizeOutputs
  <2>1. pc \in Working /\ pc' \in Working /\ model' = model
    BY <1>3, WorkingStep
  <2>2. ~batchReported' /\ \A i \in Held' : sent'[i] # <<"ok">>
    BY <1>c, <1>d, <2>1
  <2>3. CASE VerifyOutputs
    BY <2>2, <2>3 DEF VerifyOutputs, KeepAnswers, FailAll, Missing
  <2>4. CASE RecordOutputStart \/ SkipOutputs \/ PlaceOutputs \/ ReadFails
             \/ FinalizeOutputs
    <3>1. /\ pc \in {"outputStart", "read", "finalize"}
          /\ UNCHANGED <<model, outputs>> /\ (allFailed => allFailed')
      <4>1. CASE RecordOutputStart
        <5>1. /\ pc = "outputStart" /\ UNCHANGED <<model, outputs>>
              /\ KeepAnswers \/ FailAll
          BY <4>1, TimestampFacts
        <5>. QED  BY <5>1 DEF KeepAnswers, FailAll
      <4>2. CASE SkipOutputs \/ FinalizeOutputs
        BY <4>2 DEF SkipOutputs, SkipWhenAllFailed, FinalizeOutputs, KeepAnswers
      <4>3. CASE PlaceOutputs \/ ReadFails
        BY <4>3 DEF PlaceOutputs, ReadFails, FailAll
      <4>. QED  BY <2>4, <4>1, <4>2, <4>3
    <3>. QED  BY <2>2, <3>1 DEF Missing
  <2>5. CASE CountRows \/ CountFails \/ CheckBatchSize \/ Collect
             \/ (Run /\ ~VerifyOutputs)
    <3>1. pc' \notin {"outputStart", "read", "finalize", "send", "report"}
      BY <2>5, StepBefore
    <3>. QED  BY <1>b, <2>2, <3>1
  <2>. QED  BY <1>3, <2>3, <2>4, <2>5
<1>4. CASE SendResponses
  <2>1. UNCHANGED <<model, outputs, allFailed, batchReported>> /\ pc = "send"
    BY <1>4 DEF SendResponses
  <2>2. ~allFailed => Missing = {}
    BY <2>1
  <2>3. ~batchReported
    BY <2>1 DEF ReportedAtRelease
  <2>4. allFailed => \A i \in Held' : sent'[i] # <<"ok">>
    BY <1>a, <1>4 DEF SendResponses, Answered, FailedAnswersAll,
       AnswersFollowResponses, Held
  <2>. QED  BY <2>1, <2>2, <2>3, <2>4 DEF Missing
<1>5. CASE ReportAndRelease
  BY <1>5 DEF ReportAndRelease, KeepAnswers, Missing, Held
<1>6. CASE DeviceFinishes
  BY <1>6 DEF DeviceFinishes, Missing, Held
<1>7. CASE UNCHANGED vars
  BY <1>7 DEF vars, Missing, Held
<1>. QED  BY <1>1, <1>2, <1>3, <1>4, <1>5, <1>6, <1>7
          DEF Next, ProcessRequests, Admit, Respond

(* Success is reported for the requests that were answered with one. *)
LEMMA StatisticsStep ==
    ASSUME TypeOK, AnswersFollowResponses, ReportedAtRelease, StatisticsTruthful,
           [Next]_vars
    PROVE  StatisticsTruthful'
<1>. USE DEF StatisticsTruthful, ReportedAtRelease, Goto, doneVars, answerVars
<1>a. <<"error">> # <<"ok">> /\ <<>> # <<"ok">>
  OBVIOUS
<1>1. ASSUME NEW batch \in Batches, Receive(batch)
      PROVE  StatisticsTruthful'
  <2>1. Held' = DOMAIN batch
    BY <1>1, BatchSeq DEF Receive, Held
  <2>. QED  BY <1>1, <2>1 DEF Receive
<1>2. CASE RejectNull \/ CreateResponses \/ ReturnEarly \/ SendResponses
  BY <1>2 DEF RejectNull, CreateResponses, ReturnEarly, SendResponses, Held
<1>3. CASE \/ CountRows \/ CountFails \/ CheckBatchSize \/ Collect \/ Run
           \/ RecordOutputStart \/ SkipOutputs \/ PlaceOutputs \/ ReadFails
           \/ FinalizeOutputs
  <2>1. pc # "idle" /\ UNCHANGED <<requests, reported>>
    BY <1>3, WorkingStep DEF Working
  <2>. QED  BY <2>1 DEF Held
<1>4. CASE ReportAndRelease
  <2>1. /\ Held' = Held /\ sent' = sent /\ pc = "report"
        /\ \A i \in Held : reported'[i] = IF i \in open THEN "success" ELSE "failure"
    BY <1>4 DEF ReportAndRelease, KeepAnswers, Held
  <2>. QED  BY <1>a, <2>1 DEF AnswersFollowResponses
<1>5. CASE DeviceFinishes \/ UNCHANGED vars
  BY <1>5 DEF DeviceFinishes, vars, Held
<1>. QED  BY <1>1, <1>2, <1>3, <1>4, <1>5 DEF Next, ProcessRequests, Admit, Respond

(* Only the reading of checked outputs updates states, those of the        *)
(* requests that stay open among them.                                     *)
LEMMA StatesStep ==
    ASSUME IndInv, [Next]_vars
    PROVE  StatesUpdated' /\ StateFollowsSuccess'
<1>. USE DEF StatesUpdated, StateFollowsSuccess, Goto, doneVars, answerVars, IndInv
<1>a. <<"error">> # <<"ok">> /\ <<>> # <<"ok">>
  OBVIOUS
<1>b. ASSUME advanced' = {}, pc' \notin {"finalize", "send", "report"},
             \A i \in Held' : sent'[i] # <<"ok">>
      PROVE  StatesUpdated' /\ StateFollowsSuccess'
  BY <1>b
<1>c. ASSUME pc' \in Working
      PROVE  \A i \in Held' : sent'[i] # <<"ok">>
  <2>1. AnswersFollowResponses'
    BY AnswersStep
  <2>2. \A i \in Held' : sent'[i] \in {<<>>, <<"error">>}
    BY <1>c, <2>1 DEF AnswersFollowResponses, Working
  <2>. QED  BY <1>a, <2>2
<1>1. ASSUME NEW batch \in Batches, Receive(batch)
      PROVE  StatesUpdated' /\ StateFollowsSuccess'
  <2>1. Held' = DOMAIN batch
    BY <1>1, BatchSeq DEF Receive, Held
  <2>. QED  BY <1>1, <1>a, <2>1 DEF Receive
<1>2. CASE RejectNull \/ CreateResponses \/ ReturnEarly
  <2>1. pc \in {"received", "count"} /\ pc' \in {"idle", "count"} /\ advanced' = {}
    BY <1>2 DEF RejectNull, CreateResponses, ReturnEarly
  <2>2. \A i \in Held' : sent'[i] \in {<<>>, <<"error">>}
    <3>1. CASE RejectNull
      <4>1. \A i \in Held : sent[i] = <<>>
        BY <3>1 DEF RejectNull, AnswersFollowResponses
      <4>. QED  BY <3>1, <4>1, RejectNullSent
    <3>2. CASE CreateResponses \/ ReturnEarly
      BY <1>a, <3>2 DEF CreateResponses, ReturnEarly, KeepAnswers,
         AnswersFollowResponses, Held
    <3>. QED  BY <1>2, <3>1, <3>2
  <2>. QED  BY <1>a, <1>b, <2>1, <2>2
<1>3. CASE \/ CountRows \/ CountFails \/ CheckBatchSize \/ Collect \/ Run
           \/ RecordOutputStart \/ SkipOutputs
  <2>1. pc \in Working \ {"finalize", "send"} /\ advanced' = advanced
    <3>1. CASE CountRows \/ CountFails \/ CheckBatchSize
      BY <3>1 DEF CountRows, CountFails, CheckBatchSize, Working
    <3>2. CASE RecordInputStart \/ RecordInferStart \/ RecordOutputStart
      BY <3>2, TimestampFacts DEF Working
    <3>3. CASE SkipInputs \/ SkipRun \/ SkipOutputs
      BY <3>3 DEF SkipInputs, SkipRun, SkipOutputs, SkipWhenAllFailed, Working
    <3>4. CASE CollectInputs \/ CollectFails \/ SyncInputs
      BY <3>4 DEF CollectInputs, CollectFails, SyncInputs, Working
    <3>5. CASE ReplayGraph \/ ReplayFails \/ RunEager \/ RunThrows \/ VerifyOutputs
      BY <3>5 DEF ReplayGraph, ReplayFails, RunEager, RunThrows, VerifyOutputs,
         Eager, Working
    <3>. QED  BY <1>3, <3>1, <3>2, <3>3, <3>4, <3>5 DEF Collect, Run
  <2>2. pc' \in Working
    BY <1>3, WorkingStep
  <2>3. advanced' = {}
    BY <2>1 DEF Working
  <2>4. \A i \in Held' : sent'[i] # <<"ok">>
    BY <1>c, <2>2
  <2>5. CASE SkipOutputs
    <3>1. open' = {}
      BY <2>5 DEF SkipOutputs, SkipWhenAllFailed, FailedAnswersAll
    <3>. QED  BY <2>3, <2>4, <3>1
  <2>6. CASE ~SkipOutputs
    <3>1. pc' \notin {"finalize", "send", "report"}
      <4>1. CASE VerifyOutputs
        BY <4>1 DEF VerifyOutputs
      <4>2. CASE RecordOutputStart
        BY <4>2, TimestampFacts
      <4>. QED  BY <1>3, <2>6, <4>1, <4>2, StepBefore
    <3>. QED  BY <1>b, <2>3, <2>4, <3>1
  <2>. QED  BY <2>5, <2>6
<1>4. CASE PlaceOutputs \/ ReadFails
  <2>1. Missing' = {} /\ UNCHANGED <<model, requests>>
    BY <1>4 DEF PlaceOutputs, ReadFails, OutputsChecked, Missing
  <2>2. model.stateful => open' \subseteq advanced'
    BY <1>4 DEF PlaceOutputs, ReadFails, FailAll, Refuse, Advance
  <2>3. pc' \in {"finalize", "send"}
    BY <1>4 DEF PlaceOutputs, ReadFails
  <2>4. \A i \in Held' : sent'[i] # <<"ok">>
    BY <1>c, <2>3 DEF Working
  <2>. QED  BY <2>1, <2>2, <2>3, <2>4
<1>5. CASE FinalizeOutputs
  <2>1. UNCHANGED <<model, requests, outputs, open, sent, advanced>> /\ pc = "finalize"
        /\ pc' = "send"
    BY <1>5 DEF FinalizeOutputs
  <2>. QED  BY <2>1 DEF Missing, Held
<1>6. CASE SendResponses
  <2>1. /\ UNCHANGED <<model, requests, outputs, open, advanced>> /\ pc = "send"
        /\ pc' = "report" /\ sent' = Answered(open, "ok")
    BY <1>6 DEF SendResponses
  <2>2. \A i \in Held : i \notin open => sent'[i] # <<"ok">>
    BY <1>a, <2>1 DEF Answered, AnswersFollowResponses
  <2>. QED  BY <2>1, <2>2 DEF Missing, Held
<1>7. CASE ReportAndRelease
  <2>1. UNCHANGED <<model, requests, outputs, open, sent, advanced>> /\ pc' = "idle"
    BY <1>7 DEF ReportAndRelease, KeepAnswers
  <2>. QED  BY <2>1 DEF Missing, Held
<1>8. CASE DeviceFinishes \/ UNCHANGED vars
  BY <1>8 DEF DeviceFinishes, vars, Missing, Held
<1>. QED  BY <1>1, <1>2, <1>3, <1>4, <1>5, <1>6, <1>7, <1>8
          DEF Next, ProcessRequests, Admit, Respond

(* Past the gate a copy is pending only if nobody is left to be answered. *)
LEMMA GateStep ==
    ASSUME FailedAnswersAll, GateHeld, [Next]_vars
    PROVE  GateHeld'
<1>. USE DEF GateHeld, Goto, answerVars
<1>1. ASSUME NEW batch \in Batches, Receive(batch)
      PROVE  GateHeld'
  BY <1>1 DEF Receive
<1>2. CASE RejectNull \/ CreateResponses \/ ReturnEarly \/ SendResponses \/ ReportAndRelease
  BY <1>2 DEF RejectNull, CreateResponses, ReturnEarly, SendResponses, ReportAndRelease
<1>3. CASE \/ CountRows \/ CountFails \/ CheckBatchSize \/ Collect
           \/ (Run /\ ~VerifyOutputs)
  BY <1>3, StepBefore
<1>4. CASE VerifyOutputs \/ PlaceOutputs
  BY <1>4 DEF VerifyOutputs, PlaceOutputs
<1>5. CASE RecordOutputStart
  BY <1>5, TimestampFacts
<1>6. CASE SkipOutputs
  <2>1. open' = {}
    BY <1>6 DEF SkipOutputs, SkipWhenAllFailed, FailedAnswersAll
  <2>. QED  BY <2>1
<1>7. CASE ReadFails
  <2>1. open' = {}
    BY <1>7 DEF ReadFails, FailAll, Refuse
  <2>. QED  BY <2>1
<1>8. CASE FinalizeOutputs
  <2>1. cudaCopy' => inFlight' = {}
    BY <1>8 DEF FinalizeOutputs
  <2>. QED  BY <2>1
<1>9. CASE DeviceFinishes
  BY <1>9 DEF DeviceFinishes
<1>10. CASE UNCHANGED vars
  BY <1>10 DEF vars
<1>. QED  BY <1>1, <1>2, <1>3, <1>4, <1>5, <1>6, <1>7, <1>8, <1>9, <1>10
          DEF Next, ProcessRequests, Admit, Respond

(* Only a batch without a row is returned before its requests are. *)
LEMMA StrandedStep ==
    ASSUME TypeOK, AnswersFollowResponses, OnlyRowlessBatchesStranded, [Next]_vars
    PROVE  OnlyRowlessBatchesStranded'
<1>. USE DEF OnlyRowlessBatchesStranded, Goto, doneVars, answerVars, countVars
<1>a. <<"error">> # <<"ok">> /\ <<>> # <<"ok">>
  OBVIOUS
<1>1. ASSUME NEW batch \in Batches, Receive(batch)
      PROVE  OnlyRowlessBatchesStranded'
  BY <1>1 DEF Receive
<1>2. CASE RejectNull
  BY <1>2 DEF RejectNull, Held
<1>3. CASE CreateResponses \/ SendResponses
  BY <1>3 DEF CreateResponses, SendResponses
<1>4. CASE ReturnEarly
  <2>1. \A i \in Held : sent[i] \in {<<>>, <<"error">>}
    <3>1. pc = "count"
      BY <1>4 DEF ReturnEarly
    <3>2. ASSUME NEW i \in Held
          PROVE  sent[i] \in {<<>>, <<"error">>}
      BY <3>1 DEF AnswersFollowResponses
    <3>. QED  BY <3>2
  <2>. QED  BY <1>a, <1>4, <2>1 DEF ReturnEarly, KeepAnswers, Held
<1>5. CASE \/ CountRows \/ CountFails \/ CheckBatchSize \/ Collect \/ Run
           \/ RecordOutputStart \/ SkipOutputs \/ PlaceOutputs \/ ReadFails
           \/ FinalizeOutputs
  BY <1>5, WorkingStep DEF Working
<1>6. CASE ReportAndRelease
  BY <1>6 DEF ReportAndRelease, Held
<1>7. CASE DeviceFinishes \/ UNCHANGED vars
  BY <1>7 DEF DeviceFinishes, vars, Held
<1>. QED  BY <1>1, <1>2, <1>3, <1>4, <1>5, <1>6, <1>7
          DEF Next, ProcessRequests, Admit, Respond

-----------------------------------------------------------------------------
(* The invariant and its consequences *)

(* Before the first batch the invariant holds. *)
LEMMA InitInd == Init => IndInv
<1>. SUFFICES ASSUME Init PROVE IndInv
  OBVIOUS
<1>1. Held = {} /\ Len(requests) = 0 /\ Len(requests) <= MaxRequests
  BY CycleAssumption DEF Init, Held
<1>2. sent \in [Held -> Seq({"error", "ok"})]
      /\ reported \in [Held -> {"none", "success", "failure"}]
  BY <1>1 DEF Init
<1>3. outputs \in Seq([by : {"graph", "eager"}, nth : Nat])
      /\ requests \in Seq(Rows \cup {Null})
  BY DEF Init
<1>4. counted \in 0..Len(requests) /\ total \in Nat
  BY <1>1 DEF Init
<1>5. TypeOK
  BY <1>1, <1>2, <1>3, <1>4 DEF Init, TypeOK
<1>. QED  BY <1>1, <1>5 DEF Init, IndInv, AnswersFollowResponses, FailedAnswersAll,
          OutputsChecked, StatesUpdated, GateHeld, ReportedAtRelease, StatisticsTruthful,
          SuccessMeansRan, StateFollowsSuccess, OnlyRowlessBatchesStranded

(* Every step preserves the invariant. *)
LEMMA IndStep == IndInv /\ [Next]_vars => IndInv'
<1>. SUFFICES ASSUME IndInv, [Next]_vars PROVE IndInv'
  OBVIOUS
<1>1. OutputsChecked' /\ SuccessMeansRan' /\ StatesUpdated' /\ StateFollowsSuccess'
  BY OutputsStep, StatesStep
<1>. USE DEF IndInv
<1>2. TypeOK'
  BY TypeStep
<1>3. AnswersFollowResponses' /\ FailedAnswersAll' /\ ReportedAtRelease'
  BY AnswersStep
<1>4. StatisticsTruthful'
  BY StatisticsStep
<1>5. OnlyRowlessBatchesStranded'
  BY StrandedStep
<1>6. GateHeld'
  BY GateStep
<1>. QED  BY <1>1, <1>2, <1>3, <1>4, <1>5, <1>6

(* The invariant holds through every request cycle, whatever fails in it. *)
THEOREM CycleInvariant == Spec => []IndInv
BY InitInd, IndStep, PTL DEF Spec

(* Type correctness of the request cycle. *)
THEOREM CycleTypeCorrect == Spec => []TypeOK
<1>1. IndInv => TypeOK
  BY DEF IndInv
<1>. QED  BY <1>1, CycleInvariant, PTL

(* Request statistics agree with the answers, whichever call failed. *)
THEOREM StatisticsAgree == Spec => []StatisticsTruthful
<1>1. IndInv => StatisticsTruthful
  BY DEF IndInv
<1>. QED  BY <1>1, CycleInvariant, PTL

(* Nothing is reported as run, or answered with a success, unless the run  *)
(* left an output for every index the configuration refers to.             *)
THEOREM SuccessNeedsOutputs == Spec => []SuccessMeansRan
<1>1. IndInv => SuccessMeansRan
  BY DEF IndInv
<1>. QED  BY <1>1, CycleInvariant, PTL

(* The sequence state of a request moves on with its success, and only     *)
(* from a run that left every output.                                      *)
THEOREM StateMovesWithSuccess == Spec => []StateFollowsSuccess
<1>1. IndInv => StateFollowsSuccess
  BY DEF IndInv
<1>. QED  BY <1>1, CycleInvariant, PTL

(* No success is sent while a copy into its buffers is pending: every way  *)
(* around the Finalize gate leaves nobody to be answered.                  *)
THEOREM SuccessWaitsForCopies == Spec => SuccessIsComplete
<1>1. IndInv /\ [Next]_vars =>
         [SendResponses /\ cudaCopy /\ open # {} => "respond" \notin inFlight]_vars
  BY DEF IndInv, GateHeld, SendResponses
<1>. QED  BY <1>1, CycleInvariant, PTL DEF Spec, SuccessIsComplete

(* A request is stranded only in a batch without a row, unserved.          *)
THEOREM StrandedOnlyRowless == Spec => []OnlyRowlessBatchesStranded
<1>1. IndInv => OnlyRowlessBatchesStranded
  BY DEF IndInv
<1>. QED  BY <1>1, CycleInvariant, PTL

-----------------------------------------------------------------------------
(* The request cycle implements the contract *)

(* Where a request of the contract stands while a batch is in hand. *)
LEMMA StateFacts ==
    ASSUME IndInv
    PROVE  /\ Held \subseteq Slots
           /\ \A i \in Slots \ Held : StateOf(i) = "out"
           /\ pc = "idle" => \A i \in Slots : StateOf(i) \in {"out", "lost"}
           /\ pc = "received" => \A i \in Held :
                 StateOf(i) = IF requests[i] = Null THEN "out" ELSE "held"
           /\ pc \in Working => \A i \in Held :
                 StateOf(i) = IF i \in open THEN "held"
                              ELSE IF sent[i] = <<>> THEN "mute" ELSE "error"
           /\ pc = "report" => \A i \in Held :
                 StateOf(i) = IF i \in open THEN "ok"
                              ELSE IF sent[i] = <<>> THEN "mute" ELSE "error"
<1>. USE DEF IndInv
<1>1. Held \subseteq Slots
  BY CycleAssumption DEF TypeOK, Held, Slots
<1>2. \A i \in Slots \ Held : StateOf(i) = "out"
  BY DEF StateOf
<1>3. <<>> # <<"error">> /\ <<>> # <<"ok">> /\ <<"error">> # <<"ok">>
  OBVIOUS
<1>4. ASSUME pc = "idle", NEW i \in Slots
      PROVE  StateOf(i) \in {"out", "lost"}
  BY <1>4 DEF StateOf
<1>5. ASSUME pc = "received", NEW i \in Held
      PROVE  StateOf(i) = IF requests[i] = Null THEN "out" ELSE "held"
  <2>1. i \notin released /\ sent[i] = <<>>
    BY <1>5 DEF AnswersFollowResponses
  <2>. QED  BY <1>3, <1>5, <2>1 DEF StateOf
<1>6. ASSUME pc \in Working, NEW i \in Held
      PROVE  StateOf(i) = IF i \in open THEN "held"
                          ELSE IF sent[i] = <<>> THEN "mute" ELSE "error"
  <2>1. /\ i \notin released /\ requests[i] # Null
        /\ i \in open => sent[i] = <<>>
        /\ i \notin open => sent[i] \in {<<>>, <<"error">>}
    BY <1>6 DEF AnswersFollowResponses, Working
  <2>2. pc # "idle" /\ pc # "received"
    BY <1>6 DEF Working
  <2>. QED  BY <1>3, <2>1, <2>2 DEF StateOf
<1>7. ASSUME pc = "report", NEW i \in Held
      PROVE  StateOf(i) = IF i \in open THEN "ok"
                          ELSE IF sent[i] = <<>> THEN "mute" ELSE "error"
  <2>1. /\ i \notin released /\ requests[i] # Null
        /\ i \in open => sent[i] = <<"ok">>
        /\ i \notin open => sent[i] \in {<<>>, <<"error">>}
    BY <1>7 DEF AnswersFollowResponses
  <2>. QED  BY <1>3, <1>7, <2>1 DEF StateOf
<1>. QED  BY <1>1, <1>2, <1>4, <1>5, <1>6, <1>7

(* The contract's initial state. *)
LEMMA ContractInit == Init => Contract!Init
BY DEF Init, Contract!Init, ContractState, StateOf, Held

(* The contract moves as the states of its requests do. *)
LEMMA ContractMove ==
    ASSUME NEW STATE S, NEW to,
           \A i \in Slots : StateOf(i)' = IF i \in S THEN to ELSE StateOf(i)
    PROVE  Contract!Move(S, to)
BY DEF Contract!Move, ContractState, Slots

(* Requests refused while the batch is worked on are refused in the contract. *)
LEMMA ContractRefuse ==
    ASSUME IndInv, pc \in Working, pc' \in Working, UNCHANGED <<requests, released>>,
           NEW S \in SUBSET open, Refuse(S)
    PROVE  Contract!Refuse
<1>1. /\ Held \subseteq Slots /\ open \subseteq Held
      /\ \A i \in Slots \ Held : StateOf(i) = "out"
      /\ \A i \in Held : StateOf(i) = IF i \in open THEN "held"
                              ELSE IF sent[i] = <<>> THEN "mute" ELSE "error"
  BY StateFacts DEF IndInv, TypeOK
<1>2. <<>> # <<"error">> /\ <<>> # <<"ok">> /\ <<"error">> # <<"ok">>
  OBVIOUS
<1>3. Held' = Held /\ released' = {} /\ pc' # "idle" /\ pc' # "received"
  BY DEF Working, IndInv, AnswersFollowResponses, Held
<1>4. /\ open' = open \ S
      /\ \A i \in Held : i \notin S => sent'[i] = sent[i]
      /\ \A i \in Held : i \in S /\ sent[i] = <<>> => sent'[i] = <<"error">>
  BY AnsweredSent DEF Refuse, IndInv, TypeOK
<1>5. \A i \in Held : /\ requests[i] # Null
                      /\ i \in open => sent[i] = <<>>
                      /\ i \notin open => sent[i] \in {<<>>, <<"error">>}
  BY DEF IndInv, AnswersFollowResponses, Working
<1>6. \A i \in Held : StateOf(i)' = IF i \in S THEN "error" ELSE StateOf(i)
  BY <1>1, <1>2, <1>3, <1>4, <1>5 DEF StateOf
<1>7. \A i \in Slots \ Held : StateOf(i)' = "out"
  BY <1>3 DEF StateOf
<1>8. \A i \in Slots : StateOf(i)' = IF i \in S THEN "error" ELSE StateOf(i)
  BY <1>1, <1>6, <1>7
<1>9. Contract!Move(S, "error")
  BY <1>8, ContractMove
<1>10. S \in SUBSET Contract!In("held")
  BY <1>1 DEF Contract!In, ContractState
<1>. QED  BY <1>9, <1>10 DEF Contract!Refuse

(* Every step of the request cycle is a step of the contract, or none. *)
LEMMA ContractStep ==
    ASSUME IndInv, [Next]_vars
    PROVE  Contract!Next \/ UNCHANGED ContractState
<1>. USE DEF Goto, doneVars, answerVars
<1>a. /\ Held \subseteq Slots /\ open \subseteq Held
      /\ \A i \in Slots \ Held : StateOf(i) = "out"
  BY StateFacts DEF IndInv, TypeOK
<1>b. \A i \in Slots : ContractState[i] = StateOf(i)
  BY DEF ContractState
<1>c. ASSUME \A i \in Slots : StateOf(i)' = StateOf(i)
      PROVE  UNCHANGED ContractState
  BY <1>c DEF ContractState, Slots
<1>d. \A i \in Slots : i \notin Held' => StateOf(i)' = "out"
  BY DEF StateOf
<1>e. <<>> # <<"error">> /\ <<>> # <<"ok">> /\ <<"error">> # <<"ok">>
  OBVIOUS
<1>1. ASSUME NEW batch \in Batches, Receive(batch)
      PROVE  Contract!Next
  <2>1. \A i \in Slots : StateOf(i) \in {"out", "lost"}
    BY <1>1, StateFacts DEF Receive
  <2>2. Held' = DOMAIN batch
    BY <1>1, BatchSeq DEF Receive, Held
  <2>. DEFINE S == {i \in Slots : i \in DOMAIN batch /\ batch[i] # Null}
  <2>3. ASSUME NEW i \in Held'
        PROVE  StateOf(i)' = IF i \in DOMAIN batch /\ batch[i] # Null
                             THEN "held" ELSE "out"
    BY <1>1, <1>e, <2>2 DEF Receive, StateOf
  <2>4. \A i \in Slots : StateOf(i)' = IF i \in S THEN "held" ELSE "out"
    BY <1>d, <2>2, <2>3
  <2>5. ContractState' = [i \in Slots |-> IF i \in S THEN "held" ELSE "out"]
    BY <2>4 DEF ContractState, Slots
  <2>6. Contract!In("out") \cup Contract!In("lost") = Slots
    BY <1>b, <2>1 DEF Contract!In
  <2>7. S \in SUBSET Slots
    OBVIOUS
  <2>. QED  BY <2>5, <2>6, <2>7 DEF Contract!Accept, Contract!Next
<1>2. CASE RejectNull
  <2>1. pc = "received" /\ pc' = "idle" /\ requests' = requests
        /\ released' = {i \in Held : requests[i] # Null}
    BY <1>2 DEF RejectNull
  <2>2. \A i \in Held : StateOf(i) \in {"out", "held"}
    BY <2>1, StateFacts
  <2>3. Held' = Held
    BY <2>1 DEF Held
  <2>4. \A i \in Held : StateOf(i)' = "out"
    BY <2>1, <2>3 DEF StateOf
  <2>5. \A i \in Slots : StateOf(i)' = IF i \in Slots THEN "out" ELSE StateOf(i)
    BY <1>d, <2>3, <2>4
  <2>6. Contract!Move(Slots, "out")
    BY <2>5, ContractMove
  <2>7. Contract!In("held") \cup Contract!In("out") = Slots
    BY <1>a, <1>b, <2>2 DEF Contract!In
  <2>. QED  BY <2>6, <2>7 DEF Contract!Bounce, Contract!Next
<1>3. CASE CreateResponses
  <2>1. /\ pc = "received" /\ pc' = "count" /\ open' \subseteq Held
        /\ UNCHANGED <<requests, released, sent>>
        /\ \A i \in Held : requests[i] # Null
    BY <1>3 DEF CreateResponses
  <2>2. /\ \A i \in Held : StateOf(i) = "held"
        /\ released = {} /\ \A i \in Held : sent[i] = <<>>
    BY <2>1, StateFacts DEF IndInv, AnswersFollowResponses
  <2>3. Held' = Held
    BY <2>1 DEF Held
  <2>. DEFINE S == Held \ open'
  <2>4. \A i \in Held : StateOf(i)' = IF i \in open' THEN "held" ELSE "mute"
    BY <1>e, <2>1, <2>2, <2>3 DEF StateOf
  <2>5. \A i \in Slots : StateOf(i)' = IF i \in S THEN "mute" ELSE StateOf(i)
    BY <1>a, <1>d, <2>2, <2>3, <2>4
  <2>6. ContractState' = [i \in Slots |-> IF i \in S THEN "mute" ELSE ContractState[i]]
    BY <1>b, <2>5 DEF ContractState, Slots
  <2>7. /\ Contract!In("held") \cup Contract!In("out") = Slots
        /\ S \in SUBSET Contract!In("held")
    BY <1>a, <1>b, <2>2 DEF Contract!In
  <2>. QED  BY <2>6, <2>7 DEF Contract!Mute, Contract!Move, Contract!Next
<1>4. CASE ReturnEarly
  <2>1. /\ pc = "count" /\ pc' = "idle" /\ UNCHANGED <<requests, released, sent>>
        /\ released = {} /\ \A i \in Held : requests[i] # Null
    BY <1>4 DEF ReturnEarly, KeepAnswers, IndInv, AnswersFollowResponses
  <2>2. \A i \in Held : StateOf(i) \in {"held", "mute", "error"}
    BY <2>1, StateFacts DEF Working
  <2>3. Held' = Held
    BY <2>1 DEF Held
  <2>4. \A i \in Held : StateOf(i)' = "lost"
    BY <2>1, <2>3 DEF StateOf
  <2>5. Held = Slots \ Contract!In("out") /\ Contract!In("ok") = {}
    BY <1>a, <1>b, <2>2 DEF Contract!In
  <2>6. \A i \in Slots : StateOf(i)' = IF i \in Held THEN "lost" ELSE StateOf(i)
    BY <1>a, <1>d, <2>3, <2>4
  <2>7. Contract!Move(Held, "lost")
    BY <2>6, ContractMove
  <2>. QED  BY <2>5, <2>7 DEF Contract!Drop, Contract!Next
<1>5. CASE \/ CountRows \/ CountFails \/ CheckBatchSize \/ Collect \/ Run
           \/ RecordOutputStart \/ SkipOutputs \/ PlaceOutputs \/ ReadFails
           \/ FinalizeOutputs
  <2>1. /\ pc \in Working /\ pc' \in Working /\ UNCHANGED <<requests, released>>
        /\ \/ KeepAnswers
           \/ FailAll
           \/ UNCHANGED allFailed /\ \E S \in SUBSET open : Refuse(S)
    BY <1>5, WorkingStep DEF IndInv
  <2>2. CASE KeepAnswers
    <3>1. /\ Held' = Held /\ sent' = sent /\ open' = open /\ released' = released
          /\ pc \notin {"idle", "received"} /\ pc' \notin {"idle", "received"}
      BY <2>1, <2>2 DEF KeepAnswers, Held, Working
    <3>2. \A i \in Slots : StateOf(i)' = StateOf(i)
      BY <2>1, <3>1 DEF StateOf
    <3>. QED  BY <1>c, <3>2
  <2>3. CASE FailAll
    BY <2>1, <2>3, ContractRefuse DEF FailAll, Contract!Next
  <2>4. CASE \E S \in SUBSET open : Refuse(S)
    BY <2>1, <2>4, ContractRefuse DEF Contract!Next
  <2>. QED  BY <2>1, <2>2, <2>3, <2>4
<1>6. CASE SendResponses
  <2>1. /\ pc = "send" /\ pc' = "report" /\ UNCHANGED <<requests, released, open>>
        /\ released = {} /\ sent' = Answered(open, "ok")
    BY <1>6 DEF SendResponses, IndInv, AnswersFollowResponses
  <2>2. \A i \in Held : /\ requests[i] # Null
                        /\ i \in open => sent[i] = <<>>
                        /\ i \notin open => sent[i] \in {<<>>, <<"error">>}
    BY <2>1 DEF IndInv, AnswersFollowResponses
  <2>3. /\ \A i \in Held : i \notin open => sent'[i] = sent[i]
        /\ \A i \in Held : i \in open => sent'[i] = <<"ok">>
    BY <2>1, <2>2, AnsweredSent DEF IndInv, TypeOK
  <2>4. \A i \in Held : StateOf(i) = IF i \in open THEN "held"
                              ELSE IF sent[i] = <<>> THEN "mute" ELSE "error"
    BY <2>1, StateFacts DEF Working
  <2>5. Held' = Held
    BY <2>1 DEF Held
  <2>6. \A i \in Held : StateOf(i)' = IF i \in open THEN "ok" ELSE StateOf(i)
    BY <1>e, <2>1, <2>2, <2>3, <2>4, <2>5 DEF StateOf
  <2>7. \A i \in Slots : StateOf(i)' = IF i \in open THEN "ok" ELSE StateOf(i)
    BY <1>a, <1>d, <2>5, <2>6
  <2>8. Contract!Move(open, "ok")
    BY <2>7, ContractMove
  <2>9. open = Contract!In("held")
    BY <1>a, <1>b, <2>4 DEF Contract!In
  <2>. QED  BY <2>8, <2>9 DEF Contract!Serve, Contract!Next
<1>7. CASE ReportAndRelease
  <2>1. pc = "report" /\ released' = Held /\ Held' = Held
    BY <1>7 DEF ReportAndRelease, Held
  <2>2. \A i \in Held : StateOf(i) \in {"ok", "mute", "error"}
    BY <2>1, StateFacts
  <2>3. \A i \in Slots : StateOf(i)' = IF i \in Slots THEN "out" ELSE StateOf(i)
    BY <1>d, <2>1 DEF StateOf
  <2>4. Contract!Move(Slots, "out")
    BY <2>3, ContractMove
  <2>5. Contract!In("held") = {}
    BY <1>a, <1>b, <2>2 DEF Contract!In
  <2>. QED  BY <2>4, <2>5 DEF Contract!GiveBack, Contract!Next
<1>8. CASE DeviceFinishes \/ UNCHANGED vars
  <2>1. UNCHANGED <<pc, requests, open, sent, released>> /\ Held' = Held
    BY <1>8 DEF DeviceFinishes, vars, Held
  <2>2. \A i \in Slots : StateOf(i)' = StateOf(i)
    BY <2>1 DEF StateOf
  <2>. QED  BY <1>c, <2>2
<1>. QED  BY <1>1, <1>2, <1>3, <1>4, <1>5, <1>6, <1>7, <1>8
          DEF Next, ProcessRequests, Admit, Respond

(* The request cycle implements the contract, for batches of any size and  *)
(* whatever fails: in particular no request is ever answered twice.        *)
THEOREM CycleKeepsContract == Spec => KeepsContract
<1>1. IndInv /\ [Next]_vars => [Contract!Next]_ContractState
  BY ContractStep
<1>. QED  BY <1>1, ContractInit, CycleInvariant, PTL
          DEF Spec, KeepsContract, Contract!Spec

=============================================================================
