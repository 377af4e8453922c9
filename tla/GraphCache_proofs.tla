--------------------------- MODULE GraphCache_proofs ---------------------------
(***************************************************************************)
(* Machine-checked proofs about GraphCache, for every set of model         *)
(* configurations, every set of batches and every bound on their size.     *)
(* IndInv is shown to be inductive, one lemma per group of its conjuncts;  *)
(* the properties the runs check follow from it.                           *)
(***************************************************************************)
EXTENDS GraphCache, TLAPS

-----------------------------------------------------------------------------
(* Facts about the operators the model is built from *)

(* Integer division of natural numbers stays in the natural numbers. *)
LEMMA DivNat ==
    ASSUME NEW a \in Nat, NEW b \in Nat, b > 0
    PROVE  a \div b \in Nat
BY SMT

(* Dividing a multiple gives the factor back. *)
LEMMA DivMultiple ==
    ASSUME NEW m \in Nat, NEW b \in Nat, b > 0
    PROVE  (b * m) \div b = m
BY SMT

(* A product of natural numbers is one. *)
LEMMA MulNat ==
    ASSUME NEW a \in Nat, NEW b \in Nat
    PROVE  a * b \in Nat
BY SMT

(* A positive product of natural numbers is at least each factor. *)
LEMMA MulPositive ==
    ASSUME NEW n \in Nat, NEW q \in Nat, n * q > 0
    PROVE  q >= 1 /\ n <= n * q
<1>1. q # 0
  BY SMT
<1>2. q >= 1
  BY <1>1
<1>. QED  BY <1>2, SMT

(* A positive factor cancels. *)
LEMMA MulCancel ==
    ASSUME NEW n \in Nat, NEW a \in Nat, NEW b \in Nat, n >= 1, n * a = n * b
    PROVE  a = b
BY SMT

(* The evicted cache has no bucket. *)
LEMMA EmptyDomain == DOMAIN <<>> = {}
BY SMT

(* Filled builds a sequence of marks of the length asked for. *)
LEMMA FilledSeq ==
    ASSUME NEW n \in Nat, NEW mark \in Mark
    PROVE  Filled(n, mark) \in Seq(Mark) /\ Len(Filled(n, mark)) = n
BY DEF Filled

(* ZeroExtend builds a sequence of marks of the length asked for. *)
LEMMA ZeroExtendSeq ==
    ASSUME NEW s \in Seq(Mark), NEW n \in Nat
    PROVE  ZeroExtend(s, n) \in Seq(Mark) /\ Len(ZeroExtend(s, n)) = n
<1>1. \A i \in 1..n : (IF i <= Len(s) THEN s[i] ELSE "zero") \in Mark
  BY DEF Mark
<1>. QED  BY <1>1 DEF ZeroExtend

(* Aging the marks keeps a sequence of marks of the same length. *)
LEMMA AgedSeq ==
    ASSUME NEW s \in Seq(Mark)
    PROVE  Aged(s) \in Seq(Mark) /\ Len(Aged(s)) = Len(s)
<1>1. \A i \in 1..Len(s) : (IF s[i] = "live" THEN "stale" ELSE s[i]) \in Mark
  BY DEF Mark
<1>. QED  BY <1>1 DEF Aged

(* A copy that fits leaves a sequence of the destination's length. *)
LEMMA BroadcastSeq ==
    ASSUME NEW S, NEW s \in Seq(S), NEW n \in Nat, FitsInto(Len(s), n)
    PROVE  Broadcast(s, n) \in Seq(S) /\ Len(Broadcast(s, n)) = n
<1>1. CASE Len(s) = n
  BY <1>1 DEF Broadcast
<1>2. CASE Len(s) # n
  <2>1. Len(s) = 1
    BY <1>2 DEF FitsInto
  <2>2. s[1] \in S
    BY <2>1
  <2>3. Broadcast(s, n) = [i \in 1..n |-> s[1]]
    BY <1>2 DEF Broadcast
  <2>. QED  BY <2>2, <2>3
<1>. QED  BY <1>1, <1>2

(* What every batch offers. *)
LEMMA BatchFacts ==
    ASSUME NEW b \in Batches
    PROVE  /\ b.single \in Nat
           /\ b.ends \in Seq(Nat)
           /\ Requests(b) \in Nat /\ Requests(b) >= 1 /\ Requests(b) <= MaxRows
           /\ Elements(b) \in Nat
<1>1. b \in Batch /\ Len(b.ends) \in 1..MaxRows /\ MaxRows \in Nat
  BY CacheAssumption
<1>2. b.ends \in Seq(Nat) /\ b.single \in Nat
  BY <1>1 DEF Batch
<1>3. b.ends[Len(b.ends)] \in Nat
  BY <1>1, <1>2
<1>. QED  BY <1>1, <1>2, <1>3 DEF Requests, Elements

(* What every configuration offers. *)
LEMMA ConfFacts ==
    ASSUME NEW c \in Configs
    PROVE  /\ c.inputs \in Nat /\ c.single \in Int /\ c.multi \in Int
           /\ c.buckets \subseteq Int /\ c.buckets \subseteq Keys
BY CacheAssumption DEF Config, Keys

(* Every bucket key is an integer. *)
LEMMA KeysInt == Keys \subseteq Int /\ None \in Int /\ None < 0
BY ConfFacts, CacheAssumption DEF Keys, None

(* R is a natural number, a possible key, and at most the request count. *)
LEMMA RFacts ==
    ASSUME batch \in Batches
    PROVE  R \in Nat /\ R \in Keys /\ R <= Requests(batch) /\ R <= Elements(batch)
<1>1. R \in 0..MaxRows /\ R <= Requests(batch) /\ R <= Elements(batch)
  BY BatchFacts, CacheAssumption DEF R
<1>. QED  BY <1>1 DEF Keys

(* The candidate of the bucket loop is a natural number at or after b_it *)
(* that is not pinned, and every smaller one is.                         *)
LEMMA CandidateFacts ==
    ASSUME ControlTypeOK, NEW c \in Candidate
    PROVE  /\ c \in Keys /\ c \in Nat /\ c >= at /\ c \notin failed
           /\ \A b \in conf.buckets : b >= at /\ b < c => b \in failed
<1>1. conf \in Configs /\ batch \in Batches /\ at \in Nat
  BY DEF ControlTypeOK
<1>2. R \in Nat /\ R \in Keys
  BY <1>1, RFacts
<1>3. conf.buckets \subseteq Int /\ conf.buckets \subseteq Keys
  BY <1>1, ConfFacts
<1>. QED  BY <1>1, <1>2, <1>3 DEF Candidate, First, Healthy

(* The prestaging lookup hits only a captured bucket that the bucket loop *)
(* would select too.                                                      *)
LEMMA FindReadyFacts ==
    ASSUME conf \in Configs, NEW r \in Nat, FindReady(r) # None
    PROVE  /\ FindReady(r) \in DOMAIN cache
           /\ FindReady(r) >= r
           /\ \A b \in conf.buckets : b >= r /\ b < FindReady(r) => b \in failed
<1>1. FindReady(r) \in Ready(r)
  BY DEF FindReady
<1>2. conf.buckets \subseteq Int
  BY ConfFacts
<1>. QED  BY <1>1, <1>2 DEF Ready, First, Healthy

-----------------------------------------------------------------------------
(* Type correctness *)

(* The control state and the domains of the capture state keep their types *)
(* under every step.                                                       *)
LEMMA ControlStep ==
    ASSUME ControlTypeOK, CaptureTypeOK, [Next]_vars
    PROVE  ControlTypeOK' /\ CaptureTypeOK'
<1>. USE DEF ControlTypeOK, CaptureTypeOK, SetupUnchanged, SelectUnchanged,
             captureVars, batchVars, NoTally, WarmupOn
<1>a. conf \in Configs /\ batch \in Batches
  OBVIOUS
<1>b. conf.buckets \subseteq Keys /\ conf.buckets \subseteq Int
  BY <1>a, ConfFacts
<1>c. R \in Nat /\ R \in Keys
  BY <1>a, RFacts
<1>d. \A c \in Candidate : c \in Keys /\ c \in Nat
  BY CandidateFacts
<1>e. \A r \in Nat : FindReady(r) \in Keys \cup {None}
  BY <1>a, FindReadyFacts
<1>1. CASE GoReady
  BY <1>1 DEF GoReady
<1>2. ASSUME NEW bucket \in todo, WarmupBucket(bucket)
      PROVE  ControlTypeOK' /\ CaptureTypeOK'
  BY <1>2, <1>b DEF WarmupBucket, CaptureBucket, CaptureFails
<1>3. ASSUME NEW b \in Batches, CollectBatch(b)
      PROVE  ControlTypeOK' /\ CaptureTypeOK'
  <2>1. Requests(b) \in Nat
    BY BatchFacts
  <2>. QED  BY <1>3, <1>e, <2>1 DEF CollectBatch, NewBatch, AgedCache
<1>4. ASSUME NEW b \in Batches, RejectBatch(b)
      PROVE  ControlTypeOK' /\ CaptureTypeOK'
  <2>1. Requests(b) \in Nat
    BY BatchFacts
  <2>. QED  BY <1>4, <1>e, <2>1 DEF RejectBatch, NewBatch, AgedCache
<1>5. CASE AbortBatch
  BY <1>5 DEF AbortBatch
<1>6. CASE OtherLayout
  BY <1>6 DEF OtherLayout
<1>7. CASE EnterGraphPath
  <2>1. ControlTypeOK'
    BY <1>7, <1>c DEF EnterGraphPath
  <2>2. DOMAIN cache' \subseteq Keys
    BY <1>7, EmptyDomain DEF EnterGraphPath
  <2>3. failed' \subseteq Keys /\ failures' \in [Keys -> Nat]
    BY <1>7 DEF EnterGraphPath
  <2>4. tries' \in [Keys -> Nat]
    BY <1>7 DEF EnterGraphPath
  <2>. QED  BY <2>1, <2>2, <2>3, <2>4
<1>8. CASE NoCandidate
  BY <1>8 DEF NoCandidate
<1>9. CASE PadTraps
  BY <1>9 DEF PadTraps
<1>10. CASE PadThrows
  BY <1>10 DEF PadThrows
<1>11. CASE SelectCaptured
  BY <1>11, <1>d DEF SelectCaptured
<1>12. CASE SelectByCapture
  BY <1>12, <1>d DEF SelectByCapture, CaptureBucket
<1>13. CASE SkipFailedCapture
  BY <1>13, <1>d DEF SkipFailedCapture, CaptureFails
<1>14. CASE ReplaySucceeds
  <2>1. PadWasteRows(R, slot) \in Nat
    BY <1>c, KeysInt DEF PadWasteRows
  <2>2. tally' \in [replay : Nat, eager : Nat, waste : Nat]
    <3>1. tally' = [tally EXCEPT !.replay = tally.replay + 1,
                                 !.waste = tally.waste + PadWasteRows(R, slot)]
      BY <1>14 DEF ReplaySucceeds
    <3>2. tally.replay + 1 \in Nat /\ tally.waste + PadWasteRows(R, slot) \in Nat
      BY <2>1
    <3>. QED  BY <3>1, <3>2, Zenon
  <2>3. DOMAIN cache' = DOMAIN cache
    BY <1>14 DEF ReplaySucceeds
  <2>. QED  BY <1>14, <2>2, <2>3 DEF ReplaySucceeds
<1>15. CASE ReplayFails
  BY <1>15 DEF ReplayFails
<1>16. CASE RunEager
  BY <1>16 DEF RunEager
<1>17. CASE UNCHANGED vars
  BY <1>17 DEF vars
<1>. QED  BY <1>1, <1>2, <1>3, <1>4, <1>5, <1>6, <1>7, <1>8, <1>9, <1>10, <1>11,
             <1>12, <1>13, <1>14, <1>15, <1>16, <1>17
          DEF Next, Warmup, Execute, Select

-----------------------------------------------------------------------------
(* Captures: at most one per bucket and epoch *)

(* A step that leaves the captured and pinned buckets alone, outside       *)
(* warmup, leaves the counts of them right.                                *)
LEMMA CaptureFrame ==
    ASSUME CapturedOrPinned, CapturesCounted,
           DOMAIN cache' = DOMAIN cache, phase' # "warmup",
           UNCHANGED <<failed, failures, tries, widthsChecked>>
    PROVE  CapturedOrPinned' /\ CapturesCounted'
BY DEF CapturedOrPinned, CapturesCounted

(* A capture of a bucket that is neither captured nor pinned is its first. *)
LEMMA CaptureOnce ==
    ASSUME CaptureTypeOK, CapturedOrPinned, CapturesCounted,
           NEW bucket \in Keys, bucket \notin DOMAIN cache \cup failed,
           UNCHANGED widthsChecked, widthsChecked \in BOOLEAN,
           \/ \E in : CaptureBucket(bucket, in)
           \/ CaptureFails(bucket)
    PROVE  /\ CapturedOrPinned'
           /\ DOMAIN cache' \cup failed' = DOMAIN cache \cup failed \cup {bucket}
           /\ \A k \in Keys :
                 /\ tries'[k] = IF k \in DOMAIN cache' \cup failed' THEN 1 ELSE 0
                 /\ failures'[k] <= (IF k \in failed' THEN 1 ELSE 0)
                                     + (IF widthsChecked' THEN 1 ELSE 0)
<1>. USE DEF CaptureTypeOK, CapturedOrPinned, CapturesCounted
<1>1. CASE \E in : CaptureBucket(bucket, in)
  <2>1. DOMAIN cache' = DOMAIN cache \cup {bucket}
    BY <1>1 DEF CaptureBucket
  <2>2. failed' = failed /\ failures' = failures
    BY <1>1 DEF CaptureBucket
  <2>3. \A k \in Keys : tries'[k] = IF k = bucket THEN tries[k] + 1 ELSE tries[k]
    BY <1>1 DEF CaptureBucket
  <2>. QED  BY <2>1, <2>2, <2>3
<1>2. CASE CaptureFails(bucket)
  <2>1. cache' = cache /\ failed' = failed \cup {bucket}
    BY <1>2 DEF CaptureFails
  <2>2. \A k \in Keys : tries'[k] = IF k = bucket THEN tries[k] + 1 ELSE tries[k]
    BY <1>2 DEF CaptureFails
  <2>3. \A k \in Keys :
           failures'[k] = IF k = bucket THEN failures[k] + 1 ELSE failures[k]
    BY <1>2 DEF CaptureFails
  <2>. QED  BY <2>1, <2>2, <2>3
<1>. QED  BY <1>1, <1>2

(* No step captures a bucket twice in one epoch. *)
LEMMA CaptureStep ==
    ASSUME ControlTypeOK, CaptureTypeOK, CapturedOrPinned, CapturesCounted,
           [Next]_vars
    PROVE  CapturedOrPinned' /\ CapturesCounted'
<1>. USE DEF SetupUnchanged, SelectUnchanged, captureVars
<1>a. conf \in Configs /\ widthsChecked \in BOOLEAN
  BY DEF ControlTypeOK
<1>1. CASE GoReady
  BY <1>1, CaptureFrame DEF GoReady
<1>2. ASSUME NEW bucket \in todo, WarmupBucket(bucket)
      PROVE  CapturedOrPinned' /\ CapturesCounted'
  <2>1. /\ phase = "warmup" /\ phase' = "warmup" /\ todo' = todo \ {bucket}
        /\ UNCHANGED widthsChecked
    BY <1>2 DEF WarmupBucket
  <2>2. ~widthsChecked /\ todo \cap (DOMAIN cache \cup failed) = {}
    BY <2>1 DEF CapturesCounted
  <2>3. bucket \in Keys
    BY <1>a, ConfFacts DEF ControlTypeOK
  <2>4. CASE UNCHANGED captureVars
    BY <2>1, <2>2, <2>4 DEF CapturedOrPinned, CapturesCounted
  <2>5. CASE (\E in : CaptureBucket(bucket, in)) \/ CaptureFails(bucket)
    <3>1. /\ CapturedOrPinned'
          /\ DOMAIN cache' \cup failed' = DOMAIN cache \cup failed \cup {bucket}
          /\ \A k \in Keys :
                /\ tries'[k] = IF k \in DOMAIN cache' \cup failed' THEN 1 ELSE 0
                /\ failures'[k] <= (IF k \in failed' THEN 1 ELSE 0)
                                    + (IF widthsChecked' THEN 1 ELSE 0)
      BY <1>a, <2>1, <2>2, <2>3, <2>5, CaptureOnce
    <3>. QED  BY <2>1, <2>2, <3>1 DEF CapturesCounted
  <2>. QED  BY <1>2, <2>4, <2>5 DEF WarmupBucket
<1>3. ASSUME NEW b \in Batches, CollectBatch(b) \/ RejectBatch(b)
      PROVE  CapturedOrPinned' /\ CapturesCounted'
  <2>1. DOMAIN cache' = DOMAIN cache
    BY <1>3 DEF CollectBatch, RejectBatch, AgedCache
  <2>. QED  BY <1>3, <2>1, CaptureFrame DEF CollectBatch, RejectBatch, NewBatch
<1>4. CASE AbortBatch \/ OtherLayout
  BY <1>4, CaptureFrame DEF AbortBatch, OtherLayout
<1>5. CASE EnterGraphPath
  <2>1. CASE widthsChecked \/ ~WidthMismatch
    <3>1. UNCHANGED <<cache, failed, failures, tries>> /\ phase' # "warmup" /\ widthsChecked'
      BY <1>5, <2>1 DEF EnterGraphPath
    <3>. QED  BY <3>1, <1>a DEF CapturedOrPinned, CapturesCounted, CaptureTypeOK
  <2>2. CASE ~widthsChecked /\ WidthMismatch
    <3>1. /\ cache' = <<>> /\ failed' = {} /\ failures' = failures
          /\ tries' = [k \in Keys |-> 0] /\ phase' # "warmup" /\ widthsChecked'
      BY <1>5, <2>2 DEF EnterGraphPath
    <3>2. \A k \in Keys : failures'[k] <= 1
      BY <2>2, <3>1 DEF CapturesCounted, CaptureTypeOK
    <3>3. CapturedOrPinned'
      BY <3>1 DEF CapturedOrPinned
    <3>. QED  BY <3>1, <3>2, <3>3, EmptyDomain DEF CapturesCounted
  <2>. QED  BY <2>1, <2>2
<1>6. CASE NoCandidate \/ PadTraps \/ PadThrows \/ SelectCaptured
  BY <1>6, CaptureFrame DEF NoCandidate, PadTraps, PadThrows, SelectCaptured
<1>7. CASE SelectByCapture \/ SkipFailedCapture
  <2>1. PICK bucket \in Candidate \ DOMAIN cache :
           \/ CaptureBucket(bucket, InputsAt(bucket))
           \/ CaptureFails(bucket)
    BY <1>7 DEF SelectByCapture, SkipFailedCapture
  <2>2. bucket \in Keys /\ bucket \notin failed
    BY CandidateFacts
  <2>3. UNCHANGED widthsChecked /\ phase' # "warmup"
    BY <1>7 DEF SelectByCapture, SkipFailedCapture
  <2>4. /\ CapturedOrPinned'
        /\ \A k \in Keys :
              /\ tries'[k] = IF k \in DOMAIN cache' \cup failed' THEN 1 ELSE 0
              /\ failures'[k] <= (IF k \in failed' THEN 1 ELSE 0)
                                  + (IF widthsChecked' THEN 1 ELSE 0)
    BY <1>a, <2>1, <2>2, <2>3, CaptureOnce
  <2>. QED  BY <2>3, <2>4 DEF CapturesCounted
<1>8. CASE ReplaySucceeds \/ ReplayFails
  <2>1. DOMAIN cache' = DOMAIN cache
    BY <1>8 DEF ReplaySucceeds, ReplayFails
  <2>. QED  BY <1>8, <2>1, CaptureFrame DEF ReplaySucceeds, ReplayFails
<1>9. CASE RunEager
  BY <1>9, CaptureFrame DEF RunEager
<1>10. CASE UNCHANGED vars
  BY <1>10 DEF vars, CapturedOrPinned, CapturesCounted
<1>. QED  BY <1>1, <1>2, <1>3, <1>4, <1>5, <1>6, <1>7, <1>8, <1>9, <1>10
          DEF Next, Warmup, Execute, Select

-----------------------------------------------------------------------------
(* Prestaging agrees with the bucket loop *)

(* A batch that lines up with a bucket's buffers has an element for every  *)
(* request, so R is its request count.                                     *)
LEMMA ViableR ==
    ASSUME batch \in Batches, NEW e \in Inputs, NEW k \in Int, Viable(e, k, batch)
    PROVE  /\ k \in Nat /\ k > 0
           /\ Elements(batch) = Requests(batch) * (Len(e.elems) \div k)
           /\ R = Requests(batch)
<1>1. /\ Requests(batch) \in Nat /\ Requests(batch) >= 1
      /\ Elements(batch) \in Nat
  BY BatchFacts
<1>2. /\ k >= Requests(batch)
      /\ Elements(batch) = Requests(batch) * (Len(e.elems) \div k)
      /\ Elements(batch) > 0
  BY DEF Viable, LinesUp
<1>3. k \in Nat /\ k > 0
  BY <1>1, <1>2
<1>4. Len(e.elems) \div k \in Nat
  <2>1. Len(e.elems) \in Nat
    BY DEF Inputs
  <2>. QED  BY <1>3, <2>1, DivNat
<1>. DEFINE q == Len(e.elems) \div k
<1>. HIDE DEF q
<1>5. q \in Nat /\ Elements(batch) = Requests(batch) * q /\ Requests(batch) * q > 0
  BY <1>2, <1>4 DEF q
<1>6. Requests(batch) <= Elements(batch)
  BY <1>1, <1>5, MulPositive
<1>7. R = Requests(batch)
  BY <1>1, <1>6 DEF R
<1>. QED  BY <1>2, <1>3, <1>7

(* Prestaging and aging keep the shape that decided them. *)
LEMMA PrestageKeepsShape ==
    ASSUME NEW e \in Inputs, NEW k \in Nat, k > 0, NEW b \in Batches
    PROVE  /\ Prestage(e, k, b) \in Inputs
           /\ Prestage(e, k, b).width = e.width
           /\ Len(Prestage(e, k, b).rows) = Len(e.rows)
           /\ Len(Prestage(e, k, b).elems) = Len(e.elems)
           /\ Prestage(e, k, b).ends = e.ends
<1>1. /\ e.rows \in Seq(Mark) /\ e.elems \in Seq(Mark)
      /\ Len(e.rows) \in Nat /\ Len(e.elems) \in Nat
  BY DEF Inputs
<1>2. Requests(b) \in Nat
  BY BatchFacts
<1>3. "live" \in Mark
  BY DEF Mark
<1>4. /\ Requests(b) * (Len(e.rows) \div k) \in Nat
      /\ Requests(b) * (Len(e.elems) \div k) \in Nat
  BY <1>1, <1>2, DivNat, MulNat
<1>. DEFINE rows  == ZeroExtend(Filled(Requests(b) * (Len(e.rows) \div k), "live"),
                                Len(e.rows))
            elems == ZeroExtend(Filled(Requests(b) * (Len(e.elems) \div k), "live"),
                                Len(e.elems))
<1>5. rows \in Seq(Mark) /\ Len(rows) = Len(e.rows)
  BY <1>1, <1>3, <1>4, FilledSeq, ZeroExtendSeq
<1>6. elems \in Seq(Mark) /\ Len(elems) = Len(e.elems)
  BY <1>1, <1>3, <1>4, FilledSeq, ZeroExtendSeq
<1>7. Prestage(e, k, b) = [e EXCEPT !.rows = rows, !.elems = elems]
  BY DEF Prestage
<1>. HIDE DEF rows, elems
<1>. QED  BY <1>5, <1>6, <1>7 DEF Inputs

(* The cache as the next batch finds it. *)
LEMMA AgedCacheFacts ==
    ASSUME BuffersTypeOK
    PROVE  /\ DOMAIN AgedCache = DOMAIN cache
           /\ \A k \in DOMAIN cache :
                 /\ AgedCache[k] \in Inputs
                 /\ AgedCache[k].width = cache[k].width
                 /\ Len(AgedCache[k].rows) = Len(cache[k].rows)
                 /\ Len(AgedCache[k].elems) = Len(cache[k].elems)
                 /\ AgedCache[k].ends = cache[k].ends
<1>1. DOMAIN AgedCache = DOMAIN cache
  BY DEF AgedCache
<1>2. ASSUME NEW k \in DOMAIN cache
      PROVE  /\ AgedCache[k] \in Inputs
             /\ AgedCache[k].width = cache[k].width
             /\ Len(AgedCache[k].rows) = Len(cache[k].rows)
             /\ Len(AgedCache[k].elems) = Len(cache[k].elems)
             /\ AgedCache[k].ends = cache[k].ends
  <2>1. cache[k] \in Inputs
    BY DEF BuffersTypeOK
  <2>2. cache[k].rows \in Seq(Mark) /\ cache[k].elems \in Seq(Mark)
    BY <2>1 DEF Inputs
  <2>3. AgedCache[k] = [cache[k] EXCEPT !.rows = Aged(cache[k].rows),
                                        !.elems = Aged(cache[k].elems)]
    BY DEF AgedCache
  <2>4. /\ Aged(cache[k].rows) \in Seq(Mark) /\ Aged(cache[k].elems) \in Seq(Mark)
        /\ Len(Aged(cache[k].rows)) = Len(cache[k].rows)
        /\ Len(Aged(cache[k].elems)) = Len(cache[k].elems)
    BY <2>2, AgedSeq
  <2>. QED  BY <2>1, <2>3, <2>4 DEF Inputs
<1>. QED  BY <1>1, <1>2

(* The buffers after a batch is collected, prestaged or not. *)
LEMMA CollectFacts ==
    ASSUME ControlTypeOK, CaptureTypeOK, BuffersTypeOK,
           NEW b \in Batches, CollectBatch(b)
    PROVE  /\ DOMAIN cache' = DOMAIN cache
           /\ \A k \in DOMAIN cache :
                 /\ cache'[k] \in Inputs
                 /\ cache'[k].width = cache[k].width
                 /\ Len(cache'[k].rows) = Len(cache[k].rows)
                 /\ Len(cache'[k].elems) = Len(cache[k].elems)
                 /\ cache'[k].ends = cache[k].ends
           /\ prestaged' # None =>
                 /\ prestaged' = FindReady(Requests(b))
                 /\ prestaged' \in DOMAIN cache
                 /\ prestaged' >= Requests(b)
                 /\ Viable(cache[prestaged'], prestaged', b)
<1>. DEFINE k == FindReady(Requests(b))
            viable == k # None /\ Viable(cache[k], k, b)
<1>1. /\ prestaged' = IF viable THEN k ELSE None
      /\ cache' = IF viable THEN [AgedCache EXCEPT ![k] = Prestage(AgedCache[k], k, b)]
                            ELSE AgedCache
  BY DEF CollectBatch
<1>2. Requests(b) \in Nat /\ Requests(b) >= 1 /\ conf \in Configs
  BY BatchFacts DEF ControlTypeOK
<1>3. CASE ~viable
  <2>1. cache' = AgedCache /\ prestaged' = None
    BY <1>1, <1>3
  <2>. QED  BY <2>1, AgedCacheFacts
<1>4. CASE viable
  <2>1. k \in DOMAIN cache /\ k >= Requests(b)
    BY <1>2, <1>4, FindReadyFacts
  <2>. HIDE DEF k
  <2>2. k \in Nat /\ k > 0
    <3>1. k \in Int
      BY <2>1, KeysInt DEF CaptureTypeOK
    <3>. QED  BY <1>2, <2>1, <3>1
  <2>3. /\ cache' = [AgedCache EXCEPT ![k] = Prestage(AgedCache[k], k, b)]
        /\ prestaged' = k /\ Viable(cache[k], k, b)
    BY <1>1, <1>4
  <2>4. AgedCache[k] \in Inputs
    BY <2>1, AgedCacheFacts
  <2>5. /\ Prestage(AgedCache[k], k, b) \in Inputs
        /\ Prestage(AgedCache[k], k, b).width = AgedCache[k].width
        /\ Len(Prestage(AgedCache[k], k, b).rows) = Len(AgedCache[k].rows)
        /\ Len(Prestage(AgedCache[k], k, b).elems) = Len(AgedCache[k].elems)
        /\ Prestage(AgedCache[k], k, b).ends = AgedCache[k].ends
    BY <2>2, <2>4, PrestageKeepsShape
  <2>6. DOMAIN cache' = DOMAIN cache
    BY <2>3, AgedCacheFacts
  <2>7. ASSUME NEW j \in DOMAIN cache
        PROVE  /\ cache'[j] \in Inputs
               /\ cache'[j].width = cache[j].width
               /\ Len(cache'[j].rows) = Len(cache[j].rows)
               /\ Len(cache'[j].elems) = Len(cache[j].elems)
               /\ cache'[j].ends = cache[j].ends
    <3>1. j \in DOMAIN AgedCache
      BY AgedCacheFacts
    <3>2. CASE j = k
      <4>1. cache'[j] = Prestage(AgedCache[k], k, b)
        BY <2>3, <3>1, <3>2
      <4>. QED  BY <3>2, <4>1, <2>5, AgedCacheFacts
    <3>3. CASE j # k
      <4>1. cache'[j] = AgedCache[j]
        BY <2>3, <3>1, <3>3
      <4>. QED  BY <4>1, AgedCacheFacts
    <3>. QED  BY <3>2, <3>3
  <2>8. k = FindReady(Requests(b))
    BY DEF k
  <2>. QED  BY <2>1, <2>3, <2>6, <2>7, <2>8
<1>. QED  BY <1>3, <1>4

(* The width check never evicts under a prestaged batch: warmup entries    *)
(* have the configured widths, and a batch that lines up with one has them *)
(* too.                                                                    *)
LEMMA NoEvictionUnderPrestage ==
    ASSUME ControlTypeOK, CaptureTypeOK, BuffersTypeOK, WarmupShapes, PrestagedFits,
           phase = "collected", ~widthsChecked, WidthMismatch
    PROVE  prestaged = None
<1>. SUFFICES ASSUME prestaged # None
              PROVE  FALSE
  OBVIOUS
<1>. DEFINE k == prestaged
            e == cache[prestaged]
<1>1. k \in DOMAIN cache /\ Viable(e, k, batch)
  BY DEF PrestagedFits
<1>2. e \in Inputs /\ k \in Int /\ batch \in Batches /\ conf \in Configs
  BY <1>1, KeysInt DEF BuffersTypeOK, CaptureTypeOK, ControlTypeOK
<1>3. /\ e.width = conf.single
      /\ Len(e.rows) = k
      /\ Len(e.elems) = k * conf.multi
  BY <1>1 DEF WarmupShapes
<1>4. conf.single \in Nat /\ conf.multi \in Nat /\ conf.single > 0 /\ conf.multi > 0
  BY <1>2, ConfFacts DEF WidthMismatch
<1>5. /\ k \in Nat /\ k > 0
      /\ Elements(batch) = Requests(batch) * (Len(e.elems) \div k)
      /\ R = Requests(batch)
  BY <1>1, <1>2, ViableR
<1>6. /\ Requests(batch) \in Nat /\ Requests(batch) >= 1 /\ batch.single \in Nat
  BY <1>2, BatchFacts
<1>7. Requests(batch) * batch.single
         = Requests(batch) * ((Len(e.rows) * e.width) \div k)
  BY <1>1 DEF Viable, LinesUp
<1>. HIDE DEF k, e
<1>8. (k * conf.single) \div k = conf.single /\ (k * conf.multi) \div k = conf.multi
  BY <1>4, <1>5, DivMultiple
<1>9. Requests(batch) * batch.single = Requests(batch) * conf.single
  BY <1>3, <1>7, <1>8
<1>10. batch.single = conf.single
  BY <1>4, <1>6, <1>9, MulCancel
<1>11. Elements(batch) = Requests(batch) * conf.multi
  BY <1>3, <1>5, <1>8
<1>12. (Requests(batch) * conf.multi) \div Requests(batch) = conf.multi
  BY <1>4, <1>6, DivMultiple
<1>13. Elements(batch) \div R = conf.multi
  BY <1>5, <1>11, <1>12
<1>. QED  BY <1>10, <1>13 DEF WidthMismatch

(* A batch under way leaves the entries' shapes as the warmup made them    *)
(* until the widths are checked.                                           *)
LEMMA ShapeStep ==
    ASSUME ControlTypeOK, CaptureTypeOK, BuffersTypeOK, WarmupShapes,
           phase = "warmup" => ~widthsChecked, [Next]_vars
    PROVE  WarmupShapes'
<1>. USE DEF SetupUnchanged, SelectUnchanged, captureVars
<1>a. conf \in Configs /\ widthsChecked \in BOOLEAN
  BY DEF ControlTypeOK
<1>1. CASE /\ UNCHANGED <<conf, cache, widthsChecked>>
           /\ phase' \notin {"select", "replay"} \/ phase \in {"select", "replay"}
  BY <1>1 DEF WarmupShapes
<1>2. CASE widthsChecked'
  BY <1>2 DEF WarmupShapes
<1>3. ASSUME NEW bucket \in todo, WarmupBucket(bucket)
      PROVE  WarmupShapes'
  <2>1. /\ phase' = "warmup" /\ UNCHANGED <<conf, widthsChecked>>
        /\ \/ bucket >= 0 /\ CaptureBucket(bucket, WarmupInputs(bucket))
           \/ UNCHANGED cache
    BY <1>3 DEF WarmupBucket, CaptureFails
  <2>2. CASE UNCHANGED cache
    BY <2>1, <2>2 DEF WarmupShapes
  <2>3. CASE bucket >= 0 /\ CaptureBucket(bucket, WarmupInputs(bucket))
    <3>1. bucket \in Nat /\ conf.multi \in Nat
      BY <1>a, <2>3, ConfFacts DEF ControlTypeOK, WarmupOn
    <3>2. bucket * conf.multi \in Nat
      BY <3>1, MulNat
    <3>3. /\ WarmupInputs(bucket).width = conf.single
          /\ Len(WarmupInputs(bucket).rows) = bucket
          /\ Len(WarmupInputs(bucket).elems) = bucket * conf.multi
      BY <3>1, <3>2, FilledSeq DEF WarmupInputs, Mark
    <3>4. /\ DOMAIN cache' = DOMAIN cache \cup {bucket}
          /\ \A k \in DOMAIN cache' :
                cache'[k] = IF k = bucket THEN WarmupInputs(bucket) ELSE cache[k]
      BY <2>3 DEF CaptureBucket
    <3>. QED  BY <2>1, <3>3, <3>4 DEF WarmupShapes
  <2>. QED  BY <2>1, <2>2, <2>3
<1>4. ASSUME NEW b \in Batches, CollectBatch(b)
      PROVE  WarmupShapes'
  <2>1. phase' = "collected" /\ UNCHANGED <<conf, widthsChecked>>
    BY <1>4 DEF CollectBatch, NewBatch
  <2>. QED  BY <1>4, <2>1, CollectFacts DEF WarmupShapes
<1>5. ASSUME NEW b \in Batches, RejectBatch(b)
      PROVE  WarmupShapes'
  <2>1. phase' = "idle" /\ cache' = AgedCache /\ UNCHANGED <<conf, widthsChecked>>
    BY <1>5 DEF RejectBatch, NewBatch
  <2>. QED  BY <2>1, AgedCacheFacts DEF WarmupShapes
<1>6. CASE GoReady \/ AbortBatch \/ OtherLayout \/ RunEager
  BY <1>1, <1>6 DEF GoReady, AbortBatch, OtherLayout, RunEager
<1>7. CASE EnterGraphPath
  BY <1>2, <1>7 DEF EnterGraphPath
<1>8. CASE Select
  BY <1>2, <1>8 DEF Select, NoCandidate, PadTraps, PadThrows, SelectCaptured,
     SelectByCapture, SkipFailedCapture, WarmupShapes
<1>9. CASE ReplaySucceeds \/ ReplayFails
  BY <1>2, <1>9 DEF ReplaySucceeds, ReplayFails, WarmupShapes
<1>10. CASE UNCHANGED vars
  BY <1>1, <1>10 DEF vars
<1>. QED  BY <1>3, <1>4, <1>5, <1>6, <1>7, <1>8, <1>9, <1>10
          DEF Next, Warmup, Execute

(* The prestaged bucket, the loop's position and the bucket to replay keep *)
(* to the first bucket that is not pinned.                                 *)
LEMMA SelectionStep ==
    ASSUME ControlTypeOK, CaptureTypeOK, BuffersTypeOK, WarmupShapes,
           PrestagedFits, LoopSkipsPinned, ReplaysFirstHealthy, CopyIsPadded,
           [Next]_vars
    PROVE  PrestagedFits' /\ LoopSkipsPinned' /\ ReplaysFirstHealthy' /\ CopyIsPadded'
<1>. USE DEF SetupUnchanged, SelectUnchanged, captureVars, batchVars
<1>a. conf \in Configs /\ batch \in Batches /\ at \in Nat
  BY DEF ControlTypeOK
<1>b. R \in Nat /\ conf.buckets \subseteq Int
  BY <1>a, RFacts, ConfFacts
<1>1. CASE phase' \in {"warmup", "idle", "eager", "trapped"}
  BY <1>1 DEF PrestagedFits, LoopSkipsPinned, ReplaysFirstHealthy, CopyIsPadded
<1>2. CASE UNCHANGED vars
  <2>1. R' = R
    BY <1>2 DEF vars, R, Elements, Requests
  <2>. QED  BY <1>2, <2>1 DEF vars, PrestagedFits, LoopSkipsPinned,
            ReplaysFirstHealthy, CopyIsPadded, Viable, LinesUp, Requests
<1>3. ASSUME NEW b \in Batches, CollectBatch(b)
      PROVE  PrestagedFits' /\ phase' = "collected"
  <2>1. /\ phase' = "collected" /\ batch' = b
        /\ UNCHANGED <<conf, failed>>
    BY <1>3 DEF CollectBatch, NewBatch
  <2>. SUFFICES ASSUME prestaged' # None
                PROVE  PrestagedFits'
    BY <2>1 DEF PrestagedFits
  <2>2. /\ prestaged' = FindReady(Requests(b))
        /\ prestaged' \in DOMAIN cache'
        /\ prestaged' >= Requests(b)
        /\ Viable(cache[prestaged'], prestaged', b)
        /\ cache'[prestaged'].width = cache[prestaged'].width
        /\ Len(cache'[prestaged'].rows) = Len(cache[prestaged'].rows)
        /\ Len(cache'[prestaged'].elems) = Len(cache[prestaged'].elems)
        /\ cache'[prestaged'].ends = cache[prestaged'].ends
    BY <1>3, CollectFacts
  <2>4. \A c \in conf.buckets : c >= Requests(b) /\ c < prestaged' => c \in failed
    <3>1. Requests(b) \in Nat
      BY BatchFacts
    <3>. QED  BY <1>a, <2>2, <3>1, FindReadyFacts
  <2>5. Viable(cache[prestaged], prestaged, batch)'
    BY <2>1, <2>2 DEF Viable
  <2>. QED  BY <2>1, <2>2, <2>4, <2>5 DEF PrestagedFits
<1>4. CASE EnterGraphPath
  <2>1. /\ phase = "collected" /\ phase' \in {"replay", "select"} /\ prestaged' = None
        /\ UNCHANGED <<conf, batch>> /\ at' = R /\ ~copying'
    BY <1>4 DEF EnterGraphPath
  <2>2. R' = R
    BY <2>1 DEF R, Elements, Requests
  <2>3. CASE phase' = "select"
    BY <1>b, <2>1, <2>2, <2>3
    DEF PrestagedFits, LoopSkipsPinned, ReplaysFirstHealthy, CopyIsPadded
  <2>4. CASE phase' = "replay"
    <3>1. /\ prestaged # None /\ slot' = prestaged
          /\ UNCHANGED <<cache, failed>>
      BY <1>4, <2>4 DEF EnterGraphPath, None
    <3>2. /\ prestaged \in DOMAIN cache
          /\ Viable(cache[prestaged], prestaged, batch)
          /\ prestaged >= Requests(batch)
          /\ \A b \in conf.buckets : b >= Requests(batch) /\ b < prestaged => b \in failed
      BY <2>1, <3>1 DEF PrestagedFits
    <3>3. prestaged \in Int /\ cache[prestaged] \in Inputs
      BY <3>2, KeysInt DEF CaptureTypeOK, BuffersTypeOK
    <3>4. R = Requests(batch)
      BY <1>a, <3>2, <3>3, ViableR
    <3>. QED  BY <2>1, <2>2, <2>4, <3>1, <3>2, <3>4
              DEF PrestagedFits, LoopSkipsPinned, ReplaysFirstHealthy, CopyIsPadded
  <2>. QED  BY <2>1, <2>3, <2>4
<1>5. CASE SelectCaptured \/ SelectByCapture
  <2>1. /\ phase = "select" /\ phase' = "replay"
        /\ UNCHANGED <<conf, batch, failed>>
        /\ slot' \in Candidate /\ slot' \in DOMAIN cache' /\ Paddable(slot')
    BY <1>5 DEF SelectCaptured, SelectByCapture, CaptureBucket
  <2>2. R' = R
    BY <2>1 DEF R, Elements, Requests
  <2>3. /\ slot' \in Nat /\ slot' >= at
        /\ \A b \in conf.buckets : b >= at /\ b < slot' => b \in failed
    BY <2>1, CandidateFacts
  <2>4. /\ at >= R
        /\ \A b \in conf.buckets : b >= R /\ b < at => b \in failed
    BY <2>1 DEF LoopSkipsPinned
  <2>5. \A b \in conf.buckets : b >= R /\ b < slot' => b \in failed
    BY <1>a, <1>b, <2>3, <2>4
  <2>6. slot' >= R
    BY <1>a, <1>b, <2>3, <2>4
  <2>. QED  BY <2>1, <2>2, <2>5, <2>6
            DEF PrestagedFits, LoopSkipsPinned, ReplaysFirstHealthy, CopyIsPadded, Paddable
<1>6. CASE SkipFailedCapture
  <2>1. /\ phase = "select" /\ phase' = "select"
        /\ UNCHANGED <<conf, batch>>
        /\ \E bucket \in Candidate :
              at' = bucket + 1 /\ failed' = failed \cup {bucket}
    BY <1>6 DEF SkipFailedCapture, CaptureFails
  <2>2. PICK bucket \in Candidate :
           at' = bucket + 1 /\ failed' = failed \cup {bucket}
    BY <2>1
  <2>3. R' = R
    BY <2>1 DEF R, Elements, Requests
  <2>4. /\ bucket \in Nat /\ bucket >= at
        /\ \A b \in conf.buckets : b >= at /\ b < bucket => b \in failed
    BY CandidateFacts
  <2>5. /\ at >= R
        /\ \A b \in conf.buckets : b >= R /\ b < at => b \in failed
    BY <2>1 DEF LoopSkipsPinned
  <2>6. \A b \in conf.buckets : b >= R /\ b < bucket + 1 => b \in failed \cup {bucket}
    BY <1>a, <1>b, <2>4, <2>5
  <2>7. at' >= R
    BY <1>a, <1>b, <2>2, <2>4, <2>5
  <2>. QED  BY <2>1, <2>2, <2>3, <2>6, <2>7
            DEF PrestagedFits, LoopSkipsPinned, ReplaysFirstHealthy, CopyIsPadded
<1>7. CASE GoReady \/ AbortBatch \/ OtherLayout \/ NoCandidate \/ PadTraps
           \/ PadThrows \/ ReplaySucceeds \/ ReplayFails \/ RunEager
           \/ (\E bucket \in todo : WarmupBucket(bucket))
           \/ (\E b \in Batches : RejectBatch(b))
  <2>1. phase' \in {"warmup", "idle", "eager", "trapped"}
    BY <1>7 DEF GoReady, AbortBatch, OtherLayout, NoCandidate, PadTraps, PadThrows,
       ReplaySucceeds, ReplayFails, RunEager, WarmupBucket, RejectBatch
  <2>. QED  BY <1>1, <2>1
<1>8. ASSUME NEW b \in Batches, CollectBatch(b)
      PROVE  PrestagedFits' /\ LoopSkipsPinned' /\ ReplaysFirstHealthy' /\ CopyIsPadded'
  BY <1>3, <1>8 DEF LoopSkipsPinned, ReplaysFirstHealthy, CopyIsPadded
<1>. QED  BY <1>2, <1>4, <1>5, <1>6, <1>7, <1>8 DEF Next, Warmup, Execute, Select

-----------------------------------------------------------------------------
(* The static buffers stay well formed *)

(* What every batch and every warmup hands to a capture is well formed. *)
LEMMA BatchInputsTyped ==
    ASSUME NEW b \in Batches
    PROVE  /\ BatchInputs(b) \in Inputs
           /\ Len(BatchInputs(b).rows) = Requests(b)
           /\ Len(BatchInputs(b).elems) = Elements(b)
<1>1. /\ Requests(b) \in Nat /\ Elements(b) \in Nat /\ b.single \in Nat
      /\ b.ends \in Seq(Nat)
  BY BatchFacts
<1>2. /\ Filled(Requests(b), "live") \in Seq(Mark)
      /\ Filled(Elements(b), "live") \in Seq(Mark)
      /\ Len(Filled(Requests(b), "live")) = Requests(b)
      /\ Len(Filled(Elements(b), "live")) = Elements(b)
  BY <1>1, FilledSeq DEF Mark
<1>. QED  BY <1>1, <1>2 DEF BatchInputs, Inputs

(* PadRequestsUp keeps the tensors well formed. *)
LEMMA PadRequestsUpTyped ==
    ASSUME NEW in \in Inputs, NEW r \in Nat, r > 0, NEW bucket \in Nat
    PROVE  PadRequestsUp(in, r, bucket) \in Inputs
<1>1. /\ in.width \in Int /\ in.rows \in Seq(Mark) /\ in.elems \in Seq(Mark)
      /\ Len(in.rows) \in Nat /\ Len(in.elems) \in Nat
  BY DEF Inputs
<1>. DEFINE p == Len(in.rows) \div r
            q == Len(in.elems) \div r
<1>2. p \in Nat /\ q \in Nat
  BY <1>1, DivNat
<1>. HIDE DEF p, q
<1>3. p * bucket \in Nat /\ q * bucket \in Nat /\ \A i \in 1..bucket : i * q \in Nat
  BY <1>2, MulNat
<1>4. /\ ZeroExtend(in.rows, p * bucket) \in Seq(Mark)
      /\ ZeroExtend(in.elems, q * bucket) \in Seq(Mark)
  BY <1>1, <1>3, ZeroExtendSeq
<1>5. [i \in 1..bucket |-> i * q] \in Seq(Nat)
  BY <1>3
<1>6. PadRequestsUp(in, r, bucket) =
        [width |-> in.width, rows |-> ZeroExtend(in.rows, p * bucket),
         elems |-> ZeroExtend(in.elems, q * bucket),
         ends |-> [i \in 1..bucket |-> i * q]]
  BY DEF PadRequestsUp, p, q
<1>. QED  BY <1>1, <1>4, <1>5, <1>6 DEF Inputs

(* The inputs of a capture or of a copy are well formed. *)
LEMMA InputsAtTyped ==
    ASSUME batch \in Batches, NEW bucket \in Nat, bucket = R \/ R > 0
    PROVE  InputsAt(bucket) \in Inputs
<1>1. BatchInputs(batch) \in Inputs /\ R \in Nat
  BY BatchInputsTyped, RFacts
<1>. QED  BY <1>1, PadRequestsUpTyped DEF InputsAt

(* The warmup's inputs are well formed. *)
LEMMA WarmupInputsTyped ==
    ASSUME conf.single \in Nat, conf.multi \in Nat, NEW bucket \in Nat
    PROVE  WarmupInputs(bucket) \in Inputs
<1>1. bucket * conf.multi \in Nat /\ \A i \in 1..bucket : i * conf.multi \in Nat
  BY MulNat
<1>2. /\ Filled(bucket, "zero") \in Seq(Mark)
      /\ Filled(bucket * conf.multi, "zero") \in Seq(Mark)
  BY <1>1, FilledSeq DEF Mark
<1>3. [i \in 1..bucket |-> i * conf.multi] \in Seq(Nat)
  BY <1>1
<1>. QED  BY <1>2, <1>3 DEF WarmupInputs, Inputs

(* Copying the tensors that fit leaves the buffers well formed. *)
LEMMA CopyIntoTyped ==
    ASSUME NEW e \in Inputs, NEW in \in Inputs, NEW n \in 0..3,
           \A i \in 1..n : CopyFits(e, in, i)
    PROVE  CopyInto(e, in, n) \in Inputs
<1>1. /\ e.rows \in Seq(Mark) /\ e.elems \in Seq(Mark) /\ e.ends \in Seq(Nat)
      /\ in.rows \in Seq(Mark) /\ in.elems \in Seq(Mark) /\ in.ends \in Seq(Nat)
      /\ Len(e.rows) \in Nat /\ Len(e.elems) \in Nat /\ Len(e.ends) \in Nat
  BY DEF Inputs
<1>. DEFINE rows  == IF n >= 1 THEN Broadcast(in.rows, Len(e.rows)) ELSE e.rows
            elems == IF n >= 2 THEN Broadcast(in.elems, Len(e.elems)) ELSE e.elems
            ends  == IF n >= 3 THEN Broadcast(in.ends, Len(e.ends)) ELSE e.ends
<1>2. n >= 1 => FitsInto(Len(in.rows), Len(e.rows))
  <2>1. n >= 1 => CopyFits(e, in, 1)
    OBVIOUS
  <2>. QED  BY <2>1 DEF CopyFits
<1>3. n >= 2 => FitsInto(Len(in.elems), Len(e.elems))
  <2>1. n >= 2 => CopyFits(e, in, 2)
    OBVIOUS
  <2>. QED  BY <2>1 DEF CopyFits
<1>4. n >= 3 => FitsInto(Len(in.ends), Len(e.ends))
  <2>1. n >= 3 => CopyFits(e, in, 3)
    OBVIOUS
  <2>. QED  BY <2>1 DEF CopyFits
<1>5. rows \in Seq(Mark)
  BY <1>1, <1>2, BroadcastSeq
<1>6. elems \in Seq(Mark)
  BY <1>1, <1>3, BroadcastSeq
<1>7. ends \in Seq(Nat)
  BY <1>1, <1>4, BroadcastSeq
<1>8. CopyInto(e, in, n) = [e EXCEPT !.rows = rows, !.elems = elems, !.ends = ends]
  BY DEF CopyInto
<1>. HIDE DEF rows, elems, ends
<1>. QED  BY <1>5, <1>6, <1>7, <1>8 DEF Inputs

(* A replay writes well formed buffers, however many copies it gets to. *)
LEMMA ReplayTyped ==
    ASSUME ControlTypeOK, BuffersTypeOK, ReplaysFirstHealthy, CopyIsPadded,
           phase = "replay", NEW n \in 0..3,
           copying => \A i \in 1..n : CopyFits(cache[slot], InputsAt(slot), i)
    PROVE  slot \in DOMAIN cache /\ Copied(n) \in Inputs
<1>1. slot \in DOMAIN cache /\ slot >= R /\ R \in Nat /\ batch \in Batches
  BY RFacts DEF ReplaysFirstHealthy, ControlTypeOK
<1>2. slot \in Nat
  <2>1. slot \in Int
    BY KeysInt DEF ControlTypeOK
  <2>. QED  BY <1>1, <2>1
<1>3. cache[slot] \in Inputs
  BY <1>1 DEF BuffersTypeOK
<1>4. CASE copying
  <2>1. InputsAt(slot) \in Inputs
    BY <1>1, <1>2, <1>4, InputsAtTyped DEF CopyIsPadded
  <2>. QED  BY <1>1, <1>3, <1>4, <2>1, CopyIntoTyped DEF Copied
<1>. QED  BY <1>1, <1>3, <1>4 DEF Copied, ControlTypeOK

(* No step leaves ill formed buffers. *)
LEMMA BuffersStep ==
    ASSUME ControlTypeOK, CaptureTypeOK, BuffersTypeOK, ReplaysFirstHealthy,
           CopyIsPadded, [Next]_vars
    PROVE  BuffersTypeOK'
<1>. USE DEF SetupUnchanged, SelectUnchanged, captureVars
<1>a. conf \in Configs /\ batch \in Batches /\ at \in Nat
  BY DEF ControlTypeOK
<1>1. CASE UNCHANGED cache
  BY <1>1 DEF BuffersTypeOK
<1>2. ASSUME NEW bucket, NEW in \in Inputs, CaptureBucket(bucket, in)
      PROVE  BuffersTypeOK'
  <2>1. /\ DOMAIN cache' = DOMAIN cache \cup {bucket}
        /\ \A k \in DOMAIN cache' : cache'[k] = IF k = bucket THEN in ELSE cache[k]
    BY <1>2 DEF CaptureBucket
  <2>. QED  BY <2>1 DEF BuffersTypeOK
<1>3. ASSUME NEW bucket \in todo, WarmupBucket(bucket)
      PROVE  BuffersTypeOK'
  <2>1. CASE UNCHANGED cache
    BY <1>1, <2>1
  <2>2. CASE bucket >= 0 /\ CaptureBucket(bucket, WarmupInputs(bucket))
    <3>1. conf.single \in Nat /\ conf.multi \in Nat /\ bucket \in Nat
      BY <1>a, <2>2, ConfFacts DEF ControlTypeOK, WarmupOn
    <3>. QED  BY <1>2, <2>2, <3>1, WarmupInputsTyped
  <2>. QED  BY <1>3, <2>1, <2>2 DEF WarmupBucket, CaptureFails
<1>4. ASSUME NEW b \in Batches, CollectBatch(b)
      PROVE  BuffersTypeOK'
  BY <1>4, CollectFacts DEF BuffersTypeOK
<1>5. ASSUME NEW b \in Batches, RejectBatch(b)
      PROVE  BuffersTypeOK'
  BY <1>5, AgedCacheFacts DEF RejectBatch, BuffersTypeOK
<1>6. CASE GoReady \/ AbortBatch \/ OtherLayout \/ RunEager \/ NoCandidate
           \/ PadTraps \/ PadThrows \/ SelectCaptured \/ SkipFailedCapture
  BY <1>1, <1>6 DEF GoReady, AbortBatch, OtherLayout, RunEager, NoCandidate,
     PadTraps, PadThrows, SelectCaptured, SkipFailedCapture, CaptureFails
<1>7. CASE EnterGraphPath
  <2>1. cache' = cache \/ cache' = <<>>
    BY <1>7 DEF EnterGraphPath
  <2>. QED  BY <2>1, EmptyDomain DEF BuffersTypeOK
<1>8. CASE SelectByCapture
  <2>1. PICK bucket \in Candidate :
           Paddable(bucket) /\ CaptureBucket(bucket, InputsAt(bucket))
    BY <1>8 DEF SelectByCapture
  <2>2. bucket \in Nat /\ (bucket = R \/ R > 0)
    BY <2>1, CandidateFacts DEF Paddable
  <2>. QED  BY <1>a, <1>2, <2>1, <2>2, InputsAtTyped
<1>9. CASE ReplaySucceeds \/ ReplayFails
  <2>1. PICK n \in 0..3 :
           /\ copying => \A i \in 1..n : CopyFits(cache[slot], InputsAt(slot), i)
           /\ cache' = [cache EXCEPT ![slot] = Copied(n)]
    <3>1. CASE ReplaySucceeds
      <4>. WITNESS 3 \in 0..3
      <4>. QED  BY <3>1 DEF ReplaySucceeds
    <3>2. CASE ReplayFails
      <4>1. PICK n \in (IF copying THEN 0..3 ELSE {0}) :
               /\ \A i \in 1..n : CopyFits(cache[slot], InputsAt(slot), i)
               /\ cache' = [cache EXCEPT ![slot] = Copied(n)]
        BY <3>2 DEF ReplayFails
      <4>2. n \in 0..3
        OBVIOUS
      <4>. WITNESS n \in 0..3
      <4>. QED  BY <4>1
    <3>. QED  BY <1>9, <3>1, <3>2
  <2>2. phase = "replay"
    BY <1>9 DEF ReplaySucceeds, ReplayFails
  <2>3. slot \in DOMAIN cache /\ Copied(n) \in Inputs
    BY <2>1, <2>2, ReplayTyped
  <2>. QED  BY <2>1, <2>3 DEF BuffersTypeOK
<1>10. CASE UNCHANGED vars
  BY <1>1, <1>10 DEF vars
<1>. QED  BY <1>3, <1>4, <1>5, <1>6, <1>7, <1>8, <1>9, <1>10
          DEF Next, Warmup, Execute, Select

(* No step leaves a batch counted twice, or not at all. *)
LEMMA TallyStep ==
    ASSUME ControlTypeOK, ReplaysFirstHealthy, TallyInFlight, CountedOnce, [Next]_vars
    PROVE  TallyInFlight' /\ CountedOnce'
<1>. USE DEF TallyInFlight, CountedOnce, ControlTypeOK, NoTally, SetupUnchanged,
             SelectUnchanged, batchVars
<1>1. CASE Warmup
  BY <1>1 DEF Warmup, GoReady, WarmupBucket
<1>2. ASSUME NEW b \in Batches, CollectBatch(b) \/ RejectBatch(b)
      PROVE  TallyInFlight' /\ CountedOnce'
  BY <1>2 DEF CollectBatch, RejectBatch, NewBatch
<1>3. CASE AbortBatch
  BY <1>3 DEF AbortBatch
<1>4. CASE OtherLayout
  BY <1>4 DEF OtherLayout
<1>5. CASE EnterGraphPath
  BY <1>5 DEF EnterGraphPath
<1>6. CASE NoCandidate
  BY <1>6 DEF NoCandidate
<1>7. CASE PadTraps \/ PadThrows
  BY <1>7 DEF PadTraps, PadThrows
<1>8. CASE SelectCaptured \/ SelectByCapture
  BY <1>8 DEF SelectCaptured, SelectByCapture
<1>9. CASE SkipFailedCapture
  BY <1>9 DEF SkipFailedCapture
<1>10. CASE ReplaySucceeds
  BY <1>10 DEF ReplaySucceeds
<1>11. CASE ReplayFails
  BY <1>11 DEF ReplayFails
<1>12. CASE RunEager
  BY <1>12 DEF RunEager
<1>13. CASE UNCHANGED vars
  BY <1>13 DEF vars
<1>. QED  BY <1>1, <1>2, <1>3, <1>4, <1>5, <1>6, <1>7, <1>8, <1>9, <1>10,
             <1>11, <1>12, <1>13 DEF Next, Execute, Select

-----------------------------------------------------------------------------
(* The invariant and its consequences *)

(* A freshly constructed instance satisfies the invariant. *)
LEMMA InitInd == Init => IndInv
<1>. SUFFICES ASSUME Init PROVE IndInv
  OBVIOUS
<1>. USE DEF Init
<1>1. DOMAIN cache = {}
  BY EmptyDomain
<1>2. ControlTypeOK
  BY DEF ControlTypeOK, NoTally
<1>3. CaptureTypeOK /\ BuffersTypeOK
  BY <1>1 DEF CaptureTypeOK, BuffersTypeOK
<1>4. CapturedOrPinned /\ CapturesCounted
  BY <1>1 DEF CapturedOrPinned, CapturesCounted
<1>5. WarmupShapes /\ PrestagedFits /\ LoopSkipsPinned /\ ReplaysFirstHealthy
      /\ CopyIsPadded
  BY <1>1 DEF WarmupShapes, PrestagedFits, LoopSkipsPinned, ReplaysFirstHealthy,
     CopyIsPadded
<1>6. TallyInFlight /\ CountedOnce
  BY DEF TallyInFlight, CountedOnce
<1>. QED  BY <1>2, <1>3, <1>4, <1>5, <1>6 DEF IndInv, TypeOK

(* Every step preserves the invariant. *)
LEMMA IndStep == IndInv /\ [Next]_vars => IndInv'
<1>. SUFFICES ASSUME IndInv, [Next]_vars PROVE IndInv'
  OBVIOUS
<1>. USE DEF IndInv, TypeOK
<1>1. ControlTypeOK' /\ CaptureTypeOK'
  BY ControlStep
<1>2. BuffersTypeOK'
  BY BuffersStep
<1>3. CapturedOrPinned' /\ CapturesCounted'
  BY CaptureStep
<1>4. WarmupShapes'
  <2>1. phase = "warmup" => ~widthsChecked
    BY DEF CapturesCounted
  <2>. QED  BY <2>1, ShapeStep
<1>5. PrestagedFits' /\ LoopSkipsPinned' /\ ReplaysFirstHealthy' /\ CopyIsPadded'
  BY SelectionStep
<1>6. TallyInFlight' /\ CountedOnce'
  BY TallyStep
<1>. QED  BY <1>1, <1>2, <1>3, <1>4, <1>5, <1>6

(* The invariant holds throughout the life of an instance, whatever its    *)
(* allowlist, the widths of its batches and the captures that fail.        *)
THEOREM Invariant == Spec => []IndInv
BY InitInd, IndStep, PTL DEF Spec

(* Type correctness: in particular every static input buffer stays a well  *)
(* formed tensor triple through captures, copies, prestaging and zeroing.  *)
THEOREM TypeCorrect == Spec => []TypeOK
<1>1. IndInv => TypeOK
  BY DEF IndInv
<1>. QED  BY <1>1, Invariant, PTL

(* A bucket is never both captured and pinned to eager, across warmup,     *)
(* lazy capture and the eviction that clears both tables.                  *)
THEOREM CapturedNeverPinned == Spec => []CapturedOrPinned
<1>1. IndInv => CapturedOrPinned
  BY DEF IndInv
<1>. QED  BY <1>1, Invariant, PTL

(* Between evictions CaptureBucket runs at most once per bucket, and an    *)
(* instance leaks at most two partial graphs per bucket in its life.       *)
THEOREM CaptureBound == Spec => []CapturesBounded
<1>1. IndInv => CapturesBounded
  BY DEF IndInv, TypeOK, ControlTypeOK, CaptureTypeOK, CapturesCounted, CapturesBounded
<1>. QED  BY <1>1, Invariant, PTL

(* The prestaging lookup and the bucket loop agree: every replay is of the *)
(* first allowlisted bucket >= R that is not pinned, and it is captured.   *)
THEOREM ReplayedBucket == Spec => []ReplaysFirstHealthy
<1>1. IndInv => ReplaysFirstHealthy
  BY DEF IndInv
<1>. QED  BY <1>1, Invariant, PTL

(* Every batch that ran is counted exactly once, under its own counter.    *)
THEOREM BatchesCounted == Spec => []CountedOnce
<1>1. IndInv => CountedOnce
  BY DEF IndInv
<1>. QED  BY <1>1, Invariant, PTL

(* The self-heal evicts nothing a prestaged batch is a view of: the claim  *)
(* of ExecuteWithCudaGraph's comment, for every configuration and batch.   *)
THEOREM SelfHealSparesPrestaged == Spec => EvictionSparesPrestaged
<1>1. IndInv /\ EnterGraphPath /\ ~widthsChecked /\ WidthMismatch => prestaged = None
  BY NoEvictionUnderPrestage DEF IndInv, TypeOK, EnterGraphPath
<1>2. IndInv => [EnterGraphPath /\ ~widthsChecked /\ WidthMismatch
                    => prestaged = None]_vars
  BY <1>1
<1>. QED  BY <1>2, Invariant, PTL DEF EvictionSparesPrestaged

-----------------------------------------------------------------------------
(* Uniform batches *)

UniformBatch(b) == b \in Batches /\ Uniform(b) /\ b.ends[1] >= 2

(* The tensors of batch b, padded up to a bucket. *)
Carries(e, b, bucket) ==
    /\ Len(e.rows) = bucket /\ Len(e.ends) = bucket
    /\ Len(e.elems) = bucket * b.ends[1]
    /\ \A i \in 1..bucket : /\ e.rows[i] = IF i <= Requests(b) THEN "live" ELSE "zero"
                            /\ e.ends[i] = i * b.ends[1]
    /\ \A i \in 1..(bucket * b.ends[1]) :
          e.elems[i] = IF i <= Elements(b) THEN "live" ELSE "zero"

(* What a batch may be read from: ReadsBatch, of any batch. *)
Reads(e, b) ==
    /\ e.width = b.single
    /\ \A i \in 1..Len(e.rows) :
          e.rows[i] = IF i <= Requests(b) THEN "live" ELSE "zero"
    /\ \A i \in 1..Len(e.elems) :
          e.elems[i] = IF i <= Elements(b) THEN "live" ELSE "zero"
    /\ \A i \in 1..Requests(b) : i <= Len(e.ends) /\ e.ends[i] = b.ends[i]
    /\ Len(e.rows) >= Requests(b) /\ Len(e.elems) >= Elements(b)

(* A factor of at least one does not make a product smaller. *)
LEMMA MulGrows ==
    ASSUME NEW a \in Nat, NEW b \in Nat, NEW c \in Nat, a <= b
    PROVE  a * c <= b * c
BY SMT

LEMMA IntCancel ==
    ASSUME NEW n \in Nat, NEW a \in Int, NEW b \in Int, n >= 1, n * a = n * b
    PROVE  a = b
<1>1. n * (a - b) = 0
  BY SMT
<1>2. a - b = 0
  BY <1>1, SMT
<1>. QED  BY <1>2

(* A quotient by the divisor itself. *)
LEMMA DivSelf ==
    ASSUME NEW k \in Nat, k > 0
    PROVE  k \div k = 1
BY SMT

(* Every request of a uniform batch has the elements of the first. *)
LEMMA UniformFacts ==
    ASSUME NEW b, UniformBatch(b)
    PROVE  /\ b.ends[1] \in Nat /\ b.ends[1] >= 2
           /\ Requests(b) \in Nat /\ Requests(b) >= 1
           /\ Elements(b) \in Nat
           /\ Elements(b) = Requests(b) * b.ends[1]
           /\ Requests(b) <= Elements(b)
           /\ \A i \in 1..Requests(b) : b.ends[i] = i * b.ends[1]
<1>1. /\ b \in Batches /\ b.ends \in Seq(Nat)
      /\ Requests(b) \in Nat /\ Requests(b) >= 1 /\ Elements(b) \in Nat
  BY BatchFacts DEF UniformBatch
<1>2. /\ \A i \in 1..Requests(b) : b.ends[i] = i * b.ends[1]
      /\ b.ends[1] >= 2
  BY DEF UniformBatch, Uniform
<1>3. b.ends[1] \in Nat
  BY <1>1 DEF Requests
<1>4. Elements(b) = Requests(b) * b.ends[1]
  BY <1>1, <1>2 DEF Elements, Requests
<1>5. Requests(b) <= Elements(b)
  <2>1. PICK n \in Nat, w \in Nat : n = Requests(b) /\ w = b.ends[1]
    BY <1>1, <1>3
  <2>2. n * w > 0
    BY <1>1, <1>2, <2>1, SMT
  <2>. QED  BY <1>4, <2>1, <2>2, MulPositive
<1>. QED  BY <1>1, <1>2, <1>3, <1>4, <1>5

(* R counts the requests of a uniform batch. *)
LEMMA UniformR ==
    ASSUME UniformBatch(batch)
    PROVE  R = Requests(batch) /\ R \in Nat /\ R >= 1
BY UniformFacts DEF R

(* What a batch fills is live, what padding adds is zero. *)
LEMMA ExtendedLive ==
    ASSUME NEW n \in Nat, NEW m \in Nat
    PROVE  /\ Len(ZeroExtend(Filled(n, "live"), m)) = m
           /\ \A i \in 1..m : ZeroExtend(Filled(n, "live"), m)[i] =
                                IF i <= n THEN "live" ELSE "zero"
<1>1. Filled(n, "live") \in Seq(Mark) /\ Len(Filled(n, "live")) = n
  BY FilledSeq DEF Mark
<1>2. \A i \in 1..n : Filled(n, "live")[i] = "live"
  BY DEF Filled
<1>3. Len(ZeroExtend(Filled(n, "live"), m)) = m
  BY <1>1, ZeroExtendSeq
<1>4. ASSUME NEW i \in 1..m
      PROVE  ZeroExtend(Filled(n, "live"), m)[i] = IF i <= n THEN "live" ELSE "zero"
  BY <1>1, <1>2 DEF ZeroExtend
<1>. QED  BY <1>3, <1>4

(* The inputs at a bucket that is large enough carry the batch, and the    *)
(* padding fits.                                                           *)
LEMMA UniformInputs ==
    ASSUME UniformBatch(batch), NEW k \in Nat, k >= R
    PROVE  /\ InputsAt(k).width = batch.single
           /\ Carries(InputsAt(k), batch, k)
           /\ PadFits(BatchInputs(batch), R, k)
<1>1. PICK n \in Nat, w \in Nat : n = Requests(batch) /\ w = batch.ends[1]
  BY UniformFacts
<1>2. /\ R = n /\ n >= 1 /\ w >= 2 /\ Elements(batch) = n * w /\ n * w \in Nat
      /\ \A i \in 1..n : batch.ends[i] = i * w
      /\ Len(batch.ends) = n
  BY <1>1, UniformFacts, UniformR DEF Requests
<1>3. k * w \in Nat /\ n * w <= k * w
  BY <1>2, MulNat, MulGrows
<1>. DEFINE in == BatchInputs(batch)
<1>4. /\ in.width = batch.single /\ in.ends = batch.ends
      /\ in.rows = Filled(n, "live") /\ in.elems = Filled(n * w, "live")
      /\ Len(in.rows) = n /\ Len(in.elems) = n * w
      /\ \A i \in 1..n : in.rows[i] = "live"
      /\ \A i \in 1..(n * w) : in.elems[i] = "live"
  <2>1. in = [width |-> batch.single, rows |-> Filled(n, "live"), ends |-> batch.ends,
              elems |-> Filled(n * w, "live")]
    BY <1>1, <1>2 DEF BatchInputs
  <2>2. Len(Filled(n, "live")) = n /\ Len(Filled(n * w, "live")) = n * w
    BY <1>2, FilledSeq DEF Mark
  <2>3. /\ \A i \in 1..n : Filled(n, "live")[i] = "live"
        /\ \A i \in 1..(n * w) : Filled(n * w, "live")[i] = "live"
    BY DEF Filled
  <2>. QED  BY <2>1, <2>2, <2>3
<1>. HIDE DEF in
<1>5. Len(in.rows) \div n = 1 /\ Len(in.elems) \div n = w
  <2>1. n \div n = 1
    BY <1>2, DivSelf
  <2>2. (n * w) \div n = w
    BY <1>2, DivMultiple
  <2>. QED  BY <1>4, <2>1, <2>2, Zenon
<1>. DEFINE out == PadRequestsUp(in, n, k)
<1>6. out = [width |-> batch.single,
             rows  |-> ZeroExtend(Filled(n, "live"), k),
             elems |-> ZeroExtend(Filled(n * w, "live"), k * w),
             ends  |-> [i \in 1..k |-> i * w]]
  <2>1. (1 * k) = k /\ w * k = k * w
    OBVIOUS
  <2>. QED  BY <1>4, <1>5, <2>1 DEF PadRequestsUp
<1>. HIDE DEF out
<1>7. /\ out.width = batch.single
      /\ Len(out.rows) = k /\ Len(out.elems) = k * w /\ Len(out.ends) = k
      /\ \A i \in 1..k : /\ out.rows[i] = IF i <= n THEN "live" ELSE "zero"
                         /\ out.ends[i] = i * w
      /\ \A i \in 1..(k * w) : out.elems[i] = IF i <= n * w THEN "live" ELSE "zero"
  BY <1>2, <1>3, <1>6, ExtendedLive
<1>8. PadFits(in, R, k)
  BY <1>2, <1>3, <1>4, <1>7 DEF PadFits, out
<1>9. CASE k = R
  <2>1. InputsAt(k) = in
    BY <1>9 DEF InputsAt, in
  <2>. QED  BY <1>1, <1>2, <1>4, <1>8, <1>9, <2>1 DEF Carries, in
<1>10. CASE k # R
  <2>1. InputsAt(k) = out
    BY <1>2, <1>10 DEF InputsAt, in, out
  <2>. QED  BY <1>1, <1>2, <1>7, <1>8, <2>1 DEF Carries, in
<1>. QED  BY <1>9, <1>10

(* Buffers that carry a batch are regular, and read as the batch. *)
LEMMA CarriesFacts ==
    ASSUME NEW b, UniformBatch(b), NEW k \in Nat, k >= Requests(b), NEW e, Carries(e, b, k)
    PROVE  Regular(e, k) /\ (e.width = b.single => Reads(e, b))
<1>1. PICK n \in Nat, w \in Nat : n = Requests(b) /\ w = b.ends[1]
  BY UniformFacts
<1>2. /\ n >= 1 /\ w >= 2 /\ Elements(b) = n * w /\ n * w \in Nat
      /\ \A i \in 1..n : b.ends[i] = i * w
  BY <1>1, UniformFacts
<1>3. k * w \in Nat /\ n * w <= k * w /\ w <= k * w
  <2>1. k * w \in Nat /\ n * w <= k * w /\ 1 * w <= k * w
    BY <1>1, <1>2, MulNat, MulGrows
  <2>. QED  BY <2>1
<1>4. /\ Len(e.rows) = k /\ Len(e.ends) = k /\ Len(e.elems) = k * w
      /\ \A i \in 1..k : /\ e.rows[i] = IF i <= n THEN "live" ELSE "zero"
                         /\ e.ends[i] = i * w
      /\ \A i \in 1..(k * w) : e.elems[i] = IF i <= n * w THEN "live" ELSE "zero"
  BY <1>1, <1>2 DEF Carries
<1>5. w \in 0..Len(e.elems)
  BY <1>3, <1>4
<1>6. Regular(e, k)
  BY <1>4, <1>5 DEF Regular
<1>7. ASSUME e.width = b.single
      PROVE  Reads(e, b)
  BY <1>1, <1>2, <1>3, <1>4, <1>7 DEF Reads
<1>. QED  BY <1>6, <1>7

(* A batch that lines up with regular buffers has their element count, and *)
(* their width.                                                            *)
LEMMA ViableUniform ==
    ASSUME NEW b, UniformBatch(b), NEW k \in Int, NEW e \in Inputs,
           Regular(e, k), Viable(e, k, b)
    PROVE  /\ k \in Nat /\ k >= Requests(b) /\ k > 0
           /\ e.width = b.single
           /\ Len(e.elems) = k * b.ends[1]
           /\ \A i \in 1..k : e.ends[i] = i * b.ends[1]
<1>1. PICK n \in Nat, w \in Nat : n = Requests(b) /\ w = b.ends[1]
  BY UniformFacts
<1>2. n >= 1 /\ w >= 2 /\ Elements(b) = n * w
  BY <1>1, UniformFacts
<1>3. /\ k >= n
      /\ n * b.single = n * ((k * e.width) \div k) /\ n * b.single > 0
      /\ Elements(b) = n * (Len(e.elems) \div k)
      /\ Len(e.rows) = k
  BY <1>1 DEF Viable, LinesUp, Regular
<1>4. k \in Nat /\ k > 0
  BY <1>1, <1>2, <1>3
<1>5. PICK m \in 0..Len(e.elems) : /\ Len(e.elems) = k * m
                                   /\ \A i \in 1..k : e.ends[i] = i * m
  BY DEF Regular
<1>6. m \in Nat
  <2>1. Len(e.elems) \in Nat
    BY DEF Inputs
  <2>. QED  BY <1>5, <2>1
<1>7. w = m
  <2>1. (k * m) \div k = m
    BY <1>4, <1>6, DivMultiple
  <2>2. n * w = n * m
    BY <1>2, <1>3, <1>5, <2>1, Zenon
  <2>. QED  BY <1>1, <1>2, <1>6, <2>2, MulCancel
<1>8. e.width = b.single
  <2>1. e.width \in Int /\ b.single \in Nat
    BY BatchFacts DEF Inputs, UniformBatch
  <2>2. (k * e.width) \div k = e.width
    BY <1>4, <2>1, SMT
  <2>3. n * b.single = n * e.width
    BY <1>3, <2>2, Zenon
  <2>4. PICK x \in Int, y \in Int : x = b.single /\ y = e.width
    BY <2>1
  <2>5. n * x = n * y
    BY <2>3, <2>4, Zenon
  <2>6. x = y
    BY <1>1, <1>2, <2>5, IntCancel
  <2>. QED  BY <2>4, <2>6
<1>. QED  BY <1>1, <1>3, <1>4, <1>5, <1>7, <1>8

(* Prestaging a batch into regular buffers makes them carry it. *)
LEMMA PrestageCarries ==
    ASSUME NEW b, UniformBatch(b), NEW k \in Int, NEW e \in Inputs,
           Regular(e, k), Viable(e, k, b)
    PROVE  /\ Carries(Prestage(e, k, b), b, k)
           /\ Prestage(e, k, b).width = b.single
<1>1. PICK n \in Nat, w \in Nat : n = Requests(b) /\ w = b.ends[1]
  BY UniformFacts
<1>2. n >= 1 /\ w >= 2 /\ Elements(b) = n * w /\ n * w \in Nat
  BY <1>1, UniformFacts
<1>3. /\ k \in Nat /\ k > 0 /\ e.width = b.single
      /\ Len(e.rows) = k /\ Len(e.ends) = k /\ Len(e.elems) = k * w
      /\ \A i \in 1..k : e.ends[i] = i * w
  BY <1>1, ViableUniform DEF Regular
<1>4. k * w \in Nat
  BY <1>3, MulNat
<1>5. n * (Len(e.rows) \div k) = n /\ n * (Len(e.elems) \div k) = n * w
  <2>1. k \div k = 1 /\ (k * w) \div k = w
    BY <1>3, DivSelf, DivMultiple
  <2>2. n * 1 = n
    OBVIOUS
  <2>. QED  BY <1>3, <2>1, <2>2, Zenon
<1>. DEFINE p == Prestage(e, k, b)
<1>6. /\ p.width = e.width /\ p.ends = e.ends
      /\ p.rows = ZeroExtend(Filled(n, "live"), k)
      /\ p.elems = ZeroExtend(Filled(n * w, "live"), k * w)
  <2>1. p = [e EXCEPT !.rows = ZeroExtend(Filled(n, "live"), k),
                      !.elems = ZeroExtend(Filled(n * w, "live"), k * w)]
    BY <1>1, <1>3, <1>5 DEF Prestage
  <2>. QED  BY <2>1 DEF Inputs
<1>. HIDE DEF p
<1>7. /\ Len(p.rows) = k /\ Len(p.elems) = k * w
      /\ \A i \in 1..k : p.rows[i] = IF i <= n THEN "live" ELSE "zero"
      /\ \A i \in 1..(k * w) : p.elems[i] = IF i <= n * w THEN "live" ELSE "zero"
  BY <1>2, <1>3, <1>4, <1>6, ExtendedLive
<1>8. Carries(p, b, k)
  BY <1>1, <1>2, <1>3, <1>6, <1>7 DEF Carries
<1>. QED  BY <1>3, <1>6, <1>8 DEF p

(* However far the copies of a uniform batch get, the buffers stay regular; *)
(* once all are made the buffers carry the batch, or are wider than it.     *)
LEMMA CopyCarries ==
    ASSUME NEW b, UniformBatch(b), NEW k \in Nat, k >= Requests(b),
           NEW e \in Inputs, Regular(e, k), NEW in \in Inputs, Carries(in, b, k),
           NEW n \in 0..3, \A i \in 1..n : CopyFits(e, in, i)
    PROVE  /\ Regular(CopyInto(e, in, n), k)
           /\ CopyInto(e, in, n).width = e.width
           /\ n = 3 => Carries(CopyInto(e, in, n), b, k) /\ FitsInto(in.width, e.width)
<1>1. PICK w \in Nat : w = b.ends[1]
  BY UniformFacts
<1>2. w >= 2 /\ k >= 1
  BY <1>1, UniformFacts
<1>3. PICK m \in 0..Len(e.elems) : /\ Len(e.elems) = k * m
                                   /\ \A i \in 1..k : e.ends[i] = i * m
  BY DEF Regular
<1>4. m \in Nat /\ k * m \in Nat /\ k * w \in Nat
  <2>1. Len(e.elems) \in Nat
    BY DEF Inputs
  <2>. QED  BY <1>3, <2>1, MulNat
<1>5. /\ Len(e.rows) = k /\ Len(e.ends) = k
      /\ Len(in.rows) = k /\ Len(in.ends) = k /\ Len(in.elems) = k * w
      /\ \A i \in 1..k : in.ends[i] = i * w
  BY <1>1 DEF Regular, Carries
<1>6. n >= 2 => k * w = k * m
  <2>1. n >= 2 => FitsInto(Len(in.elems), Len(e.elems))
    <3>1. n >= 2 => CopyFits(e, in, 2)
      OBVIOUS
    <3>. QED  BY <3>1 DEF CopyFits
  <2>2. k * w # 1
    <3>1. 1 * w <= k * w
      BY <1>2, MulGrows
    <3>. QED  BY <1>2, <1>4, <3>1
  <2>. QED  BY <1>3, <1>5, <2>1, <2>2 DEF FitsInto
<1>7. n >= 2 => w = m
  BY <1>2, <1>4, <1>6, MulCancel
<1>. DEFINE c == CopyInto(e, in, n)
<1>8. /\ c.width = e.width
      /\ c.rows = IF n >= 1 THEN in.rows ELSE e.rows
      /\ c.elems = IF n >= 2 THEN in.elems ELSE e.elems
      /\ c.ends = IF n >= 3 THEN in.ends ELSE e.ends
  <2>1. /\ Broadcast(in.rows, Len(e.rows)) = in.rows
        /\ Broadcast(in.ends, Len(e.ends)) = in.ends
    BY <1>5 DEF Broadcast
  <2>2. n >= 2 => Broadcast(in.elems, Len(e.elems)) = in.elems
    BY <1>3, <1>5, <1>6 DEF Broadcast
  <2>3. c = [e EXCEPT
               !.rows  = IF n >= 1 THEN in.rows ELSE e.rows,
               !.elems = IF n >= 2 THEN in.elems ELSE e.elems,
               !.ends  = IF n >= 3 THEN in.ends ELSE e.ends]
    BY <2>1, <2>2 DEF CopyInto
  <2>. HIDE DEF c
  <2>. QED  BY <2>3 DEF Inputs
<1>. HIDE DEF c
<1>9. /\ Len(c.rows) = k /\ Len(c.ends) = k /\ Len(c.elems) = k * m
      /\ \A i \in 1..k : c.ends[i] = i * m
      /\ m \in 0..Len(c.elems)
  <2>1. Len(c.rows) = k /\ Len(c.ends) = k
    BY <1>5, <1>8
  <2>2. Len(c.elems) = k * m
    BY <1>3, <1>5, <1>6, <1>8
  <2>3. ASSUME NEW i \in 1..k
        PROVE  c.ends[i] = i * m
    <3>1. CASE n >= 3
      <4>1. c.ends = in.ends /\ w = m
        BY <1>7, <1>8, <3>1
      <4>2. in.ends[i] = i * w
        BY <1>5
      <4>. QED  BY <4>1, <4>2, Zenon
    <3>2. CASE ~(n >= 3)
      BY <1>3, <1>8, <3>2
    <3>. QED  BY <3>1, <3>2
  <2>4. m \in 0..Len(c.elems)
    BY <1>3, <2>2
  <2>. QED  BY <2>1, <2>2, <2>3, <2>4
<1>10. Regular(c, k)
  BY <1>9 DEF Regular
<1>11. ASSUME n = 3
       PROVE  Carries(c, b, k) /\ FitsInto(in.width, e.width)
  <2>1. CopyFits(e, in, 1)
    BY <1>11
  <2>2. FitsInto(in.width, e.width)
    BY <2>1 DEF CopyFits
  <2>3. c.rows = in.rows /\ c.elems = in.elems /\ c.ends = in.ends
    BY <1>8, <1>11
  <2>. QED  BY <2>2, <2>3 DEF Carries
<1>. QED  BY <1>8, <1>10, <1>11 DEF c

(* The configuration is parsed once, so the traffic stays uniform. *)
LEMMA TrafficKept ==
    ASSUME [Next]_vars
    PROVE  conf' = conf /\ (UniformTraffic' <=> UniformTraffic)
<1>1. conf' = conf
  BY DEF Next, Warmup, GoReady, WarmupBucket, CollectBatch, RejectBatch, NewBatch,
     AbortBatch, Execute, OtherLayout, EnterGraphPath, Select, NoCandidate, PadTraps,
     PadThrows, SelectCaptured, SelectByCapture, SkipFailedCapture, ReplaySucceeds,
     ReplayFails, RunEager, SetupUnchanged, SelectUnchanged, vars
<1>. QED  BY <1>1 DEF UniformTraffic

(* A batch under way is one of the traffic. *)
LEMMA OnTrafficStep ==
    ASSUME OnTraffic, [Next]_vars
    PROVE  OnTraffic'
<1>. USE DEF OnTraffic, SetupUnchanged, SelectUnchanged, batchVars
<1>1. CASE Warmup
  BY <1>1 DEF Warmup, GoReady, WarmupBucket
<1>2. ASSUME NEW b \in Batches, CollectBatch(b) \/ RejectBatch(b)
      PROVE  OnTraffic'
  BY <1>2 DEF CollectBatch, RejectBatch, NewBatch
<1>3. CASE AbortBatch \/ OtherLayout \/ RunEager
  BY <1>3 DEF AbortBatch, OtherLayout, RunEager
<1>4. CASE EnterGraphPath
  BY <1>4 DEF EnterGraphPath
<1>5. CASE Select
  BY <1>5 DEF Select, NoCandidate, PadTraps, PadThrows, SelectCaptured,
     SelectByCapture, SkipFailedCapture
<1>6. CASE ReplaySucceeds \/ ReplayFails
  BY <1>6 DEF ReplaySucceeds, ReplayFails
<1>7. CASE UNCHANGED vars
  BY <1>7 DEF vars
<1>. QED  BY <1>1, <1>2, <1>3, <1>4, <1>5, <1>6, <1>7 DEF Next, Execute

LEMMA TrafficUniform ==
    ASSUME UniformTraffic, NEW b \in Batches, b \in conf.traffic
    PROVE  UniformBatch(b)
BY DEF UniformTraffic, UniformBatch

(* The batch under way is uniform, and R counts its requests. *)
LEMMA UnderWay ==
    ASSUME ControlTypeOK, OnTraffic, UniformTraffic,
           phase \in {"collected", "select", "replay", "eager"}
    PROVE  /\ batch \in conf.traffic /\ UniformBatch(batch)
           /\ R = Requests(batch) /\ R \in Nat /\ R >= 1
<1>1. batch \in conf.traffic /\ batch \in Batches
  BY DEF OnTraffic, ControlTypeOK
<1>. QED  BY <1>1, TrafficUniform, UniformR

(* Whatever bucket the loop selects, the inputs of the batch fit into it   *)
(* and carry the batch.                                                    *)
LEMMA SelectedInputs ==
    ASSUME ControlTypeOK, OnTraffic, UniformTraffic, LoopSkipsPinned,
           phase = "select", NEW bucket \in Candidate
    PROVE  /\ bucket \in Nat /\ bucket >= Requests(batch)
           /\ InputsAt(bucket).width = batch.single
           /\ Carries(InputsAt(bucket), batch, bucket)
           /\ PadFits(BatchInputs(batch), R, bucket)
<1>1. UniformBatch(batch) /\ R = Requests(batch) /\ R \in Nat
  BY UnderWay
<1>2. bucket \in Nat /\ bucket >= at /\ at \in Nat /\ at >= R
  BY CandidateFacts DEF LoopSkipsPinned, ControlTypeOK
<1>3. bucket >= R
  BY <1>1, <1>2
<1>. QED  BY <1>1, <1>2, <1>3, UniformInputs

(* What a replay leaves in the buffers, however many copies it gets to. *)
LEMMA ReplayWrites ==
    ASSUME ReplaySucceeds \/ ReplayFails
    PROVE  /\ phase = "replay"
           /\ \E n \in 0..3 :
                 /\ copying => \A i \in 1..n : CopyFits(cache[slot], InputsAt(slot), i)
                 /\ cache' = [cache EXCEPT ![slot] = Copied(n)]
<1>1. phase = "replay"
  BY DEF ReplaySucceeds, ReplayFails
<1>2. CASE ReplaySucceeds
  BY <1>1, <1>2 DEF ReplaySucceeds
<1>3. CASE ReplayFails
  <2>1. PICK n \in (IF copying THEN 0..3 ELSE {0}) :
           /\ \A i \in 1..n : CopyFits(cache[slot], InputsAt(slot), i)
           /\ cache' = [cache EXCEPT ![slot] = Copied(n)]
    BY <1>3 DEF ReplayFails
  <2>2. n \in 0..3
    OBVIOUS
  <2>. QED  BY <1>1, <2>1, <2>2
<1>. QED  BY <1>2, <1>3

(* The buffers replayed stay regular and keep their width; after all the   *)
(* copies they carry the batch, unless they are wider.                     *)
LEMMA ReplayCarries ==
    ASSUME ControlTypeOK, BuffersTypeOK, ReplaysFirstHealthy, CopyIsPadded,
           OnTraffic, UniformTraffic, BuffersRegular, phase = "replay", NEW n \in 0..3,
           copying => \A i \in 1..n : CopyFits(cache[slot], InputsAt(slot), i)
    PROVE  /\ slot \in DOMAIN cache /\ slot \in Nat /\ slot >= Requests(batch)
           /\ UniformBatch(batch)
           /\ Regular(Copied(n), slot)
           /\ Copied(n).width = cache[slot].width
           /\ ~copying => Copied(n) = cache[slot]
           /\ copying /\ n = 3 => /\ Carries(Copied(n), batch, slot)
                                  /\ FitsInto(batch.single, cache[slot].width)
<1>1. UniformBatch(batch) /\ R = Requests(batch) /\ R \in Nat /\ R >= 1
  BY UnderWay
<1>2. slot \in DOMAIN cache /\ slot >= R
  BY DEF ReplaysFirstHealthy
<1>3. slot \in Nat /\ slot >= Requests(batch)
  <2>1. slot \in Int
    BY KeysInt DEF ControlTypeOK
  <2>. QED  BY <1>1, <1>2, <2>1
<1>4. cache[slot] \in Inputs /\ Regular(cache[slot], slot)
  BY <1>2 DEF BuffersTypeOK, BuffersRegular
<1>5. CASE ~copying
  <2>1. Copied(n) = cache[slot]
    BY <1>5 DEF Copied
  <2>. QED  BY <1>1, <1>2, <1>3, <1>4, <1>5, <2>1
<1>6. CASE copying
  <2>1. Copied(n) = CopyInto(cache[slot], InputsAt(slot), n)
    BY <1>6 DEF Copied
  <2>2. InputsAt(slot) \in Inputs
    BY <1>1, <1>3, InputsAtTyped DEF ControlTypeOK
  <2>3. /\ InputsAt(slot).width = batch.single
        /\ Carries(InputsAt(slot), batch, slot)
    BY <1>1, <1>2, <1>3, UniformInputs
  <2>4. \A i \in 1..n : CopyFits(cache[slot], InputsAt(slot), i)
    BY <1>6
  <2>5. /\ Regular(CopyInto(cache[slot], InputsAt(slot), n), slot)
        /\ CopyInto(cache[slot], InputsAt(slot), n).width = cache[slot].width
        /\ n = 3 => /\ Carries(CopyInto(cache[slot], InputsAt(slot), n), batch, slot)
                    /\ FitsInto(InputsAt(slot).width, cache[slot].width)
    BY <1>1, <1>3, <1>4, <2>2, <2>3, <2>4, CopyCarries
  <2>. QED  BY <1>1, <1>2, <1>3, <1>6, <2>1, <2>3, <2>5
<1>. QED  BY <1>5, <1>6

(* Regularity depends on the shape and the positions alone. *)
LEMMA RegularShape ==
    ASSUME NEW e, NEW f, NEW k, Regular(e, k),
           Len(f.rows) = Len(e.rows), Len(f.elems) = Len(e.elems), f.ends = e.ends
    PROVE  Regular(f, k)
BY DEF Regular

(* The warmup's buffers are regular. *)
LEMMA WarmupRegular ==
    ASSUME conf.multi \in Nat, NEW bucket \in Nat
    PROVE  Regular(WarmupInputs(bucket), bucket)
<1>. DEFINE in == WarmupInputs(bucket)
<1>1. bucket * conf.multi \in Nat
  BY MulNat
<1>2. /\ Len(in.rows) = bucket /\ Len(in.elems) = bucket * conf.multi
      /\ in.ends = [i \in 1..bucket |-> i * conf.multi]
  BY <1>1, FilledSeq DEF WarmupInputs, Mark
<1>. HIDE DEF in
<1>3. Len(in.ends) = bucket /\ \A i \in 1..bucket : in.ends[i] = i * conf.multi
  BY <1>2
<1>4. CASE bucket = 0
  <2>1. 0 * 0 = 0 /\ 0 * conf.multi = 0
    OBVIOUS
  <2>2. Len(in.elems) = bucket * 0 /\ 0 \in 0..Len(in.elems)
    BY <1>2, <1>4, <2>1
  <2>3. \A i \in 1..bucket : in.ends[i] = i * 0
    BY <1>4
  <2>. QED  BY <1>2, <1>3, <2>2, <2>3 DEF Regular, in
<1>5. CASE bucket # 0
  <2>1. 1 * conf.multi <= bucket * conf.multi
    BY <1>5, MulGrows
  <2>2. conf.multi \in 0..Len(in.elems)
    BY <1>1, <1>2, <2>1
  <2>. QED  BY <1>2, <1>3, <2>2 DEF Regular, in
<1>. QED  BY <1>4, <1>5

(* Every static buffer stays regular: a capture clones regular inputs, and *)
(* neither prestaging nor a copy changes a shape.                          *)
LEMMA RegularStep ==
    ASSUME IndInv, OnTraffic, UniformTraffic, BuffersRegular, [Next]_vars
    PROVE  BuffersRegular'
<1>. USE DEF SetupUnchanged, SelectUnchanged, captureVars, IndInv, TypeOK
<1>a. conf \in Configs /\ ControlTypeOK /\ CaptureTypeOK /\ BuffersTypeOK
  BY DEF ControlTypeOK
<1>1. CASE UNCHANGED cache
  BY <1>1 DEF BuffersRegular
<1>2. ASSUME NEW bucket, NEW in, Regular(in, bucket), CaptureBucket(bucket, in)
      PROVE  BuffersRegular'
  <2>1. /\ DOMAIN cache' = DOMAIN cache \cup {bucket}
        /\ \A k \in DOMAIN cache' : cache'[k] = IF k = bucket THEN in ELSE cache[k]
    BY <1>2 DEF CaptureBucket
  <2>. QED  BY <1>2, <2>1 DEF BuffersRegular
<1>3. ASSUME NEW bucket \in todo, WarmupBucket(bucket)
      PROVE  BuffersRegular'
  <2>1. CASE UNCHANGED cache
    BY <1>1, <2>1
  <2>2. CASE bucket >= 0 /\ CaptureBucket(bucket, WarmupInputs(bucket))
    <3>1. conf.multi \in Nat /\ bucket \in Nat
      BY <1>a, <2>2, ConfFacts DEF ControlTypeOK, WarmupOn
    <3>2. Regular(WarmupInputs(bucket), bucket)
      BY <3>1, WarmupRegular
    <3>. QED  BY <1>2, <2>2, <3>2
  <2>. QED  BY <1>3, <2>1, <2>2 DEF WarmupBucket, CaptureFails
<1>4. ASSUME DOMAIN cache' = DOMAIN cache,
             \A k \in DOMAIN cache :
                /\ Len(cache'[k].rows) = Len(cache[k].rows)
                /\ Len(cache'[k].elems) = Len(cache[k].elems)
                /\ cache'[k].ends = cache[k].ends
      PROVE  BuffersRegular'
  BY <1>4, RegularShape DEF BuffersRegular
<1>5. ASSUME NEW b \in Batches, CollectBatch(b)
      PROVE  BuffersRegular'
  BY <1>a, <1>4, <1>5, CollectFacts
<1>6. ASSUME NEW b \in Batches, RejectBatch(b)
      PROVE  BuffersRegular'
  BY <1>a, <1>4, <1>6, AgedCacheFacts DEF RejectBatch
<1>7. CASE GoReady \/ AbortBatch \/ OtherLayout \/ RunEager \/ NoCandidate
           \/ PadTraps \/ PadThrows \/ SelectCaptured \/ SkipFailedCapture
  BY <1>1, <1>7 DEF GoReady, AbortBatch, OtherLayout, RunEager, NoCandidate,
     PadTraps, PadThrows, SelectCaptured, SkipFailedCapture, CaptureFails
<1>8. CASE EnterGraphPath
  <2>1. cache' = cache \/ cache' = <<>>
    BY <1>8 DEF EnterGraphPath
  <2>. QED  BY <2>1, EmptyDomain DEF BuffersRegular
<1>9. CASE SelectByCapture
  <2>1. PICK bucket \in Candidate :
           phase = "select" /\ CaptureBucket(bucket, InputsAt(bucket))
    BY <1>9 DEF SelectByCapture
  <2>2. /\ bucket \in Nat /\ bucket >= Requests(batch)
        /\ Carries(InputsAt(bucket), batch, bucket) /\ UniformBatch(batch)
    BY <1>a, <2>1, SelectedInputs, UnderWay
  <2>3. Regular(InputsAt(bucket), bucket)
    BY <2>2, CarriesFacts
  <2>. QED  BY <1>2, <2>1, <2>3
<1>10. CASE ReplaySucceeds \/ ReplayFails
  <2>1. PICK n \in 0..3 :
           /\ copying => \A i \in 1..n : CopyFits(cache[slot], InputsAt(slot), i)
           /\ cache' = [cache EXCEPT ![slot] = Copied(n)]
    BY <1>10, ReplayWrites
  <2>2. phase = "replay"
    BY <1>10, ReplayWrites
  <2>3. Regular(Copied(n), slot)
    BY <1>a, <2>1, <2>2, ReplayCarries
  <2>. QED  BY <2>1, <2>3 DEF BuffersRegular
<1>11. CASE UNCHANGED vars
  BY <1>1, <1>11 DEF vars
<1>. QED  BY <1>3, <1>5, <1>6, <1>7, <1>8, <1>9, <1>10, <1>11
          DEF Next, Warmup, Execute, Select

(* The buffers that survive the width check are as wide as some batch, and *)
(* so is every later capture.                                              *)
LEMMA WidthsStep ==
    ASSUME IndInv, OnTraffic, UniformTraffic, BuffersRegular, WidthsOfTraffic,
           [Next]_vars
    PROVE  WidthsOfTraffic'
<1>. USE DEF SetupUnchanged, SelectUnchanged, captureVars, IndInv, TypeOK
<1>a. ControlTypeOK /\ CaptureTypeOK /\ BuffersTypeOK /\ conf' = conf
  BY TrafficKept
<1>1. ASSUME DOMAIN cache' = DOMAIN cache, widthsChecked' = widthsChecked,
             \A k \in DOMAIN cache : cache'[k].width = cache[k].width
      PROVE  WidthsOfTraffic'
  BY <1>a, <1>1 DEF WidthsOfTraffic
<1>2. CASE UNCHANGED <<cache, widthsChecked>>
  BY <1>1, <1>2
<1>3. ASSUME NEW bucket \in todo, WarmupBucket(bucket)
      PROVE  WidthsOfTraffic'
  <2>1. ~widthsChecked' /\ conf.single > 0 /\ conf.multi > 0
    BY <1>3 DEF WarmupBucket, CapturesCounted, ControlTypeOK, WarmupOn
  <2>. QED  BY <1>a, <2>1 DEF WidthsOfTraffic
<1>4. ASSUME NEW b \in Batches, CollectBatch(b)
      PROVE  WidthsOfTraffic'
  <2>1. widthsChecked' = widthsChecked
    BY <1>4 DEF CollectBatch, NewBatch
  <2>. QED  BY <1>a, <1>1, <1>4, <2>1, CollectFacts
<1>5. ASSUME NEW b \in Batches, RejectBatch(b)
      PROVE  WidthsOfTraffic'
  <2>1. widthsChecked' = widthsChecked /\ cache' = AgedCache
    BY <1>5 DEF RejectBatch, NewBatch
  <2>. QED  BY <1>a, <1>1, <2>1, AgedCacheFacts
<1>6. CASE GoReady \/ AbortBatch \/ OtherLayout \/ RunEager \/ NoCandidate
           \/ PadTraps \/ PadThrows \/ SelectCaptured \/ SkipFailedCapture
  BY <1>2, <1>6 DEF GoReady, AbortBatch, OtherLayout, RunEager, NoCandidate,
     PadTraps, PadThrows, SelectCaptured, SkipFailedCapture, CaptureFails
<1>7. CASE EnterGraphPath
  <2>1. widthsChecked' /\ phase = "collected"
    BY <1>7 DEF EnterGraphPath
  <2>2. CASE cache' = <<>>
    BY <2>1, <2>2, EmptyDomain DEF WidthsOfTraffic
  <2>3. CASE cache' = cache /\ widthsChecked
    BY <1>2, <2>1, <2>3 DEF ControlTypeOK
  <2>4. CASE cache' = cache /\ ~widthsChecked /\ ~WidthMismatch
    <3>. SUFFICES ASSUME NEW k \in DOMAIN cache
                  PROVE  \E c \in conf.traffic : cache[k].width = c.single
      BY <1>a, <2>1, <2>4 DEF WidthsOfTraffic
    <3>1. conf.single > 0 /\ conf.multi > 0 /\ cache[k].width = conf.single
      BY <2>4 DEF WidthsOfTraffic, WarmupShapes
    <3>2. batch \in conf.traffic /\ R \in Nat /\ R >= 1
      BY <1>a, <2>1, UnderWay
    <3>3. batch.single = conf.single
      BY <2>4, <3>1, <3>2 DEF WidthMismatch
    <3>. QED  BY <3>1, <3>2, <3>3
  <2>. QED  BY <1>7, <2>2, <2>3, <2>4 DEF EnterGraphPath
<1>8. CASE SelectByCapture
  <2>1. PICK bucket \in Candidate :
           /\ phase = "select" /\ CaptureBucket(bucket, InputsAt(bucket))
           /\ widthsChecked' = widthsChecked
    BY <1>8 DEF SelectByCapture
  <2>2. InputsAt(bucket).width = batch.single /\ batch \in conf.traffic
    BY <1>a, <2>1, SelectedInputs, UnderWay
  <2>3. widthsChecked
    BY <2>1 DEF WarmupShapes
  <2>4. /\ DOMAIN cache' = DOMAIN cache \cup {bucket}
        /\ \A k \in DOMAIN cache' :
              cache'[k] = IF k = bucket THEN InputsAt(bucket) ELSE cache[k]
    BY <2>1 DEF CaptureBucket
  <2>. QED  BY <1>a, <2>1, <2>2, <2>3, <2>4 DEF WidthsOfTraffic
<1>9. CASE ReplaySucceeds \/ ReplayFails
  <2>1. PICK n \in 0..3 :
           /\ copying => \A i \in 1..n : CopyFits(cache[slot], InputsAt(slot), i)
           /\ cache' = [cache EXCEPT ![slot] = Copied(n)]
    BY <1>9, ReplayWrites
  <2>2. phase = "replay" /\ widthsChecked' = widthsChecked
    BY <1>9 DEF ReplaySucceeds, ReplayFails
  <2>3. slot \in DOMAIN cache /\ Copied(n).width = cache[slot].width
    BY <1>a, <2>1, <2>2, ReplayCarries
  <2>4. \A k \in DOMAIN cache : cache'[k].width = cache[k].width
    BY <2>1, <2>3
  <2>. QED  BY <1>1, <2>1, <2>2, <2>4
<1>10. CASE UNCHANGED vars
  BY <1>2, <1>10 DEF vars
<1>. QED  BY <1>3, <1>4, <1>5, <1>6, <1>7, <1>8, <1>9, <1>10
          DEF Next, Warmup, Execute, Select

(* ReadsBatch says of the batch in hand what Reads says of any. *)
LEMMA ReadsInHand ==
    ASSUME NEW e
    PROVE  ReadsBatch(e) <=> Reads(e, batch)
BY DEF ReadsBatch, Reads

(* A batch is collected into buffers that then hold it and nothing else,   *)
(* and they do until it is replayed from them.                             *)
LEMMA PrestagedStep ==
    ASSUME IndInv, OnTraffic, UniformTraffic, BuffersRegular, PrestagedReads,
           [Next]_vars
    PROVE  PrestagedReads'
<1>. USE DEF SetupUnchanged, SelectUnchanged, captureVars, batchVars, IndInv, TypeOK
<1>a. ControlTypeOK /\ CaptureTypeOK /\ BuffersTypeOK
  OBVIOUS
<1>1. CASE \/ phase' \notin {"collected", "replay"}
           \/ phase' = "replay" /\ copying'
  BY <1>1 DEF PrestagedReads
<1>2. ASSUME NEW b \in Batches, CollectBatch(b)
      PROVE  PrestagedReads'
  <2>1. phase' = "collected" /\ batch' = b /\ b \in conf.traffic
    BY <1>2 DEF CollectBatch, NewBatch
  <2>. SUFFICES ASSUME prestaged' # None
                PROVE  ReadsBatch(cache[prestaged])'
    BY <2>1 DEF PrestagedReads
  <2>. DEFINE k == FindReady(Requests(b))
  <2>2. /\ prestaged' = k /\ k \in DOMAIN cache /\ k >= Requests(b)
        /\ Viable(cache[k], k, b)
    BY <1>a, <1>2, CollectFacts
  <2>3. cache' = [AgedCache EXCEPT ![k] = Prestage(AgedCache[k], k, b)]
    BY <1>2, <2>2 DEF CollectBatch
  <2>. HIDE DEF k
  <2>4. /\ k \in DOMAIN AgedCache
        /\ AgedCache[k] \in Inputs
        /\ AgedCache[k].width = cache[k].width
        /\ Len(AgedCache[k].rows) = Len(cache[k].rows)
        /\ Len(AgedCache[k].elems) = Len(cache[k].elems)
        /\ AgedCache[k].ends = cache[k].ends
    BY <1>a, <2>2, AgedCacheFacts
  <2>5. Regular(AgedCache[k], k)
    BY <2>2, <2>4, RegularShape DEF BuffersRegular
  <2>6. Viable(AgedCache[k], k, b)
    BY <2>2, <2>4 DEF Viable
  <2>7. UniformBatch(b) /\ k \in Int
    BY <2>1, <2>2, TrafficUniform, KeysInt DEF CaptureTypeOK
  <2>8. /\ Carries(Prestage(AgedCache[k], k, b), b, k)
        /\ Prestage(AgedCache[k], k, b).width = b.single
    BY <2>4, <2>5, <2>6, <2>7, PrestageCarries
  <2>9. k \in Nat
    BY <2>4, <2>5, <2>6, <2>7, ViableUniform
  <2>10. Reads(Prestage(AgedCache[k], k, b), b)
    BY <2>2, <2>7, <2>8, <2>9, CarriesFacts
  <2>11. cache'[k] = Prestage(AgedCache[k], k, b)
    BY <2>3, <2>4
  <2>. QED  BY <2>1, <2>2, <2>10, <2>11 DEF ReadsBatch, Reads
<1>3. CASE EnterGraphPath
  <2>1. CASE phase' = "select"
    BY <1>1, <2>1
  <2>2. CASE phase' = "replay"
    <3>1. /\ phase = "collected" /\ prestaged # None /\ slot' = prestaged
          /\ UNCHANGED <<cache, batch>>
      BY <1>3, <2>2 DEF EnterGraphPath
    <3>2. ReadsBatch(cache[prestaged])
      BY <3>1 DEF PrestagedReads
    <3>3. ReadsBatch(cache[slot])'
      BY <3>1, <3>2 DEF ReadsBatch, Requests, Elements
    <3>. QED  BY <2>2, <3>3 DEF PrestagedReads
  <2>. QED  BY <1>3, <2>1, <2>2 DEF EnterGraphPath
<1>4. CASE SelectCaptured \/ SelectByCapture
  BY <1>1, <1>4 DEF SelectCaptured, SelectByCapture
<1>5. CASE GoReady \/ AbortBatch \/ OtherLayout \/ NoCandidate \/ PadTraps
           \/ PadThrows \/ SkipFailedCapture \/ ReplaySucceeds \/ ReplayFails
           \/ RunEager \/ (\E bucket \in todo : WarmupBucket(bucket))
           \/ (\E b \in Batches : RejectBatch(b))
  <2>1. phase' \in {"warmup", "idle", "eager", "trapped", "select"}
    BY <1>5 DEF GoReady, AbortBatch, OtherLayout, NoCandidate, PadTraps, PadThrows,
       SkipFailedCapture, ReplaySucceeds, ReplayFails, RunEager, WarmupBucket,
       RejectBatch
  <2>. QED  BY <1>1, <2>1
<1>6. CASE UNCHANGED vars
  BY <1>6 DEF vars, PrestagedReads, ReadsBatch, Requests, Elements
<1>. QED  BY <1>2, <1>3, <1>4, <1>5, <1>6 DEF Next, Warmup, Execute, Select

(* A replay answers a uniform batch from buffers that hold it and nothing  *)
(* else: either it was collected into them, or all three copies were made, *)
(* into buffers of its own width.                                          *)
LEMMA ReplayReads ==
    ASSUME IndInv, OnTraffic, UniformTraffic, BuffersRegular, WidthsOfTraffic,
           PrestagedReads, ReplaySucceeds
    PROVE  ReadsBatch(cache[slot])'
<1>. USE DEF IndInv, TypeOK
<1>1. /\ phase = "replay" /\ UNCHANGED <<slot, batch>>
      /\ copying => \A i \in 1..3 : CopyFits(cache[slot], InputsAt(slot), i)
      /\ cache' = [cache EXCEPT ![slot] = Copied(3)]
  BY DEF ReplaySucceeds, SetupUnchanged
<1>2. /\ slot \in DOMAIN cache /\ slot \in Nat /\ slot >= Requests(batch)
      /\ UniformBatch(batch)
      /\ Copied(3).width = cache[slot].width
      /\ ~copying => Copied(3) = cache[slot]
      /\ copying => /\ Carries(Copied(3), batch, slot)
                    /\ FitsInto(batch.single, cache[slot].width)
  BY <1>1, ReplayCarries
<1>3. Reads(Copied(3), batch)
  <2>1. CASE ~copying
    <3>1. ReadsBatch(cache[slot])
      BY <1>1, <2>1 DEF PrestagedReads
    <3>. QED  BY <1>2, <2>1, <3>1, ReadsInHand
  <2>2. CASE copying
    <3>1. widthsChecked
      BY <1>1 DEF WarmupShapes
    <3>2. PICK c \in conf.traffic : cache[slot].width = c.single
      BY <1>2, <3>1 DEF WidthsOfTraffic
    <3>3. batch \in conf.traffic
      BY <1>1 DEF OnTraffic
    <3>4. c.single = batch.single \/ batch.single # 1
      BY <3>3 DEF UniformTraffic
    <3>5. Copied(3).width = batch.single
      BY <1>2, <2>2, <3>2, <3>4 DEF FitsInto
    <3>. QED  BY <1>2, <2>2, <3>5, CarriesFacts
  <2>. QED  BY <2>1, <2>2 DEF ControlTypeOK
<1>4. cache'[slot] = Copied(3)
  BY <1>1, <1>2
<1>. QED  BY <1>1, <1>3, <1>4 DEF ReadsBatch, Reads

(* The padding that throws is that of a candidate larger than the batch.   *)
LEMMA PadThrowsInPadding ==
    ASSUME IndInv, ReadsInv, PadThrows
    PROVE  FailsOnlyInPadding'
<1>1. /\ phase = "select" /\ ControlTypeOK /\ LoopSkipsPinned /\ OnTraffic
      /\ UNCHANGED <<conf, batch, at, cache, failed>>
  BY DEF PadThrows, SelectUnchanged, SetupUnchanged, captureVars, IndInv, TypeOK, ReadsInv
<1>2. PICK bucket \in Candidate : bucket # R
  BY DEF PadThrows
<1>3. conf.buckets # {}
  BY <1>2 DEF Candidate, First, Healthy
<1>4. ASSUME R \in conf.buckets
      PROVE  R \in failed
  <2>1. R \in Nat /\ at \in Nat /\ at >= R
    BY <1>1, RFacts DEF ControlTypeOK, LoopSkipsPinned
  <2>2. /\ bucket \in Nat /\ bucket >= at
        /\ \A b \in conf.buckets : b >= at /\ b < bucket => b \in failed
    BY <1>1, <1>2, CandidateFacts
  <2>3. \A b \in conf.buckets : b >= R /\ b < at => b \in failed
    BY <1>1 DEF LoopSkipsPinned
  <2>4. CASE R < at
    BY <1>4, <2>1, <2>3, <2>4
  <2>5. CASE R = at
    BY <1>2, <1>4, <2>1, <2>2, <2>5
  <2>. QED  BY <2>1, <2>4, <2>5
<1>5. ASSUME UniformTraffic
      PROVE  \A b \in Candidate : Paddable(b)
  <2>1. UniformBatch(batch) /\ R = Requests(batch) /\ R \in Nat
    BY <1>1, <1>5, UnderWay
  <2>2. R > 0
    BY <1>1, <2>1, BatchFacts DEF ControlTypeOK
  <2>. QED  BY <1>1, <1>5, <2>2, SelectedInputs DEF Paddable
<1>6. Candidate' = Candidate /\ R' = R
  BY <1>1 DEF Candidate, R, Requests, Elements, First, Healthy
<1>7. \A b : Paddable(b)' <=> Paddable(b)
  BY <1>1, <1>6 DEF Paddable, BatchInputs, Requests, Elements
<1>8. UniformTraffic' <=> UniformTraffic
  BY <1>1 DEF UniformTraffic
<1>. QED  BY <1>1, <1>3, <1>4, <1>5, <1>6, <1>7, <1>8 DEF FailsOnlyInPadding

(* Only a replay answers from a graph, and only an eager run or the        *)
(* padding answers with an error.                                          *)
LEMMA AnswerStep ==
    ASSUME IndInv, ReadsInv, [Next]_vars
    PROVE  ReplayReadsBatch' /\ FailsOnlyInPadding'
<1>. USE DEF SetupUnchanged, SelectUnchanged, captureVars, batchVars
<1>1. CASE phase' # "idle" \/ answer' \notin {"graph", "error"}
  BY <1>1 DEF ReplayReadsBatch, FailsOnlyInPadding
<1>2. CASE GoReady
  <2>1. answer' = "none"
    BY <1>2 DEF GoReady, IndInv, TallyInFlight
  <2>. QED  BY <1>1, <2>1
<1>3. CASE ReplaySucceeds
  <2>1. answer' = "graph"
    BY <1>3 DEF ReplaySucceeds
  <2>2. ASSUME UniformTraffic'
        PROVE  ReadsBatch(cache[slot])'
    <3>1. UniformTraffic
      BY <2>2, TrafficKept
    <3>. QED  BY <1>3, <3>1, ReplayReads DEF ReadsInv
  <2>. QED  BY <2>1, <2>2 DEF ReplayReadsBatch, FailsOnlyInPadding
<1>4. CASE PadThrows
  <2>1. answer' = "error"
    BY <1>4 DEF PadThrows
  <2>. QED  BY <1>4, <2>1, PadThrowsInPadding DEF ReplayReadsBatch
<1>5. CASE RunEager
  <2>1. tally'.eager = 1 /\ answer' # "graph"
    BY <1>5 DEF RunEager, IndInv, TallyInFlight
  <2>. QED  BY <2>1 DEF ReplayReadsBatch, FailsOnlyInPadding
<1>6. CASE AbortBatch
  BY <1>1, <1>6 DEF AbortBatch
<1>7. ASSUME NEW b \in Batches, CollectBatch(b) \/ RejectBatch(b)
      PROVE  ReplayReadsBatch' /\ FailsOnlyInPadding'
  <2>1. phase' # "idle" \/ answer' = "rejected"
    BY <1>7 DEF CollectBatch, RejectBatch, NewBatch
  <2>. QED  BY <1>1, <2>1
<1>8. CASE OtherLayout \/ EnterGraphPath \/ NoCandidate \/ PadTraps
           \/ SelectCaptured \/ SelectByCapture \/ SkipFailedCapture \/ ReplayFails
           \/ (\E bucket \in todo : WarmupBucket(bucket))
  <2>1. phase' # "idle"
    BY <1>8 DEF OtherLayout, EnterGraphPath, NoCandidate, PadTraps, SelectCaptured,
       SelectByCapture, SkipFailedCapture, ReplayFails, WarmupBucket
  <2>. QED  BY <1>1, <2>1
<1>9. CASE UNCHANGED vars
  <2>1. UNCHANGED <<phase, answer, batch, cache, slot, tally, conf, failed, at>>
    BY <1>9 DEF vars
  <2>2. ReplayReadsBatch'
    BY <2>1 DEF ReadsInv, ReplayReadsBatch, ReadsBatch, Requests, Elements, UniformTraffic
  <2>3. FailsOnlyInPadding'
    BY <2>1 DEF ReadsInv, FailsOnlyInPadding, UniformTraffic, Candidate, R, Requests,
       Elements, First, Healthy, Paddable, BatchInputs
  <2>. QED  BY <2>2, <2>3
<1>. QED  BY <1>2, <1>3, <1>4, <1>5, <1>6, <1>7, <1>8, <1>9
          DEF Next, Warmup, Execute, Select

LEMMA ReadsInit == Init => ReadsInv
<1>. SUFFICES ASSUME Init PROVE ReadsInv
  OBVIOUS
<1>1. phase = "warmup" /\ DOMAIN cache = {} /\ ~widthsChecked
  BY EmptyDomain DEF Init
<1>2. OnTraffic /\ BuffersRegular /\ WidthsOfTraffic /\ PrestagedReads
  BY <1>1 DEF OnTraffic, BuffersRegular, WidthsOfTraffic, PrestagedReads
<1>3. ReplayReadsBatch /\ FailsOnlyInPadding
  BY <1>1 DEF ReplayReadsBatch, FailsOnlyInPadding
<1>. QED  BY <1>2, <1>3 DEF ReadsInv

LEMMA ReadsStep == IndInv /\ ReadsInv /\ [Next]_vars => ReadsInv'
<1>. SUFFICES ASSUME IndInv, ReadsInv, [Next]_vars PROVE ReadsInv'
  OBVIOUS
<1>1. OnTraffic'
  BY OnTrafficStep DEF ReadsInv
<1>2. ASSUME UniformTraffic'
      PROVE  BuffersRegular' /\ WidthsOfTraffic' /\ PrestagedReads'
  <2>1. UniformTraffic
    BY <1>2, TrafficKept
  <2>. QED  BY <2>1, RegularStep, WidthsStep, PrestagedStep DEF ReadsInv
<1>3. ReplayReadsBatch' /\ FailsOnlyInPadding'
  BY AnswerStep
<1>. QED  BY <1>1, <1>2, <1>3 DEF ReadsInv

(* Under uniform traffic a batch answered by a replay was computed from    *)
(* its own rows, elements and positions and from zero padding, whichever   *)
(* bucket served it, prestaged or copied, whatever earlier batches left in *)
(* the buffers and whichever captures and replays failed between.          *)
THEOREM ReplaysReadTheirBatch == Spec => []ReplayReadsBatch
<1>1. ReadsInv => ReplayReadsBatch
  BY DEF ReadsInv
<1>2. Spec => []ReadsInv
  BY Invariant, ReadsInit, ReadsStep, PTL DEF Spec
<1>. QED  BY <1>1, <1>2, PTL

(* The graph path fails a batch by nothing but the padding to a bucket     *)
(* larger than the batch: it never does so without an allowlist or while   *)
(* the bucket of the batch's own size is healthy, and under uniform        *)
(* traffic only by a device failure, never by the arithmetic.              *)
THEOREM GraphPathFailsOnlyInPadding == Spec => []FailsOnlyInPadding
<1>1. ReadsInv => FailsOnlyInPadding
  BY DEF ReadsInv
<1>2. Spec => []ReadsInv
  BY Invariant, ReadsInit, ReadsStep, PTL DEF Spec
<1>. QED  BY <1>1, <1>2, PTL

=============================================================================
