---------------------------- MODULE BatcherProofs ----------------------------
(***************************************************************************)
(* Proofs about the batcher, for any requests, sizes and limits.            *)
(*                                                                         *)
(* The invariant has two parts.  SlicesMatch says that each envelope on the *)
(* executor owns the stretch of flattened_inputs that its slice names; it   *)
(* is what makes the results right, and already the type of answer needs    *)
(* it.  Control relates the program point of the run loop to close() and to *)
(* the executor.                                                            *)
(***************************************************************************)
EXTENDS Batcher, SequenceTheorems, TLAPS

Texts == Requests \X Nat
Predicted == [text : Texts]

\* TypeOK without the answers.
StateTypeOK ==
    /\ queue \in Seq(Requests)
    /\ nextEnvelope \in Requests \cup {None}
    /\ pc \in PCs
    /\ batch \in Seq(Requests)
    /\ totalItems \in Nat
    /\ running \in Seq(Requests)
    /\ flattened \in Seq(Texts)
    /\ slices \in Seq(Nat \X Nat)
    /\ executor \in {"idle", "busy", "ok", "raised"}
    /\ stopping \in BOOLEAN
    /\ closing \in {"open", "closing", "closed"}
    /\ cancelReq \in BOOLEAN
    /\ fut \in [Requests -> FutureStates]
    /\ late \in [Requests -> BOOLEAN]
    /\ arrivals \in Nat
    /\ ticket \in [Requests -> Nat]
    /\ lastRun \in Nat

\* The slice <<s_start, s_end>> of the texts flat holds the inputs of r.
Owns(flat, r, s) ==
    /\ s[2] = s[1] + Size[r]
    /\ s[2] <= Len(flat)
    /\ \A k \in 1..Size[r] : flat[s[1] + k] = <<r, k>>

SlicesMatch ==
    /\ Len(slices) = Len(running)
    /\ \A i \in 1..Len(running) : Owns(flattened, running[i], slices[i])

AnswersRight ==
    /\ answer \in [Requests -> Seq(Predicted)]
    /\ ResultsMatchInputs

\* Where the loop can be while close() makes progress, and when the executor
\* works for it.  A cancellation is only ever pending while it is suspended.
Control ==
    /\ pc \in {"top", "collect", "filter", "deliver"} => executor = "idle"
    /\ pc \in {"start", "get", "wait"} => executor = "idle"
    /\ pc = "exec" => executor # "idle"
    /\ closing = "open" <=> ~stopping
    /\ closing = "closed" => pc \in {"none", "done"}
    /\ pc = "none" => executor = "idle" /\ closing # "closing"
    /\ pc = "done" => stopping
    /\ cancelReq => stopping /\ pc \in {"start", "get", "wait", "exec"}
    /\ stopping => pc # "collect" /\ (pc \in {"get", "wait"} => cancelReq)

LEMMA InputsType ==
    ASSUME NEW r \in Requests
    PROVE  /\ Size[r] \in Nat
           /\ Inputs(r) \in Seq(Texts)
           /\ Len(Inputs(r)) = Size[r]
           /\ \A k \in 1..Size[r] : Inputs(r)[k] = <<r, k>>
BY BatcherAssumption DEF Inputs, Texts

LEMMA PredictBatchType ==
    ASSUME NEW texts \in Seq(Texts)
    PROVE  /\ PredictBatch(texts) \in Seq(Predicted)
           /\ Len(PredictBatch(texts)) = Len(texts)
           /\ \A k \in 1..Len(texts) : PredictBatch(texts)[k] = Score(texts[k])
<1>1. DOMAIN texts = 1..Len(texts) /\ Len(texts) \in Nat
  OBVIOUS
<1>2. \A k \in 1..Len(texts) : Score(texts[k]) \in Predicted
  BY DEF Score, Predicted
<1> QED BY <1>1, <1>2 DEF PredictBatch

LEMMA SameElements ==
    ASSUME NEW S, NEW a \in Seq(S), NEW b \in Seq(S), NEW n,
           Len(a) = n, Len(b) = n, \A k \in 1..n : a[k] = b[k]
    PROVE  a = b
BY SeqEqual, Zenon

\* A slice that holds the inputs of r yields the predictions for them.
LEMMA SliceIsAnswer ==
    ASSUME StateTypeOK, NEW r \in Requests, NEW s \in Nat \X Nat,
           Owns(flattened, r, s)
    PROVE  Predictions(s) = PredictBatch(Inputs(r))
<1> DEFINE P == PredictBatch(flattened)
           Q == PredictBatch(Inputs(r))
<1>1. /\ P \in Seq(Predicted) /\ Len(P) = Len(flattened)
      /\ \A k \in 1..Len(flattened) : P[k] = Score(flattened[k])
  BY PredictBatchType DEF StateTypeOK
<1>2. /\ Q \in Seq(Predicted) /\ Len(Q) = Size[r] /\ Size[r] \in Nat
      /\ \A k \in 1..Size[r] : Q[k] = Score(<<r, k>>)
  <2>1. /\ Inputs(r) \in Seq(Texts) /\ Len(Inputs(r)) = Size[r]
        /\ Size[r] \in Nat /\ \A k \in 1..Size[r] : Inputs(r)[k] = <<r, k>>
    BY InputsType
  <2>2. /\ Q \in Seq(Predicted) /\ Len(Q) = Len(Inputs(r))
        /\ \A k \in 1..Len(Inputs(r)) : Q[k] = Score(Inputs(r)[k])
    BY <2>1, PredictBatchType, Zenon
  <2> QED BY <2>1, <2>2, Zenon
<1>3. s[1] \in Nat /\ s[2] = s[1] + Size[r] /\ s[2] <= Len(P)
  BY <1>1 DEF Owns
<1>4. Predictions(s) = SubSeq(P, s[1] + 1, s[2])
  BY DEF Predictions
<1> HIDE DEF P, Q
<1> DEFINE T == SubSeq(P, s[1] + 1, s[2])
<1>5. /\ T \in Seq(Predicted) /\ Len(T) = Size[r]
      /\ \A k \in 1..Size[r] : T[k] = P[s[1] + k]
  BY <1>1, <1>2, <1>3, SMTT(20)
<1> HIDE DEF T
<1>6. ASSUME NEW k \in 1..Size[r] PROVE T[k] = Q[k]
  <2>1. s[1] + k \in 1..Len(flattened)
    BY <1>1, <1>2, <1>3
  <2>2. flattened[s[1] + k] = <<r, k>>
    BY DEF Owns
  <2>3. P[s[1] + k] = Score(<<r, k>>)
    BY <1>1, <2>1, <2>2
  <2> QED BY <1>2, <1>5, <2>3
<1>7. T = Q
  BY <1>2, <1>5, <1>6, SameElements, Zenon
<1> QED BY <1>4, <1>7 DEF Q, T

-----------------------------------------------------------------------------
(* The types.                                                               *)

LEMMA OpenBatchTyping ==
    ASSUME StateTypeOK, NEW r \in Requests, OpenBatch(r)
    PROVE  /\ batch' \in Seq(Requests)
           /\ totalItems' \in Nat
           /\ pc' \in PCs
           /\ fut' \in [Requests -> FutureStates]
<1>1. Size[r] \in Nat /\ <<r>> \in Seq(Requests)
  BY InputsType
<1>2. batch' \in Seq(Requests) /\ totalItems' \in Nat
  BY <1>1 DEF StateTypeOK, OpenBatch, collectVars
<1>3. pc' \in PCs
  BY DEF OpenBatch, PCs
<1>4. fut' \in [Requests -> FutureStates]
  BY DEF Dropped, Live, StateTypeOK, OpenBatch, FutureStates, Settled
<1> QED BY <1>2, <1>3, <1>4

LEMMA ExtendBatchTyping ==
    ASSUME StateTypeOK, NEW r \in Requests, ExtendBatch(r)
    PROVE  /\ batch' \in Seq(Requests)
           /\ totalItems' \in Nat
           /\ nextEnvelope' \in Requests \cup {None}
           /\ pc' \in PCs
           /\ fut' \in [Requests -> FutureStates]
<1>1. Size[r] \in Nat /\ Append(batch, r) \in Seq(Requests)
  BY InputsType DEF StateTypeOK
<1>2. batch' \in Seq(Requests)
  <2>1. batch' = batch \/ batch' = Append(batch, r)
    BY DEF ExtendBatch, collectVars
  <2> QED BY <1>1, <2>1 DEF StateTypeOK
<1>2a. totalItems' \in Nat
  <2>1. totalItems' = totalItems \/ totalItems' = totalItems + Size[r]
    BY DEF ExtendBatch, collectVars
  <2> QED BY <1>1, <2>1 DEF StateTypeOK
<1>3. nextEnvelope' \in Requests \cup {None} /\ pc' \in PCs
  BY DEF StateTypeOK, ExtendBatch, DeferEnvelope, PCs
<1>4. fut' \in [Requests -> FutureStates]
  BY DEF Dropped, Live, StateTypeOK, ExtendBatch, FutureStates, Settled
<1> QED BY <1>2, <1>2a, <1>3, <1>4

LEMMA FilterTyping ==
    ASSUME StateTypeOK, FilterOne PROVE StateTypeOK'
<1>1. Head(batch) \in Requests /\ Tail(batch) \in Seq(Requests)
  BY DEF StateTypeOK, FilterOne
<1>2. fut' \in [Requests -> FutureStates]
  BY <1>1 DEF Dropped, Live, StateTypeOK, FilterOne, FutureStates, Settled
<1>3. /\ running' \in Seq(Requests)
      /\ flattened' \in Seq(Texts)
      /\ slices' \in Seq(Nat \X Nat)
  <2> DEFINE r == Head(batch)
             slice == <<Len(flattened), Len(flattened) + Size[r]>>
  <2>1. /\ Append(running, r) \in Seq(Requests)
        /\ flattened \o Inputs(r) \in Seq(Texts)
        /\ slice \in Nat \X Nat
    BY <1>1, InputsType, SMTT(20) DEF StateTypeOK
  <2>2. Append(slices, slice) \in Seq(Nat \X Nat)
    BY <2>1, AppendProperties DEF StateTypeOK
  <2>3. \/ UNCHANGED <<running, flattened, slices>>
        \/ /\ running' = Append(running, r)
           /\ flattened' = flattened \o Inputs(r)
           /\ slices' = Append(slices, slice)
    BY DEF FilterOne, SliceOf, execVars
  <2> QED BY <2>1, <2>2, <2>3 DEF StateTypeOK
<1> QED BY <1>1, <1>2, <1>3 DEF StateTypeOK, FilterOne, closeVars, historyVars

LEMMA StateTyping ==
    ASSUME StateTypeOK, SlicesMatch, [Next]_vars PROVE StateTypeOK'
<1> USE DEF loopVars, collectVars, execVars, closeVars, futureVars, historyVars
<1>1. CASE UNCHANGED vars
  BY <1>1 DEF vars, StateTypeOK
<1>2. ASSUME NEW r \in Requests, Enqueue(r) PROVE StateTypeOK'
  BY <1>2 DEF Enqueue, AfterStart, StateTypeOK, PCs, FutureStates
<1>3. ASSUME NEW r \in Requests,
             EnqueueRefused(r) \/ CancelRpc(r) \/ DeadlinePasses(r)
      PROVE  StateTypeOK'
  BY <1>3 DEF EnqueueRefused, CancelRpc, DeadlinePasses, StateTypeOK,
              FutureStates, Settled
<1>4. CASE Close \/ CloseReturns
  BY <1>4 DEF Close, CloseReturns, StateTypeOK
<1>5. CASE FetchDeferred
  <2>1. nextEnvelope \in Requests
    BY <1>5 DEF FetchDeferred, StateTypeOK
  <2> QED BY <1>5, <2>1, OpenBatchTyping DEF FetchDeferred, StateTypeOK
<1>6. CASE FetchQueued
  <2>1. Head(queue) \in Requests /\ Tail(queue) \in Seq(Requests)
    BY <1>6 DEF FetchQueued, StateTypeOK
  <2> QED BY <1>6, <2>1, OpenBatchTyping DEF FetchQueued, StateTypeOK
<1>7. CASE CollectQueued
  <2>1. Head(queue) \in Requests /\ Tail(queue) \in Seq(Requests)
    BY <1>7 DEF CollectQueued, StateTypeOK
  <2> QED BY <1>7, <2>1, ExtendBatchTyping DEF CollectQueued, StateTypeOK
<1>8. CASE LoopStart \/ AwaitFirst \/ LoopExit \/ AwaitMore \/ EndCollect
  BY <1>8 DEF LoopStart, AwaitFirst, LoopExit, AwaitMore, EndCollect,
              StateTypeOK, PCs
<1>9. CASE FilterOne
  BY <1>9, FilterTyping
<1>10. CASE NothingValid
  BY <1>10 DEF NothingValid, StateTypeOK, PCs
<1>11. CASE Submit
  <2>1. running[Len(running)] \in Requests
    BY <1>11 DEF Submit, StateTypeOK
  <2> QED BY <1>11, <2>1 DEF Submit, StateTypeOK, PCs
<1>12. CASE ExecutorFinishes \/ CancelledInExec \/ InferenceDone
  <2>1. executor' \in {"idle", "busy", "ok", "raised"}
    BY <1>12 DEF ExecutorFinishes, CancelledInExec, InferenceDone, StateTypeOK
  <2>2. CASE ExecutorFinishes
    BY <2>1, <2>2 DEF ExecutorFinishes, StateTypeOK
  <2>3. CASE CancelledInExec
    <3>1. /\ running' \in Seq(Requests) /\ flattened' \in Seq(Texts)
          /\ slices' \in Seq(Nat \X Nat) /\ pc' \in PCs /\ cancelReq' \in BOOLEAN
      <4>1. /\ running' = <<>> /\ flattened' = <<>> /\ slices' = <<>>
            /\ pc' = "done" /\ cancelReq' = FALSE
        BY <2>3, Zenon DEF CancelledInExec
      <4>2. /\ <<>> \in Seq(Requests) /\ <<>> \in Seq(Texts)
            /\ <<>> \in Seq(Nat \X Nat)
        OBVIOUS
      <4>3. /\ running' \in Seq(Requests) /\ flattened' \in Seq(Texts)
            /\ slices' \in Seq(Nat \X Nat)
        BY <4>1, <4>2, Zenon
      <4>4. pc' \in PCs /\ cancelReq' \in BOOLEAN
        BY <4>1 DEF PCs
      <4> QED BY <4>3, <4>4
    <3>2. UNCHANGED <<queue, nextEnvelope, batch, totalItems, stopping, closing,
                      fut, late, historyVars>>
      BY <2>3 DEF CancelledInExec
    <3> QED BY <2>1, <3>1, <3>2 DEF StateTypeOK
  <2>4. CASE InferenceDone
    BY <2>1, <2>4 DEF InferenceDone, StateTypeOK, PCs
  <2> QED BY <1>12, <2>2, <2>3, <2>4
<1>13. CASE InferenceFailed
  BY <1>13 DEF InferenceFailed, FailOpen, StateTypeOK, PCs, FutureStates, Settled
<1>14. CASE DeliverOne
  <2>1. /\ Head(running) \in Requests /\ running' \in Seq(Requests)
        /\ slices' \in Seq(Nat \X Nat)
    <3>1. running # <<>> /\ Len(slices) = Len(running)
      BY <1>14 DEF DeliverOne, SlicesMatch
    <3>2. slices # <<>>
      BY <3>1 DEF StateTypeOK
    <3> QED BY <1>14, <3>1, <3>2 DEF DeliverOne, StateTypeOK
  <2>2. fut' \in [Requests -> FutureStates]
    BY <1>14, <2>1 DEF Dropped, Live, DeliverOne, StateTypeOK, FutureStates, Settled
  <2> QED BY <1>14, <2>1, <2>2 DEF DeliverOne, StateTypeOK
<1>15. CASE BatchSettled
  BY <1>15 DEF BatchSettled, StateTypeOK, PCs
<1>16. CASE Quiescent
  BY <1>16 DEF Quiescent, vars, StateTypeOK
<1> QED BY <1>1, <1>2, <1>3, <1>4, <1>5, <1>6, <1>7, <1>8, <1>9, <1>10, <1>11,
           <1>12, <1>13, <1>14, <1>15, <1>16 DEF Next, RunLoop

-----------------------------------------------------------------------------
(* The results.                                                             *)

LEMMA AppendKeeps ==
    ASSUME NEW S, NEW seq \in Seq(S), NEW e \in S
    PROVE  /\ Len(Append(seq, e)) = Len(seq) + 1
           /\ \A i \in 1..Len(seq) :
                Append(seq, e)[i] = seq[i] /\ seq[i] \in S
           /\ Append(seq, e)[Len(seq) + 1] = e
OBVIOUS

LEMMA TailShifts ==
    ASSUME NEW S, NEW seq \in Seq(S), seq # <<>>
    PROVE  /\ Len(Tail(seq)) = Len(seq) - 1
           /\ \A i \in 1..Len(Tail(seq)) : Tail(seq)[i] = seq[i + 1]
           /\ Head(seq) = seq[1] /\ Head(seq) \in S /\ Len(seq) \in Nat \ {0}
OBVIOUS

\* A longer flattened_inputs keeps what a slice names.
LEMMA OwnsKept ==
    ASSUME NEW flat \in Seq(Texts), NEW more \in Seq(Texts),
           NEW r \in Requests, NEW s \in Nat \X Nat, Owns(flat, r, s)
    PROVE  Owns(flat \o more, r, s)
<1> DEFINE both == flat \o more
<1>1. /\ Len(flat) \in Nat /\ Len(both) >= Len(flat)
      /\ \A k \in 1..Len(flat) : both[k] = flat[k]
  BY ConcatProperties
<1>2. Size[r] \in Nat /\ s[1] \in Nat
  BY InputsType
<1>3. s[2] = s[1] + Size[r] /\ s[2] <= Len(flat)
  BY DEF Owns
<1> HIDE DEF both
<1>4. s[2] <= Len(both)
  BY <1>1, <1>2, <1>3
<1>5. ASSUME NEW k \in 1..Size[r] PROVE both[s[1] + k] = <<r, k>>
  <2>1. s[1] + k \in 1..Len(flat)
    BY <1>1, <1>2, <1>3, SMTT(20)
  <2>2. flat[s[1] + k] = <<r, k>>
    BY DEF Owns
  <2> QED BY <1>1, <2>1, <2>2
<1> QED BY <1>3, <1>4, <1>5 DEF Owns, both

\* The slice built for r when its inputs are appended names just them.
LEMMA OwnsNew ==
    ASSUME NEW flat \in Seq(Texts), NEW r \in Requests
    PROVE  Owns(flat \o Inputs(r), r, <<Len(flat), Len(flat) + Size[r]>>)
<1> DEFINE in == Inputs(r)
<1>1. /\ Size[r] \in Nat /\ Len(in) = Size[r] /\ in \in Seq(Texts)
      /\ \A k \in 1..Size[r] : in[k] = <<r, k>>
  BY InputsType
<1> HIDE DEF in
<1>2. \A k \in 1..Size[r] : (flat \o in)[Len(flat) + k] = <<r, k>>
  BY <1>1
<1>3. Len(flat) + Size[r] <= Len(flat \o in)
  BY <1>1
<1> QED BY <1>2, <1>3 DEF Owns, in

LEMMA SlicesFilter ==
    ASSUME StateTypeOK, SlicesMatch, FilterOne PROVE SlicesMatch'
<1> DEFINE r == Head(batch)
           n == Len(flattened)
           slice == <<n, n + Size[r]>>
<1>1. r \in Requests /\ Size[r] \in Nat /\ n \in Nat /\ Inputs(r) \in Seq(Texts)
  BY InputsType, SMTT(20) DEF StateTypeOK, FilterOne
<1>2. CASE UNCHANGED <<running, flattened, slices>>
  BY <1>2 DEF SlicesMatch
<1>3. CASE /\ running' = Append(running, r)
           /\ flattened' = flattened \o Inputs(r)
           /\ slices' = Append(slices, slice)
  <2>1. slice \in Nat \X Nat
    BY <1>1
  <2>2. Owns(flattened', r, slice)
    BY <1>1, <1>3, OwnsNew DEF StateTypeOK
  <2> HIDE DEF r, slice
  <2>3. /\ Len(running) \in Nat /\ Len(slices) = Len(running)
        /\ Len(running') = Len(running) + 1
        /\ \A i \in 1..Len(running) :
             running'[i] = running[i] /\ running[i] \in Requests
        /\ running'[Len(running) + 1] = r
    BY <1>1, <1>3, AppendKeeps DEF StateTypeOK, SlicesMatch
  <2>4. /\ Len(slices') = Len(slices) + 1
        /\ \A i \in 1..Len(slices) :
             slices'[i] = slices[i] /\ slices[i] \in Nat \X Nat
        /\ slices'[Len(slices) + 1] = slice
    <3> DEFINE S == Nat \X Nat
    <3>1. slices \in Seq(S) /\ slice \in S
      BY <2>1 DEF StateTypeOK
    <3> HIDE DEF S
    <3>2. /\ Len(Append(slices, slice)) = Len(slices) + 1
          /\ \A i \in 1..Len(slices) :
               Append(slices, slice)[i] = slices[i] /\ slices[i] \in S
          /\ Append(slices, slice)[Len(slices) + 1] = slice
      BY <3>1
    <3> QED BY <1>3, <3>2, Zenon DEF S
  <2>5. ASSUME NEW i \in 1..Len(running)
        PROVE  Owns(flattened', running'[i], slices'[i])
    <3>1. Owns(flattened, running[i], slices[i])
      BY DEF SlicesMatch
    <3>2. running'[i] = running[i] /\ running[i] \in Requests
      BY <2>3
    <3>3. slices'[i] = slices[i] /\ slices[i] \in Nat \X Nat
      BY <2>3, <2>4
    <3> QED BY <1>1, <1>3, <3>1, <3>2, <3>3, OwnsKept, Zenon DEF StateTypeOK
  <2>6. Owns(flattened', running'[Len(running) + 1], slices'[Len(running) + 1])
    BY <2>2, <2>3, <2>4
  <2>7. \A i \in 1..(Len(running) + 1) :
           i \in 1..Len(running) \/ i = Len(running) + 1
    BY <2>3
  <2> QED BY <2>3, <2>4, <2>5, <2>6, <2>7 DEF SlicesMatch
<1> QED BY <1>2, <1>3 DEF FilterOne, SliceOf, execVars

LEMMA SlicesDeliver ==
    ASSUME StateTypeOK, SlicesMatch, DeliverOne PROVE SlicesMatch'
<1>1. /\ running # <<>> /\ running' = Tail(running)
      /\ slices' = Tail(slices) /\ flattened' = flattened
  BY DEF DeliverOne
<1>2. slices # <<>>
  BY <1>1 DEF SlicesMatch, StateTypeOK
<1>3. /\ Len(running') = Len(running) - 1 /\ Len(running) \in Nat \ {0}
      /\ \A i \in 1..Len(running') : running'[i] = running[i + 1]
  BY <1>1, TailShifts, Zenon DEF StateTypeOK
<1>4. /\ Len(slices') = Len(slices) - 1
      /\ \A i \in 1..Len(slices') : slices'[i] = slices[i + 1]
  BY <1>1, <1>2, TailShifts, Zenon DEF StateTypeOK
<1>5. Len(slices') = Len(running')
  BY <1>3, <1>4 DEF SlicesMatch
<1>6. ASSUME NEW i \in 1..Len(running')
      PROVE  Owns(flattened', running'[i], slices'[i])
  <2>1. i + 1 \in 1..Len(running)
    BY <1>3
  <2>2. Owns(flattened, running[i + 1], slices[i + 1])
    BY <2>1 DEF SlicesMatch
  <2> QED BY <1>1, <1>3, <1>4, <1>5, <2>2
<1> QED BY <1>5, <1>6 DEF SlicesMatch

\* Every step keeps the slices in line with the batch.
LEMMA SlicesStep ==
    ASSUME StateTypeOK, SlicesMatch, [Next]_vars PROVE SlicesMatch'
<1> USE DEF loopVars, collectVars, execVars, closeVars, futureVars, historyVars
<1>1. CASE UNCHANGED <<running, flattened, slices>>
  BY <1>1 DEF SlicesMatch
<1>2. CASE FilterOne
  BY <1>2, SlicesFilter
<1>3. CASE DeliverOne
  BY <1>3, SlicesDeliver
<1>4. CASE running' = <<>> /\ slices' = <<>>
  BY <1>4 DEF SlicesMatch
<1>5. CASE BatchSettled
  BY <1>5 DEF BatchSettled, SlicesMatch, StateTypeOK
<1>6. CASE CancelledInExec \/ InferenceFailed
  BY <1>4, <1>6, Zenon DEF CancelledInExec, InferenceFailed
<1>7. CASE \E r \in Requests : \/ Enqueue(r) \/ EnqueueRefused(r)
                              \/ CancelRpc(r) \/ DeadlinePasses(r)
  BY <1>1, <1>7, Zenon DEF Enqueue, EnqueueRefused, CancelRpc, DeadlinePasses
<1>8. CASE Close \/ CloseReturns \/ ExecutorFinishes \/ Quiescent \/ UNCHANGED vars
  BY <1>1, <1>8, Zenon DEF Close, CloseReturns, ExecutorFinishes, Quiescent, vars
<1>9. CASE LoopStart \/ FetchDeferred \/ FetchQueued \/ AwaitFirst \/ LoopExit
           \/ CollectQueued \/ AwaitMore \/ EndCollect \/ NothingValid \/ Submit
           \/ InferenceDone
  BY <1>1, <1>9, Zenon DEF LoopStart, FetchDeferred, FetchQueued, AwaitFirst,
     LoopExit, CollectQueued, AwaitMore, EndCollect, NothingValid, Submit,
     InferenceDone
<1> QED BY <1>2, <1>3, <1>5, <1>6, <1>7, <1>8, <1>9 DEF Next, RunLoop

\* Delivery hands each caller the slice of its own request.
LEMMA AnswersStep ==
    ASSUME StateTypeOK, SlicesMatch, AnswersRight, [Next]_vars
    PROVE  AnswersRight'
<1> USE DEF loopVars, collectVars, execVars, closeVars, futureVars, historyVars
<1>1. ASSUME answer' = answer,
             \A r \in Requests : fut'[r] = "result" => fut[r] = "result"
      PROVE  AnswersRight'
  BY <1>1 DEF AnswersRight, ResultsMatchInputs
<1>2. CASE DeliverOne
  <2> DEFINE r == Head(running)
  <2>1. r \in Requests /\ r = running[1] /\ 1 \in 1..Len(running)
    BY <1>2 DEF DeliverOne, StateTypeOK
  <2>2. /\ Head(slices) = slices[1] /\ slices[1] \in Nat \X Nat
    <3>1. Len(slices) = Len(running) /\ slices \in Seq(Nat \X Nat)
      BY DEF SlicesMatch, StateTypeOK
    <3>2. slices # <<>>
      BY <2>1, <3>1
    <3> QED BY <3>1, <3>2, TailShifts, Zenon
  <2>3. Owns(flattened, running[1], slices[1])
    BY <2>1 DEF SlicesMatch
  <2>4. Predictions(Head(slices)) = PredictBatch(Inputs(r))
    BY <2>1, <2>2, <2>3, SliceIsAnswer
  <2>5. PredictBatch(Inputs(r)) \in Seq(Predicted)
    BY <2>1, InputsType, PredictBatchType
  <2>6. CASE /\ fut' = fut \/ fut' = [fut EXCEPT ![r] = "deadline"]
             /\ answer' = answer
    <3>1. \A q \in Requests : fut'[q] = "result" => fut[q] = "result"
      BY <2>1, <2>6 DEF StateTypeOK
    <3> QED BY <1>1, <2>6, <3>1
  <2>7. CASE /\ fut' = [fut EXCEPT ![r] = "result"]
             /\ answer' = [answer EXCEPT ![r] = Predictions(Head(slices))]
    <3> DEFINE a == Predictions(Head(slices))
    <3>1. a \in Seq(Predicted) /\ a = PredictBatch(Inputs(r))
      BY <2>4, <2>5
    <3> HIDE DEF r, a
    <3>2. answer' \in [Requests -> Seq(Predicted)]
      BY <2>1, <2>7, <3>1 DEF AnswersRight, a
    <3>3. ASSUME NEW q \in Requests, fut'[q] = "result"
          PROVE  answer'[q] = PredictBatch(Inputs(q))
      <4>1. CASE q = r
        <5>1. answer'[q] = a
          BY <2>7, <4>1 DEF AnswersRight, a
        <5> QED BY <3>1, <4>1, <5>1
      <4>2. CASE q # r
        <5>1. answer'[q] = answer[q] /\ fut[q] = "result"
          BY <2>7, <3>3, <4>2 DEF AnswersRight, StateTypeOK
        <5> QED BY <5>1 DEF AnswersRight, ResultsMatchInputs
      <4> QED BY <4>1, <4>2
    <3> QED BY <3>2, <3>3 DEF AnswersRight, ResultsMatchInputs
  <2> QED BY <1>2, <2>6, <2>7 DEF Dropped, Live, DeliverOne
<1>3. ASSUME NEW r \in Requests, \/ Enqueue(r) \/ EnqueueRefused(r)
                                 \/ CancelRpc(r) \/ DeadlinePasses(r)
      PROVE  AnswersRight'
  <2>1. answer' = answer
    BY <1>3 DEF Enqueue, EnqueueRefused, CancelRpc, DeadlinePasses
  <2>2. \A q \in Requests : fut'[q] = "result" => fut[q] = "result"
    BY <1>3 DEF Enqueue, EnqueueRefused, CancelRpc, DeadlinePasses, StateTypeOK
  <2> QED BY <1>1, <2>1, <2>2
<1>4. CASE UNCHANGED <<fut, answer>>
  BY <1>1, <1>4
<1>5. CASE Close \/ CloseReturns \/ ExecutorFinishes \/ Quiescent \/ UNCHANGED vars
  BY <1>4, <1>5, Zenon DEF Close, CloseReturns, ExecutorFinishes, Quiescent, vars
<1>6. CASE LoopStart \/ AwaitFirst \/ LoopExit \/ AwaitMore \/ EndCollect
           \/ NothingValid \/ Submit \/ CancelledInExec \/ InferenceDone
           \/ BatchSettled
  BY <1>4, <1>6, Zenon DEF LoopStart, AwaitFirst, LoopExit, AwaitMore, EndCollect,
     NothingValid, Submit, CancelledInExec, InferenceDone, BatchSettled
<1>7. CASE FetchDeferred \/ FetchQueued
  <2>1. PICK r \in Requests : OpenBatch(r) /\ answer' = answer
    BY <1>7 DEF FetchDeferred, FetchQueued, StateTypeOK
  <2>2. \A q \in Requests : fut'[q] = "result" => fut[q] = "result"
    BY <2>1 DEF Dropped, Live, OpenBatch, StateTypeOK
  <2> QED BY <1>1, <2>1, <2>2
<1>8. CASE CollectQueued
  <2>1. PICK r \in Requests : ExtendBatch(r) /\ answer' = answer
    BY <1>8 DEF CollectQueued, StateTypeOK
  <2>2. \A q \in Requests : fut'[q] = "result" => fut[q] = "result"
    BY <2>1 DEF Dropped, Live, ExtendBatch, StateTypeOK
  <2> QED BY <1>1, <2>1, <2>2
<1>9. CASE FilterOne
  <2>1. PICK r \in Requests : /\ \/ fut' = fut
                                 \/ fut' = [fut EXCEPT ![r] = "deadline"]
                              /\ answer' = answer
    BY <1>9 DEF Dropped, Live, FilterOne, StateTypeOK
  <2>2. \A q \in Requests : fut'[q] = "result" => fut[q] = "result"
    BY <2>1 DEF StateTypeOK
  <2> QED BY <1>1, <2>1, <2>2
<1>10. CASE InferenceFailed
  <2>1. answer' = answer
    BY <1>10 DEF InferenceFailed
  <2>2. \A q \in Requests : fut'[q] = "result" => fut[q] = "result"
    BY <1>10 DEF InferenceFailed, FailOpen, StateTypeOK
  <2> QED BY <1>1, <2>1, <2>2
<1> QED BY <1>2, <1>3, <1>5, <1>6, <1>7, <1>8, <1>9, <1>10 DEF Next, RunLoop

-----------------------------------------------------------------------------
(* Where the run loop is.                                                   *)

\* The control points of the loop, close() and the executor stay in step.
LEMMA ControlStep ==
    ASSUME StateTypeOK, Control, [Next]_vars PROVE Control'
<1> USE DEF loopVars, collectVars, execVars, closeVars, futureVars, historyVars
<1>1. ASSUME UNCHANGED <<pc, executor, closing, stopping, cancelReq>>
      PROVE  Control'
  BY <1>1 DEF Control
<1>2. ASSUME NEW r \in Requests, Enqueue(r) PROVE Control'
  BY <1>2 DEF Enqueue, Admits, AfterStart, Control
<1>3. ASSUME NEW r \in Requests,
             EnqueueRefused(r) \/ CancelRpc(r) \/ DeadlinePasses(r)
      PROVE  Control'
  BY <1>1, <1>3, Zenon DEF EnqueueRefused, CancelRpc, DeadlinePasses
<1>4. CASE Close
  BY <1>4 DEF Close, Control, Suspended, StateTypeOK
<1>5. CASE CloseReturns
  BY <1>5 DEF CloseReturns, Control
<1>6. CASE LoopStart \/ AwaitFirst \/ LoopExit \/ AwaitMore \/ EndCollect
  BY <1>6 DEF LoopStart, AwaitFirst, LoopExit, AwaitMore, EndCollect,
              EndsLoop, CollectEnds, Control
<1>7. CASE FetchDeferred \/ FetchQueued
  <2>1. /\ UNCHANGED <<executor, closing, stopping, cancelReq>>
        /\ pc \in {"top", "get"} /\ ~cancelReq' /\ pc' \in {"top", "collect"}
        /\ ~stopping
    BY <1>7 DEF GetsFirst, FetchDeferred, FetchQueued, OpenBatch, Control
  <2> QED BY <2>1 DEF Control
<1>8. CASE CollectQueued
  <2>1. /\ UNCHANGED <<executor, closing, stopping, cancelReq>>
        /\ pc \in {"collect", "wait"} /\ ~cancelReq' /\ ~stopping
        /\ pc' \in {"collect", "filter"}
    BY <1>8 DEF CollectQueued, ExtendBatch, DeferEnvelope, Control
  <2> QED BY <2>1 DEF Control
<1>9. CASE FilterOne \/ DeliverOne \/ Quiescent \/ UNCHANGED vars
  BY <1>1, <1>9, Zenon DEF FilterOne, DeliverOne, Quiescent, vars
<1>10. CASE NothingValid \/ Submit \/ BatchSettled
  BY <1>10 DEF NothingValid, Submit, BatchSettled, Control
<1>11. CASE ExecutorFinishes
  <2>1. /\ UNCHANGED <<pc, closing, stopping, cancelReq>> /\ executor = "busy"
        /\ \/ pc = "exec" /\ executor' # "idle"
           \/ pc # "exec" /\ executor' = "idle"
    BY <1>11, Zenon DEF ExecutorFinishes
  <2> QED BY <2>1 DEF Control
<1>12. CASE CancelledInExec
  <2>1. /\ UNCHANGED <<closing, stopping>> /\ pc = "exec" /\ pc' = "done"
        /\ cancelReq /\ cancelReq' = FALSE
    BY <1>12, Zenon DEF CancelledInExec
  <2> QED BY <2>1 DEF Control
<1>13. CASE InferenceFailed \/ InferenceDone
  <2>1. /\ UNCHANGED <<closing, stopping, cancelReq>> /\ pc = "exec"
        /\ pc' \in {"top", "deliver"} /\ ~cancelReq /\ executor' = "idle"
    BY <1>13, Zenon DEF InferenceFailed, InferenceDone
  <2> QED BY <2>1 DEF Control
<1> QED BY <1>2, <1>3, <1>4, <1>5, <1>6, <1>7, <1>8, <1>9, <1>10, <1>11, <1>12,
           <1>13 DEF Next, RunLoop

-----------------------------------------------------------------------------

Inductive == StateTypeOK /\ SlicesMatch /\ AnswersRight /\ Control

LEMMA InitInductive == Init => Inductive
<1> SUFFICES ASSUME Init PROVE Inductive
  OBVIOUS
<1>1. StateTypeOK
  <2>1. /\ queue \in Seq(Requests) /\ batch \in Seq(Requests)
        /\ running \in Seq(Requests) /\ flattened \in Seq(Texts)
        /\ slices \in Seq(Nat \X Nat)
    BY EmptySeq DEF Init
  <2>2. /\ nextEnvelope \in Requests \cup {None} /\ pc \in PCs
        /\ totalItems \in Nat /\ arrivals \in Nat /\ lastRun \in Nat
        /\ executor \in {"idle", "busy", "ok", "raised"}
        /\ closing \in {"open", "closing", "closed"}
    BY DEF Init, PCs
  <2>3. /\ stopping \in BOOLEAN /\ cancelReq \in BOOLEAN
        /\ late \in [Requests -> BOOLEAN]
    BY DEF Init
  <2>4. fut \in [Requests -> FutureStates] /\ ticket \in [Requests -> Nat]
    BY DEF Init, FutureStates
  <2> QED BY <2>1, <2>2, <2>3, <2>4 DEF StateTypeOK
<1>2. SlicesMatch
  BY DEF Init, SlicesMatch
<1>3. AnswersRight
  BY DEF Init, AnswersRight, ResultsMatchInputs
<1>4. Control
  BY DEF Init, Control
<1> QED BY <1>1, <1>2, <1>3, <1>4 DEF Inductive

LEMMA StepInductive == Inductive /\ [Next]_vars => Inductive'
BY StateTyping, SlicesStep, AnswersStep, ControlStep DEF Inductive

\* The inductive invariant holds in every reachable state.
THEOREM Invariance == Spec => []Inductive
BY InitInductive, StepInductive, PTL DEF Spec

\* Every variable of the batcher keeps its type, for any limits and requests.
THEOREM Typing == Spec => []TypeOK
<1>1. Inductive => TypeOK
  BY DEF Inductive, StateTypeOK, AnswersRight, TypeOK, Texts, Predicted
<1> QED BY Invariance, <1>1, PTL

\* A caller gets the predictions of its own texts, whatever else was in its
\* batch and whichever of it was dropped or cancelled.
THEOREM ResultsCorrect == Spec => []ResultsMatchInputs
<1>1. Inductive => ResultsMatchInputs
  BY DEF Inductive, AnswersRight
<1> QED BY Invariance, <1>1, PTL

\* The executor is idle whenever the loop hands a batch over.
THEOREM OneBatch == Spec => []OneBatchInFlight
<1>1. Inductive => OneBatchInFlight
  BY DEF Inductive, Control, StateTypeOK, PCs, OneBatchInFlight
<1> QED BY Invariance, <1>1, PTL

\* After close() has returned no run loop exists.
THEOREM LoopGone == Spec => []NoLoopAfterClose
<1>1. Inductive => NoLoopAfterClose
  BY DEF Inductive, Control, NoLoopAfterClose
<1> QED BY Invariance, <1>1, PTL

\* The loop takes an envelope at the top, where it looks at _stopping, or where
\* it waits for one, and there close() has left a cancellation.
LEMMA ClosedTakesNothing ==
    ASSUME StateTypeOK, Control, stopping, [Next]_vars
    PROVE  queue' = queue /\ nextEnvelope' = nextEnvelope
<1> USE DEF loopVars, collectVars, execVars, closeVars, futureVars, historyVars
<1>1. CASE \E r \in Requests : \/ Enqueue(r) \/ EnqueueRefused(r)
                              \/ CancelRpc(r) \/ DeadlinePasses(r)
  BY <1>1, Zenon DEF Enqueue, Admits, EnqueueRefused, CancelRpc, DeadlinePasses
<1>2. CASE Close \/ CloseReturns \/ ExecutorFinishes \/ Quiescent \/ UNCHANGED vars
  BY <1>2, Zenon DEF Close, CloseReturns, ExecutorFinishes, Quiescent, vars
<1>3. CASE FetchDeferred \/ FetchQueued \/ CollectQueued
  BY <1>3 DEF FetchDeferred, FetchQueued, GetsFirst, CollectQueued, Control
<1>4. CASE \/ LoopStart \/ AwaitFirst \/ LoopExit \/ AwaitMore \/ EndCollect
           \/ FilterOne \/ NothingValid \/ Submit \/ CancelledInExec
           \/ InferenceFailed \/ InferenceDone \/ DeliverOne \/ BatchSettled
  BY <1>4, Zenon DEF LoopStart, AwaitFirst, LoopExit, AwaitMore, EndCollect,
     FilterOne, NothingValid, Submit, CancelledInExec, InferenceFailed,
     InferenceDone, DeliverOne, BatchSettled
<1> QED BY <1>1, <1>2, <1>3, <1>4 DEF Next, RunLoop

\* Once close() has begun, nothing in the line is taken up, however the
\* cancellation of the loop fares, and nothing joins it.
THEOREM ClosedStays == Spec => ClosedLineStays
<1>1. Inductive /\ [Next]_vars =>
        [stopping => queue' = queue /\ nextEnvelope' = nextEnvelope]_vars
  BY ClosedTakesNothing DEF Inductive
<1> QED BY Invariance, <1>1, PTL DEF Spec, ClosedLineStays

\* A step that leaves settled futures alone.
KeepsSettled ==
    \A r \in Requests :
        fut[r] \in Settled => fut'[r] = fut[r] /\ answer'[r] = answer[r]

LEMMA StepKeepsSettled ==
    ASSUME StateTypeOK, AnswersRight, [Next]_vars PROVE KeepsSettled
<1> USE DEF loopVars, collectVars, execVars, closeVars, futureVars, historyVars
<1>1. ASSUME NEW r \in Requests, NEW f,
             fut[r] \in {"new", "pending"},
             fut' = [fut EXCEPT ![r] = f],
             \/ answer' = answer
             \/ \E a : answer' = [answer EXCEPT ![r] = a]
      PROVE  KeepsSettled
  BY <1>1 DEF KeepsSettled, Settled, StateTypeOK, AnswersRight
<1>2. ASSUME UNCHANGED <<fut, answer>> PROVE KeepsSettled
  BY <1>2 DEF KeepsSettled
<1>3. ASSUME NEW r \in Requests, \/ Enqueue(r) \/ EnqueueRefused(r) \/ CancelRpc(r)
      PROVE  KeepsSettled
  BY <1>1, <1>3 DEF Enqueue, EnqueueRefused, CancelRpc
<1>4. CASE \/ Close \/ CloseReturns \/ ExecutorFinishes \/ Quiescent \/ UNCHANGED vars
           \/ \E r \in Requests : DeadlinePasses(r)
  BY <1>2, <1>4, Zenon DEF Close, CloseReturns, ExecutorFinishes, Quiescent, vars,
     DeadlinePasses
<1>5. CASE LoopStart \/ AwaitFirst \/ LoopExit \/ AwaitMore \/ EndCollect
           \/ NothingValid \/ Submit \/ CancelledInExec \/ InferenceDone
           \/ BatchSettled
  BY <1>2, <1>5, Zenon DEF LoopStart, AwaitFirst, LoopExit, AwaitMore, EndCollect,
     NothingValid, Submit, CancelledInExec, InferenceDone, BatchSettled
<1>6. CASE FetchDeferred \/ FetchQueued
  <2>1. PICK r \in Requests : OpenBatch(r) /\ answer' = answer
    BY <1>6 DEF FetchDeferred, FetchQueued, StateTypeOK
  <2> QED BY <1>1, <1>2, <2>1 DEF Dropped, Live, OpenBatch
<1>7. CASE CollectQueued
  <2>1. PICK r \in Requests : ExtendBatch(r) /\ answer' = answer
    BY <1>7 DEF CollectQueued, StateTypeOK
  <2> QED BY <1>1, <1>2, <2>1 DEF Dropped, Live, ExtendBatch
<1>8. CASE FilterOne
  <2>1. PICK r \in Requests :
          /\ answer' = answer
          /\ \/ fut' = fut
             \/ fut[r] = "pending" /\ fut' = [fut EXCEPT ![r] = "deadline"]
    BY <1>8 DEF Dropped, Live, FilterOne, StateTypeOK
  <2> QED BY <1>1, <1>2, <2>1
<1>9. CASE InferenceFailed
  BY <1>9 DEF InferenceFailed, FailOpen, KeepsSettled, Settled, StateTypeOK
<1>10. CASE DeliverOne
  <2>1. Head(running) \in Requests
    BY <1>10 DEF DeliverOne, StateTypeOK
  <2>2. PICK r \in Requests :
          \/ UNCHANGED <<fut, answer>>
          \/ /\ fut[r] = "pending"
             /\ fut' = [fut EXCEPT ![r] = "deadline"]
             /\ answer' = answer
          \/ /\ fut[r] = "pending"
             /\ fut' = [fut EXCEPT ![r] = "result"]
             /\ answer' = [answer EXCEPT ![r] = Predictions(Head(slices))]
    BY <1>10, <2>1, Zenon DEF Dropped, Live, DeliverOne
  <2> QED BY <1>1, <1>2, <2>2
<1> QED BY <1>3, <1>4, <1>5, <1>6, <1>7, <1>8, <1>9, <1>10 DEF Next, RunLoop

\* A future is settled once: every path that sets a result or an exception
\* looks at the future again after the last point where it could have changed.
THEOREM SettledOnce == Spec => FutureSettledOnce
<1>1. Inductive /\ [Next]_vars =>
        [\A r \in Requests :
           fut[r] \in Settled => fut'[r] = fut[r] /\ answer'[r] = answer[r]]_vars
  BY StepKeepsSettled DEF Inductive, KeepsSettled
<1> QED BY Invariance, <1>1, PTL DEF Spec, FutureSettledOnce
=============================================================================
