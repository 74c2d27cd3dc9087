-------------------------- MODULE WorkerServerProofs --------------------------
(***************************************************************************)
(* Proofs about a worker process, for any requests, sizes and limits.       *)
(*                                                                         *)
(* Every step of the process but one is a step of the batcher or leaves it  *)
(* alone, so that the batcher's invariant carries over; the exception is    *)
(* the end of the grace period, which cancels many futures at once.  On top *)
(* of it Stages ties the progress of serve() to that of close(), and Calls  *)
(* ties each handler to its future.                                         *)
(*                                                                         *)
(* The end of the grace period is a step of the abstract queue, so that the *)
(* process implements InferenceQueue as its batcher does, and what is        *)
(* proved of the batcher alone holds of the batcher in its process.         *)
(***************************************************************************)
EXTENDS WorkerServer, BatcherRefinement

CallTypeOK ==
    /\ servicer \in {"STARTING", "READY", "DRAINING"}
    /\ serve \in ServeSteps
    /\ rpc \in [Requests -> Codes \cup {"none", "waiting"}]

Stages ==
    /\ servicer = "READY" <=> serve = "serving"
    /\ serve \in {"init", "listening", "serving", "signalled"} => closing = "open"
    /\ serve = "closing" => closing = "closing"
    /\ serve \in {"stopping", "stopped"} => closing = "closed"
    /\ Len(queue) <= QueueCapacity

OpenCalls ==
    /\ CallsTrackFutures
    /\ \A r \in Requests : rpc[r] = "none" => fut[r] = "new"
    /\ serve = "stopped" => \A r \in Requests : rpc[r] # "waiting"

WorkerInv == Inductive /\ CallTypeOK /\ Stages /\ OpenCalls

-----------------------------------------------------------------------------
(* The batcher's own steps.                                                 *)

\* What a handler can notice of a step of the run loop.
LoopOutcome(f, g) ==
    \/ g = f
    \/ f = "pending" /\ g \in {"result", "deadline", "internal"}

LEMMA DroppedOutcome ==
    ASSUME StateTypeOK, NEW q \in Requests, Dropped(q)
    PROVE  \A r \in Requests : LoopOutcome(fut[r], fut'[r])
BY DEF StateTypeOK, Dropped, LoopOutcome

LEMMA LoopStep ==
    ASSUME StateTypeOK,
           RunLoop \/ ExecutorFinishes \/ \E r \in Requests : DeadlinePasses(r)
    PROVE  /\ \A r \in Requests : LoopOutcome(fut[r], fut'[r])
           /\ UNCHANGED <<closing, stopping>>
           /\ Len(queue') <= Len(queue)
<1> USE DEF loopVars, collectVars, execVars, closeVars, futureVars, historyVars
<1>1. Len(queue) \in Nat
  BY DEF StateTypeOK
<1>2. CASE \/ LoopStart \/ AwaitFirst \/ LoopExit \/ AwaitMore \/ EndCollect
           \/ NothingValid \/ Submit \/ CancelledInExec \/ InferenceDone
           \/ BatchSettled \/ ExecutorFinishes
           \/ \E r \in Requests : DeadlinePasses(r)
  <2>1. UNCHANGED <<fut, closing, stopping, queue>>
    BY <1>2, Zenon DEF LoopStart, AwaitFirst, LoopExit, AwaitMore, EndCollect,
        NothingValid, Submit, CancelledInExec, InferenceDone, BatchSettled,
        ExecutorFinishes, DeadlinePasses
  <2> QED BY <1>1, <2>1 DEF LoopOutcome
<1>3. CASE FetchDeferred
  <2>1. /\ UNCHANGED <<closing, stopping, queue>>
        /\ nextEnvelope \in Requests
        /\ Dropped(nextEnvelope) \/ UNCHANGED fut
    BY <1>3 DEF FetchDeferred, OpenBatch, StateTypeOK
  <2> QED BY <1>1, <2>1, DroppedOutcome DEF LoopOutcome
<1>4. CASE FetchQueued \/ CollectQueued
  <2>1. queue # <<>> /\ queue' = Tail(queue) /\ queue \in Seq(Requests)
    BY <1>4 DEF FetchQueued, CollectQueued, StateTypeOK
  <2>2. UNCHANGED <<closing, stopping>>
    BY <1>4, Zenon DEF FetchQueued, CollectQueued
  <2>3. Dropped(Head(queue)) \/ UNCHANGED fut
    BY <1>4 DEF FetchQueued, CollectQueued, OpenBatch, ExtendBatch
  <2>4. Head(queue) \in Requests /\ Len(queue') <= Len(queue)
    BY <2>1
  <2> QED BY <2>2, <2>3, <2>4, DroppedOutcome DEF LoopOutcome
<1>5. CASE FilterOne
  <2>1. /\ UNCHANGED <<closing, stopping, queue>>
        /\ Head(batch) \in Requests
        /\ Dropped(Head(batch)) \/ UNCHANGED fut
    BY <1>5 DEF FilterOne, StateTypeOK
  <2> QED BY <1>1, <2>1, DroppedOutcome DEF LoopOutcome
<1>6. CASE InferenceFailed
  <2>1. UNCHANGED <<closing, stopping, queue>>
    BY <1>6, Zenon DEF InferenceFailed
  <2>2. \A r \in Requests : LoopOutcome(fut[r], fut'[r])
    BY <1>6 DEF InferenceFailed, FailOpen, LoopOutcome
  <2> QED BY <1>1, <2>1, <2>2
<1>7. CASE DeliverOne
  <2>1. /\ UNCHANGED <<closing, stopping, queue>>
        /\ Head(running) \in Requests
        /\ \/ Dropped(Head(running))
           \/ /\ fut[Head(running)] = "pending"
              /\ fut' = [fut EXCEPT ![Head(running)] = "result"]
    BY <1>7 DEF DeliverOne, StateTypeOK, Live
  <2>2. CASE Dropped(Head(running))
    BY <1>1, <2>1, <2>2, DroppedOutcome
  <2>3. CASE /\ fut[Head(running)] = "pending"
             /\ fut' = [fut EXCEPT ![Head(running)] = "result"]
    BY <1>1, <2>1, <2>3 DEF LoopOutcome, StateTypeOK
  <2> QED BY <2>1, <2>2, <2>3
<1> QED BY <1>2, <1>3, <1>4, <1>5, <1>6, <1>7 DEF RunLoop

-----------------------------------------------------------------------------
(* The batcher's invariant.                                                 *)

LEMMA GraceInductive ==
    ASSUME Inductive, GraceExpires PROVE Inductive'
<1> USE DEF loopVars, collectVars, execVars, closeVars, historyVars
<1>1. fut' \in [Requests -> FutureStates]
  BY DEF Inductive, StateTypeOK, GraceExpires, FutureStates, Settled
<1>2. UNCHANGED <<queue, nextEnvelope, pc, batch, totalItems, running, flattened,
                  slices, executor, stopping, closing, cancelReq, answer, late,
                  arrivals, ticket, lastRun>>
  BY Zenon DEF GraceExpires
<1>3. StateTypeOK'
  BY <1>1, <1>2 DEF Inductive, StateTypeOK
<1>4. SlicesMatch' /\ Control'
  BY <1>2 DEF Inductive, SlicesMatch, Control
<1>5. \A r \in Requests : fut'[r] = "result" => fut[r] = "result"
  BY DEF GraceExpires
<1>6. AnswersRight'
  BY <1>2, <1>5 DEF Inductive, AnswersRight, ResultsMatchInputs
<1> QED BY <1>3, <1>4, <1>6 DEF Inductive

LEMMA BatcherSteps ==
    WorkerNext => [Next]_vars \/ GraceExpires
BY Zenon DEF WorkerNext, Handlers, Lifecycle, PredictAborted, PredictQueued,
    PredictRefused, PredictReplies, HandlerCancelled, CancelsFuture, ServerStart,
    BecomeReady, Signal, BeginClose, FinishClose, ServerStopped,
    WorkerQuiescent, allVars, Next

LEMMA BatcherInvariant ==
    ASSUME Inductive, [WorkerNext]_allVars PROVE Inductive'
<1>1. [Next]_vars \/ GraceExpires
  BY BatcherSteps, Zenon DEF allVars
<1> QED BY <1>1, StepInductive, GraceInductive

-----------------------------------------------------------------------------
(* The process.                                                             *)

LoopOrClock ==
    /\ RunLoop \/ ExecutorFinishes \/ \E r \in Requests : DeadlinePasses(r)
    /\ UNCHANGED workerVars

LEMMA WorkerCases ==
    ASSUME [WorkerNext]_allVars
    PROVE  \/ \E r \in Requests, call \in Calls :
                  \/ PredictAborted(r, call) \/ PredictQueued(r, call)
                  \/ PredictRefused(r, call)
           \/ \E r \in Requests : PredictReplies(r) \/ HandlerCancelled(r)
           \/ ServerStart \/ BecomeReady \/ Signal \/ BeginClose \/ FinishClose
           \/ GraceExpires \/ ServerStopped \/ LoopOrClock
           \/ UNCHANGED allVars
BY Zenon DEF WorkerNext, Handlers, Lifecycle, WorkerQuiescent, LoopOrClock

LEMMA AdmissionCodes ==
    ASSUME NEW call
    PROVE  /\ Admission(call) \in Codes \cup {"ADMIT"}
           /\ Admission(call) # "RESOURCE_EXHAUSTED"
           /\ Admission(call) = "ADMIT" => servicer = "READY"
BY DEF Admission, Codes

\* A call of Predict, up to its await.
LEMMA PredictStep ==
    ASSUME WorkerInv, NEW r \in Requests, NEW call \in Calls,
           \/ PredictAborted(r, call) \/ PredictQueued(r, call)
           \/ PredictRefused(r, call)
    PROVE  CallTypeOK' /\ Stages' /\ OpenCalls'
<1>1. /\ UNCHANGED <<servicer, serve>> /\ rpc[r] = "none" /\ serve # "stopped"
  BY Zenon DEF PredictAborted, PredictQueued, PredictRefused, Listening
<1>2. CallTypeOK /\ Stages /\ OpenCalls /\ fut[r] = "new" /\ StateTypeOK
  BY <1>1 DEF WorkerInv, OpenCalls, Inductive
<1>3. CASE PredictAborted(r, call)
  <2>1. /\ UNCHANGED <<fut, queue, closing>>
        /\ rpc' = [rpc EXCEPT ![r] = Admission(call)]
        /\ Admission(call) \in Codes
    BY <1>3, AdmissionCodes, Zenon DEF PredictAborted, vars, futureVars, closeVars
  <2>2. rpc'[r] \notin {"none", "waiting"} /\ \A q \in Requests : q # r => rpc'[q] = rpc[q]
    BY <1>2, <2>1 DEF CallTypeOK, Codes
  <2>3. CallTypeOK' /\ Stages'
    BY <1>1, <1>2, <2>1 DEF CallTypeOK, Stages
  <2>4. OpenCalls'
    BY <1>1, <1>2, <2>1, <2>2 DEF OpenCalls, CallsTrackFutures
  <2> QED BY <2>3, <2>4
<1>4. CASE PredictQueued(r, call)
  <2>1. /\ UNCHANGED closing /\ queue' = Append(queue, r)
        /\ Len(queue) < QueueCapacity
        /\ fut' = [fut EXCEPT ![r] = "pending"]
        /\ rpc' = [rpc EXCEPT ![r] = "waiting"]
    BY <1>4, Zenon DEF PredictQueued, Enqueue, Admits, closeVars
  <2>2. Len(queue') <= QueueCapacity
    BY <1>2, <2>1, BatcherAssumption DEF StateTypeOK
  <2>3. CallTypeOK' /\ Stages'
    BY <1>1, <1>2, <2>1, <2>2 DEF CallTypeOK, Stages
  <2>4. OpenCalls'
    BY <1>1, <1>2, <2>1 DEF OpenCalls, CallsTrackFutures, CallTypeOK, StateTypeOK
  <2> QED BY <2>3, <2>4
<1>5. CASE PredictRefused(r, call)
  <2>1. /\ UNCHANGED <<closing, queue>>
        /\ fut' = [fut EXCEPT ![r] = "rejected"]
        /\ rpc' = [rpc EXCEPT ![r] = "RESOURCE_EXHAUSTED"]
    BY <1>5, Zenon DEF PredictRefused, EnqueueRefused, closeVars
  <2>2. CallTypeOK' /\ Stages'
    BY <1>1, <1>2, <2>1 DEF CallTypeOK, Stages, Codes
  <2>3. OpenCalls'
    BY <1>1, <1>2, <2>1 DEF OpenCalls, CallsTrackFutures, CallTypeOK, StateTypeOK
  <2> QED BY <2>2, <2>3
<1> QED BY <1>3, <1>4, <1>5

\* A handler ends: its future is settled, or it is cancelled and its future
\* with it.
LEMMA HandlerEnds ==
    ASSUME WorkerInv, NEW r \in Requests, PredictReplies(r) \/ HandlerCancelled(r)
    PROVE  CallTypeOK' /\ Stages' /\ OpenCalls'
<1>1. CallTypeOK /\ Stages /\ OpenCalls /\ StateTypeOK /\ rpc[r] = "waiting"
  BY DEF WorkerInv, Inductive, PredictReplies, HandlerCancelled
<1>2. UNCHANGED <<servicer, serve, closing, queue>>
  BY Zenon DEF PredictReplies, HandlerCancelled, CancelsFuture, CancelRpc, vars,
      closeVars
<1>3. \E code \in Codes \ {"RESOURCE_EXHAUSTED"} : rpc' = [rpc EXCEPT ![r] = code]
  BY DEF PredictReplies, HandlerCancelled, CodeOf, Codes
<1>4. \/ fut' = fut /\ fut[r] # "pending"
      \/ fut' = [fut EXCEPT ![r] = "cancelled"]
  BY DEF PredictReplies, HandlerCancelled, CancelsFuture, CancelRpc, Settled, vars,
      futureVars
<1>5. CallTypeOK' /\ Stages'
  BY <1>1, <1>2, <1>3 DEF CallTypeOK, Stages
<1>6. /\ rpc'[r] \notin {"none", "waiting"} /\ fut'[r] # "pending"
      /\ \A q \in Requests : q # r => rpc'[q] = rpc[q] /\ fut'[q] = fut[q]
  BY <1>1, <1>3, <1>4 DEF CallTypeOK, StateTypeOK, Codes
<1>7. OpenCalls'
  BY <1>1, <1>2, <1>6 DEF OpenCalls, CallsTrackFutures
<1> QED BY <1>5, <1>7

\* The steps of serve().
LEMMA LifecycleStep ==
    ASSUME WorkerInv,
           \/ ServerStart \/ BecomeReady \/ Signal \/ BeginClose \/ FinishClose
           \/ ServerStopped
    PROVE  CallTypeOK' /\ Stages' /\ OpenCalls'
<1>1. CallTypeOK /\ Stages /\ OpenCalls /\ StateTypeOK /\ Control
  BY DEF WorkerInv, Inductive
<1>2. UNCHANGED <<rpc, fut, queue>>
  BY Zenon DEF ServerStart, BecomeReady, Signal, BeginClose, FinishClose,
      ServerStopped, Close, CloseReturns, vars, futureVars
<1>3. CallTypeOK'
  BY <1>1, <1>2, Zenon DEF CallTypeOK, ServeSteps, ServerStart, BecomeReady, Signal,
      BeginClose, FinishClose, ServerStopped
<1>4. Stages'
  <2>1. CASE ServerStart \/ BecomeReady \/ Signal \/ ServerStopped
    BY <1>1, <2>1 DEF Stages, ServerStart, BecomeReady, Signal, ServerStopped,
        vars, closeVars
  <2>2. CASE BeginClose \/ FinishClose
    BY <1>1, <1>2, <2>2 DEF Stages, BeginClose, FinishClose, Close, CloseReturns
  <2> QED BY <2>1, <2>2
<1>5. OpenCalls'
  <2>1. serve' = "stopped" => \A r \in Requests : rpc[r] # "waiting"
    BY DEF ServerStart, BecomeReady, Signal, BeginClose, FinishClose,
        ServerStopped, NoOpenCall
  <2> QED BY <1>1, <1>2, <2>1 DEF OpenCalls, CallsTrackFutures
<1> QED BY <1>3, <1>4, <1>5

LEMMA GraceStep ==
    ASSUME WorkerInv, GraceExpires
    PROVE  CallTypeOK' /\ Stages' /\ OpenCalls'
<1>1. CallTypeOK /\ Stages /\ OpenCalls /\ StateTypeOK
  BY DEF WorkerInv, Inductive
<1>2. UNCHANGED <<servicer, serve, closing, queue>> /\ serve = "stopping"
  BY Zenon DEF GraceExpires
<1>3. /\ rpc' = [r \in Requests |->
                   IF rpc[r] = "waiting" THEN "CANCELLED" ELSE rpc[r]]
      /\ fut' = [r \in Requests |->
                   IF fut[r] = "pending" THEN "cancelled" ELSE fut[r]]
  BY Zenon DEF GraceExpires
<1>4. CallTypeOK' /\ Stages'
  BY <1>1, <1>2, <1>3 DEF CallTypeOK, Stages, Codes
<1>5. OpenCalls'
  BY <1>1, <1>2, <1>3 DEF OpenCalls, CallsTrackFutures
<1> QED BY <1>4, <1>5

LEMMA LoopKeepsCalls ==
    ASSUME WorkerInv, LoopOrClock
    PROVE  CallTypeOK' /\ Stages' /\ OpenCalls'
<1>1. CallTypeOK /\ Stages /\ OpenCalls /\ StateTypeOK
  BY DEF WorkerInv, Inductive
<1>2. UNCHANGED <<servicer, serve, rpc>>
  BY DEF LoopOrClock, workerVars
<1>3. /\ \A r \in Requests : LoopOutcome(fut[r], fut'[r])
      /\ closing' = closing /\ Len(queue') <= Len(queue)
  BY <1>1, LoopStep DEF LoopOrClock
<1>4. Len(queue) \in Nat /\ Len(queue') \in Nat
  <2>1. StateTypeOK'
    BY BatcherInvariant, Zenon DEF WorkerInv, LoopOrClock, WorkerNext, Inductive
  <2> QED BY <1>1, <2>1, SMTT(20) DEF StateTypeOK
<1>5. CallTypeOK' /\ Stages'
  BY <1>1, <1>2, <1>3, <1>4, BatcherAssumption DEF CallTypeOK, Stages
<1>6. OpenCalls'
  BY <1>1, <1>2, <1>3 DEF OpenCalls, CallsTrackFutures, LoopOutcome
<1> QED BY <1>5, <1>6

LEMMA WorkerInit0 == WorkerInit => WorkerInv
<1> SUFFICES ASSUME WorkerInit PROVE WorkerInv
  OBVIOUS
<1>1. Inductive
  BY InitInductive DEF WorkerInit
<1>2. CallTypeOK
  BY DEF WorkerInit, CallTypeOK, ServeSteps
<1>3. Stages
  BY BatcherAssumption DEF WorkerInit, Init, Stages
<1>4. OpenCalls
  BY DEF WorkerInit, Init, OpenCalls, CallsTrackFutures
<1> QED BY <1>1, <1>2, <1>3, <1>4 DEF WorkerInv

LEMMA WorkerStep == WorkerInv /\ [WorkerNext]_allVars => WorkerInv'
<1> SUFFICES ASSUME WorkerInv, [WorkerNext]_allVars PROVE WorkerInv'
  OBVIOUS
<1>1. Inductive'
  BY BatcherInvariant DEF WorkerInv
<1>2. CASE UNCHANGED allVars
  <2>1. UNCHANGED <<servicer, serve, rpc, closing, queue, fut>>
    BY <1>2, Zenon DEF allVars, workerVars, vars, closeVars, futureVars
  <2> QED BY <1>1, <2>1 DEF WorkerInv, CallTypeOK, Stages, OpenCalls, CallsTrackFutures
<1>3. CASE ~UNCHANGED allVars
  BY <1>1, <1>3, WorkerCases, PredictStep, HandlerEnds, LifecycleStep, GraceStep,
     LoopKeepsCalls DEF WorkerInv
<1> QED BY <1>2, <1>3

\* The invariant of the process holds in every reachable state.
THEOREM WorkerInvariance == WorkerSpec => []WorkerInv
BY WorkerInit0, WorkerStep, PTL DEF WorkerSpec

\* The variables of the process and of its batcher keep their types.
THEOREM WorkerTyping == WorkerSpec => []WorkerTypeOK
<1>1. WorkerInv => WorkerTypeOK
  BY DEF WorkerInv, Inductive, StateTypeOK, AnswersRight, TypeOK, Texts, Predicted,
      CallTypeOK, WorkerTypeOK
<1> QED BY WorkerInvariance, <1>1, PTL

\* Handlers and futures keep together across cancellations of either and the
\* end of the grace period.
THEOREM HandlersTrackFutures == WorkerSpec => []CallsTrackFutures
<1>1. WorkerInv => CallsTrackFutures
  BY DEF WorkerInv, OpenCalls
<1> QED BY WorkerInvariance, <1>1, PTL

\* The process ends with no call open and no run loop.
THEOREM EndsClean == WorkerSpec => []StoppedClean
<1>1. WorkerInv => StoppedClean
  BY DEF WorkerInv, OpenCalls, CallsTrackFutures, Stages, Inductive, Control,
      StoppedClean
<1> QED BY WorkerInvariance, <1>1, PTL

\* Predict answers RESOURCE_EXHAUSTED for a full queue only, never for the
\* shutdown that makes enqueue raise the same error.
THEOREM ExhaustedMeansFull == WorkerSpec => RefusedOnlyWhenFull
<1>1. ASSUME WorkerInv, [WorkerNext]_allVars, NEW q \in Requests,
             rpc[q] = "none", rpc'[q] = "RESOURCE_EXHAUSTED"
      PROVE  ~stopping /\ Len(queue) = QueueCapacity
  <2>1. CallTypeOK /\ Stages /\ StateTypeOK /\ Control
    BY <1>1 DEF WorkerInv, Inductive
  <2>2. ASSUME NEW r \in Requests, NEW call \in Calls, PredictRefused(r, call)
        PROVE  ~stopping /\ Len(queue) = QueueCapacity
    <3>1. servicer = "READY" /\ ~Admits
      BY <2>2, AdmissionCodes DEF PredictRefused, EnqueueRefused
    <3>2. ~stopping
      BY <2>1, <3>1 DEF Stages, Control
    <3>3. Len(queue) \in Nat /\ QueueCapacity \in Nat
      BY <2>1, BatcherAssumption DEF StateTypeOK
    <3> QED BY <2>1, <3>1, <3>2, <3>3 DEF Admits, Stages
  <2>3. ASSUME NEW r \in Requests, NEW call \in Calls,
               PredictAborted(r, call) \/ PredictQueued(r, call)
        PROVE  FALSE
    <3>1. \E code \in (Codes \cup {"waiting"}) \ {"RESOURCE_EXHAUSTED"} :
            rpc' = [rpc EXCEPT ![r] = code]
      BY <2>3, AdmissionCodes DEF PredictAborted, PredictQueued, Codes
    <3> QED BY <1>1, <2>1, <3>1 DEF CallTypeOK
  <2>4. CASE \/ \E r \in Requests : PredictReplies(r) \/ HandlerCancelled(r)
             \/ GraceExpires
    <3>1. \A r \in Requests : rpc'[r] # rpc[r] => rpc[r] = "waiting"
      BY <2>1, <2>4 DEF PredictReplies, HandlerCancelled, GraceExpires, CallTypeOK
    <3> QED BY <1>1, <3>1
  <2>5. CASE \/ ServerStart \/ BecomeReady \/ Signal \/ BeginClose \/ FinishClose
             \/ ServerStopped \/ LoopOrClock \/ UNCHANGED allVars
    <3>1. rpc' = rpc
      BY <2>5, Zenon DEF ServerStart, BecomeReady, Signal, BeginClose, FinishClose,
          ServerStopped, LoopOrClock, allVars, workerVars
    <3> QED BY <1>1, <3>1
  <2> QED BY <1>1, <2>2, <2>3, <2>4, <2>5, WorkerCases
<1>2. WorkerInv /\ [WorkerNext]_allVars
        => [\A r \in Requests :
              rpc[r] = "none" /\ rpc'[r] = "RESOURCE_EXHAUSTED"
                => ~stopping /\ Len(queue) = QueueCapacity]_allVars
  BY <1>1
<1> QED BY WorkerInvariance, <1>2, PTL DEF WorkerSpec, RefusedOnlyWhenFull

-----------------------------------------------------------------------------
(* The replies.                                                             *)

\* A future fails with its deadline only after it.
DeadlinesPassed == \A r \in Requests : fut[r] = "deadline" => late[r]

\* A reply repeats the outcome of its future.
RepliesMatch ==
    \A r \in Requests :
        /\ rpc[r] = "OK" => fut[r] = "result"
        /\ rpc[r] = "DEADLINE_EXCEEDED" => fut[r] \in {"new", "deadline"}

\* A step that leaves the clock alone and gives no future the outcome "deadline",
\* unless its envelope is late.
LEMMA DropsLate ==
    ASSUME StateTypeOK, DeadlinesPassed, late' = late, NEW q \in Requests,
           \/ Dropped(q) \/ UNCHANGED fut
           \/ \E f \in FutureStates \ {"deadline"} : fut' = [fut EXCEPT ![q] = f]
    PROVE  DeadlinesPassed'
BY DEF StateTypeOK, DeadlinesPassed, Dropped

LEMMA DeadlineStep ==
    ASSUME StateTypeOK, StateTypeOK', DeadlinesPassed, [Next]_vars
    PROVE  DeadlinesPassed'
<1> USE DEF loopVars, collectVars, execVars, closeVars, futureVars, historyVars
<1>1. CASE UNCHANGED <<fut, late>>
  BY <1>1 DEF DeadlinesPassed
<1>2. ASSUME NEW r \in Requests, Enqueue(r) \/ EnqueueRefused(r) \/ CancelRpc(r)
      PROVE  DeadlinesPassed'
  BY <1>2, DropsLate DEF Enqueue, EnqueueRefused, CancelRpc, FutureStates, Settled
<1>3. ASSUME NEW r \in Requests, DeadlinePasses(r) PROVE DeadlinesPassed'
  BY <1>3 DEF DeadlinePasses, DeadlinesPassed, StateTypeOK
<1>4. CASE \/ Close \/ CloseReturns \/ ExecutorFinishes \/ Quiescent \/ UNCHANGED vars
           \/ LoopStart \/ AwaitFirst \/ LoopExit \/ AwaitMore \/ EndCollect
           \/ NothingValid \/ Submit \/ CancelledInExec \/ InferenceDone
           \/ BatchSettled
  BY <1>1, <1>4, Zenon DEF Close, CloseReturns, ExecutorFinishes, Quiescent, vars,
     LoopStart, AwaitFirst, LoopExit, AwaitMore, EndCollect, NothingValid, Submit,
     CancelledInExec, InferenceDone, BatchSettled
<1>5. CASE FetchDeferred \/ FetchQueued
  <2>1. PICK r \in Requests : OpenBatch(r) /\ late' = late
    BY <1>5, SMTT(20) DEF FetchDeferred, FetchQueued, StateTypeOK
  <2> QED BY <2>1, DropsLate DEF OpenBatch
<1>6. CASE CollectQueued
  <2>1. PICK r \in Requests : ExtendBatch(r) /\ late' = late
    BY <1>6 DEF CollectQueued, StateTypeOK
  <2> QED BY <2>1, DropsLate DEF ExtendBatch
<1>7. CASE FilterOne
  <2>1. PICK r \in Requests : (Dropped(r) \/ UNCHANGED fut) /\ late' = late
    BY <1>7 DEF FilterOne, StateTypeOK
  <2> QED BY <2>1, DropsLate
<1>8. CASE InferenceFailed
  BY <1>8 DEF InferenceFailed, FailOpen, DeadlinesPassed
<1>9. CASE DeliverOne
  <2>1. Head(running) \in Requests
    BY <1>9 DEF DeliverOne, StateTypeOK
  <2>2. PICK r \in Requests :
          /\ Dropped(r) \/ fut' = [fut EXCEPT ![r] = "result"]
          /\ late' = late
    BY <1>9, <2>1, Zenon DEF DeliverOne
  <2> QED BY <2>2, DropsLate DEF FutureStates, Settled
<1> QED BY <1>2, <1>3, <1>4, <1>5, <1>6, <1>7, <1>8, <1>9 DEF Next, RunLoop

LEMMA GraceKeepsDeadlines ==
    ASSUME DeadlinesPassed, GraceExpires PROVE DeadlinesPassed'
BY DEF DeadlinesPassed, GraceExpires

\* Only a handler writes its reply, and never after it has replied.
LEMMA ReplyStep ==
    ASSUME WorkerInv, RepliesMatch, [WorkerNext]_allVars
    PROVE  RepliesMatch'
<1>1. CallTypeOK /\ OpenCalls /\ StateTypeOK
  BY DEF WorkerInv, Inductive
<1>2. ASSUME NEW r \in Requests, NEW call \in Calls, PredictAborted(r, call)
      PROVE  RepliesMatch'
  <2>1. fut' = fut /\ \E c \in Codes \ {"OK"} : rpc' = [rpc EXCEPT ![r] = c]
    BY <1>2 DEF PredictAborted, vars, futureVars, Admission, Codes
  <2>2. fut[r] = "new"
    BY <1>2 DEF PredictAborted, WorkerInv, OpenCalls
  <2> QED BY <1>1, <2>1, <2>2 DEF RepliesMatch, CallTypeOK
<1>3. ASSUME NEW r \in Requests, NEW call \in Calls,
             PredictQueued(r, call) \/ PredictRefused(r, call)
      PROVE  RepliesMatch'
  <2>1. /\ \E f : fut' = [fut EXCEPT ![r] = f]
        /\ \E c \in {"waiting", "RESOURCE_EXHAUSTED"} : rpc' = [rpc EXCEPT ![r] = c]
    BY <1>3 DEF PredictQueued, PredictRefused, Enqueue, EnqueueRefused
  <2> QED BY <1>1, <2>1 DEF RepliesMatch, CallTypeOK, StateTypeOK
<1>4. ASSUME NEW r \in Requests, PredictReplies(r)
      PROVE  RepliesMatch'
  <2>1. /\ fut' = fut /\ rpc' = [rpc EXCEPT ![r] = CodeOf(fut[r])]
        /\ fut[r] \in {"result", "deadline", "internal"}
    BY <1>4, Zenon DEF PredictReplies, vars, futureVars
  <2> QED BY <1>1, <2>1 DEF RepliesMatch, CallTypeOK, CodeOf
<1>5. ASSUME NEW r \in Requests, HandlerCancelled(r)
      PROVE  RepliesMatch'
  <2>1. /\ rpc' = [rpc EXCEPT ![r] = "CANCELLED"]
        /\ \/ fut' = fut
           \/ fut[r] = "pending" /\ fut' = [fut EXCEPT ![r] = "cancelled"]
    BY <1>5, Zenon DEF HandlerCancelled, CancelsFuture, CancelRpc, vars, futureVars
  <2> QED BY <1>1, <2>1 DEF RepliesMatch, CallTypeOK, StateTypeOK
<1>6. CASE GraceExpires
  BY <1>6 DEF GraceExpires, RepliesMatch
<1>7. CASE LoopOrClock
  <2>1. \A r \in Requests : LoopOutcome(fut[r], fut'[r])
    BY <1>1, <1>7, LoopStep DEF LoopOrClock
  <2>2. rpc' = rpc
    BY <1>7 DEF LoopOrClock, workerVars
  <2> QED BY <1>1, <2>1, <2>2 DEF RepliesMatch, LoopOutcome
<1>8. CASE \/ ServerStart \/ BecomeReady \/ Signal \/ BeginClose \/ FinishClose
           \/ ServerStopped \/ UNCHANGED allVars
  <2>1. UNCHANGED <<rpc, fut>>
    BY <1>8, Zenon DEF ServerStart, BecomeReady, Signal, BeginClose, FinishClose,
        ServerStopped, Close, CloseReturns, allVars, workerVars, vars, futureVars
  <2> QED BY <2>1 DEF RepliesMatch
<1> QED BY <1>2, <1>3, <1>4, <1>5, <1>6, <1>7, <1>8, WorkerCases

\* What a call is told is true: the predictions are those of its own texts, and
\* its deadline has passed if it is told so.
THEOREM TellsTheTruth == WorkerSpec => []RepliesAreTrue
<1> DEFINE Replies == DeadlinesPassed /\ RepliesMatch
<1>1. WorkerInit => Replies
  BY DEF WorkerInit, Init, DeadlinesPassed, RepliesMatch
<1>2. WorkerInv /\ WorkerInv' /\ Replies /\ [WorkerNext]_allVars => Replies'
  <2> SUFFICES ASSUME WorkerInv, WorkerInv', Replies, [WorkerNext]_allVars
               PROVE  Replies'
    OBVIOUS
  <2>1. [Next]_vars \/ GraceExpires
    BY BatcherSteps, Zenon DEF allVars
  <2>2. DeadlinesPassed'
    BY <2>1, DeadlineStep, GraceKeepsDeadlines DEF WorkerInv, Inductive
  <2> QED BY <2>2, ReplyStep
<1>3. WorkerInv /\ Replies => RepliesAreTrue
  BY DEF WorkerInv, Inductive, AnswersRight, ResultsMatchInputs, DeadlinesPassed,
      RepliesMatch, RepliesAreTrue
<1> HIDE DEF Replies
<1> QED BY <1>1, <1>2, <1>3, WorkerInvariance, PTL DEF WorkerSpec

-----------------------------------------------------------------------------
(* The worker as a queue.                                                   *)

\* gRPC cancels the handlers that are left: all who wait in line give up.
LEMMA GraceAbandons ==
    ASSUME GraceExpires PROVE QueueStep
<1> DEFINE waiting == {r \in Requests : fut[r] = "pending"}
<1>1. Pipeline' = Pipeline
  BY KeepsLine DEF GraceExpires, loopVars, collectVars, execVars
<1>2. fut' = [r \in Requests |-> IF r \in waiting THEN "cancelled" ELSE fut[r]]
  BY DEF GraceExpires
<1>3. UNCHANGED <<answer, stopping>>
  BY Zenon DEF GraceExpires
<1>4. Queue!Abandon(waiting)
  BY <1>1, <1>2, <1>3 DEF Queue!Abandon
<1>5. waiting \in SUBSET Requests
  OBVIOUS
<1> HIDE DEF waiting
<1> QED BY <1>4, <1>5, Zenon DEF QueueStep, Queue!Next

LEMMA GraceKeepsPlaces ==
    ASSUME Invariant, Limits, Order, GraceExpires
    PROVE  Places' /\ Limits' /\ Order'
<1> USE DEF loopVars, collectVars, execVars, historyVars
<1>1. UNCHANGED <<queue, nextEnvelope, pc, batch, totalItems, running, flattened,
                  arrivals, ticket, lastRun>>
  BY Zenon DEF GraceExpires
<1>2. Places'
  BY <1>1, Zenon DEF Invariant, Places
<1>3. Limits'
  BY <1>1, Zenon DEF Limits, Weight, Light, RoomInBatch
<1>4. Pipeline' = Pipeline /\ Served' = Served
  BY <1>1, KeepsLine DEF Served
<1>5. \A i \in DOMAIN Pipeline : Pipeline[i] \in Requests
  BY PipelineType DEF Invariant, Inductive
<1>6. \A r \in Requests : fut'[r] = "new" => fut[r] = "new"
  BY DEF GraceExpires
<1>7. Order'
  BY <1>1, <1>4, <1>5, <1>6, Zenon DEF Order, Sorted, Unserved, Ticketed
<1> QED BY <1>2, <1>3, <1>7

\* What is proved of the batcher alone, together.
BatcherHolds == Invariant /\ LineKept /\ Limits /\ Order

LEMMA BatcherHoldsFirst == WorkerInit => BatcherHolds
BY InvariantInductive, NobodyWaits, LimitsInit, OrderInit
   DEF WorkerInit, BatcherHolds

LEMMA WorkerQueueStep == Invariant /\ [WorkerNext]_allVars => QueueStep
<1>1. [WorkerNext]_allVars => [Next]_vars \/ GraceExpires
  BY BatcherSteps, Zenon DEF allVars
<1> QED BY <1>1, StepsAreQueueSteps, GraceAbandons

LEMMA BatcherHoldsOn ==
    ASSUME BatcherHolds, [WorkerNext]_allVars PROVE BatcherHolds'
<1>1. [Next]_vars \/ GraceExpires
  BY BatcherSteps, Zenon DEF allVars
<1>2. Inductive'
  BY BatcherInvariant DEF BatcherHolds, Invariant
<1>3. Places' /\ Limits' /\ Order'
  BY <1>1, PlacesStep, LimitsStep, OrderKept, GraceKeepsPlaces DEF BatcherHolds
<1>4. LineKept'
  BY <1>2, WorkerQueueStep, LineStays DEF BatcherHolds, Invariant, Inductive
<1> QED BY <1>2, <1>3, <1>4 DEF BatcherHolds, Invariant

LEMMA BatcherHoldsAlways == WorkerSpec => []BatcherHolds
BY BatcherHoldsFirst, BatcherHoldsOn, PTL DEF WorkerSpec

\* The whole process implements the queue: with the servicer, its cancelled
\* handlers, the shutdown and the end of the grace period around the batcher, a
\* request is still answered in its turn, refused by a full line or a shutdown
\* only, and forgotten by a shutdown only.
THEOREM WorkerImplementsQueue == WorkerSpec => ImplementsQueue
<1>1. WorkerInit => Queue!Init
  BY StartsEmpty DEF WorkerInit
<1>2. BatcherHolds /\ [WorkerNext]_allVars => [Queue!Next]_(Queue!queueVars)
  BY WorkerQueueStep DEF BatcherHolds, QueueStep
<1> QED BY <1>1, <1>2, BatcherHoldsAlways, PTL
        DEF WorkerSpec, ImplementsQueue, Queue!Spec

\* In the process, too, nobody is forgotten before the shutdown and requests
\* are served in the order in which Predict enqueued them.
THEOREM WorkerKeepsLine == WorkerSpec => [](NoRequestForgotten /\ ServedInOrder)
<1>1. BatcherHolds => NoRequestForgotten /\ ServedInOrder
  BY LineTells, OrderTells DEF BatcherHolds
<1> QED BY <1>1, BatcherHoldsAlways, PTL

\* In the process, too, the executor gets one batch at a time and within the
\* limits, and after close() no run loop is left.
THEOREM WorkerRunsBatches ==
    WorkerSpec => [](BatchWithinLimits /\ OneBatchInFlight /\ NoLoopAfterClose)
<1>1. BatcherHolds => BatchWithinLimits
  BY LimitsTell DEF BatcherHolds
<1>2. BatcherHolds => OneBatchInFlight /\ NoLoopAfterClose
  BY DEF BatcherHolds, Invariant, Inductive, Control, StateTypeOK, PCs,
      OneBatchInFlight, NoLoopAfterClose
<1> QED BY <1>1, <1>2, BatcherHoldsAlways, PTL

\* In the process, too, nothing in the line is taken up and nothing joins it once
\* close() has begun, while calls still arrive until server.stop().
THEOREM WorkerClosedStays == WorkerSpec => ClosedLineStays
<1>1. ASSUME Inductive, stopping, [WorkerNext]_allVars
      PROVE  queue' = queue /\ nextEnvelope' = nextEnvelope
  <2>1. CASE [Next]_vars
    BY <1>1, <2>1, ClosedTakesNothing DEF Inductive
  <2>2. CASE GraceExpires
    BY <2>2, Zenon DEF GraceExpires, loopVars
  <2> QED BY <1>1, <2>1, <2>2, BatcherSteps, Zenon DEF allVars
<1>2. WorkerInv /\ [WorkerNext]_allVars
        => [stopping => queue' = queue /\ nextEnvelope' = nextEnvelope]_vars
  BY <1>1 DEF WorkerInv
<1> QED BY WorkerInvariance, <1>2, PTL DEF WorkerSpec, ClosedLineStays

\* In the process, too, a future is settled once: the end of the grace period
\* cancels those that are open and no other.
THEOREM WorkerSettlesOnce == WorkerSpec => FutureSettledOnce
<1>1. ASSUME Inductive, [WorkerNext]_allVars PROVE KeepsSettled
  <2>1. CASE [Next]_vars
    BY <1>1, <2>1, StepKeepsSettled DEF Inductive
  <2>2. CASE GraceExpires
    BY <2>2 DEF GraceExpires, KeepsSettled, Settled
  <2> QED BY <1>1, <2>1, <2>2, BatcherSteps, Zenon DEF allVars
<1>2. WorkerInv /\ [WorkerNext]_allVars
        => [\A r \in Requests :
              fut[r] \in Settled => fut'[r] = fut[r] /\ answer'[r] = answer[r]]_vars
  BY <1>1 DEF WorkerInv, KeepsSettled
<1> QED BY WorkerInvariance, <1>2, PTL DEF WorkerSpec, FutureSettledOnce
=============================================================================
