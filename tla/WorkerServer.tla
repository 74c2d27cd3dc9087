---------------------------- MODULE WorkerServer ----------------------------
(***************************************************************************)
(* One worker process (worker/server.py): the servicer that admits Predict  *)
(* calls to the batcher and turns futures into gRPC status codes, and the   *)
(* life of the process, from serve() to the end of server.stop().           *)
(*                                                                         *)
(* The batcher is the one of module Batcher: its actions are the steps of   *)
(* this module wherever the servicer or serve() calls it.                   *)
(***************************************************************************)
EXTENDS Batcher

VARIABLES
    servicer,  \* servicer.state
    serve,     \* how far serve() has come
    rpc        \* rpc[r]: the Predict call r

workerVars == <<servicer, serve, rpc>>
allVars == <<vars, workerVars>>

ServeSteps == {"init", "listening", "serving", "signalled", "closing",
               "stopping", "stopped"}
Codes == {"OK", "FAILED_PRECONDITION", "INVALID_REQUEST", "UNSUPPORTED_MODEL",
          "DEADLINE_EXCEEDED", "RESOURCE_EXHAUSTED", "INTERNAL", "CANCELLED"}

\* What Predict examines: whether there are 1 to 8 inputs, whether the model
\* version is the worker's, and whether some of the deadline remains.
Calls == [inputsOk : BOOLEAN, versionOk : BOOLEAN, timeLeft : BOOLEAN]

WorkerInit ==
    /\ Init
    /\ servicer = "STARTING"
    /\ serve = "init"
    /\ rpc = [r \in Requests |-> "none"]

-----------------------------------------------------------------------------
(* The servicer.                                                            *)

\* From server.start() to server.stop() the gRPC server hands calls to Predict.
Listening == serve \in {"listening", "serving", "signalled", "closing"}

\* The checks of Predict, in their order; "ADMIT" if none aborts the call.
Admission(call) ==
    CASE servicer # "READY"   -> "FAILED_PRECONDITION"
      [] ~call.inputsOk       -> "INVALID_REQUEST"
      [] ~call.versionOk      -> "UNSUPPORTED_MODEL"
      [] ~call.timeLeft       -> "DEADLINE_EXCEEDED"
      [] OTHER                -> "ADMIT"

\* Predict up to its await: abort with a code, or enqueue.
PredictAborted(r, call) ==
    /\ Listening
    /\ rpc[r] = "none"
    /\ pc \in Suspended
    /\ Admission(call) # "ADMIT"
    /\ rpc' = [rpc EXCEPT ![r] = Admission(call)]
    /\ UNCHANGED <<vars, servicer, serve>>

PredictQueued(r, call) ==
    /\ Listening
    /\ rpc[r] = "none"
    /\ Admission(call) = "ADMIT"
    /\ Enqueue(r)
    /\ rpc' = [rpc EXCEPT ![r] = "waiting"]
    /\ UNCHANGED <<servicer, serve>>

PredictRefused(r, call) ==
    /\ Listening
    /\ rpc[r] = "none"
    /\ Admission(call) = "ADMIT"
    /\ EnqueueRefused(r)
    /\ rpc' = [rpc EXCEPT ![r] = "RESOURCE_EXHAUSTED"]
    /\ UNCHANGED <<servicer, serve>>

\* Mutant: the batcher's outcome is passed on as it is.
RawOutcome(f) == f

\* Lines 58-94: the outcome of the future becomes the outcome of the call.
CodeOf(f) ==
    CASE f = "result"   -> "OK"
      [] f = "deadline" -> "DEADLINE_EXCEEDED"
      [] f = "internal" -> "INTERNAL"

\* The handler resumes after its await.
PredictReplies(r) ==
    /\ pc \in Suspended
    /\ rpc[r] = "waiting"
    /\ fut[r] \in {"result", "deadline", "internal"}
    /\ rpc' = [rpc EXCEPT ![r] = CodeOf(fut[r])]
    /\ UNCHANGED <<vars, servicer, serve>>

\* Mutant: enqueue shields its future from the cancellation.
ShieldsFuture(r) == pc \in Suspended /\ UNCHANGED vars

\* A future that is pending is cancelled with its handler; one that is settled
\* stays as it is, and its outcome reaches nobody.
CancelsFuture(r) ==
    \/ CancelRpc(r)
    \/ pc \in Suspended /\ fut[r] \in Settled /\ UNCHANGED vars

\* gRPC cancels the handler: the client left or its deadline passed.
HandlerCancelled(r) ==
    /\ rpc[r] = "waiting"
    /\ CancelsFuture(r)
    /\ rpc' = [rpc EXCEPT ![r] = "CANCELLED"]
    /\ UNCHANGED <<servicer, serve>>

-----------------------------------------------------------------------------
(* serve().                                                                 *)

\* await server.start()
ServerStart ==
    /\ serve = "init"
    /\ serve' = "listening"
    /\ UNCHANGED <<vars, servicer, rpc>>

BecomeReady ==
    /\ serve = "listening"
    /\ servicer' = "READY"
    /\ serve' = "serving"
    /\ UNCHANGED <<vars, rpc>>

\* _sig_handler, a callback of the event loop.
Signal ==
    /\ serve = "serving"
    /\ pc \in Suspended
    /\ servicer' = "DRAINING"
    /\ serve' = "signalled"
    /\ UNCHANGED <<vars, rpc>>

\* Mutant: without the first line of the finally block.
CloseUndrained ==
    /\ serve \in {"serving", "signalled"}
    /\ Close
    /\ serve' = IF closing' = "closed" THEN "stopping" ELSE "closing"
    /\ UNCHANGED <<servicer, rpc>>

\* The finally block: serve() was woken by the event, or was itself cancelled.
\* Without a task to wait for, close() returns at once and server.stop() begins.
BeginClose ==
    /\ serve \in {"serving", "signalled"}
    /\ servicer' = "DRAINING"
    /\ Close
    /\ serve' = IF closing' = "closed" THEN "stopping" ELSE "closing"
    /\ UNCHANGED rpc

\* close() returns and server.stop(grace=10) begins: no call is accepted now.
FinishClose ==
    /\ serve = "closing"
    /\ CloseReturns
    /\ serve' = "stopping"
    /\ UNCHANGED <<servicer, rpc>>

\* The grace period is over: gRPC cancels the handlers that are left.
GraceExpires ==
    /\ serve = "stopping"
    /\ pc \in Suspended
    /\ \E r \in Requests : rpc[r] = "waiting"
    /\ rpc' = [r \in Requests |->
                 IF rpc[r] = "waiting" THEN "CANCELLED" ELSE rpc[r]]
    /\ fut' = [r \in Requests |->
                 IF fut[r] = "pending" THEN "cancelled" ELSE fut[r]]
    /\ UNCHANGED <<queue, loopVars, executor, stopping, closing, cancelReq,
                   answer, late, historyVars, servicer, serve>>

\* Mutant: server.stop() is not awaited.
AnyCalls == TRUE

NoOpenCall == \A r \in Requests : rpc[r] # "waiting"

\* server.stop() returns once no handler is left, and the process ends.
ServerStopped ==
    /\ serve = "stopping"
    /\ NoOpenCall
    /\ serve' = "stopped"
    /\ UNCHANGED <<vars, servicer, rpc>>

-----------------------------------------------------------------------------

Handlers ==
    \E r \in Requests :
        \/ \E call \in Calls : \/ PredictAborted(r, call)
                               \/ PredictQueued(r, call)
                               \/ PredictRefused(r, call)
        \/ PredictReplies(r)
        \/ HandlerCancelled(r)

Lifecycle ==
    ServerStart \/ BecomeReady \/ Signal \/ BeginClose \/ FinishClose
    \/ GraceExpires \/ ServerStopped

\* The process has ended, or it serves and every call has been answered.
WorkerQuiescent ==
    /\ \/ serve = "stopped"
       \/ serve = "serving" /\ \A r \in Requests : rpc[r] \in Codes
    /\ UNCHANGED allVars

WorkerNext ==
    \/ Handlers
    \/ Lifecycle
    \/ (RunLoop \/ ExecutorFinishes) /\ UNCHANGED workerVars
    \/ (\E r \in Requests : DeadlinePasses(r)) /\ UNCHANGED workerVars
    \/ WorkerQuiescent

\* Ready tasks run, predict_batch ends, the grace period ends.  Starting up,
\* signals and the clients' behaviour are not forced.
WorkerFairness ==
    /\ WF_allVars(RunLoop /\ UNCHANGED workerVars)
    /\ WF_allVars(ExecutorFinishes /\ UNCHANGED workerVars)
    /\ \A r \in Requests : WF_allVars(PredictReplies(r))
    /\ WF_allVars(serve = "signalled" /\ BeginClose)
    /\ WF_allVars(FinishClose)
    /\ WF_allVars(GraceExpires)
    /\ WF_allVars(ServerStopped)

WorkerSpec == WorkerInit /\ [][WorkerNext]_allVars /\ WorkerFairness

-----------------------------------------------------------------------------
(* Properties.                                                              *)

WorkerTypeOK ==
    /\ TypeOK
    /\ servicer \in {"STARTING", "READY", "DRAINING"}
    /\ serve \in ServeSteps
    /\ rpc \in [Requests -> Codes \cup {"none", "waiting"}]

\* RESOURCE_EXHAUSTED means that the queue is full and nothing else.  enqueue
\* raises the same error while shutting down (line 68 of batcher.py), and calls
\* keep arriving until server.stop(): what keeps them from it is that however
\* serve() ends, the servicer drains before close() begins (line 161).
RefusedOnlyWhenFull ==
    [][\A r \in Requests :
         rpc[r] = "none" /\ rpc'[r] = "RESOURCE_EXHAUSTED"
            => ~stopping /\ Len(queue) = QueueCapacity]_allVars

\* A call waits exactly as long as its future is open or its handler has not
\* yet resumed; in particular no handler waits on a future nobody holds.
CallsTrackFutures ==
    \A r \in Requests :
        /\ fut[r] = "pending" => rpc[r] = "waiting"
        /\ rpc[r] = "waiting" => fut[r] \in {"pending", "result", "deadline",
                                             "internal"}

\* What a caller is told is true, whatever became of its batch and its handler
\* between the enqueue and the reply (lines 58-86): OK brings the predictions of
\* its own texts, and an admitted call is told DEADLINE_EXCEEDED only after its
\* deadline, although the test was made for a whole batch and some time before.
RepliesAreTrue ==
    \A r \in Requests :
        /\ rpc[r] = "OK" => answer[r] = PredictBatch(Inputs(r))
        /\ rpc[r] = "DEADLINE_EXCEEDED" => late[r] \/ fut[r] = "new"

\* When the process ends no call is open, the loop is gone, and nothing was
\* enqueued behind its back.
StoppedClean ==
    serve = "stopped" =>
        /\ pc \in {"none", "done"}
        /\ \A r \in Requests : rpc[r] # "waiting" /\ fut[r] # "pending"

\* Every call gets a status, also one whose batch died in a shutdown: what
\* close() leaves open is cancelled when the grace period ends.
EveryCallAnswered ==
    \A r \in Requests : rpc[r] = "waiting" ~> rpc[r] \in Codes

\* A signalled worker stops.
ShutdownCompletes == serve = "signalled" ~> serve = "stopped"
=============================================================================
