--------------------------- MODULE GatewayAppProofs ---------------------------
(***************************************************************************)
(* Proofs about the gateway process, for any number of workers, requests    *)
(* and kinds of messages.                                                   *)
(*                                                                         *)
(* Every step of the process is a step of the prediction path or leaves it  *)
(* alone, so what was proved of that path holds here.  To this the          *)
(* invariant adds how far a request has come in its handler.                *)
(***************************************************************************)
EXTENDS GatewayApp, GatewayClientProofs

LEMMA AppRefines == [AppNext]_allVars => [Next]_vars
<1> SUFFICES ASSUME [AppNext]_allVars PROVE [Next]_vars
  OBVIOUS
<1>1. ASSUME NEW r \in Requests, Handler(r) \/ ClientLeavesBody(r) \/ ClientLeaves(r)
      PROVE  [Next]_vars
  BY <1>1 DEF Handler, BodyRead, Rejected, Dispatch, Continue, AppTick,
              ClientLeavesBody, ClientLeaves, Next
<1>2. ASSUME NEW r \in Requests, NEW m \in Messages, Arrive(r, m)
      PROVE  [Next]_vars
  BY <1>2 DEF Arrive
<1>3. ASSUME NEW w \in Workers, NEW reply \in Replies, Probe(w, reply)
      PROVE  [Next]_vars
  BY <1>3 DEF Probe, Next
<1>4. CASE Startup \/ Signal \/ StopSteps \/ Exited \/ UNCHANGED allVars
  BY <1>4 DEF Startup, Signal, StopSteps, Shutdown, Exit, Exited, allVars
<1> QED BY <1>1, <1>2, <1>3, <1>4 DEF AppNext

\* A step of predict() changes the call of its request, to its RPC or to an
\* outcome.
LEMMA CallChanges ==
    ASSUME NEW r \in Requests, Predict(r) \/ RpcReturns(r)
    PROVE  \E x \in Outcomes \cup {"rpc"} : call' = [call EXCEPT ![r] = x]
<1>1. ASSUME NEW st, NEW out, NEW exclude, Attempt(r, st, out, exclude)
      PROVE  \E x \in Outcomes \cup {"rpc"} : call' = [call EXCEPT ![r] = x]
  BY <1>1 DEF Attempt, Finish, Outcomes
<1>2. ASSUME NEW result \in Outcomes, NEW out, Finish(r, result, out)
      PROVE  \E x \in Outcomes \cup {"rpc"} : call' = [call EXCEPT ![r] = x]
  BY <1>2 DEF Finish
<1>3. ASSUME NEW code, RpcConcludes(r, code)
      PROVE  \E x \in Outcomes \cup {"rpc"} : call' = [call EXCEPT ![r] = x]
  <2>1. (IF code = "OK" THEN "OK" ELSE MapRpcError(code)) \in Outcomes
    BY MappedIsOutcome DEF Outcomes
  <2> QED BY <1>2, <1>3, <2>1 DEF RpcConcludes
<1>4. "WORKER_UNAVAILABLE" \in Outcomes
  BY DEF Outcomes
<1> QED BY <1>1, <1>2, <1>3, <1>4 DEF Predict, RpcReturns, RpcUnavailable

HandlerTypeOK ==
    /\ lifespan \in {"starting", "serving", "draining", "stopping", "stopped"}
    /\ accepting \in BOOLEAN
    /\ http \in [Requests -> {"none"} \cup InHandler \cup Answers]
    /\ message \in [Requests -> Messages \cup {NoMessage}]
    /\ connected \in [Requests -> BOOLEAN]

\* The handler of a request is in client.predict() when the request is.
InStep == \A r \in Requests : http[r] = "predict" <=> call[r] = "rpc"

\* What a message has to be to get this far.
Validated ==
    \A r \in Requests :
        /\ http[r] \in {"received", "predict"} => ~message[r].long
        /\ http[r] = "predict" => message[r].faults = {}

AppInv == HandlerTypeOK /\ InStep /\ Validated

LEMMA RejectionIsAnswer ==
    ASSUME NEW m, NEW code \in Rejections(m)
    PROVE  code \in Answers /\ code \notin InHandler
<1>1. code \in {"INVALID_REQUEST", "INTERNAL_ERROR", "REQUEST_TOO_LARGE",
               "UNSUPPORTED_MODEL"}
  BY DEF Rejections, ElementRejection
<1> QED BY <1>1 DEF Answers, Outcomes, InHandler

LEMMA HandlerInit == AppInit => AppInv
BY DEF AppInit, Init, AppInv, HandlerTypeOK, InStep, Validated, InHandler

\* A step of predict() moves its handler on.
LEMMA PredictMoves ==
    ASSUME Inv, AppInv, NEW r \in Requests, http[r] \in InHandler,
           ~message[r].long, message[r].faults = {},
           Predict(r) \/ RpcReturns(r), AttemptOrAnswer(r),
           UNCHANGED <<lifespan, accepting>>
    PROVE  AppInv'
<1>1. PICK x \in Outcomes \cup {"rpc"} : call' = [call EXCEPT ![r] = x]
  BY CallChanges
<1>2. call \in [Requests -> Outcomes \cup {"new", "rpc"}]
  BY DEF Inv, ClientInv, ClientTypeOK
<1>3. call'[r] = x /\ GoesTo(r, IF x = "rpc" THEN "predict" ELSE x)
  BY <1>1, <1>2 DEF AttemptOrAnswer
<1>4. CASE x = "rpc"
  <2>1. /\ http' = [http EXCEPT ![r] = "predict"]
        /\ UNCHANGED <<message, connected>>
    BY <1>3, <1>4 DEF GoesTo, InHandler
  <2>2. HandlerTypeOK'
    BY <2>1 DEF AppInv, HandlerTypeOK, InHandler
  <2>3. InStep'
    BY <1>1, <1>2, <1>4, <2>1 DEF AppInv, HandlerTypeOK, InStep
  <2>4. Validated'
    BY <2>1 DEF AppInv, HandlerTypeOK, Validated
  <2> QED BY <2>2, <2>3, <2>4 DEF AppInv
<1>5. CASE x # "rpc"
  <2>1. /\ http' = [http EXCEPT ![r] = x]
        /\ x \in Outcomes /\ x \notin InHandler
        /\ message' = [message EXCEPT ![r] = NoMessage]
        /\ connected' = [connected EXCEPT ![r] = FALSE]
    BY <1>3, <1>5 DEF GoesTo, InHandler, Outcomes
  <2>2. HandlerTypeOK'
    BY <2>1 DEF AppInv, HandlerTypeOK, Answers
  <2>3. InStep'
    BY <1>1, <1>2, <1>5, <2>1 DEF AppInv, HandlerTypeOK, InStep, InHandler
  <2>4. Validated'
    BY <2>1 DEF AppInv, HandlerTypeOK, Validated, InHandler
  <2> QED BY <2>2, <2>3, <2>4 DEF AppInv
<1> QED BY <1>4, <1>5

\* A request that is answered without predict().
LEMMA AnsweredEarly ==
    ASSUME AppInv, NEW r \in Requests, http[r] \in {"body", "received"},
           NEW where, GoesTo(r, where),
           \/ where \in Answers /\ where \notin InHandler
           \/ where = "received" /\ ~message[r].long,
           UNCHANGED <<call, lifespan, accepting>>
    PROVE  AppInv'
<1>1. /\ http' = [http EXCEPT ![r] = where]
      /\ where # "predict"
      /\ \A q \in Requests : q # r => message'[q] = message[q]
      /\ where = "received" => message' = message
  BY DEF GoesTo, InHandler, AppInv, HandlerTypeOK
<1>2. HandlerTypeOK'
  BY DEF GoesTo, AppInv, HandlerTypeOK, InHandler
<1>3. InStep'
  BY <1>1 DEF AppInv, HandlerTypeOK, InStep
<1>4. Validated'
  BY <1>1 DEF AppInv, HandlerTypeOK, Validated, InHandler
<1> QED BY <1>2, <1>3, <1>4 DEF AppInv

LEMMA HandlerStep ==
    ASSUME Inv, AppInv, [AppNext]_allVars
    PROVE  AppInv'
<1>1. ASSUME NEW r \in Requests, BodyRead(r) PROVE AppInv'
  <2>1. \/ CheckedLength(message[r]) \in Answers
           /\ CheckedLength(message[r]) \notin InHandler
        \/ CheckedLength(message[r]) = "received" /\ ~message[r].long
    BY DEF CheckedLength, Answers, InHandler
  <2> QED BY <1>1, <2>1, AnsweredEarly DEF BodyRead, vars, clientVars
<1>2. ASSUME NEW r \in Requests, Rejected(r) PROVE AppInv'
  BY <1>2, RejectionIsAnswer, AnsweredEarly DEF Rejected, vars, clientVars
<1>3. ASSUME NEW r \in Requests, ClientLeavesBody(r) PROVE AppInv'
  <2>1. "CANCELLED" \in Answers /\ "CANCELLED" \notin InHandler
    BY DEF Answers, Outcomes, InHandler
  <2> QED BY <1>3, <2>1, AnsweredEarly DEF ClientLeavesBody, vars, clientVars
<1>4. ASSUME NEW r \in Requests, Dispatch(r) PROVE AppInv'
  <2>1. ~message[r].long /\ http[r] \in InHandler
    BY <1>4 DEF Dispatch, AppInv, Validated, InHandler
  <2> QED BY <1>4, <2>1, PredictMoves DEF Dispatch
<1>5. ASSUME NEW r \in Requests, Continue(r) PROVE AppInv'
  <2>1. call[r] = "rpc"
    BY <1>5 DEF Continue, RpcReturns, RpcUnavailable, RpcConcludes
  <2>2. http[r] = "predict"
    BY <2>1 DEF AppInv, InStep
  <2>3. ~message[r].long /\ message[r].faults = {} /\ http[r] \in InHandler
    BY <2>2 DEF AppInv, Validated, InHandler
  <2> QED BY <1>5, <2>3, PredictMoves DEF Continue
<1>6. ASSUME NEW r \in Requests, AppTick(r) \/ ClientLeaves(r) PROVE AppInv'
  BY <1>6 DEF AppTick, Tick, ClientLeaves, appVars, vars, clientVars, AppInv,
              HandlerTypeOK, InStep, Validated
<1>7. ASSUME NEW r \in Requests, NEW m \in Messages, Arrive(r, m) PROVE AppInv'
  <2>1. Admission(m) \in {"body"} \cup Answers /\ Admission(m) \notin {"received", "predict"}
    BY DEF Admission, Answers, Outcomes
  <2> QED BY <1>7, <2>1 DEF Arrive, vars, clientVars, AppInv, HandlerTypeOK, InStep,
                            Validated, InHandler
<1>8. ASSUME NEW w \in Workers, NEW reply \in Replies, Probe(w, reply) PROVE AppInv'
  BY <1>8 DEF Probe, ProbeReturns, appVars, clientVars, AppInv, HandlerTypeOK,
              InStep, Validated
<1>9. CASE Startup \/ Signal \/ StopSteps \/ Exited \/ UNCHANGED allVars
  BY <1>9 DEF Startup, Signal, StopSteps, Shutdown, Exit, Exited, allVars, appVars,
              vars, clientVars, AppInv, HandlerTypeOK, InStep, Validated
<1> QED BY <1>1, <1>2, <1>3, <1>4, <1>5, <1>6, <1>7, <1>8, <1>9
        DEF AppNext, Handler

LEMMA AppInvHolds == AppSpec => [](Inv /\ AppInv)
<1>1. AppInit => Inv /\ AppInv
  BY InvInit, HandlerInit DEF AppInit
<1>2. Inv /\ AppInv /\ [AppNext]_allVars => (Inv /\ AppInv)'
  BY AppRefines, InvStep, HandlerStep
<1> QED BY <1>1, <1>2, PTL DEF AppSpec

-----------------------------------------------------------------------------

\* The gateway process implements the prediction path: the middleware, the
\* endpoint and the lifespan call predict() as its specification allows.
THEOREM AppImplementsClient == AppSpec => Init /\ [][Next]_vars
<1>1. AppInit => Init
  BY DEF AppInit
<1> QED BY <1>1, AppRefines, PTL DEF AppSpec

\* The gateway process is a router: with its middleware, its clients that stall
\* and leave, and its shutdown around the prediction path, a call still goes to
\* a healthy worker with the fewest calls, or is told why not.
THEOREM AppRoutes == AppSpec => ImplementsRouter
<1>1. AppInit => Router!Init
  BY StartsIdle DEF AppInit
<1>2. Inv /\ [AppNext]_allVars => [Router!Next]_(Router!routerVars)
  BY AppRefines, StepsAreRouterSteps DEF RouterStep
<1> QED BY <1>1, <1>2, AppInvHolds, PTL DEF AppSpec, ImplementsRouter, Router!Spec

\* The type invariant of the gateway process.
THEOREM AppTyping == AppSpec => []AppTypeOK
<1>1. Inv /\ AppInv => AppTypeOK
  BY DEF Inv, ClientInv, ClientTypeOK, TypeOK, AppInv, HandlerTypeOK, AppTypeOK
<1> QED BY <1>1, AppInvHolds, PTL

\* Reservations equal the RPCs under way in the whole process too.
THEOREM AppReservations == AppSpec => []ReservationsExact
<1>1. Inv /\ AppInv => ReservationsExact
  BY DEF Inv, ClientInv
<1> QED BY <1>1, AppInvHolds, PTL

\* What is proved of the prediction path's limits, its retries and the health of
\* its workers holds in the whole process.
THEOREM AppKeepsLimits ==
    AppSpec => [](OutstandingBounded /\ RetryElsewhere /\ HealthCountersConsistent)
<1>1. Inv /\ AppInv => OutstandingBounded /\ RetryElsewhere /\ HealthCountersConsistent
  BY DEF Inv, ClientInv
<1> QED BY <1>1, AppInvHolds, PTL

\* So do the truth of GATEWAY_AT_CAPACITY and the rotation of ties.
THEOREM AppKeepsPromises == AppSpec => AtCapacityMeansSaturated /\ TieRotation
<1>1. AppInit => CursorFollows
  BY CursorStarts DEF AppInit
<1>2. Inv /\ CursorFollows /\ [AppNext]_allVars => CursorFollows'
  BY AppRefines, TieStep
<1>3. Inv /\ [AppNext]_allVars
      => [\A r \in Requests :
            call[r] # call'[r] /\ call'[r] = "GATEWAY_AT_CAPACITY" =>
               \A w \in Workers :
                  state'[w] = "HEALTHY" => outstanding'[w] = MaxOutstanding]_vars
  BY AppRefines, CapacityStep DEF ToldAtCapacity
<1>4. Inv /\ CursorFollows /\ [AppNext]_allVars
      => [\A r \in Requests :
            Len(tried'[r]) > Len(tried[r]) /\ lastPick.tied # {} =>
               NextInTurn(lastPick.tied, lastPick.worker,
                          lastPick'.tied, lastPick'.worker)]_vars
  BY AppRefines, TieStep DEF TiesInTurn
<1> QED BY <1>1, <1>2, <1>3, <1>4, AppInvHolds, PTL
        DEF AppSpec, AtCapacityMeansSaturated, TieRotation

\* Nothing too long and nothing faulty is sent to a worker.
THEOREM ValidDispatched == AppSpec => []OnlyValidDispatched
<1>1. Inv /\ AppInv => OnlyValidDispatched
  BY DEF AppInv, InStep, Validated, OnlyValidDispatched
<1> QED BY <1>1, AppInvHolds, PTL
=============================================================================
