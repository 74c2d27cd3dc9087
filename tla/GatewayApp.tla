------------------------------ MODULE GatewayApp ------------------------------
(***************************************************************************)
(* The gateway process (gateway/app.py): HTTP requests on their way through *)
(* the middleware and the endpoint into predict(), and the lifespan that    *)
(* starts and stops the registry around them.                               *)
(*                                                                         *)
(* The HTTP server is uvicorn (compose.yaml) and is modelled from how       *)
(* app.py uses it: it accepts requests after the lifespan's startup; on a   *)
(* signal it closes its listeners, waits for the requests under way and     *)
(* then resumes the lifespan.  It sets no limit on that wait.  A handler    *)
(* whose client has left goes on.                                           *)
(***************************************************************************)
EXTENDS GatewayClient

CONSTANT Messages  \* what clients may send: a set of the records below

\* Whether there is a content-length header, whether the body exceeds
\* http_max_body_bytes, and what else is wrong with it.
Faults == {"json", "fields", "request_id", "inputs", "element", "surrogate",
           "input_bytes", "total_bytes", "model_version", "timeout_ms"}

ASSUME AppAssumption ==
    Messages \subseteq [declared : BOOLEAN, long : BOOLEAN, faults : SUBSET Faults]

VARIABLES
    lifespan,   \* of the application, as uvicorn drives it
    accepting,  \* accepting_requests
    http,       \* http[r]: where request r is, or what it was answered
    message,    \* message[r]: what its client sends
    connected   \* connected[r]: its client waits for the answer

appVars == <<lifespan, accepting, http, message, connected>>
allVars == <<vars, appVars>>

\* Awaiting the body, on the way to the endpoint, and in client.predict().
InHandler == {"body", "received", "predict"}

Answers == Outcomes \cup {"REQUEST_TOO_LARGE", "SERVICE_DRAINING"}

NoMessage == [declared |-> TRUE, long |-> FALSE, faults |-> {}]

AppInit ==
    /\ Init
    /\ lifespan = "starting"
    /\ accepting = TRUE
    /\ http = [r \in Requests |-> "none"]
    /\ message = [r \in Requests |-> NoMessage]
    /\ connected = [r \in Requests |-> FALSE]

\* Request r gets to where, in the handler or past it with its answer.
GoesTo(r, where) ==
    /\ http' = [http EXCEPT ![r] = where]
    /\ \/ where \in InHandler /\ UNCHANGED <<message, connected>>
       \/ /\ where \notin InHandler
          /\ message' = [message EXCEPT ![r] = NoMessage]
          /\ connected' = [connected EXCEPT ![r] = FALSE]

-----------------------------------------------------------------------------
(* The middleware.                                                          *)

\* Before the body is awaited: the flag, then the declared length.
Admission(m) ==
    IF ~accepting THEN "SERVICE_DRAINING"
    ELSE IF m.declared /\ m.long THEN "REQUEST_TOO_LARGE" ELSE "body"

Arrive(r, m) ==
    /\ lifespan = "serving"
    /\ http[r] = "none"
    /\ http' = [http EXCEPT ![r] = Admission(m)]
    /\ connected' = [connected EXCEPT ![r] = Admission(m) = "body"]
    /\ message' = [message EXCEPT ![r] = IF Admission(m) = "body" THEN m ELSE @]
    /\ UNCHANGED <<vars, lifespan, accepting>>

\* Mutant: only content-length is looked at.
TrustedLength(m) == "received"

\* The length of the body itself.
CheckedLength(m) == IF m.long THEN "REQUEST_TOO_LARGE" ELSE "received"

BodyRead(r) ==
    /\ http[r] = "body"
    /\ GoesTo(r, CheckedLength(message[r]))
    /\ UNCHANGED <<vars, lifespan, accepting>>

\* The client goes away while the body is awaited, which raises.
ClientLeavesBody(r) ==
    /\ http[r] = "body"
    /\ GoesTo(r, "CANCELLED")
    /\ UNCHANGED <<vars, lifespan, accepting>>

\* It goes away later, and nobody notices.
ClientLeaves(r) ==
    /\ http[r] \in {"received", "predict"}
    /\ connected[r]
    /\ connected' = [connected EXCEPT ![r] = FALSE]
    /\ UNCHANGED <<vars, lifespan, accepting, http, message>>

-----------------------------------------------------------------------------
(* The endpoint.                                                            *)

\* What the loop over the inputs raises for an element that is not a non-empty
\* string, has a lone surrogate, or is too long.  A lone surrogate passes the
\* JSON parser and fails in encode(), which the middleware answers as an
\* unexpected exception.
ElementRejection == [element     |-> "INVALID_REQUEST",
                     surrogate   |-> "INTERNAL_ERROR",
                     input_bytes |-> "REQUEST_TOO_LARGE"]

\* What validation may answer to a faulty message: the error of the first check
\* that fails.  Which element is the first faulty one is left open.
Rejections(m) ==
    LET elementFaults == m.faults \cap DOMAIN ElementRejection IN
    IF m.faults \cap {"json", "fields", "request_id", "inputs"} # {}
    THEN {"INVALID_REQUEST"}
    ELSE IF elementFaults # {} THEN {ElementRejection[f] : f \in elementFaults}
    ELSE IF "total_bytes" \in m.faults THEN {"REQUEST_TOO_LARGE"}
    ELSE IF "model_version" \in m.faults THEN {"UNSUPPORTED_MODEL"}
    ELSE {"INVALID_REQUEST"}

Rejected(r) ==
    /\ http[r] = "received"
    /\ message[r].faults # {}
    /\ \E code \in Rejections(message[r]) : GoesTo(r, code)
    /\ UNCHANGED <<vars, lifespan, accepting>>

\* A step of predict() ends in an attempt or in the answer.
AttemptOrAnswer(r) == GoesTo(r, IF call'[r] = "rpc" THEN "predict" ELSE call'[r])

Dispatch(r) ==
    /\ http[r] = "received"
    /\ message[r].faults = {}
    /\ Predict(r)
    /\ AttemptOrAnswer(r)
    /\ UNCHANGED <<lifespan, accepting>>

\* predict() goes on when its RPC has ended.
Continue(r) ==
    /\ RpcReturns(r)
    /\ AttemptOrAnswer(r)
    /\ UNCHANGED <<lifespan, accepting>>

\* The timeout that the RPC was given is used up.
TimesOut(r) == RpcTimesOut(r) /\ AttemptOrAnswer(r) /\ UNCHANGED <<lifespan, accepting>>

AppTick(r) == Tick(r) /\ UNCHANGED appVars

-----------------------------------------------------------------------------
(* The lifespan.                                                            *)

\* registry.start() creates the pollers, and uvicorn starts to listen.
Startup ==
    /\ lifespan = "starting"
    /\ lifespan' = "serving"
    /\ accepting' = TRUE
    /\ UNCHANGED <<vars, http, message, connected>>

\* A poller applies the outcome of a probe, also while registry.stop() has not
\* reached it yet.
Probe(w, reply) ==
    /\ lifespan \in {"serving", "draining", "stopping"}
    /\ ProbeReturns(w, reply)
    /\ UNCHANGED appVars

\* SIGTERM: no connection is accepted from here on.
Signal ==
    /\ lifespan = "serving"
    /\ lifespan' = "draining"
    /\ UNCHANGED <<vars, accepting, http, message, connected>>

Drained == \A r \in Requests : http[r] \notin InHandler

\* The lifespan resumes: the flag is set and registry.stop() called.
Shutdown ==
    /\ lifespan = "draining"
    /\ Drained
    /\ lifespan' = "stopping"
    /\ accepting' = FALSE
    /\ UNCHANGED <<vars, http, message, connected>>

\* registry.stop() returns; its steps are those of module HealthPolling.
Exit ==
    /\ lifespan = "stopping"
    /\ lifespan' = "stopped"
    /\ UNCHANGED <<vars, accepting, http, message, connected>>

Exited == lifespan = "stopped" /\ UNCHANGED allVars

-----------------------------------------------------------------------------

Handler(r) == BodyRead(r) \/ Rejected(r) \/ Dispatch(r) \/ Continue(r) \/ AppTick(r)
StopSteps == Shutdown \/ Exit

AppNext ==
    \/ \E r \in Requests :
         \/ Handler(r) \/ ClientLeavesBody(r) \/ ClientLeaves(r)
         \/ \E m \in Messages : Arrive(r, m)
    \/ \E w \in Workers, reply \in Replies : Probe(w, reply)
    \/ Startup \/ Signal \/ StopSteps \/ Exited

\* The endpoint runs, time passes and gRPC keeps its deadlines, the lifespan
\* goes on.  Clients may stall, workers may hang, nobody need send a signal.
AppFairness ==
    /\ \A r \in Requests :
         /\ WF_allVars(Rejected(r) \/ Dispatch(r))
         /\ WF_allVars(AppTick(r))
         /\ WF_allVars(TimesOut(r))
    /\ WF_allVars(Startup)
    /\ WF_allVars(StopSteps)

AppSpec == AppInit /\ [][AppNext]_allVars /\ AppFairness

-----------------------------------------------------------------------------
(* Properties.                                                              *)

AppTypeOK ==
    /\ TypeOK
    /\ lifespan \in {"starting", "serving", "draining", "stopping", "stopped"}
    /\ accepting \in BOOLEAN
    /\ http \in [Requests -> {"none"} \cup InHandler \cup Answers]
    /\ message \in [Requests -> Messages \cup {NoMessage}]
    /\ connected \in [Requests -> BOOLEAN]

\* Workers are asked only for what a client may ask: a body that is too long is
\* found out though no header declares it, and a faulty one goes nowhere.
OnlyValidDispatched ==
    \A r \in Requests :
        call[r] = "rpc" => ~message[r].long /\ message[r].faults = {}

\* Every request whose body arrives is answered, though workers hang and die
\* and clients leave.
EveryRequestAnswered ==
    \A r \in Requests : http[r] \in {"received", "predict"} ~> http[r] \in Answers

\* No client leaves its body unfinished and the connection open for ever.
ClientsFinish == \A r \in Requests : []<>(http[r] # "body")

\* A gateway that is told to stop does, unless a client stalls.
GatewayStops ==
    ClientsFinish => (lifespan = "draining" ~> lifespan = "stopped")

\* Plan, lines 954 and 955: wait at most ten seconds for active handlers and
\* cancel those that remain.
StopsThoughClientsStall == lifespan = "draining" ~> lifespan = "stopped"
=============================================================================
