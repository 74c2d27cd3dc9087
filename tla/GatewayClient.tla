---------------------------- MODULE GatewayClient ----------------------------
(***************************************************************************)
(* The gateway's prediction path (gateway/client.py) over the scheduler and *)
(* the registry: requests, their attempts, retries, deadlines and the       *)
(* reservations they hold, with health probes interleaved.                  *)
(*                                                                         *)
(* predict() suspends only in stub.Predict.  All that follows the end of an *)
(* RPC (marking the worker, the release in the finally block, and for a     *)
(* retry the next selection and RPC) is one step.                           *)
(*                                                                         *)
(* The RPC, the workers and the probes are the environment: an RPC may end  *)
(* with any code at any time, and a probe may bring any reply.              *)
(***************************************************************************)
EXTENDS Scheduler, Sequences, SequencesExt

CONSTANTS
    Requests,        \* the calls of predict()
    Budget,          \* bound: how many ticks timeout_ms is worth
    MinRetryBudget   \* min_retry_budget_ms, in the same ticks

ASSUME ClientAssumption ==
    /\ IsFiniteSet(Requests)
    /\ Budget \in Nat \ {0}
    /\ MinRetryBudget \in 0..Budget

VARIABLES
    call,      \* call[r]: "new", "rpc" (awaiting stub.Predict) or its outcome
    tried,     \* tried[r]: the workers of its attempts, in order
    excluded,  \* exclude_ids
    budget     \* ticks left until gateway_deadline

clientVars == <<call, tried, excluded, budget>>
vars == <<registryVars, schedulerVars, clientVars>>

\* Status codes a worker or the gRPC library can end an RPC with, details
\* included where _map_rpc_error looks at them; "OTHER" is any further one.
RpcCodes == {"OK", "UNAVAILABLE", "INVALID_ARGUMENT", "UNSUPPORTED_MODEL",
             "RESOURCE_EXHAUSTED", "FAILED_PRECONDITION", "DEADLINE_EXCEEDED",
             "INTERNAL", "OTHER"}

Outcomes == {"OK", "DEADLINE_EXCEEDED", "NO_HEALTHY_WORKER",
             "GATEWAY_AT_CAPACITY", "WORKER_UNAVAILABLE", "UNSUPPORTED_MODEL",
             "INVALID_REQUEST", "WORKER_QUEUE_FULL", "INTERNAL_ERROR",
             "CANCELLED"}

Init ==
    /\ RegistryInit
    /\ SchedulerInit
    /\ call = [r \in Requests |-> "new"]
    /\ tried = [r \in Requests |-> <<>>]
    /\ excluded = [r \in Requests |-> {}]
    /\ budget = [r \in Requests |-> Budget]

Current(r) == tried[r][Len(tried[r])]

\* Mutant: gRPC's code is handed to the caller.
PassThrough(code) == code

\* _map_rpc_error()
MapRpcError(code) ==
    CASE code = "UNSUPPORTED_MODEL"   -> "UNSUPPORTED_MODEL"
      [] code = "INVALID_ARGUMENT"    -> "INVALID_REQUEST"
      [] code = "RESOURCE_EXHAUSTED"  -> "WORKER_QUEUE_FULL"
      [] code = "FAILED_PRECONDITION" -> "WORKER_UNAVAILABLE"
      [] code = "DEADLINE_EXCEEDED"   -> "DEADLINE_EXCEEDED"
      [] OTHER                        -> "INTERNAL_ERROR"

-----------------------------------------------------------------------------

\* predict() returns or raises, leaving the reservations out.  Its locals are
\* gone with it.
Finish(r, result, out) ==
    /\ call' = [call EXCEPT ![r] = result]
    /\ outstanding' = out
    /\ tried' = [tried EXCEPT ![r] = <<>>]
    /\ excluded' = [excluded EXCEPT ![r] = {}]
    /\ budget' = [budget EXCEPT ![r] = Budget]
    /\ UNCHANGED <<cursor, lastPick>>

\* One iteration of the attempt loop up to the await: the deadline, then
\* select_worker() with its two errors, then the RPC.
Attempt(r, st, out, exclude) ==
    \/ /\ budget[r] = 0
       /\ Finish(r, "DEADLINE_EXCEEDED", out)
    \/ /\ budget[r] > 0
       /\ HealthyWorkers(st) = {}
       /\ Finish(r, "NO_HEALTHY_WORKER", out)
    \/ /\ budget[r] > 0
       /\ HealthyWorkers(st) # {}
       /\ Eligible(st, out, exclude) = {}
       /\ Finish(r, "GATEWAY_AT_CAPACITY", out)
    \/ /\ budget[r] > 0
       /\ \E w \in Workers :
            /\ SelectWorker(st, out, exclude, w)
            /\ tried' = [tried EXCEPT ![r] = Append(@, w)]
       /\ call' = [call EXCEPT ![r] = "rpc"]
       /\ excluded' = [excluded EXCEPT ![r] = exclude]
       /\ UNCHANGED budget

\* predict() is called: its first attempt.
Predict(r) ==
    /\ call[r] = "new"
    /\ Attempt(r, state, outstanding, {})
    /\ UNCHANGED registryVars

\* Mutant: stub.Predict is called without a timeout.
RpcUntimed(r, code) ==
    /\ call[r] = "rpc"
    /\ code \notin {"UNAVAILABLE", "DEADLINE_EXCEEDED"}
    /\ Finish(r, IF code = "OK" THEN "OK" ELSE MapRpcError(code),
              Released(outstanding, Current(r)))
    /\ UNCHANGED registryVars

\* The RPC ended with OK, or with an error that is not retried.
RpcConcludes(r, code) ==
    /\ call[r] = "rpc"
    /\ code # "UNAVAILABLE"
    /\ Finish(r, IF code = "OK" THEN "OK" ELSE MapRpcError(code),
              Released(outstanding, Current(r)))
    /\ UNCHANGED registryVars

\* Mutant: as many attempts as the budget allows.
RetryWhileBudget(r) == budget[r] >= MinRetryBudget

\* One retry, and only with enough of the budget left.
MayRetry(r) == Len(tried[r]) = 1 /\ budget[r] >= MinRetryBudget

\* The RPC ended with UNAVAILABLE: mark the worker, exclude it, and try once
\* more if this was the first attempt and enough of the budget is left.
RpcUnavailable(r) ==
    LET released == Released(outstanding, Current(r)) IN
    /\ call[r] = "rpc"
    /\ MarkUnhealthy(Current(r))
    /\ \/ MayRetry(r) /\ Attempt(r, state', released, excluded[r] \cup {Current(r)})
       \/ ~MayRetry(r) /\ Finish(r, "WORKER_UNAVAILABLE", released)

\* The task of the HTTP handler is cancelled in the await; the finally block
\* releases the worker.
RequestCancelled(r) ==
    /\ call[r] = "rpc"
    /\ Finish(r, "CANCELLED", Released(outstanding, Current(r)))
    /\ UNCHANGED registryVars

\* The clock eats into the budget while the RPC is under way.
Tick(r) ==
    /\ call[r] = "rpc"
    /\ budget[r] > 0
    /\ budget' = [budget EXCEPT ![r] = @ - 1]
    /\ UNCHANGED <<registryVars, schedulerVars, call, tried, excluded>>

\* A poller applies the outcome of a probe.
ProbeReturns(w, reply) ==
    /\ HandleReply(w, reply)
    /\ UNCHANGED <<schedulerVars, clientVars>>

RpcReturns(r) ==
    RpcUnavailable(r) \/ \E code \in RpcCodes : RpcConcludes(r, code)

Next ==
    \/ \E r \in Requests :
         Predict(r) \/ RpcReturns(r) \/ RequestCancelled(r) \/ Tick(r)
    \/ \E w \in Workers, reply \in Replies : ProbeReturns(w, reply)

\* The RPC is given the remaining budget as its timeout, and gRPC ends it with
\* DEADLINE_EXCEEDED when that is used up.
RpcTimesOut(r) == budget[r] = 0 /\ RpcConcludes(r, "DEADLINE_EXCEEDED")

\* Time passes and gRPC keeps its deadlines; nothing is assumed of workers.
Fairness ==
    \A r \in Requests : WF_vars(Tick(r)) /\ WF_vars(RpcTimesOut(r))

Spec == Init /\ [][Next]_vars /\ Fairness

-----------------------------------------------------------------------------
(* Properties.                                                              *)

TypeOK ==
    /\ RegistryTypeOK
    /\ outstanding \in [Workers -> Nat]
    /\ cursor \in Nat
    /\ lastPick \in [tied : SUBSET Workers, worker : Workers \cup {0}]
    /\ call \in [Requests -> Outcomes \cup {"new", "rpc"}]
    /\ tried \in [Requests -> Seq(Workers)]
    /\ excluded \in [Requests -> SUBSET Workers]
    /\ budget \in [Requests -> 0..Budget]

\* The calls that hold a reservation on w.
Holders(w) == {r \in Requests : call[r] = "rpc" /\ Current(r) = w}

\* Reservations neither leak nor are given back twice: a worker's count is the
\* number of RPCs under way to it, after any mix of success, error, retry,
\* cancellation and health change.
ReservationsExact ==
    \A w \in Workers : outstanding[w] = Cardinality(Holders(w))

\* No worker has more RPCs from this gateway than its limit.
OutstandingBounded ==
    \A w \in Workers : Cardinality(Holders(w)) <= MaxOutstanding

\* A request is tried at most twice, and the second time on another worker.
RetryElsewhere ==
    \A r \in Requests :
        /\ Len(tried[r]) <= 2
        /\ Len(tried[r]) = 2 => tried[r][1] # tried[r][2]

\* GATEWAY_AT_CAPACITY says that all healthy workers are saturated, also when
\* it answers a retry: the excluded worker must not count as one.
AtCapacityMeansSaturated ==
    [][\A r \in Requests :
         call[r] # call'[r] /\ call'[r] = "GATEWAY_AT_CAPACITY" =>
            \A w \in Workers :
                state'[w] = "HEALTHY" => outstanding'[w] = MaxOutstanding]_vars

\* The candidates whose turn comes after w's.
Behind(S, w) == {v \in S : v > w}

\* A pick from the tie T is next in turn after w won the tie S: the first of T
\* when w was the last of S; otherwise the one behind w, unless somebody joined
\* or left up to there.
NextInTurn(S, w, T, pick) ==
    /\ Behind(S, w) = {} => \A v \in T : pick <= v
    /\ \A next \in Behind(S, w) :
         (\A v \in Behind(S, w) : next <= v)
         /\ {v \in T : v <= next} = {v \in S : v <= next}
            => pick = next

\* Ties rotate while workers join and leave them, although the cursor was
\* reduced by the number of those who tied before (scheduler.py, lines 45-46).
TieRotation ==
    [][\A r \in Requests :
         Len(tried'[r]) > Len(tried[r]) /\ lastPick.tied # {} =>
            NextInTurn(lastPick.tied, lastPick.worker,
                       lastPick'.tied, lastPick'.worker)]_vars

\* Seen from its callers and its workers the gateway is a router that knows how
\* many calls each worker has: the counters, which requests take and give back
\* around their RPCs (scheduler.py, lines 29-59), the exclusions and the cursor
\* cannot be told from that, whatever fails, is retried or is cancelled.
Router == INSTANCE RequestRouter WITH
            healthy <- HealthyWorkers(state),
            calls <- [w \in Workers |-> Holders(w)],
            moved <- {r \in Requests : Len(tried[r]) = 2},
            status <- call, Limit <- MaxOutstanding

ImplementsRouter == Router!Spec

\* Plan, line 639: FAILED_PRECONDITION makes the worker ineligible.
NotReadyIsIneligible ==
    [][\A r \in Requests :
         RpcConcludes(r, "FAILED_PRECONDITION")
            => state'[Current(r)] # "HEALTHY"]_vars
=============================================================================
