------------------------- MODULE GatewayClientProofs -------------------------
(***************************************************************************)
(* Proofs about the gateway's prediction path, for any number of workers    *)
(* and requests and any limits.                                             *)
(*                                                                         *)
(* Every change of the reservations goes through Attempt or Finish, which   *)
(* start from reservations that no longer count the request itself.  The    *)
(* argument follows that: Free below says what such reservations are, the   *)
(* lemmas show that releasing produces them and that Attempt and Finish     *)
(* turn them back into exact ones.                                          *)
(***************************************************************************)
EXTENDS GatewayClient, RegistryProofs, FiniteSetTheorems

ClientTypeOK ==
    /\ outstanding \in [Workers -> Nat]
    /\ cursor \in Nat
    /\ lastPick \in [tied : SUBSET Workers, worker : Workers \cup {0}]
    /\ call \in [Requests -> Outcomes \cup {"new", "rpc"}]
    /\ tried \in [Requests -> Seq(Workers)]
    /\ excluded \in [Requests -> SUBSET Workers]
    /\ budget \in [Requests -> 0..Budget]

\* A request under way has been tried once or twice, any other not at all, and
\* the first attempt excludes no worker.
Attempts ==
    \A r \in Requests :
        /\ call[r] = "rpc" => Len(tried[r]) \in 1..2
        /\ call[r] # "rpc" => tried[r] = <<>>
        /\ Len(tried[r]) <= 1 => excluded[r] = {}

\* The inductive invariant, without the registry's part.
ClientInv ==
    ClientTypeOK /\ Attempts /\ ReservationsExact /\ OutstandingBounded
    /\ RetryElsewhere

\* Reservations from which the one of r, if it had one, is taken away.
Free(r, out) ==
    /\ out \in [Workers -> Nat]
    /\ \A w \in Workers : /\ out[w] = Cardinality(Holders(w) \ {r})
                          /\ out[w] <= MaxOutstanding

LEMMA HoldersFinite ==
    ASSUME NEW w PROVE IsFiniteSet(Holders(w)) /\ Cardinality(Holders(w)) \in Nat
<1>1. Holders(w) \subseteq Requests
  BY DEF Holders
<1> QED BY <1>1, ClientAssumption, FS_Subset, FS_CardinalityType

LEMMA LastInRange ==
    ASSUME NEW S, NEW s \in Seq(S), Len(s) \in 1..2
    PROVE  s[Len(s)] \in S
OBVIOUS

LEMMA NewIsFree ==
    ASSUME ClientInv, NEW r \in Requests, call[r] = "new"
    PROVE  Free(r, outstanding)
<1>1. ASSUME NEW w \in Workers PROVE Holders(w) \ {r} = Holders(w)
  BY DEF Holders
<1> QED BY <1>1 DEF Free, ClientInv, ClientTypeOK, ReservationsExact,
                    OutstandingBounded

\* release_worker() takes away exactly the reservation of the request.
LEMMA ReleaseFrees ==
    ASSUME ClientInv, NEW r \in Requests, call[r] = "rpc"
    PROVE  /\ Current(r) \in Workers
           /\ Free(r, Released(outstanding, Current(r)))
<1>1. Current(r) \in Workers
  <2>1. tried[r] \in Seq(Workers) /\ Len(tried[r]) \in 1..2
    BY DEF ClientInv, ClientTypeOK, Attempts
  <2> QED BY <2>1, LastInRange DEF Current
<1>2. \A w \in Workers : r \in Holders(w) <=> w = Current(r)
  BY DEF Holders
<1>3. ASSUME NEW w \in Workers
      PROVE  Released(outstanding, Current(r))[w] = Cardinality(Holders(w) \ {r})
  <2>1. CASE w = Current(r)
    <3>1. r \in Holders(w)
      BY <1>2, <2>1
    <3>2. Cardinality(Holders(w) \ {r}) = Cardinality(Holders(w)) - 1
      BY <3>1, HoldersFinite, FS_RemoveElement
    <3>3. Cardinality(Holders(w) \ {r}) \in Nat
      BY HoldersFinite, FS_Subset, FS_CardinalityType
    <3> QED BY <1>1, <2>1, <3>2, <3>3
            DEF ClientInv, ClientTypeOK, ReservationsExact, Released
  <2>2. CASE w # Current(r)
    <3>1. Holders(w) \ {r} = Holders(w)
      BY <1>2, <2>2
    <3> QED BY <1>1, <2>2, <3>1
            DEF ClientInv, ClientTypeOK, ReservationsExact, Released
  <2> QED BY <2>1, <2>2
<1>4. Released(outstanding, Current(r)) \in [Workers -> Nat]
  BY <1>1 DEF ClientInv, ClientTypeOK, Released
<1>5. \A w \in Workers :
        Released(outstanding, Current(r))[w] <= outstanding[w]
  BY <1>1 DEF ClientInv, ClientTypeOK, Released
<1>6. \A w \in Workers : outstanding[w] <= MaxOutstanding
  BY DEF ClientInv, ReservationsExact, OutstandingBounded
<1>7. ASSUME NEW w \in Workers
      PROVE  Released(outstanding, Current(r))[w] <= MaxOutstanding
  <2>1. /\ Released(outstanding, Current(r))[w] \in Nat
        /\ outstanding[w] \in Nat
        /\ Released(outstanding, Current(r))[w] <= outstanding[w]
        /\ outstanding[w] <= MaxOutstanding
    BY <1>4, <1>5, <1>6 DEF ClientInv, ClientTypeOK
  <2> QED BY <2>1, SchedulerAssumption
<1> QED BY <1>1, <1>3, <1>4, <1>7, Zenon DEF Free

\* predict() ends: what was free of the request is now exact.
LEMMA FinishStep ==
    ASSUME ClientInv, NEW r \in Requests, NEW result \in Outcomes, NEW out,
           Free(r, out), Finish(r, result, out)
    PROVE  ClientInv'
<1>1. ClientTypeOK'
  BY ClientAssumption DEF ClientInv, ClientTypeOK, Finish, Free
<1>2. Attempts'
  BY DEF ClientInv, ClientTypeOK, Attempts, Finish, Outcomes
<1>3. ASSUME NEW w \in Workers PROVE Holders(w)' = Holders(w) \ {r}
  BY DEF ClientInv, ClientTypeOK, Holders, Finish, Current, Outcomes
<1>4. ReservationsExact' /\ OutstandingBounded'
  BY <1>3 DEF Free, Finish, ReservationsExact, OutstandingBounded
<1>5. RetryElsewhere'
  BY DEF ClientInv, ClientTypeOK, RetryElsewhere, Finish
<1> QED BY <1>1, <1>2, <1>4, <1>5 DEF ClientInv

LEMMA SelectFacts ==
    ASSUME NEW st, NEW out \in [Workers -> Nat], NEW exclude, NEW w,
           cursor \in Nat, SelectWorker(st, out, exclude, w)
    PROVE  /\ w \in Workers \ exclude
           /\ st[w] = "HEALTHY"
           /\ out[w] < MaxOutstanding
           /\ cursor' \in Nat
           /\ lastPick' \in [tied : SUBSET Workers, worker : Workers \cup {0}]
<1> DEFINE tied == Candidates(st, out, exclude)
<1>1. tied \subseteq Workers /\ w \in tied
  BY DEF SelectWorker, Candidates, Eligible, HealthyWorkers
<1>2. Cardinality(tied) \in Nat /\ Cardinality(tied) # 0
  BY <1>1, SchedulerAssumption, FS_Subset, FS_CardinalityType, FS_EmptySet
<1>3. cursor' \in Nat
  <2>1. cursor' = (cursor + 1) % Cardinality(tied)
    BY DEF SelectWorker, NextCursor
  <2> HIDE DEF tied
  <2> QED BY <1>2, <2>1
<1>4. /\ w \in Workers \ exclude
      /\ st[w] = "HEALTHY"
      /\ out[w] < MaxOutstanding
  BY DEF SelectWorker, Candidates, Eligible, HealthyWorkers
<1> QED BY <1>1, <1>3, <1>4 DEF SelectWorker, NextCursor

\* One attempt: an error that finishes the request, or one more reservation.
LEMMA AttemptStep ==
    ASSUME ClientInv, NEW r \in Requests, NEW st, NEW out,
           NEW exclude \in SUBSET Workers, Free(r, out),
           Attempt(r, st, out, exclude),
           \/ tried[r] = <<>> /\ exclude = {}
           \/ Len(tried[r]) = 1 /\ tried[r][1] \in exclude
    PROVE  ClientInv'
<1>1. ASSUME NEW result \in Outcomes, Finish(r, result, out) PROVE ClientInv'
  BY <1>1, FinishStep
<1>2. ASSUME NEW w \in Workers, SelectWorker(st, out, exclude, w),
             tried' = [tried EXCEPT ![r] = Append(@, w)],
             call' = [call EXCEPT ![r] = "rpc"],
             excluded' = [excluded EXCEPT ![r] = exclude],
             UNCHANGED budget
      PROVE  ClientInv'
  <2> USE <1>2
  <2>0. out \in [Workers -> Nat] /\ cursor \in Nat
    BY DEF ClientInv, ClientTypeOK, Free
  <2>1. /\ w \notin exclude
        /\ out[w] < MaxOutstanding
        /\ cursor' \in Nat
        /\ outstanding' = [out EXCEPT ![w] = @ + 1]
        /\ lastPick' \in [tied : SUBSET Workers, worker : Workers \cup {0}]
    <3>1. SelectWorker(st, out, exclude, w)
      BY <1>2
    <3>2. /\ w \in Workers \ exclude
          /\ out[w] < MaxOutstanding
          /\ cursor' \in Nat
          /\ lastPick' \in [tied : SUBSET Workers, worker : Workers \cup {0}]
      BY <2>0, <3>1, SelectFacts, Zenon
    <3> QED BY <3>1, <3>2 DEF SelectWorker
  <2>2. ClientTypeOK'
    BY <2>1, SMTT(20) DEF ClientInv, ClientTypeOK, Free
  <2>3. tried'[r] \in Seq(Workers) /\ Len(tried'[r]) = Len(tried[r]) + 1
    BY DEF ClientInv, ClientTypeOK
  <2>4. Current(r)' = w
    BY DEF ClientInv, ClientTypeOK, Current
  <2>5. Attempts'
    <3>1. Len(tried'[r]) \in 1..2
      BY <2>3
    <3> QED BY <3>1 DEF ClientInv, ClientTypeOK, Attempts
  <2>6. RetryElsewhere'
    BY <2>1, <2>3, SMTT(20) DEF ClientInv, ClientTypeOK, RetryElsewhere
  <2>7. ASSUME NEW v \in Workers
        PROVE  Holders(v)' = IF v = w THEN (Holders(v) \ {r}) \cup {r}
                                      ELSE Holders(v) \ {r}
    BY <2>4 DEF ClientInv, ClientTypeOK, Holders, Current
  <2>8. Cardinality(Holders(w)') = out[w] + 1
    <3>1. IsFiniteSet(Holders(w) \ {r}) /\ r \notin Holders(w) \ {r}
      BY HoldersFinite, FS_Subset
    <3>2. Cardinality((Holders(w) \ {r}) \cup {r})
            = Cardinality(Holders(w) \ {r}) + 1
      BY <3>1, FS_AddElement
    <3> QED BY <2>7, <3>2 DEF Free
  <2>9. ReservationsExact' /\ OutstandingBounded'
    <3> SUFFICES ASSUME NEW v \in Workers
                 PROVE  /\ outstanding'[v] = Cardinality(Holders(v)')
                        /\ Cardinality(Holders(v)') <= MaxOutstanding
      BY DEF ReservationsExact, OutstandingBounded
    <3>1. CASE v = w
      BY <2>1, <2>8, <3>1, SchedulerAssumption DEF Free
    <3>2. CASE v # w
      BY <2>1, <2>7, <3>2 DEF Free
    <3> QED BY <3>1, <3>2
  <2> QED BY <2>2, <2>5, <2>6, <2>9 DEF ClientInv
<1>3. {"DEADLINE_EXCEEDED", "NO_HEALTHY_WORKER", "GATEWAY_AT_CAPACITY"}
        \subseteq Outcomes
  BY DEF Outcomes
<1> QED BY <1>1, <1>2, <1>3 DEF Attempt

LEMMA MappedIsOutcome ==
    ASSUME NEW code PROVE MapRpcError(code) \in Outcomes
BY Zenon DEF MapRpcError, Outcomes

\* Each step of the gateway preserves the invariant.
LEMMA ClientStep ==
    ASSUME ClientInv, [Next]_vars PROVE ClientInv'
<1>1. ASSUME UNCHANGED <<schedulerVars, clientVars>> PROVE ClientInv'
  BY <1>1 DEF schedulerVars, clientVars, ClientInv, ClientTypeOK, Attempts,
              ReservationsExact, OutstandingBounded, RetryElsewhere, Holders,
              Current
<1>2. ASSUME NEW r \in Requests, Predict(r) PROVE ClientInv'
  <2>1. Free(r, outstanding)
    BY <1>2, NewIsFree DEF Predict
  <2>2. tried[r] = <<>>
    BY <1>2 DEF Predict, ClientInv, Attempts
  <2> QED BY <1>2, <2>1, <2>2, AttemptStep DEF Predict
<1>3. ASSUME NEW r \in Requests, NEW code \in RpcCodes, RpcConcludes(r, code)
      PROVE  ClientInv'
  <2>1. Free(r, Released(outstanding, Current(r)))
    BY <1>3, ReleaseFrees DEF RpcConcludes
  <2>2. (IF code = "OK" THEN "OK" ELSE MapRpcError(code)) \in Outcomes
    BY MappedIsOutcome DEF Outcomes
  <2> QED BY <1>3, <2>1, <2>2, FinishStep DEF RpcConcludes
<1>4. ASSUME NEW r \in Requests, RpcUnavailable(r) PROVE ClientInv'
  <2> DEFINE released == Released(outstanding, Current(r))
             exclude == excluded[r] \cup {Current(r)}
  <2>1. Current(r) \in Workers /\ Free(r, released)
    BY <1>4, ReleaseFrees DEF RpcUnavailable
  <2>2. exclude \in SUBSET Workers
    BY <2>1 DEF ClientInv, ClientTypeOK
  <2>3. ASSUME Len(tried[r]) = 1, Attempt(r, state', released, exclude)
        PROVE  ClientInv'
    <3>1. tried[r][1] \in exclude
      BY <2>3 DEF Current
    <3> QED BY <2>1, <2>2, <2>3, <3>1, AttemptStep
  <2>4. ASSUME Finish(r, "WORKER_UNAVAILABLE", released) PROVE ClientInv'
    <3>1. "WORKER_UNAVAILABLE" \in Outcomes
      BY DEF Outcomes
    <3> QED BY <2>1, <2>4, <3>1, FinishStep
  <2> QED BY <1>4, <2>3, <2>4 DEF RpcUnavailable, MayRetry
<1>5. ASSUME NEW r \in Requests, RequestCancelled(r) PROVE ClientInv'
  <2>1. Free(r, Released(outstanding, Current(r)))
    BY <1>5, ReleaseFrees DEF RequestCancelled
  <2>2. "CANCELLED" \in Outcomes
    BY DEF Outcomes
  <2> QED BY <1>5, <2>1, <2>2, FinishStep DEF RequestCancelled
<1>6. ASSUME NEW r \in Requests, Tick(r) PROVE ClientInv'
  BY <1>6, ClientAssumption
     DEF Tick, schedulerVars, ClientInv, ClientTypeOK, Attempts,
         ReservationsExact, OutstandingBounded, RetryElsewhere, Holders, Current
<1> QED BY <1>1, <1>2, <1>3, <1>4, <1>5, <1>6
        DEF Next, RpcReturns, ProbeReturns, vars

\* The registry changes by a mark or a probe only.
LEMMA RegistryStep ==
    ASSUME ClientInv, RegistryTypeOK, HealthCountersConsistent, [Next]_vars
    PROVE  RegistryTypeOK' /\ HealthCountersConsistent'
<1>1. CASE UNCHANGED registryVars
  BY <1>1 DEF registryVars, RegistryTypeOK, HealthCountersConsistent
<1>2. ASSUME NEW r \in Requests, RpcUnavailable(r)
      PROVE  RegistryTypeOK' /\ HealthCountersConsistent'
  BY <1>2, ReleaseFrees, MarkKeepsRegistry DEF RpcUnavailable
<1>3. ASSUME NEW w \in Workers, NEW rep \in Replies, ProbeReturns(w, rep)
      PROVE  RegistryTypeOK' /\ HealthCountersConsistent'
  BY <1>3, ReplyKeepsRegistry DEF ProbeReturns
<1> QED BY <1>1, <1>2, <1>3
        DEF Next, vars, Predict, RpcReturns, RpcConcludes, RequestCancelled, Tick

Inv == ClientInv /\ RegistryTypeOK /\ HealthCountersConsistent

LEMMA InvInit == Init => Inv
<1> SUFFICES ASSUME Init PROVE Inv
  OBVIOUS
<1>1. RegistryTypeOK /\ HealthCountersConsistent
  BY RegistryAssumption
     DEF Init, RegistryInit, RegistryTypeOK, HealthStates,
         HealthCountersConsistent
<1>2. ClientTypeOK /\ Attempts /\ RetryElsewhere
  BY ClientAssumption
     DEF Init, SchedulerInit, ClientTypeOK, Attempts, RetryElsewhere
<1>3. ASSUME NEW w \in Workers PROVE Holders(w) = {}
  BY DEF Init, Holders
<1>4. ASSUME NEW w \in Workers PROVE Cardinality(Holders(w)) = 0
  BY <1>3, FS_EmptySet
<1>5. ReservationsExact /\ OutstandingBounded
  BY <1>4, SchedulerAssumption
     DEF Init, SchedulerInit, ReservationsExact, OutstandingBounded
<1> QED BY <1>1, <1>2, <1>5 DEF Inv, ClientInv

LEMMA InvStep == Inv /\ [Next]_vars => Inv'
BY ClientStep, RegistryStep DEF Inv

LEMMA InvHolds == Spec => []Inv
BY InvInit, InvStep, PTL DEF Spec

-----------------------------------------------------------------------------

\* The type invariant of the prediction path.
THEOREM Typing == Spec => []TypeOK
<1>1. Inv => TypeOK
  BY DEF Inv, ClientInv, ClientTypeOK, TypeOK
<1> QED BY <1>1, InvHolds, PTL

\* outstanding_requests of every worker is the number of RPCs under way to it,
\* after any number of successes, errors, retries and cancellations.
THEOREM ExactReservations == Spec => []ReservationsExact
<1>1. Inv => ReservationsExact
  BY DEF Inv, ClientInv
<1> QED BY <1>1, InvHolds, PTL

\* The gateway never has more than gateway_max_outstanding_per_worker RPCs
\* under way to a worker.
THEOREM BoundedOutstanding == Spec => []OutstandingBounded
<1>1. Inv => OutstandingBounded
  BY DEF Inv, ClientInv
<1> QED BY <1>1, InvHolds, PTL

\* A request makes at most two attempts, on different workers.
THEOREM RetriesElsewhere == Spec => []RetryElsewhere
<1>1. Inv => RetryElsewhere
  BY DEF Inv, ClientInv
<1> QED BY <1>1, InvHolds, PTL

-----------------------------------------------------------------------------

\* An attempt that ends with GATEWAY_AT_CAPACITY found every healthy worker
\* saturated, if it excluded no healthy one.
LEMMA AttemptAtCapacity ==
    ASSUME ClientInv, NEW r \in Requests, NEW st, NEW out, NEW exclude,
           Free(r, out), Attempt(r, st, out, exclude),
           \A w \in exclude : st[w] # "HEALTHY",
           NEW q \in Requests, call'[q] # call[q],
           call'[q] = "GATEWAY_AT_CAPACITY",
           NEW w \in Workers, st[w] = "HEALTHY"
    PROVE  outstanding'[w] = MaxOutstanding
<1>1. q = r
  BY DEF Attempt, Finish, ClientInv, ClientTypeOK
<1>2. Eligible(st, out, exclude) = {} /\ outstanding' = out
  BY <1>1 DEF Attempt, Finish, ClientInv, ClientTypeOK
<1>3. ~(out[w] < MaxOutstanding)
  BY <1>2 DEF Eligible, HealthyWorkers
<1>4. out[w] \in Nat /\ out[w] <= MaxOutstanding
  BY DEF Free
<1> QED BY <1>2, <1>3, <1>4, SchedulerAssumption

LEMMA MappedIsNotCapacity ==
    ASSUME NEW code PROVE MapRpcError(code) # "GATEWAY_AT_CAPACITY"
BY Zenon DEF MapRpcError

\* A step that answers GATEWAY_AT_CAPACITY only if all healthy workers are
\* saturated.
ToldAtCapacity ==
    \A r \in Requests :
        call[r] # call'[r] /\ call'[r] = "GATEWAY_AT_CAPACITY" =>
            \A w \in Workers :
                state'[w] = "HEALTHY" => outstanding'[w] = MaxOutstanding

LEMMA CapacityStep == Inv /\ [Next]_vars => ToldAtCapacity
<1> SUFFICES ASSUME Inv, [Next]_vars, NEW q \in Requests,
                    call'[q] # call[q], call'[q] = "GATEWAY_AT_CAPACITY",
                    NEW w \in Workers, state'[w] = "HEALTHY"
             PROVE  outstanding'[w] = MaxOutstanding
  BY DEF ToldAtCapacity
<1> USE DEF Inv
<1>1. ASSUME NEW r \in Requests, Predict(r)
      PROVE  outstanding'[w] = MaxOutstanding
  <2>1. Free(r, outstanding) /\ Attempt(r, state, outstanding, {})
    BY <1>1, NewIsFree DEF Predict
  <2>2. state[w] = "HEALTHY"
    BY <1>1 DEF Predict, registryVars
  <2> QED BY <2>1, <2>2, AttemptAtCapacity
<1>2. ASSUME NEW r \in Requests, RpcUnavailable(r)
      PROVE  outstanding'[w] = MaxOutstanding
  <2> DEFINE released == Released(outstanding, Current(r))
             exclude == excluded[r] \cup {Current(r)}
  <2>1. Current(r) \in Workers /\ Free(r, released)
    BY <1>2, ReleaseFrees DEF RpcUnavailable
  <2>2. state'[Current(r)] # "HEALTHY"
    BY <1>2, <2>1
       DEF RpcUnavailable, MarkUnhealthy, RegistryTypeOK, registryVars
  <2>3. CASE Len(tried[r]) = 1 /\ Attempt(r, state', released, exclude)
    <3>1. excluded[r] = {}
      <4>1. Len(tried[r]) <= 1
        BY <2>3
      <4> QED BY <4>1 DEF ClientInv, Attempts
    <3>2. \A v \in exclude : state'[v] # "HEALTHY"
      BY <2>2, <3>1
    <3> HIDE DEF released, exclude
    <3> QED BY <2>1, <2>3, <3>2, AttemptAtCapacity
  <2>4. CASE Finish(r, "WORKER_UNAVAILABLE", released)
    BY <2>4 DEF Finish, ClientInv, ClientTypeOK
  <2> QED BY <1>2, <2>3, <2>4 DEF RpcUnavailable, MayRetry
<1>3. ASSUME NEW r \in Requests, NEW code \in RpcCodes, RpcConcludes(r, code)
      PROVE  FALSE
  <2>1. (IF code = "OK" THEN "OK" ELSE MapRpcError(code))
          # "GATEWAY_AT_CAPACITY"
    BY MappedIsNotCapacity
  <2> QED BY <1>3, <2>1 DEF RpcConcludes, Finish, ClientInv, ClientTypeOK
<1>4. ASSUME NEW r \in Requests, RequestCancelled(r) PROVE FALSE
  BY <1>4 DEF RequestCancelled, Finish, ClientInv, ClientTypeOK
<1>5. CASE UNCHANGED call
  BY <1>5
<1> QED BY <1>1, <1>2, <1>3, <1>4, <1>5
        DEF Next, RpcReturns, Tick, ProbeReturns, vars, clientVars

\* GATEWAY_AT_CAPACITY is only answered when every healthy worker holds as many
\* reservations as it may, on the first attempt and on a retry.
THEOREM CapacityMeansSaturated == Spec => AtCapacityMeansSaturated
<1>1. Inv /\ [Next]_vars
      => [\A r \in Requests :
            call[r] # call'[r] /\ call'[r] = "GATEWAY_AT_CAPACITY" =>
               \A w \in Workers :
                  state'[w] = "HEALTHY" => outstanding'[w] = MaxOutstanding]_vars
  BY CapacityStep DEF ToldAtCapacity
<1> QED BY <1>1, InvHolds, PTL DEF Spec, AtCapacityMeansSaturated

-----------------------------------------------------------------------------
(* The rotation of ties.                                                    *)

LEMMA QuotientAndRest ==
    ASSUME NEW c \in Nat, NEW n \in Nat \ {0}
    PROVE  c \div n \in Int /\ c % n \in 0..(n - 1) /\ c = n * (c \div n) + (c % n)
<1>1. c \div n \in Int
  OBVIOUS
<1>2. c % n \in 0..(n - 1)
  OBVIOUS
<1>3. c = n * (c \div n) + (c % n)
  OBVIOUS
<1> QED BY <1>1, <1>2, <1>3

LEMMA RestIsUnique ==
    ASSUME NEW n \in Nat \ {0}, NEW q \in Int, NEW k \in 0..(n - 1)
    PROVE  (n * q + k) % n = k
BY SMTT(30)

LEMMA RestOfNext ==
    ASSUME NEW c \in Nat, NEW n \in Nat \ {0}
    PROVE  ((c % n) + 1) % n = (c + 1) % n
<1> DEFINE k == c % n
           q == c \div n
<1>1. k \in 0..(n - 1) /\ q \in Int /\ c = n * q + k
  BY QuotientAndRest
<1> HIDE DEF k, q
<1>2. CASE k + 1 < n
  <2>1. c + 1 = n * q + (k + 1) /\ k + 1 \in 0..(n - 1)
    BY <1>1, <1>2
  <2>2. (n * q + (k + 1)) % n = k + 1 /\ (k + 1) % n = k + 1
    <3>1. (n * q + (k + 1)) % n = k + 1
      BY <1>1, <2>1, RestIsUnique
    <3>2. (k + 1) % n = k + 1
      BY <2>1
    <3> QED BY <3>1, <3>2
  <2> QED BY <2>1, <2>2 DEF k
<1>3. CASE k + 1 = n
  <2>1. c + 1 = n * (q + 1) + 0 /\ q + 1 \in Int
    BY <1>1, <1>3
  <2>2. (n * (q + 1) + 0) % n = 0
    BY <2>1, RestIsUnique, SMTT(20)
  <2>3. n % n = 0
    OBVIOUS
  <2> QED BY <1>3, <2>1, <2>2, <2>3 DEF k
<1> QED BY <1>1, <1>2, <1>3

\* The cursor stands behind the worker that won the last tie.
CursorFollows ==
    lastPick.tied # {} =>
        /\ lastPick.worker \in lastPick.tied
        /\ cursor = (Rank(lastPick.tied, lastPick.worker) + 1)
                        % Cardinality(lastPick.tied)

LEMMA TieSize ==
    ASSUME NEW S \in SUBSET Workers, S # {}
    PROVE  /\ Cardinality(S) \in Nat \ {0}
           /\ \A w : Rank(S, w) \in Nat
<1>1. IsFiniteSet(S)
  BY SchedulerAssumption, FS_Subset
<1>2. Cardinality(S) \in Nat \ {0}
  BY <1>1, FS_CardinalityType, FS_EmptySet
<1>3. ASSUME NEW w PROVE Rank(S, w) \in Nat
  <2>1. {v \in S : v < w} \subseteq S
    OBVIOUS
  <2> QED BY <1>1, <2>1, FS_Subset, FS_CardinalityType DEF Rank
<1> QED BY <1>2, <1>3

\* A worker has a higher rank than those before it, and a rank below the number
\* of candidates; the next one's rank is higher by one.
LEMMA RankGrows ==
    ASSUME NEW S \in SUBSET Workers, NEW w \in S
    PROVE  /\ Rank(S, w) < Cardinality(S)
           /\ Behind(S, w) = {} => Cardinality(S) = Rank(S, w) + 1
           /\ \A x \in Nat : w < x => Rank(S, w) + 1 <= Rank(S, x)
           /\ \A next \in Behind(S, w) : (\A v \in Behind(S, w) : next <= v)
                => Rank(S, next) = Rank(S, w) + 1
<1> DEFINE below == {v \in S : v < w}
           upTo == below \cup {w}
<1>1. IsFiniteSet(S) /\ S \subseteq Nat
  BY SchedulerAssumption, RegistryAssumption, FS_Subset
<1>2. IsFiniteSet(below) /\ upTo \subseteq S /\ w \notin below
  BY <1>1, FS_Subset
<1>3. IsFiniteSet(upTo) /\ Cardinality(upTo) = Rank(S, w) + 1
  BY <1>2, FS_AddElement DEF Rank
<1>4. Rank(S, w) \in Nat /\ Cardinality(S) \in Nat
  BY <1>1, <1>2, FS_CardinalityType DEF Rank
<1>5. Rank(S, w) < Cardinality(S)
  BY <1>1, <1>2, <1>3, <1>4, FS_Subset
<1>6. ASSUME Behind(S, w) = {} PROVE Cardinality(S) = Rank(S, w) + 1
  <2>1. ASSUME NEW v \in S PROVE v \in upTo
    <3>1. v \in Nat /\ w \in Nat /\ ~(v > w)
      BY <1>1, <1>6 DEF Behind
    <3>2. v < w \/ v = w
      BY <3>1
    <3> QED BY <3>2
  <2>2. S = upTo
    BY <1>2, <2>1
  <2> QED BY <1>3, <2>2
<1>7. ASSUME NEW x \in Nat, w < x PROVE Rank(S, w) + 1 <= Rank(S, x)
  <2> DEFINE belowX == {v \in S : v < x}
  <2>1. ASSUME NEW v \in upTo PROVE v \in belowX
    <3>1. v \in S /\ v \in Nat /\ w \in Nat /\ (v < w \/ v = w)
      BY <1>1, <1>2
    <3>2. v < x
      BY <1>7, <3>1
    <3> QED BY <3>1, <3>2
  <2>2. IsFiniteSet(belowX) /\ upTo \subseteq belowX
    BY <1>1, <2>1, FS_Subset
  <2>3. Cardinality(upTo) <= Cardinality(belowX)
    BY <2>2, FS_Subset
  <2> QED BY <1>3, <2>3 DEF Rank
<1>8. ASSUME NEW next \in Behind(S, w), \A v \in Behind(S, w) : next <= v
      PROVE  Rank(S, next) = Rank(S, w) + 1
  <2>1. next \in S /\ next \in Nat /\ w \in Nat /\ w < next
    BY <1>1, <1>8 DEF Behind
  <2>2. ASSUME NEW v \in S PROVE v < next <=> v < w \/ v = w
    <3>1. v \in Nat /\ (v > w => next <= v)
      BY <1>1, <1>8 DEF Behind
    <3> QED BY <2>1, <3>1
  <2>3. {v \in S : v < next} = upTo
    BY <1>2, <2>2
  <2> QED BY <1>3, <2>3 DEF Rank
<1> QED BY <1>5, <1>6, <1>7, <1>8

\* No two candidates have the same rank, and only the first has rank 0.
LEMMA RankIsPlace ==
    ASSUME NEW S \in SUBSET Workers, NEW w \in S, NEW x \in S
    PROVE  /\ Rank(S, w) = Rank(S, x) => w = x
           /\ Rank(S, w) = 0 => w <= x
<1>1. w \in Nat /\ x \in Nat
  BY RegistryAssumption
<1>2. Rank(S, w) \in Nat /\ Rank(S, x) \in Nat
  BY TieSize
<1>3. w < x => Rank(S, w) + 1 <= Rank(S, x)
  BY <1>1, RankGrows
<1>4. x < w => Rank(S, x) + 1 <= Rank(S, w)
  BY <1>1, RankGrows
<1> QED BY <1>1, <1>2, <1>3, <1>4

LEMMA SmallRest ==
    ASSUME NEW n \in Nat \ {0}, NEW c \in Nat, c < n
    PROVE  c % n = c
<1>1. c = n * 0 + c
  OBVIOUS
<1> QED BY <1>1, RestIsUnique

LEMMA PickInTurn ==
    ASSUME NEW S \in SUBSET Workers, NEW w \in S,
           NEW T \in SUBSET Workers, NEW pick \in T,
           Rank(T, pick) = ((Rank(S, w) + 1) % Cardinality(S)) % Cardinality(T)
    PROVE  NextInTurn(S, w, T, pick)
<1> DEFINE n == Cardinality(S)
           m == Cardinality(T)
           k == Rank(S, w)
<1>1. n \in Nat \ {0} /\ m \in Nat \ {0} /\ k \in Nat
  BY TieSize
<1>2. ASSUME Behind(S, w) = {}, NEW v \in T PROVE pick <= v
  <2>1. k + 1 = n
    BY <1>2, RankGrows
  <2> HIDE DEF n, m, k
  <2>2. ((k + 1) % n) % m = 0
    BY <1>1, <2>1
  <2>3. Rank(T, pick) = 0
    BY <2>2 DEF n, m, k
  <2> QED BY <2>3, RankIsPlace
<1>3. ASSUME NEW next \in Behind(S, w), \A v \in Behind(S, w) : next <= v,
             {v \in T : v <= next} = {v \in S : v <= next}
      PROVE  pick = next
  <2>1. next \in S /\ next \in Nat /\ S \subseteq Nat /\ T \subseteq Nat
    BY RegistryAssumption DEF Behind
  <2>2. ASSUME NEW v \in Nat, v <= next PROVE v \in T <=> v \in S
    <3>1. v \in {t \in T : t <= next} <=> v \in {t \in S : t <= next}
      BY <1>3
    <3> QED BY <2>2, <3>1
  <2>3. next \in T
    BY <2>1, <2>2
  <2>4. {v \in T : v < next} = {v \in S : v < next}
    <3>1. ASSUME NEW v \in Nat, v < next PROVE v \in T <=> v \in S
      BY <2>1, <2>2, <3>1
    <3> QED BY <2>1, <3>1
  <2>5. Rank(T, next) = Rank(S, next)
    BY <2>4 DEF Rank
  <2>6. Rank(S, next) = k + 1 /\ Rank(S, next) < n /\ Rank(T, next) < m
    BY <1>3, <2>1, <2>3, RankGrows
  <2> HIDE DEF n, m, k
  <2>7. (k + 1) % n = k + 1 /\ (k + 1) % m = k + 1
    BY <1>1, <2>5, <2>6, SmallRest
  <2>8. Rank(T, pick) = Rank(T, next)
    BY <2>5, <2>6, <2>7 DEF n, m, k
  <2> QED BY <2>3, <2>8, RankIsPlace
<1> QED BY <1>2, <1>3 DEF NextInTurn

LEMMA PickFollows ==
    ASSUME cursor \in Nat, CursorFollows, lastPick.tied \subseteq Workers,
           NEW st, NEW out, NEW exclude, NEW w,
           SelectWorker(st, out, exclude, w)
    PROVE  /\ CursorFollows'
           /\ lastPick.tied # {} =>
                NextInTurn(lastPick.tied, lastPick.worker, lastPick'.tied,
                           lastPick'.worker)
<1> DEFINE tied == Candidates(st, out, exclude)
           n == Cardinality(tied)
<1>1. /\ w \in tied
      /\ Rank(tied, w) = cursor % n
      /\ cursor' = (cursor + 1) % n
      /\ lastPick' = [tied |-> tied, worker |-> w]
  BY DEF SelectWorker, NextCursor
<1>2. tied \in SUBSET Workers /\ tied # {}
  BY <1>1 DEF Candidates, Eligible, HealthyWorkers
<1> HIDE DEF tied
<1>3. n \in Nat \ {0}
  BY <1>2, TieSize
<1>4. cursor' = (Rank(tied, w) + 1) % n
  BY <1>1, <1>3, RestOfNext
<1>5. CursorFollows'
  BY <1>1, <1>4 DEF CursorFollows, Rank
<1>6. ASSUME lastPick.tied # {}
      PROVE  NextInTurn(lastPick.tied, lastPick.worker, tied, w)
  BY <1>1, <1>2, <1>6, PickInTurn DEF CursorFollows
<1> QED BY <1>1, <1>5, <1>6

\* Every step picks at most one worker, and only a pick lengthens a request's
\* list of attempts.
LEMMA PickOrNot ==
    ASSUME ClientInv, [Next]_vars
    PROVE  \/ \E st, out, exclude, w : SelectWorker(st, out, exclude, w)
           \/ /\ UNCHANGED <<cursor, lastPick>>
              /\ \A r \in Requests : Len(tried'[r]) <= Len(tried[r])
<1> DEFINE Picks == \E st, out, exclude, w : SelectWorker(st, out, exclude, w)
           Rests == /\ UNCHANGED <<cursor, lastPick>>
                    /\ \A r \in Requests : Len(tried'[r]) <= Len(tried[r])
<1>1. tried \in [Requests -> Seq(Workers)]
  BY DEF ClientInv, ClientTypeOK
<1>2. ASSUME NEW r \in Requests, NEW result, NEW out, Finish(r, result, out)
      PROVE  Rests
  <2>1. ASSUME NEW s \in Requests PROVE Len(tried'[s]) <= Len(tried[s])
    BY <1>1, <1>2 DEF Finish
  <2> QED BY <1>2, <2>1 DEF Finish
<1>3. ASSUME NEW r \in Requests, NEW st, NEW out, NEW exclude,
             Attempt(r, st, out, exclude)
      PROVE  Picks \/ Rests
  <2> HIDE DEF Rests
  <2> QED BY <1>2, <1>3 DEF Attempt
<1>4. ASSUME UNCHANGED <<cursor, lastPick, tried>> PROVE Rests
  BY <1>1, <1>4
<1> HIDE DEF Picks, Rests
<1>5. ASSUME NEW r \in Requests, Predict(r) PROVE Picks \/ Rests
  BY <1>3, <1>5 DEF Predict
<1>6. ASSUME NEW r \in Requests, RpcUnavailable(r) PROVE Picks \/ Rests
  BY <1>2, <1>3, <1>6 DEF RpcUnavailable
<1>7. ASSUME NEW r \in Requests, NEW code \in RpcCodes, RpcConcludes(r, code)
      PROVE  Rests
  BY <1>2, <1>7 DEF RpcConcludes
<1>8. ASSUME NEW r \in Requests, RequestCancelled(r) PROVE Rests
  BY <1>2, <1>8 DEF RequestCancelled
<1>9. ASSUME NEW r \in Requests, Tick(r) PROVE Rests
  BY <1>4, <1>9 DEF Tick, schedulerVars
<1>10. ASSUME NEW w \in Workers, NEW reply \in Replies, ProbeReturns(w, reply)
       PROVE  Rests
  BY <1>4, <1>10 DEF ProbeReturns, schedulerVars, clientVars
<1>11. ASSUME UNCHANGED vars PROVE Rests
  BY <1>4, <1>11 DEF vars, schedulerVars, clientVars
<1>12. Picks \/ Rests
  BY <1>5, <1>6, <1>7, <1>8, <1>9, <1>10, <1>11 DEF Next, RpcReturns
<1> QED BY <1>12 DEF Picks, Rests

\* A step in which a tie, if there is one, goes to the worker whose turn it is.
TiesInTurn ==
    \A r \in Requests :
        Len(tried'[r]) > Len(tried[r]) /\ lastPick.tied # {} =>
            NextInTurn(lastPick.tied, lastPick.worker, lastPick'.tied,
                       lastPick'.worker)

LEMMA CursorStarts == Init => CursorFollows
BY DEF Init, SchedulerInit, CursorFollows

LEMMA TieStep ==
    ASSUME Inv, CursorFollows, [Next]_vars
    PROVE  CursorFollows' /\ TiesInTurn
<1>1. /\ ClientInv /\ cursor \in Nat /\ tried \in [Requests -> Seq(Workers)]
      /\ lastPick.tied \subseteq Workers
  BY DEF Inv, ClientInv, ClientTypeOK
<1>2. CASE \E st, out, exclude, w : SelectWorker(st, out, exclude, w)
  BY <1>1, <1>2, PickFollows DEF TiesInTurn
<1>3. CASE /\ UNCHANGED <<cursor, lastPick>>
           /\ \A r \in Requests : Len(tried'[r]) <= Len(tried[r])
  <2>1. CursorFollows'
    BY <1>3 DEF CursorFollows, Rank
  <2>2. tried' \in [Requests -> Seq(Workers)]
    BY InvStep DEF Inv, ClientInv, ClientTypeOK
  <2>3. \A r \in Requests : ~(Len(tried'[r]) > Len(tried[r]))
    BY <1>1, <1>3, <2>2
  <2> QED BY <2>1, <2>3 DEF TiesInTurn
<1> QED BY <1>1, <1>2, <1>3, PickOrNot

\* Ties rotate although the cursor is reduced by the number of candidates of one
\* selection and used with that of the next (scheduler.py, lines 43-46): a round
\* that is over starts again with the first candidate, and one that is not goes
\* on to the next, whoever joined or left behind it.
THEOREM TiesRotate == Spec => TieRotation
<1>1. Inv /\ CursorFollows /\ [Next]_vars => CursorFollows'
  BY TieStep
<1>2. Inv /\ CursorFollows /\ [Next]_vars
      => [\A r \in Requests :
            Len(tried'[r]) > Len(tried[r]) /\ lastPick.tied # {} =>
               NextInTurn(lastPick.tied, lastPick.worker,
                          lastPick'.tied, lastPick'.worker)]_vars
  BY TieStep DEF TiesInTurn
<1> QED BY <1>1, <1>2, CursorStarts, InvHolds, PTL DEF Spec, TieRotation

-----------------------------------------------------------------------------
(* The gateway as a router.                                                 *)

RouterStep == [Router!Next]_(Router!routerVars)

Moved == {q \in Requests : Len(tried[q]) = 2}

\* What predict() ends with settles the call, wherever it was.
LEMMA FinishSettles ==
    ASSUME ClientInv, NEW r \in Requests, NEW result \in Outcomes, NEW out,
           Finish(r, result, out)
    PROVE  Router!Settle(r, result)
<1>1. ASSUME NEW w \in Workers PROVE Holders(w)' = Holders(w) \ {r}
  BY DEF ClientInv, ClientTypeOK, Holders, Finish, Current, Outcomes
<1>2. Moved' = Moved \ {r}
  <2>1. \A q \in Requests : tried'[q] = IF q = r THEN <<>> ELSE tried[q]
    BY DEF ClientInv, ClientTypeOK, Finish
  <2> QED BY <2>1 DEF Moved
<1>3. call' = [call EXCEPT ![r] = result]
  BY DEF Finish
<1> QED BY <1>1, <1>2, <1>3 DEF Router!Settle, Moved

\* The counters from which a call is taken away are the loads it would meet.
LEMMA LoadCounted ==
    ASSUME NEW r \in Requests, NEW out, Free(r, out), NEW w \in Workers
    PROVE  Router!Load(r, w) = out[w]
<1> DEFINE c == [v \in Workers |-> Holders(v)]
<1>1. c[w] = Holders(w)
  OBVIOUS
<1>2. Router!Load(r, w) = Cardinality(c[w] \ {r})
  BY DEF Router!Load, Router!Cardinality, Cardinality
<1> HIDE DEF c
<1> QED BY <1>1, <1>2, Zenon DEF Free

\* A healthy worker is eligible if it has room; who is excluded is unhealthy.
LEMMA EligibleHaveRoom ==
    ASSUME NEW r \in Requests, NEW out, Free(r, out),
           NEW exclude, \A v \in exclude : state'[v] # "HEALTHY"
    PROVE  Router!Room(r) = Eligible(state', out, exclude)
<1>1. \A w \in Workers : Router!Load(r, w) = out[w]
  BY LoadCounted
<1>2. HealthyWorkers(state)' = HealthyWorkers(state')
  BY DEF HealthyWorkers
<1>3. HealthyWorkers(state') \subseteq Workers
  BY DEF HealthyWorkers
<1>4. \A w \in HealthyWorkers(state') : w \notin exclude
  BY DEF HealthyWorkers
<1> QED BY <1>1, <1>2, <1>3, <1>4 DEF Router!Room, Eligible

\* The worker that is selected has the fewest calls of those with room.
LEMMA SelectionPlaces ==
    ASSUME ClientInv, NEW r \in Requests, NEW out, Free(r, out),
           NEW exclude, \A v \in exclude : state'[v] # "HEALTHY",
           NEW w \in Workers, SelectWorker(state', out, exclude, w),
           tried' = [tried EXCEPT ![r] = Append(@, w)],
           call' = [call EXCEPT ![r] = "rpc"]
    PROVE  Router!Place(r, w)
<1>1. /\ w \in Eligible(state', out, exclude)
      /\ \A v \in Eligible(state', out, exclude) : out[w] <= out[v]
  BY DEF SelectWorker, Candidates
<1>2. Eligible(state', out, exclude) \subseteq Workers
  BY DEF Eligible, HealthyWorkers
<1>3. Router!Room(r) = Eligible(state', out, exclude)
  BY EligibleHaveRoom
<1>4. /\ w \in Router!Room(r)
      /\ \A v \in Router!Room(r) : Router!Load(r, w) <= Router!Load(r, v)
  BY <1>1, <1>2, <1>3, LoadCounted
<1>5. Current(r)' = w
  BY DEF ClientInv, ClientTypeOK, Current
<1>6. ASSUME NEW v \in Workers
      PROVE  Holders(v)' = IF v = w THEN Holders(v) \cup {r} ELSE Holders(v) \ {r}
  BY <1>5 DEF ClientInv, ClientTypeOK, Holders, Current
<1> QED BY <1>4, <1>6, Zenon DEF Router!Place

\* An attempt places its call or turns it away.
LEMMA AttemptRoutes ==
    ASSUME ClientInv, NEW r \in Requests, NEW out, Free(r, out),
           NEW exclude, \A v \in exclude : state'[v] # "HEALTHY",
           Attempt(r, state', out, exclude)
    PROVE  \/ Router!TurnAway(r)
           \/ /\ \E w \in Workers : Router!Place(r, w)
              /\ \E w \in Workers : tried' = [tried EXCEPT ![r] = Append(@, w)]
<1>1. ASSUME Finish(r, "DEADLINE_EXCEEDED", out) PROVE Router!TurnAway(r)
  <2>1. Router!Settle(r, "DEADLINE_EXCEEDED")
    BY <1>1, FinishSettles DEF Outcomes
  <2> QED BY <2>1 DEF Router!TurnAway
<1>2. HealthyWorkers(state)' = HealthyWorkers(state')
  BY DEF HealthyWorkers
<1>3. ASSUME HealthyWorkers(state') = {}, Finish(r, "NO_HEALTHY_WORKER", out)
      PROVE  Router!TurnAway(r)
  <2>1. Router!Settle(r, "NO_HEALTHY_WORKER")
    BY <1>3, FinishSettles DEF Outcomes
  <2> QED BY <1>2, <1>3, <2>1 DEF Router!TurnAway
<1>4. ASSUME HealthyWorkers(state') # {}, Eligible(state', out, exclude) = {},
             Finish(r, "GATEWAY_AT_CAPACITY", out)
      PROVE  Router!TurnAway(r)
  <2>1. Router!Settle(r, "GATEWAY_AT_CAPACITY")
    BY <1>4, FinishSettles DEF Outcomes
  <2>2. Router!Room(r) = {}
    BY <1>4, EligibleHaveRoom
  <2> QED BY <1>2, <1>4, <2>1, <2>2 DEF Router!TurnAway
<1>5. ASSUME NEW w \in Workers, SelectWorker(state', out, exclude, w),
             tried' = [tried EXCEPT ![r] = Append(@, w)],
             call' = [call EXCEPT ![r] = "rpc"]
      PROVE  Router!Place(r, w)
  BY <1>5, SelectionPlaces
<1> QED BY <1>1, <1>3, <1>4, <1>5, Zenon DEF Attempt

LEMMA PredictBegins ==
    ASSUME ClientInv, NEW r \in Requests, Predict(r) PROVE Router!Begin(r)
<1>1. call[r] = "new" /\ state' = state
  BY DEF Predict, registryVars
<1>2. Free(r, outstanding) /\ tried[r] = <<>>
  BY <1>1, NewIsFree DEF ClientInv, Attempts
<1>3. HealthyWorkers(state)' = HealthyWorkers(state)
  BY <1>1 DEF HealthyWorkers
<1>4. Attempt(r, state', outstanding, {})
  BY <1>1 DEF Predict
<1>5. ASSUME NEW w \in Workers, tried' = [tried EXCEPT ![r] = Append(@, w)]
      PROVE  Moved' = Moved
  <2>1. /\ \A q \in Requests : q # r => tried'[q] = tried[q]
        /\ Len(tried'[r]) = 1 /\ Len(tried[r]) = 0
    BY <1>2, <1>5 DEF ClientInv, ClientTypeOK
  <2> QED BY <2>1 DEF Moved
<1>6. \/ Router!TurnAway(r)
      \/ /\ \E w \in Workers : Router!Place(r, w)
         /\ \E w \in Workers : tried' = [tried EXCEPT ![r] = Append(@, w)]
  <2>1. PICK out : out = outstanding
    OBVIOUS
  <2>2. PICK exclude : exclude = {}
    OBVIOUS
  <2>3. Free(r, out) /\ Attempt(r, state', out, exclude)
    BY <1>2, <1>4, <2>1, <2>2
  <2>4. \A v \in exclude : state'[v] # "HEALTHY"
    BY <2>2
  <2> QED BY <2>3, <2>4, AttemptRoutes
<1>7. \/ Router!TurnAway(r)
      \/ Moved' = Moved /\ \E w \in Workers : Router!Place(r, w)
  BY <1>5, <1>6, Zenon
<1> QED BY <1>1, <1>3, <1>7, Zenon DEF Router!Begin, Moved

\* A worker that is unavailable is lost before the retry looks for another.
LEMMA UnavailableLoses ==
    ASSUME ClientInv, RegistryTypeOK, NEW r \in Requests, RpcUnavailable(r)
    PROVE  \E w \in Workers : Router!Lose(r, w)
<1> DEFINE released == Released(outstanding, Current(r))
           exclude == excluded[r] \cup {Current(r)}
<1>1. /\ call[r] = "rpc" /\ MarkUnhealthy(Current(r))
      /\ Current(r) \in Workers /\ Free(r, released)
  BY ReleaseFrees DEF RpcUnavailable
<1>2. r \in Holders(Current(r))
  BY <1>1 DEF Holders
<1>3. /\ state'[Current(r)] # "HEALTHY"
      /\ \A v \in Workers : v # Current(r) => state'[v] = state[v]
  BY <1>1 DEF MarkUnhealthy, RegistryTypeOK, registryVars
<1>4. HealthyWorkers(state)' = HealthyWorkers(state) \ {Current(r)}
  BY <1>1, <1>3 DEF HealthyWorkers
<1>5. ASSUME Finish(r, "WORKER_UNAVAILABLE", released)
      PROVE  Router!Settle(r, "WORKER_UNAVAILABLE")
  BY <1>5, FinishSettles DEF Outcomes
<1>6. ASSUME Len(tried[r]) = 1, Attempt(r, state', released, exclude)
      PROVE  /\ r \notin Moved
             /\ \/ Router!TurnAway(r)
                \/ Moved' = Moved \cup {r} /\ \E v \in Workers : Router!Place(r, v)
  <2>1. excluded[r] = {}
    <3>1. Len(tried[r]) <= 1
      BY <1>6
    <3> QED BY <3>1 DEF ClientInv, Attempts
  <2>2. \A v \in exclude : state'[v] # "HEALTHY"
    BY <1>3, <2>1
  <2>3. ASSUME NEW w \in Workers, tried' = [tried EXCEPT ![r] = Append(@, w)]
        PROVE  Moved' = Moved \cup {r}
    <3>1. tried[r] \in Seq(Workers) /\ tried'[r] = Append(tried[r], w)
      BY <2>3 DEF ClientInv, ClientTypeOK
    <3>2. Len(tried'[r]) = 2
      BY <1>6, <3>1
    <3>3. \A q \in Requests : q # r => tried'[q] = tried[q]
      BY <2>3 DEF ClientInv, ClientTypeOK
    <3> QED BY <3>2, <3>3 DEF Moved
  <2>4. r \notin Moved
    BY <1>6 DEF Moved
  <2> HIDE DEF released, exclude
  <2> QED BY <1>1, <1>6, <2>2, <2>3, <2>4, AttemptRoutes
<1>7. \/ Finish(r, "WORKER_UNAVAILABLE", released)
      \/ Len(tried[r]) = 1 /\ Attempt(r, state', released, exclude)
  BY DEF RpcUnavailable, MayRetry
<1> HIDE DEF released, exclude
<1>8. PICK w \in Workers : w = Current(r)
  BY <1>1
<1>9. Router!Lose(r, w)
  BY <1>2, <1>4, <1>5, <1>6, <1>7, <1>8, Zenon DEF Router!Lose, Moved
<1> QED BY <1>9, Zenon

\* Any other end of an RPC ends the call, and leaves the workers alone.
LEMMA ConclusionEnds ==
    ASSUME ClientInv, NEW r \in Requests, call[r] = "rpc", UNCHANGED registryVars,
           NEW outcome \in Outcomes \ {"NO_HEALTHY_WORKER", "GATEWAY_AT_CAPACITY"},
           NEW out, Finish(r, outcome, out)
    PROVE  Router!End(r)
<1>1. HealthyWorkers(state)' = HealthyWorkers(state)
  BY DEF registryVars, HealthyWorkers
<1>2. Router!Settle(r, outcome)
  BY FinishSettles
<1> QED BY <1>1, <1>2 DEF Router!End

LEMMA ProbesChangeHealth ==
    ASSUME UNCHANGED <<schedulerVars, clientVars>> PROVE Router!HealthChanges
<1>1. UNCHANGED <<call, tried>>
  BY DEF clientVars
<1>2. \A w \in Workers : Holders(w)' = Holders(w)
  BY <1>1 DEF Holders, Current
<1>3. HealthyWorkers(state)' \in SUBSET Workers
  BY DEF HealthyWorkers
<1> QED BY <1>1, <1>2, <1>3 DEF Router!HealthChanges

LEMMA TickIsUnseen ==
    ASSUME UNCHANGED <<registryVars, call, tried>> PROVE UNCHANGED Router!routerVars
<1>1. \A w \in Workers : Holders(w)' = Holders(w)
  BY DEF Holders, Current
<1>2. HealthyWorkers(state)' = HealthyWorkers(state)
  BY DEF registryVars, HealthyWorkers
<1> QED BY <1>1, <1>2 DEF Router!routerVars

LEMMA StepsAreRouterSteps ==
    ASSUME Inv, [Next]_vars PROVE RouterStep
<1>1. ClientInv /\ RegistryTypeOK
  BY DEF Inv
<1>2. ASSUME NEW r \in Requests, Predict(r) PROVE RouterStep
  BY <1>1, <1>2, PredictBegins DEF RouterStep, Router!Next
<1>3. ASSUME NEW r \in Requests, RpcUnavailable(r) PROVE RouterStep
  <2>1. \E w \in Workers : Router!Lose(r, w)
    BY <1>1, <1>3, UnavailableLoses
  <2> QED BY <2>1, Zenon DEF RouterStep, Router!Next
<1>4. ASSUME NEW r \in Requests, NEW code \in RpcCodes, RpcConcludes(r, code)
      PROVE  RouterStep
  <2> DEFINE outcome == IF code = "OK" THEN "OK" ELSE MapRpcError(code)
  <2>1. outcome \in Outcomes \ {"NO_HEALTHY_WORKER", "GATEWAY_AT_CAPACITY"}
    <3>1. MapRpcError(code) \in Outcomes \ {"NO_HEALTHY_WORKER", "GATEWAY_AT_CAPACITY"}
      BY Zenon DEF MapRpcError, Outcomes
    <3> QED BY <3>1 DEF Outcomes
  <2>2. /\ call[r] = "rpc" /\ UNCHANGED registryVars
        /\ Finish(r, outcome, Released(outstanding, Current(r)))
    BY <1>4 DEF RpcConcludes
  <2> HIDE DEF outcome
  <2>3. Router!End(r)
    BY <1>1, <2>1, <2>2, ConclusionEnds
  <2> QED BY <2>3 DEF RouterStep, Router!Next
<1>5. ASSUME NEW r \in Requests, RequestCancelled(r) PROVE RouterStep
  <2>1. "CANCELLED" \in Outcomes \ {"NO_HEALTHY_WORKER", "GATEWAY_AT_CAPACITY"}
    BY DEF Outcomes
  <2>2. Router!End(r)
    BY <1>1, <1>5, <2>1, ConclusionEnds DEF RequestCancelled
  <2> QED BY <2>2 DEF RouterStep, Router!Next
<1>6. ASSUME NEW r \in Requests, Tick(r) PROVE RouterStep
  <2>1. UNCHANGED <<registryVars, call, tried>>
    BY <1>6 DEF Tick
  <2> QED BY <2>1, TickIsUnseen DEF RouterStep
<1>7. ASSUME NEW w \in Workers, NEW reply \in Replies, ProbeReturns(w, reply)
      PROVE  RouterStep
  <2>1. Router!HealthChanges
    BY <1>7, ProbesChangeHealth DEF ProbeReturns
  <2> QED BY <2>1 DEF RouterStep, Router!Next
<1>8. CASE UNCHANGED vars
  <2>1. UNCHANGED <<registryVars, call, tried>>
    BY <1>8 DEF vars, clientVars
  <2> QED BY <2>1, TickIsUnseen DEF RouterStep
<1> QED BY <1>2, <1>3, <1>4, <1>5, <1>6, <1>7, <1>8 DEF Next, RpcReturns

LEMMA StartsIdle == Init => Router!Init
<1> SUFFICES ASSUME Init PROVE Router!Init
  OBVIOUS
<1>1. HealthyWorkers(state) = {}
  BY DEF Init, RegistryInit, HealthyWorkers
<1>2. \A w \in Workers : Holders(w) = {}
  BY DEF Init, Holders
<1>3. Moved = {} /\ call = [r \in Requests |-> "new"]
  BY DEF Init, Moved
<1> QED BY <1>1, <1>2, <1>3 DEF Router!Init, Moved

\* The prediction path implements the router: each call is given to a healthy
\* worker with the fewest calls under way, at most twice, and turned away with
\* a code that is true of the calls and the workers there are (client.py, lines
\* 40-147, and scheduler.py, lines 29-59).
THEOREM RoutesAsPromised == Spec => ImplementsRouter
<1>1. Inv /\ [Next]_vars => [Router!Next]_(Router!routerVars)
  BY StepsAreRouterSteps DEF RouterStep
<1> QED BY <1>1, StartsIdle, InvHolds, PTL DEF Spec, ImplementsRouter, Router!Spec
=============================================================================
