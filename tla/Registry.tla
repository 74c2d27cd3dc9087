------------------------------ MODULE Registry ------------------------------
(***************************************************************************)
(* The gateway's view of its workers (gateway/registry.py): one health      *)
(* state machine per configured worker, driven by the outcomes of status    *)
(* probes and by predictions that fail with UNAVAILABLE.                    *)
(*                                                                         *)
(* This module holds the state and what one event does to it.  When probes  *)
(* happen and what they see is module HealthPolling; module GatewayClient   *)
(* lets them interleave with requests.                                      *)
(***************************************************************************)
EXTENDS Integers

CONSTANTS
    Workers,            \* worker ids, numbered in the order of their sort key
    FailureThreshold,   \* health_failure_threshold
    RecoveryThreshold,  \* health_recovery_threshold
    CountCap            \* bound: where the counters stop counting

\* The counters are only ever compared with the thresholds (>=), so a counter
\* that stops at a cap no smaller than both cannot be told from the code's.
ASSUME RegistryAssumption ==
    /\ Workers \subseteq Nat
    /\ FailureThreshold \in Nat \ {0}
    /\ RecoveryThreshold \in Nat \ {0}
    /\ CountCap \in Nat
    /\ CountCap >= FailureThreshold
    /\ CountCap >= RecoveryThreshold

VARIABLES
    state,      \* WorkerNode.state
    failures,   \* WorkerNode.consecutive_failures
    successes   \* WorkerNode.consecutive_successes

registryVars == <<state, failures, successes>>

HealthStates == {"STARTING", "HEALTHY", "UNHEALTHY", "DRAINING"}

\* What a probe brings back: the state the worker reports, "MISMATCH" for a
\* model version or checksum that is not the gateway's (or an unknown state),
\* "FAILED" for an RPC error or a timeout.
Replies == {"STARTING", "READY", "DRAINING", "MISMATCH", "FAILED"}

RegistryInit ==
    /\ state = [w \in Workers |-> "STARTING"]
    /\ failures = [w \in Workers |-> 0]
    /\ successes = [w \in Workers |-> 0]

Increment(n) == IF n < CountCap THEN n + 1 ELSE n

\* Mutant: the successes of a healthy worker survive its ejection.
MarkKeepsSuccesses(w) ==
    \/ /\ state[w] = "HEALTHY"
       /\ state' = [state EXCEPT ![w] = "UNHEALTHY"]
       /\ failures' = [failures EXCEPT ![w] = FailureThreshold]
       /\ UNCHANGED successes
    \/ /\ state[w] # "HEALTHY"
       /\ UNCHANGED registryVars

\* Mutant: ejection is left to the poller.
MarkLater(w) == UNCHANGED registryVars

\* mark_unhealthy_immediately(): acts on a healthy worker only.
MarkUnhealthy(w) ==
    \/ /\ state[w] = "HEALTHY"
       /\ state' = [state EXCEPT ![w] = "UNHEALTHY"]
       /\ failures' = [failures EXCEPT ![w] = FailureThreshold]
       /\ successes' = [successes EXCEPT ![w] = 0]
    \/ /\ state[w] # "HEALTHY"
       /\ UNCHANGED registryVars

\* The branch for a worker that reports DRAINING.
RecordDraining(w) ==
    /\ state' = [state EXCEPT ![w] = "DRAINING"]
    /\ failures' = [failures EXCEPT ![w] = 0]
    /\ successes' = [successes EXCEPT ![w] = 0]

\* Mutant: the failures from before are not forgotten.
SuccessKeepsFailures(w) ==
    /\ UNCHANGED failures
    /\ successes' = [successes EXCEPT ![w] = Increment(@)]
    /\ state' = [state EXCEPT ![w] =
                   IF \/ @ = "STARTING" /\ successes'[w] >= 1
                      \/ @ = "UNHEALTHY" /\ successes'[w] >= RecoveryThreshold
                   THEN "HEALTHY" ELSE @]

\* Mutant: only a worker that is starting becomes healthy.
RestoreOnlyStarting(w) ==
    /\ failures' = [failures EXCEPT ![w] = 0]
    /\ successes' = [successes EXCEPT ![w] = Increment(@)]
    /\ state' = [state EXCEPT ![w] = IF @ = "STARTING" THEN "HEALTHY" ELSE @]

\* The branch for a compatible status.  A worker in DRAINING has no way out.
RecordSuccess(w) ==
    /\ failures' = [failures EXCEPT ![w] = 0]
    /\ successes' = [successes EXCEPT ![w] = Increment(@)]
    /\ state' = [state EXCEPT ![w] =
                   IF \/ @ = "STARTING" /\ successes'[w] >= 1
                      \/ @ = "UNHEALTHY" /\ successes'[w] >= RecoveryThreshold
                   THEN "HEALTHY" ELSE @]

\* _record_probe_failure()
RecordFailure(w) ==
    /\ successes' = [successes EXCEPT ![w] = 0]
    /\ failures' = [failures EXCEPT ![w] = Increment(@)]
    /\ state' = [state EXCEPT ![w] =
                   IF @ = "HEALTHY" /\ failures'[w] >= FailureThreshold
                   THEN "UNHEALTHY" ELSE @]

\* Mutant: a probe that fails is passed over.
IgnoreFailedProbe(w, reply) ==
    \/ reply = "DRAINING" /\ RecordDraining(w)
    \/ reply \in {"STARTING", "READY"} /\ RecordSuccess(w)
    \/ reply = "MISMATCH" /\ RecordFailure(w)
    \/ reply = "FAILED" /\ UNCHANGED registryVars

\* One iteration of _poll_worker_health() once its GetStatus has returned.
HandleReply(w, reply) ==
    \/ reply = "DRAINING" /\ RecordDraining(w)
    \/ reply \in {"STARTING", "READY"} /\ RecordSuccess(w)
    \/ reply \in {"MISMATCH", "FAILED"} /\ RecordFailure(w)

RegistryTypeOK ==
    /\ state \in [Workers -> HealthStates]
    /\ failures \in [Workers -> 0..CountCap]
    /\ successes \in [Workers -> 0..CountCap]

\* State and counters agree, whoever wrote them last, the poller or a request
\* that failed: a healthy worker is short of the failures that eject it, an
\* ejected one short of the successes that bring it back, and a worker that
\* was never seen has no success on its account.
HealthCountersConsistent ==
    \A w \in Workers :
        /\ state[w] = "HEALTHY" => failures[w] < FailureThreshold
        /\ state[w] = "UNHEALTHY" => successes[w] < RecoveryThreshold
        /\ state[w] = "STARTING" => successes[w] = 0
=============================================================================
