------------------------------ MODULE Scheduler ------------------------------
(***************************************************************************)
(* Least-outstanding routing with a rotating cursor for ties                *)
(* (gateway/scheduler.py).                                                  *)
(*                                                                         *)
(* Neither method suspends while it holds the lock, so the lock is always   *)
(* free and each call is one step of the event loop.  The operators take    *)
(* the registry's states and the reservations as arguments because a retry  *)
(* marks, releases and selects within one step.                             *)
(***************************************************************************)
EXTENDS Registry, FiniteSets

CONSTANT MaxOutstanding  \* gateway_max_outstanding_per_worker

ASSUME SchedulerAssumption ==
    /\ IsFiniteSet(Workers)
    /\ MaxOutstanding \in Nat \ {0}

VARIABLES
    outstanding,  \* WorkerNode.outstanding_requests
    cursor,       \* _cursor
    lastPick      \* history: the last tie and who won it

schedulerVars == <<outstanding, cursor, lastPick>>

SchedulerInit ==
    /\ outstanding = [w \in Workers |-> 0]
    /\ cursor = 0
    /\ lastPick = [tied |-> {}, worker |-> 0]

HealthyWorkers(st) == {w \in Workers : st[w] = "HEALTHY"}

\* Mutant: off by one at the limit.
EligibleUpTo(st, out, exclude) ==
    {w \in HealthyWorkers(st) : w \notin exclude /\ out[w] <= MaxOutstanding}

Eligible(st, out, exclude) ==
    {w \in HealthyWorkers(st) : w \notin exclude /\ out[w] < MaxOutstanding}

\* Mutant: ties are not confined to the fewest reservations.
AllEligible(st, out, exclude) == Eligible(st, out, exclude)

\* The eligible workers with the fewest reservations.
Candidates(st, out, exclude) ==
    {w \in Eligible(st, out, exclude) :
        \A v \in Eligible(st, out, exclude) : out[w] <= out[v]}

\* The index of w in the candidates sorted by worker id.
Rank(S, w) == Cardinality({v \in S : v < w})

\* Mutant: the cursor is reduced only where it is used.
NeverReduced(tied) == cursor + 1

NextCursor(tied) == (cursor + 1) % Cardinality(tied)

\* select_worker(), when it returns worker w.
SelectWorker(st, out, exclude, w) ==
    LET tied == Candidates(st, out, exclude) IN
    /\ w \in tied
    /\ Rank(tied, w) = cursor % Cardinality(tied)
    /\ cursor' = NextCursor(tied)
    /\ outstanding' = [out EXCEPT ![w] = @ + 1]
    /\ lastPick' = [tied |-> tied, worker |-> w]

\* Mutant: the reservation is kept.
NotReleased(out, w) == out

\* release_worker()
Released(out, w) == [out EXCEPT ![w] = IF @ > 0 THEN @ - 1 ELSE @]
=============================================================================
