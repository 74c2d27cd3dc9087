---------------------------- MODULE RequestRouter ----------------------------
(***************************************************************************)
(* What the gateway's prediction path promises to its callers and to the    *)
(* workers: a call goes to a healthy worker that has the fewest calls of    *)
(* this gateway and room for one more, moves at most once, away from a      *)
(* worker that is lost, and is turned away only if nobody could take it.    *)
(*                                                                         *)
(* Loads are the calls that really are under way.  The counters that the    *)
(* gateway keeps of them, its cursor, its lists of excluded workers, its    *)
(* budgets and the counts behind a worker's health are not visible here;    *)
(* module GatewayClient shows that they do not show.                        *)
(***************************************************************************)
EXTENDS Naturals, FiniteSets

CONSTANTS
    Requests,  \* the calls
    Workers,
    Limit,     \* how many calls a worker may have
    Outcomes   \* what a call may end with

VARIABLES
    healthy,  \* the workers that may be given calls
    calls,    \* calls[w]: the calls under way at worker w
    moved,    \* the calls that have moved
    status    \* status[r]: "new", "rpc" or the outcome of r

routerVars == <<healthy, calls, moved, status>>

Init ==
    /\ healthy = {}
    /\ calls = [w \in Workers |-> {}]
    /\ moved = {}
    /\ status = [r \in Requests |-> "new"]

\* The load that r would meet at w.
Load(r, w) == Cardinality(calls[w] \ {r})

\* The workers that could take r, now that the step has lost or kept some.
Room(r) == {w \in healthy' : Load(r, w) < Limit}

Settle(r, outcome) ==
    /\ calls' = [w \in Workers |-> calls[w] \ {r}]
    /\ moved' = moved \ {r}
    /\ status' = [status EXCEPT ![r] = outcome]

Place(r, w) ==
    /\ w \in Room(r)
    /\ \A v \in Room(r) : Load(r, w) <= Load(r, v)
    /\ calls' = [v \in Workers |-> IF v = w THEN calls[v] \cup {r}
                                            ELSE calls[v] \ {r}]
    /\ status' = [status EXCEPT ![r] = "rpc"]

\* A call that is not placed has run out of time or is told the truth.
TurnAway(r) ==
    \/ Settle(r, "DEADLINE_EXCEEDED")
    \/ healthy' = {} /\ Settle(r, "NO_HEALTHY_WORKER")
    \/ healthy' # {} /\ Room(r) = {} /\ Settle(r, "GATEWAY_AT_CAPACITY")

Begin(r) ==
    /\ status[r] = "new"
    /\ UNCHANGED healthy
    /\ \/ TurnAway(r)
       \/ UNCHANGED moved /\ \E w \in Workers : Place(r, w)

\* The worker of r is lost, to all calls that come: r moves, once, or ends.
Lose(r, w) ==
    /\ r \in calls[w]
    /\ healthy' = healthy \ {w}
    /\ \/ Settle(r, "WORKER_UNAVAILABLE")
       \/ /\ r \notin moved
          /\ \/ TurnAway(r)
             \/ moved' = moved \cup {r} /\ \E v \in Workers : Place(r, v)

End(r) ==
    /\ status[r] = "rpc"
    /\ \E outcome \in Outcomes \ {"NO_HEALTHY_WORKER", "GATEWAY_AT_CAPACITY"} :
         Settle(r, outcome)
    /\ UNCHANGED healthy

\* Whatever the probes find.
HealthChanges ==
    /\ healthy' \in SUBSET Workers
    /\ UNCHANGED <<calls, moved, status>>

Next ==
    \/ HealthChanges
    \/ \E r \in Requests : Begin(r) \/ End(r) \/ \E w \in Workers : Lose(r, w)

Spec == Init /\ [][Next]_routerVars
=============================================================================
