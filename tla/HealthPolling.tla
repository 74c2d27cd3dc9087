---------------------------- MODULE HealthPolling ----------------------------
(***************************************************************************)
(* The poller tasks of the registry (gateway/registry.py, lines 72-132):    *)
(* one per worker, started and stopped with the gateway, each probing its   *)
(* worker in a loop.  A status is read at the worker at one moment and      *)
(* applied at the gateway at a later one; in between the worker may crash,  *)
(* drain or come back, and a prediction may mark it unhealthy.              *)
(***************************************************************************)
EXTENDS Registry

CONSTANT None

VARIABLES
    server,     \* server[w]: the worker process as a probe would find it
    poller,     \* poller[w]: the task of _poll_worker_health(w)
    reply,      \* reply[w]: outcome of the probe under way, once there is one
    channel,    \* channel[w]: WorkerNode.channel is open
    registry,   \* how far start() and stop() have come
    visited,    \* the workers that the present loop of stop() is done with
    fresh       \* history: the last probe was sent after the last ejection

pollVars == <<server, poller, reply, channel, registry, visited, fresh>>
vars == <<registryVars, pollVars>>

\* "down" stands for everything that makes GetStatus fail: no process, no
\* route, or no answer within health_timeout_ms.
ServerStates == {"down", "STARTING", "READY", "DRAINING", "MISMATCH"}

PollerStates == {"none", "idle", "probing", "cancelled", "ended"}

stopping == registry \in {"cancelling", "closing", "stopped"}

Init ==
    /\ RegistryInit
    /\ server \in [Workers -> {"down", "STARTING"}]
    /\ poller = [w \in Workers |-> "none"]
    /\ reply = [w \in Workers |-> None]
    /\ channel = [w \in Workers |-> FALSE]
    /\ registry = "created"
    /\ visited = {}
    /\ fresh = [w \in Workers |-> FALSE]

-----------------------------------------------------------------------------
(* The environment: worker processes, and predictions that fail.            *)

\* What a worker process can become, seen from outside: it boots, gets ready,
\* drains; it can vanish at any time and be back, restarted or reachable again.
ServerMoves(s) ==
    CASE s = "down"     -> {"STARTING", "READY", "DRAINING", "MISMATCH"}
      [] s = "STARTING" -> {"READY", "down"}
      [] s = "READY"    -> {"DRAINING", "down"}
      [] OTHER          -> {"down"}

ServerChanges(w) ==
    /\ \E s \in ServerMoves(server[w]) : server' = [server EXCEPT ![w] = s]
    /\ UNCHANGED <<registryVars, poller, reply, channel, registry, visited, fresh>>

\* Some request's RPC to w ended with UNAVAILABLE (client.py, line 96).
PredictionUnavailable(w) ==
    /\ registry = "started"
    /\ MarkUnhealthy(w)
    /\ fresh' = [fresh EXCEPT ![w] = IF state[w] = "HEALTHY" THEN FALSE ELSE @]
    /\ UNCHANGED <<server, poller, reply, channel, registry, visited>>

-----------------------------------------------------------------------------
(* _poll_worker_health(w).                                                  *)

\* The top of the loop: get_stub() opens the channel, GetStatus is sent.
SendProbe(w) ==
    /\ poller[w] = "idle"
    /\ ~stopping
    /\ channel' = [channel EXCEPT ![w] = TRUE]
    /\ poller' = [poller EXCEPT ![w] = "probing"]
    /\ fresh' = [fresh EXCEPT ![w] = TRUE]
    /\ UNCHANGED <<registryVars, server, reply, registry, visited>>

\* Mutant: an RPC error is taken for a status.
RawStatus(w) == server[w]

\* What GetStatus brings back now; an RPC error or a timeout is a failure.
ProbeOutcome(w) == IF server[w] = "down" THEN "FAILED" ELSE server[w]

\* The worker answers, or the call fails.
AnswerProbe(w) ==
    /\ poller[w] = "probing"
    /\ reply[w] = None
    /\ reply' = [reply EXCEPT ![w] = ProbeOutcome(w)]
    /\ UNCHANGED <<registryVars, server, poller, channel, registry, visited, fresh>>

\* The task resumes, applies the outcome and goes to sleep.
ReceiveReply(w) ==
    /\ poller[w] = "probing"
    /\ reply[w] # None
    /\ HandleReply(w, reply[w])
    /\ fresh' = [fresh EXCEPT ![w] =
                   IF state[w] = "HEALTHY" /\ state'[w] = "UNHEALTHY"
                   THEN FALSE ELSE @]
    /\ poller' = [poller EXCEPT ![w] = "idle"]
    /\ reply' = [reply EXCEPT ![w] = None]
    /\ UNCHANGED <<server, channel, registry, visited>>

\* The task wakes up after stop() set _stopping, before stop() reaches it.
PollerExits(w) ==
    /\ poller[w] = "idle"
    /\ stopping
    /\ poller' = [poller EXCEPT ![w] = "ended"]
    /\ UNCHANGED <<registryVars, server, reply, channel, registry, visited, fresh>>

\* CancelledError reaches the task in its probe or its sleep; nothing catches it.
PollerCancelled(w) ==
    /\ poller[w] = "cancelled"
    /\ poller' = [poller EXCEPT ![w] = "ended"]
    /\ reply' = [reply EXCEPT ![w] = None]
    /\ UNCHANGED <<registryVars, server, channel, registry, visited, fresh>>

-----------------------------------------------------------------------------
(* start() and stop(), called from the application's lifespan.              *)

Start ==
    /\ registry = "created"
    /\ registry' = "started"
    /\ poller' = [w \in Workers |-> "idle"]
    /\ UNCHANGED <<registryVars, server, reply, channel, visited, fresh>>

Stop ==
    /\ registry = "started"
    /\ registry' = "cancelling"
    /\ UNCHANGED <<registryVars, server, poller, reply, channel, visited, fresh>>

\* stop() goes through the tasks once and then through the workers once, both
\* in the order of the configuration.
At(w) == w \notin visited /\ \A v \in Workers : v < w => v \in visited

\* task.cancel(), for a task that has not ended, and the await begins.
CancelPoller(w) ==
    /\ registry = "cancelling"
    /\ At(w)
    /\ poller[w] \in {"idle", "probing"}
    /\ poller' = [poller EXCEPT ![w] = "cancelled"]
    /\ UNCHANGED <<registryVars, server, reply, channel, registry, visited, fresh>>

\* Mutant: a cancelled task is not awaited.
NotAwaited(w) == poller[w] \in {"cancelled", "ended"}

\* await task returns when the task has ended, by itself or cancelled.
Awaited(w) == poller[w] = "ended"

PollerAwaited(w) ==
    /\ registry = "cancelling"
    /\ At(w)
    /\ Awaited(w)
    /\ visited' = visited \cup {w}
    /\ UNCHANGED <<registryVars, server, poller, reply, channel, registry, fresh>>

AllCancelled ==
    /\ registry = "cancelling"
    /\ visited = Workers
    /\ registry' = "closing"
    /\ visited' = {}
    /\ UNCHANGED <<registryVars, server, poller, reply, channel, fresh>>

\* WorkerNode.close(): whatever is open is closed, and stop() does not come back.
CloseChannel(w) ==
    /\ registry = "closing"
    /\ At(w)
    /\ channel' = [channel EXCEPT ![w] = FALSE]
    /\ visited' = visited \cup {w}
    /\ UNCHANGED <<registryVars, server, poller, reply, registry, fresh>>

AllClosed ==
    /\ registry = "closing"
    /\ visited = Workers
    /\ registry' = "stopped"
    /\ UNCHANGED <<registryVars, server, poller, reply, channel, visited, fresh>>

StopSteps ==
    \/ \E w \in Workers : CancelPoller(w) \/ PollerAwaited(w) \/ CloseChannel(w)
    \/ AllCancelled
    \/ AllClosed

-----------------------------------------------------------------------------

Poll(w) ==
    \/ SendProbe(w) \/ AnswerProbe(w) \/ ReceiveReply(w)
    \/ PollerExits(w) \/ PollerCancelled(w)

Next ==
    \/ \E w \in Workers : ServerChanges(w) \/ PredictionUnavailable(w) \/ Poll(w)
    \/ Start \/ Stop \/ StopSteps

\* The gateway starts its pollers, each poller's sleep ends and its probe
\* returns within the timeout.  Whether workers live or requests fail is free.
Spec ==
    /\ Init
    /\ [][Next]_vars
    /\ WF_vars(Start)
    /\ \A w \in Workers : WF_vars(Poll(w))

-----------------------------------------------------------------------------
(* Properties.                                                              *)

TypeOK ==
    /\ RegistryTypeOK
    /\ server \in [Workers -> ServerStates]
    /\ poller \in [Workers -> PollerStates]
    /\ reply \in [Workers -> Replies \cup {None}]
    /\ channel \in [Workers -> BOOLEAN]
    /\ registry \in {"created", "started", "cancelling", "closing", "stopped"}
    /\ visited \subseteq Workers
    /\ fresh \in [Workers -> BOOLEAN]

\* An ejected worker is taken back on evidence gathered after its ejection:
\* the probe that restores it was sent later.  A status read before a request
\* found the worker unavailable, and applied after, cannot do it alone.  Holds
\* for thresholds of two and more.
RecoveryIsFresh ==
    [][\A w \in Workers :
         state[w] = "UNHEALTHY" /\ state'[w] = "HEALTHY" => fresh[w]]_vars

\* When stop() has returned no task runs and no channel is open.  It passes over
\* each task and each channel once (lines 81-88), while pollers whose turn has
\* not come resume, apply their replies and end: what it has passed must stay as
\* it left it.  A task may not run on behind it, nor get_stub() open a channel
\* again (line 38).
StoppedReleasesAll ==
    registry = "stopped" =>
        \A w \in Workers : poller[w] = "ended" /\ ~channel[w]

\* A worker that is gone for good is not routed to for good.
DeadWorkerEjected ==
    \A w \in Workers :
        <>[](server[w] = "down") => <>[](state[w] # "HEALTHY" \/ stopping)

\* A worker that is ready for good is healthy again and again, however many
\* requests failed on it, unless it was ever seen draining.
ReadyWorkerRestored ==
    \A w \in Workers :
        <>[](server[w] = "READY")
            => []<>(state[w] \in {"HEALTHY", "DRAINING"} \/ stopping)

\* Plan, lines 186 and 1115: a worker that was stopped and started again
\* becomes healthy.  The code never takes a worker out of DRAINING.
RestartedWorkerRestored ==
    \A w \in Workers :
        <>[](server[w] = "READY") => []<>(state[w] = "HEALTHY" \/ stopping)
=============================================================================
