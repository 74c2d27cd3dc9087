------------------------- MODULE HealthPollingProofs -------------------------
(***************************************************************************)
(* Proofs about the pollers and the health of the workers, for any set of   *)
(* workers and any thresholds.                                              *)
(***************************************************************************)
EXTENDS HealthPolling, RegistryProofs

\* The part of the state that the pollers own.
PollTypeOK ==
    /\ server \in [Workers -> ServerStates]
    /\ poller \in [Workers -> PollerStates]
    /\ reply \in [Workers -> Replies \cup {None}]
    /\ channel \in [Workers -> BOOLEAN]
    /\ registry \in {"created", "started", "cancelling", "closing", "stopped"}
    /\ visited \subseteq Workers
    /\ fresh \in [Workers -> BOOLEAN]

LEMMA PollTyping ==
    ASSUME PollTypeOK, [Next]_vars PROVE PollTypeOK'
<1> USE DEF PollTypeOK, PollerStates
<1>1. CASE UNCHANGED vars
  BY <1>1 DEF vars, pollVars
<1>2. ASSUME NEW w \in Workers, ServerChanges(w) PROVE PollTypeOK'
  <2>1. PICK s \in ServerMoves(server[w]) : server' = [server EXCEPT ![w] = s]
    BY <1>2 DEF ServerChanges
  <2>2. s \in ServerStates
    BY <2>1 DEF ServerMoves, ServerStates
  <2> QED BY <1>2, <2>1, <2>2 DEF ServerChanges
<1>3. ASSUME NEW w \in Workers, PredictionUnavailable(w) PROVE PollTypeOK'
  BY <1>3 DEF PredictionUnavailable
<1>4. ASSUME NEW w \in Workers, SendProbe(w) PROVE PollTypeOK'
  BY <1>4 DEF SendProbe
<1>5. ASSUME NEW w \in Workers, AnswerProbe(w) PROVE PollTypeOK'
  BY <1>5 DEF AnswerProbe, ProbeOutcome, ServerStates, Replies
<1>6. ASSUME NEW w \in Workers, ReceiveReply(w) PROVE PollTypeOK'
  BY <1>6 DEF ReceiveReply
<1>7. ASSUME NEW w \in Workers, PollerExits(w) \/ PollerCancelled(w)
      PROVE  PollTypeOK'
  BY <1>7 DEF PollerExits, PollerCancelled
<1>8. CASE Start
  BY <1>8 DEF Start
<1>9. CASE Stop
  BY <1>9 DEF Stop
<1>10. CASE StopSteps
  BY <1>10 DEF StopSteps, CancelPoller, PollerAwaited, AllCancelled, CloseChannel,
               AllClosed
<1> QED BY <1>1, <1>2, <1>3, <1>4, <1>5, <1>6, <1>7, <1>8, <1>9, <1>10
        DEF Next, Poll

\* Only a failed prediction and a probe's reply touch the registry.
LEMMA RegistryStep ==
    ASSUME RegistryTypeOK, HealthCountersConsistent, [Next]_vars
    PROVE  RegistryTypeOK' /\ HealthCountersConsistent'
<1>1. CASE UNCHANGED registryVars
  BY <1>1 DEF registryVars, RegistryTypeOK, HealthCountersConsistent
<1>2. ASSUME NEW w \in Workers, MarkUnhealthy(w)
      PROVE  RegistryTypeOK' /\ HealthCountersConsistent'
  BY <1>2, MarkKeepsRegistry
<1>3. ASSUME NEW w \in Workers, HandleReply(w, reply[w])
      PROVE  RegistryTypeOK' /\ HealthCountersConsistent'
  BY <1>3, ReplyKeepsRegistry
<1>4. \/ UNCHANGED registryVars
      \/ \E w \in Workers : MarkUnhealthy(w)
      \/ \E w \in Workers : HandleReply(w, reply[w])
  BY DEF Next, vars, ServerChanges, PredictionUnavailable, Poll, SendProbe,
         AnswerProbe, ReceiveReply, PollerExits, PollerCancelled, Start, Stop,
         StopSteps, CancelPoller, PollerAwaited, AllCancelled, CloseChannel,
         AllClosed
<1> QED BY <1>1, <1>2, <1>3, <1>4

\* The type invariant of the pollers and the registry.
THEOREM Typing == Spec => []TypeOK
<1>1. Init => PollTypeOK /\ RegistryTypeOK /\ HealthCountersConsistent
  BY RegistryAssumption
     DEF Init, RegistryInit, PollTypeOK, RegistryTypeOK, HealthStates,
         HealthCountersConsistent, ServerStates, PollerStates
<1>2. PollTypeOK /\ RegistryTypeOK /\ HealthCountersConsistent /\ [Next]_vars
      => (PollTypeOK /\ RegistryTypeOK /\ HealthCountersConsistent)'
  BY PollTyping, RegistryStep
<1>3. PollTypeOK /\ RegistryTypeOK => TypeOK
  BY DEF PollTypeOK, TypeOK
<1> QED BY <1>1, <1>2, <1>3, PTL DEF Spec

\* States and counters agree in every reachable state, however probes and
\* failed predictions interleave.
THEOREM CountersConsistent == Spec => []HealthCountersConsistent
<1>1. Init => RegistryTypeOK /\ HealthCountersConsistent
  BY RegistryAssumption
     DEF Init, RegistryInit, RegistryTypeOK, HealthStates,
         HealthCountersConsistent
<1>2. RegistryTypeOK /\ HealthCountersConsistent /\ [Next]_vars
      => (RegistryTypeOK /\ HealthCountersConsistent)'
  BY RegistryStep
<1> QED BY <1>1, <1>2, PTL DEF Spec

-----------------------------------------------------------------------------
(* Recovery on fresh evidence.                                              *)

\* What makes it inductive: until a probe has been sent after the ejection,
\* an ejected worker has at most one success on its account, and none while
\* the probe that was under way at the ejection has not come back.
StaleEvidence ==
    \A w \in Workers :
        state[w] = "UNHEALTHY" /\ ~fresh[w] =>
            /\ successes[w] <= 1
            /\ poller[w] = "probing" => successes[w] = 0

\* An ejected worker returns to service only through a probe sent after its
\* ejection (mark_unhealthy_immediately resets the count of successes and one
\* poller per worker sends one probe at a time).
THEOREM FreshRecovery ==
    ASSUME RecoveryThreshold >= 2
    PROVE  Spec => RecoveryIsFresh
<1> DEFINE Inv == PollTypeOK /\ RegistryTypeOK /\ HealthCountersConsistent
                  /\ StaleEvidence
<1>1. Init => Inv
  BY RegistryAssumption
     DEF Init, RegistryInit, PollTypeOK, RegistryTypeOK, HealthStates,
         HealthCountersConsistent, ServerStates, PollerStates, StaleEvidence
<1>2. Inv /\ [Next]_vars => StaleEvidence'
  <2> SUFFICES ASSUME Inv, [Next]_vars PROVE StaleEvidence'
    OBVIOUS
  <2> USE RegistryAssumption DEF StaleEvidence, PollTypeOK, RegistryTypeOK
  <2>1. ASSUME UNCHANGED <<registryVars, poller, fresh>> PROVE StaleEvidence'
    BY <2>1 DEF registryVars
  <2>2. ASSUME NEW w \in Workers, PredictionUnavailable(w) PROVE StaleEvidence'
    BY <2>2 DEF PredictionUnavailable, MarkUnhealthy, registryVars
  <2>3. ASSUME NEW w \in Workers, SendProbe(w) PROVE StaleEvidence'
    BY <2>3 DEF SendProbe, registryVars
  <2>4. ASSUME NEW w \in Workers, ReceiveReply(w) PROVE StaleEvidence'
    BY <2>4 DEF ReceiveReply, HandleReply, RecordDraining, RecordSuccess,
                RecordFailure, Increment
  <2>5. ASSUME NEW w \in Workers, PollerExits(w) \/ PollerCancelled(w)
        PROVE  StaleEvidence'
    BY <2>5 DEF PollerExits, PollerCancelled, registryVars
  <2>6. CASE Start
    BY <2>6 DEF Start, registryVars
  <2>7. ASSUME NEW w \in Workers, CancelPoller(w) PROVE StaleEvidence'
    BY <2>7 DEF CancelPoller, registryVars
  <2> QED BY <2>1, <2>2, <2>3, <2>4, <2>5, <2>6, <2>7
          DEF Next, vars, pollVars, Poll, ServerChanges, AnswerProbe, Stop,
              StopSteps, PollerAwaited, AllCancelled, CloseChannel, AllClosed
<1>3. Inv /\ [Next]_vars => Inv'
  BY <1>2, PollTyping, RegistryStep
<1>4. Inv /\ [Next]_vars
      => [\A w \in Workers :
            state[w] = "UNHEALTHY" /\ state'[w] = "HEALTHY" => fresh[w]]_vars
  <2> SUFFICES ASSUME Inv, [Next]_vars,
                      NEW w \in Workers,
                      state[w] = "UNHEALTHY", state'[w] = "HEALTHY"
               PROVE  fresh[w]
    OBVIOUS
  <2> USE RegistryAssumption DEF StaleEvidence, PollTypeOK, RegistryTypeOK
  <2>1. ASSUME NEW v \in Workers, ReceiveReply(v) PROVE fresh[w]
    <3>1. v = w /\ RecordSuccess(w)
      BY <2>1 DEF ReceiveReply, HandleReply, RecordDraining, RecordSuccess,
                  RecordFailure
    <3>2. successes[w] + 1 >= RecoveryThreshold
      BY <3>1 DEF RecordSuccess, Increment
    <3> QED BY <2>1, <3>1, <3>2 DEF ReceiveReply
  <2>2. ASSUME NEW v \in Workers, PredictionUnavailable(v) PROVE FALSE
    BY <2>2 DEF PredictionUnavailable, MarkUnhealthy, registryVars
  <2>3. CASE UNCHANGED state
    BY <2>3
  <2> QED BY <2>1, <2>2, <2>3
          DEF Next, vars, registryVars, Poll, ServerChanges, SendProbe,
              AnswerProbe, PollerExits, PollerCancelled, Start, Stop, StopSteps,
              CancelPoller, PollerAwaited, AllCancelled, CloseChannel, AllClosed
<1> QED BY <1>1, <1>3, <1>4, PTL DEF Spec, RecoveryIsFresh

-----------------------------------------------------------------------------
(* stop().                                                                  *)

\* What stop() has passed stays as it left it: the tasks it has awaited have
\* ended and none comes back to life, so that the channels it has closed stay
\* closed while it goes on to the next.
Passed ==
    /\ registry \in {"created", "started"} => visited = {}
    /\ registry = "cancelling" => \A w \in visited : poller[w] = "ended"
    /\ registry \in {"closing", "stopped"} => \A w \in Workers : poller[w] = "ended"
    /\ registry = "closing" => \A w \in visited : ~channel[w]
    /\ registry = "stopped" => \A w \in Workers : ~channel[w]

\* One pass over the tasks and one over the channels are enough: when stop() has
\* returned, every poller has ended and every channel is closed (lines 79-88).
THEOREM StopReleasesAll == Spec => []StoppedReleasesAll
<1> DEFINE Inv == PollTypeOK /\ Passed
<1>1. Init => Inv
  BY DEF Init, PollTypeOK, PollerStates, ServerStates, Passed
<1>2. Inv /\ [Next]_vars => Passed'
  <2> SUFFICES ASSUME Inv, [Next]_vars PROVE Passed'
    OBVIOUS
  <2> USE DEF Passed, PollTypeOK
  <2>1. CASE UNCHANGED <<registry, poller, channel, visited>>
    BY <2>1
  <2>2. ASSUME NEW w \in Workers,
               \/ SendProbe(w) \/ ReceiveReply(w) \/ PollerExits(w)
               \/ PollerCancelled(w)
        PROVE  Passed'
    BY <2>2 DEF SendProbe, ReceiveReply, PollerExits, PollerCancelled, stopping
  <2>3. CASE Start \/ Stop
    BY <2>3 DEF Start, Stop
  <2>4. ASSUME NEW w \in Workers, CancelPoller(w) PROVE Passed'
    BY <2>4 DEF CancelPoller
  <2>5. ASSUME NEW w \in Workers, PollerAwaited(w) PROVE Passed'
    BY <2>5 DEF PollerAwaited, Awaited
  <2>6. ASSUME NEW w \in Workers, CloseChannel(w) PROVE Passed'
    BY <2>6 DEF CloseChannel
  <2>7. CASE AllCancelled \/ AllClosed
    BY <2>7 DEF AllCancelled, AllClosed
  <2> QED BY <2>1, <2>2, <2>3, <2>4, <2>5, <2>6, <2>7
          DEF Next, vars, pollVars, Poll, ServerChanges, PredictionUnavailable,
              AnswerProbe, StopSteps
<1>3. Inv /\ [Next]_vars => Inv'
  BY <1>2, PollTyping
<1>4. Inv => StoppedReleasesAll
  BY DEF Passed, StoppedReleasesAll
<1> QED BY <1>1, <1>3, <1>4, PTL DEF Spec
=============================================================================
