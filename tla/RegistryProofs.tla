--------------------------- MODULE RegistryProofs ---------------------------
(***************************************************************************)
(* What one event does to the registry, for any set of workers and any      *)
(* thresholds.                                                              *)
(***************************************************************************)
EXTENDS Registry, TLAPS

\* Each event keeps the registry's type and the agreement of states and
\* counters.  The lemmas serve every module that uses Registry.
LEMMA MarkKeepsRegistry ==
    ASSUME NEW w \in Workers, RegistryTypeOK, HealthCountersConsistent,
           MarkUnhealthy(w)
    PROVE  RegistryTypeOK' /\ HealthCountersConsistent'
BY RegistryAssumption
   DEF RegistryTypeOK, HealthCountersConsistent, MarkUnhealthy, HealthStates,
       registryVars

LEMMA DrainingKeepsRegistry ==
    ASSUME NEW w \in Workers, RegistryTypeOK, HealthCountersConsistent,
           RecordDraining(w)
    PROVE  RegistryTypeOK' /\ HealthCountersConsistent'
BY RegistryAssumption
   DEF RegistryTypeOK, HealthCountersConsistent, RecordDraining, HealthStates

LEMMA SuccessKeepsRegistry ==
    ASSUME NEW w \in Workers, RegistryTypeOK, HealthCountersConsistent,
           RecordSuccess(w)
    PROVE  RegistryTypeOK' /\ HealthCountersConsistent'
BY RegistryAssumption
   DEF RegistryTypeOK, HealthCountersConsistent, RecordSuccess, HealthStates,
       Increment

LEMMA FailureKeepsRegistry ==
    ASSUME NEW w \in Workers, RegistryTypeOK, HealthCountersConsistent,
           RecordFailure(w)
    PROVE  RegistryTypeOK' /\ HealthCountersConsistent'
BY RegistryAssumption
   DEF RegistryTypeOK, HealthCountersConsistent, RecordFailure, HealthStates,
       Increment

LEMMA ReplyKeepsRegistry ==
    ASSUME NEW w \in Workers, NEW rep, RegistryTypeOK,
           HealthCountersConsistent, HandleReply(w, rep)
    PROVE  RegistryTypeOK' /\ HealthCountersConsistent'
BY DrainingKeepsRegistry, SuccessKeepsRegistry, FailureKeepsRegistry
   DEF HandleReply
=============================================================================
