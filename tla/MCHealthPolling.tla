-------------------------- MODULE MCHealthPolling --------------------------
(* Small instances of HealthPolling for TLC.                                *)
EXTENDS HealthPolling

\* Two workers: stop() goes through them one after the other.
MCWorkers == 1..2

\* One worker: the health of a worker does not depend on the others.
MCOneWorker == {1}
=============================================================================
