--------------------------- MODULE MCWorkerServer ---------------------------
(* A small instance of WorkerServer for TLC.                                *)
EXTENDS WorkerServer

CONSTANTS a, b

\* For MaxBatchItems = 3: the two share a batch, and either may be its first.
MCSize == (a :> 2 @@ b :> 1)
=============================================================================
