------------------------------ MODULE MCBatcher ------------------------------
(* Small instances of Batcher for TLC.                                      *)
EXTENDS Batcher

CONSTANTS a, b, c, d

\* For MaxBatchItems = 4: a exceeds a batch by itself and fits in with nobody,
\* the others together fill one.
MCSize == (a :> 5 @@ b :> 2 @@ c :> 1 @@ d :> 1)

\* Three requests, for MaxBatchItems = 3: a exceeds a batch, b and c share one.
MCSize3 == (a :> 4 @@ b :> 2 @@ c :> 1)
=============================================================================
