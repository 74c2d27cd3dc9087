-------------------------- MODULE MCGatewayClient --------------------------
(* Small instances of GatewayClient for TLC.                                *)
EXTENDS GatewayClient

MCWorkers == 1..2
MCThreeWorkers == 1..3

\* Requests differ in nothing but their names.
MCSymmetry == Permutations(Requests)
=============================================================================
