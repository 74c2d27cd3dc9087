----------------------------- MODULE MCGatewayApp -----------------------------
(* Small instances of GatewayApp for TLC.                                   *)
EXTENDS GatewayApp

MCWorkers == 1..2
MCOneWorker == {1}

\* A proper request, one that is too long and does not say so, one that says
\* so, and one whose first faulty element decides what it is told.
MCMessages == {
    [declared |-> TRUE, long |-> FALSE, faults |-> {}],
    [declared |-> FALSE, long |-> TRUE, faults |-> {}],
    [declared |-> TRUE, long |-> TRUE, faults |-> {}],
    [declared |-> FALSE, long |-> FALSE, faults |-> {"element", "input_bytes"}]}
=============================================================================
