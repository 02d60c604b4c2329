--------------------------- MODULE MCGraphOutbox ---------------------------
(* GraphOutbox with two commitments and a blocker. *)
EXTENDS GraphOutbox

CONSTANTS c1, c2, b1

MCRelOf ==
    [t \in Targets |-> IF t = b1 THEN "INVOICE_BLOCKED_BY" ELSE "INVOICE_HAS_COMMITMENT"]

\* A run writes nothing but the node, a commitment, a blocker, or both.
MCRuns == {<<>>, <<c1>>, <<b1>>, <<c2, b1>>}
=============================================================================
