--------------------------- MODULE MCScanPipeline ---------------------------
(* ScanPipeline for TLC: one small item and one that travels in two parts.   *)
EXTENDS ScanPipeline

CONSTANTS small, large

MCItems == {small, large}
MCParts == [i \in MCItems |-> IF i = large THEN 2 ELSE 1]

\* The liveness run has one item of two parts: what settles and is answered does
\* not depend on the goroutines of other items.
MCOneItem == {large}
MCTwoParts == [i \in MCOneItem |-> 2]
=============================================================================
