----------------------------- MODULE MCEventBus -----------------------------
EXTENDS EventBus

CONSTANTS c1, c2

\* One caller passes an id of its own, the other has one minted.
MCSupplied == [c \in Calls |-> IF c = c1 THEN c1 ELSE NoId]
=============================================================================
