------------------------- MODULE MCWorkflowListing --------------------------
(* WorkflowListing, and with it VersionedStore, for TLC.                     *)
EXTENDS WorkflowListing

CONSTANTS c1, c2, d1, d2, l1, name
=============================================================================
