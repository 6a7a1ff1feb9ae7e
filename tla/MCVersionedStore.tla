-------------------------- MODULE MCVersionedStore --------------------------
(* VersionedStore alone for TLC: one client that updates again and again.    *)
EXTENDS VersionedStore

CONSTANTS c1, d1, name
=============================================================================
