--------------------------- MODULE MCConfigControl ---------------------------
(* ConfigControl for TLC.                                                    *)
EXTENDS ConfigControl

CONSTANTS c1, c2, a1, a2, s1
=============================================================================
