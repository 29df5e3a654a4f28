--------------------------- MODULE MCMultiProcess ---------------------------
(* Instances of MultiProcess for TLC.                                      *)
EXTENDS MultiProcess

AllKinds == {"page", "lost", "dynamic", "truncated", "broken"}
=============================================================================
