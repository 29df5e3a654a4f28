------------------------------- MODULE MCSBuf -------------------------------
(* Instances of SBuf for TLC.                                              *)
EXTENDS SBuf

CONSTANTS p1, p2, c1, c2, x, y

TwoProducers == {p1, p2}
TwoConsumers == {c1, c2}
TwoItems == {x, y}
=============================================================================
