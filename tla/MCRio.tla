------------------------------- MODULE MCRio --------------------------------
(* Instances of Rio for TLC.                                               *)
EXTENDS Rio

SmallLimits == {1, 2, 3, 5}
=============================================================================
