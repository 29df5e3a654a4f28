---------------------------- MODULE MCEchoSelect ----------------------------
(* Instances of EchoSelect for TLC.                                        *)
EXTENDS EchoSelect

AtAndBeyondTheSet == {NSlots, NSlots + 1}
=============================================================================
