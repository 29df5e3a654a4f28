---------------------------- MODULE MCThreadEcho ----------------------------
(* Instances of ThreadEcho for TLC.                                        *)
EXTENDS ThreadEcho

Both == {"closed", "reset"}
Closing == {"closed"}
=============================================================================
