------------------------------ MODULE WebServer ------------------------------
(***************************************************************************)
(* What every version of the web server promises its clients, whatever it  *)
(* serves them with: a pool of threads, a thread or a process for each.    *)
(* A connection is accepted once.  It then comes to the end of its stream, *)
(* and the end is final.  A client that sees it has the whole reply; the   *)
(* reply may be cut short only when the connection was broken, or when the *)
(* server is down.  A client breaks its connection by leaving; so does a   *)
(* process that serves this client alone and cannot go on.  A server that  *)
(* serves all its clients in one process goes down instead.                *)
(*                                                                         *)
(* The server may go down at any time, and takes any number of streams     *)
(* with it; a CGI program may keep others open and still finish them.      *)
(***************************************************************************)
CONSTANT Conns

VARIABLES
  server,      \* "up" or "down"
  stream,      \* per connection: "away", "open", "whole" or "cut"
  broken       \* connections that their client or its own process broke

vars == <<server, stream, broken>>

Init ==
  /\ server = "up"
  /\ stream = [c \in Conns |-> "away"]
  /\ broken = {}

Accept(c) ==
  /\ server = "up" /\ stream[c] = "away"
  /\ stream' = [stream EXCEPT ![c] = "open"]
  /\ UNCHANGED <<server, broken>>

Break(c) ==
  /\ broken' = broken \cup {c}
  /\ UNCHANGED <<server, stream>>

(* Some streams end: one process may be the last to have several open.     *)
End ==
  /\ stream' \in [Conns -> {"away", "open", "whole", "cut"}]
  /\ \A c \in Conns :
       \/ stream'[c] = stream[c]
       \/ stream[c] = "open" /\ stream'[c] = "whole"
       \/ stream[c] = "open" /\ stream'[c] = "cut" /\ (c \in broken \/ server' = "down")

Serve == UNCHANGED <<server, broken>> /\ End

Exit ==
  /\ server = "up" /\ server' = "down"
  /\ End
  /\ UNCHANGED broken

Next ==
  \/ Serve \/ Exit
  \/ \E c \in Conns : Accept(c) \/ Break(c)

Spec == Init /\ [][Next]_vars
=============================================================================
