----------------------------- MODULE ThreadEcho -----------------------------
(***************************************************************************)
(* The echo server with a thread per connection (homework3/server.cpp).    *)
(* main keeps one struct c_info on its stack; for each connection it       *)
(* overwrites the fields and passes the struct's address to a new thread,  *)
(* which copies it (start) and then serves the connection (process).       *)
(* Nothing orders the copy before main's next assignments: the two race,   *)
(* field by field.                                                         *)
(*                                                                         *)
(* The descriptor table is shared.  A field of a c_info is represented by  *)
(* the connection it was filled in for, except connfd, a number of the     *)
(* table, of which both are kept.                                          *)
(***************************************************************************)
EXTENDS Naturals

CONSTANTS
  NConns,      \* number of clients that connect (bound)
  NFds,        \* descriptors left for connections
  Leaves       \* how clients end: a subset of {"closed", "reset"}

ASSUME ThreadEchoAssumption ==
  /\ NConns \in Nat /\ NFds \in Nat
  /\ Leaves \subseteq {"closed", "reset"}

Conns == 1..NConns     \* connections, and the threads created for them
Fds == 1..NFds
Fields == {"connfd", "msg"}     \* the other fields race as msg does
Unset == 0

VARIABLES
  alive,       \* the process has not been killed by SIGPIPE
  main,        \* where main is in its loop
  last,        \* the connection accepted last
  fdt,         \* descriptor -> connection, Unset when free
  cinfo,       \* main's struct: field -> connection
  accepted,    \* the number that accept returned for each connection
  at,          \* per thread: where it is in start and process; "failed": not created
  copy,        \* per thread: its own c_info
  client       \* per client: "away", "open", "closed" or "reset"

vars == <<alive, main, last, fdt, cinfo, accepted, at, copy, client>>

TypeOK ==
  /\ alive \in BOOLEAN
  /\ main \in {"accept", "connfd", "msg", "create"}
  /\ last \in 0..NConns
  /\ fdt \in [Fds -> Conns \cup {Unset}]
  /\ cinfo \in [Fields -> Conns \cup {Unset}]
  /\ accepted \in [Conns -> Fds \cup {Unset}]
  /\ at \in [Conns -> {"none", "failed", "copy", "name", "welcome", "loop", "echo", "close",
                       "closeagain", "done", "returned"}]
  /\ copy \in [Conns -> [Fields -> Conns \cup {Unset}]]
  /\ client \in [Conns -> {"away", "open", "closed", "reset"}]

Init ==
  /\ alive = TRUE
  /\ main = "accept"
  /\ last = 0
  /\ fdt = [f \in Fds |-> Unset]
  /\ cinfo = [x \in Fields |-> Unset]
  /\ accepted = [c \in Conns |-> Unset]
  /\ at = [c \in Conns |-> "none"]
  /\ copy = [c \in Conns |-> [x \in Fields |-> Unset]]
  /\ client = [c \in Conns |-> "away"]

-----------------------------------------------------------------------------
(* accept fails when the table is full, and main tries again: no step.     *)
Accept ==
  /\ alive /\ main = "accept" /\ last < NConns
  /\ \E f \in Fds :
       /\ fdt[f] = Unset /\ \A g \in Fds : fdt[g] = Unset => f <= g
       /\ fdt' = [fdt EXCEPT ![f] = last + 1]
       /\ accepted' = [accepted EXCEPT ![last + 1] = f]
  /\ last' = last + 1
  /\ client' = [client EXCEPT ![last + 1] = "open"]
  /\ main' = "connfd"
  /\ UNCHANGED <<alive, cinfo, at, copy>>

(* Faulty: one message buffer for all clients.                             *)
AssignOnce ==
  /\ alive
  /\ main \in Fields
  /\ cinfo' = IF main = "msg" /\ cinfo["msg"] # Unset THEN cinfo
              ELSE [cinfo EXCEPT ![main] = last]
  /\ main' = IF main = "connfd" THEN "msg" ELSE "create"
  /\ UNCHANGED <<alive, last, fdt, accepted, at, copy, client>>

(* cinfo.connfd = connfd; cinfo.msg = new char[MAXMESSAGESIZE]             *)
Assign ==
  /\ alive
  /\ main \in Fields
  /\ cinfo' = [cinfo EXCEPT ![main] = last]
  /\ main' = IF main = "connfd" THEN "msg" ELSE "create"
  /\ UNCHANGED <<alive, last, fdt, accepted, at, copy, client>>

(* Faulty: closes the connection in main, as after a fork.                 *)
CreateThenClose ==
  /\ alive /\ main = "create"
  /\ at' = [at EXCEPT ![last] = "copy"]
  /\ main' = "accept"
  /\ fdt' = [fdt EXCEPT ![accepted[last]] = Unset]
  /\ UNCHANGED <<alive, last, cinfo, accepted, copy, client>>

(* pthread_create(&tid, NULL, &start, &cinfo).  It may fail at any time,   *)
(* and does at last: no thread is detached or joined.  It then returns a   *)
(* positive number, which main's test (< 0) takes for success.             *)
Create ==
  /\ alive /\ main = "create"
  /\ \E r \in {"copy", "failed"} : at' = [at EXCEPT ![last] = r]
  /\ main' = "accept"
  /\ UNCHANGED <<alive, last, fdt, cinfo, accepted, copy, client>>

(* struct c_info cinfo = *arg, one field at a time, in any order.          *)
Copy(t) ==
  /\ alive /\ at[t] = "copy"
  /\ \E x \in Fields :
       /\ copy[t][x] = Unset
       /\ copy' = [copy EXCEPT ![t][x] = cinfo[x]]
  /\ at' = IF \A x \in Fields : copy'[t][x] # Unset
           THEN [at EXCEPT ![t] = "name"] ELSE at
  /\ UNCHANGED <<alive, main, last, fdt, cinfo, accepted, client>>

(* The descriptor of thread t, and the connection it denotes now.          *)
Fd(t) == accepted[copy[t]["connfd"]]
Peer(t) == fdt[Fd(t)]

Goto(t, from, to) == alive /\ at[t] = from /\ at' = [at EXCEPT ![t] = to]

RecvFails(t) == Peer(t) # Unset => client[Peer(t)] = "reset"
RecvData(t) == Peer(t) # Unset /\ client[Peer(t)] = "open"
RecvEnd(t) == Peer(t) # Unset /\ client[Peer(t)] = "closed"

(* The name: the end of the stream counts as a name, and after an error    *)
(* process returns without closing.                                        *)
Name(t) ==
  /\ \/ Goto(t, "name", "returned") /\ RecvFails(t)
     \/ Goto(t, "name", "welcome") /\ ~RecvFails(t)
  /\ UNCHANGED <<alive, main, last, fdt, cinfo, accepted, copy, client>>

(* Faulty: only an error ends the loop.                                    *)
ReceiveForever(t) ==
  /\ \/ Goto(t, "loop", "echo") /\ (RecvData(t) \/ RecvEnd(t))
     \/ Goto(t, "loop", "closeagain") /\ RecvFails(t)
  /\ UNCHANGED <<alive, main, last, fdt, cinfo, accepted, copy, client>>

(* Faulty: returns at the end of the stream.                               *)
ReceiveReturns(t) ==
  /\ \/ Goto(t, "loop", "echo") /\ RecvData(t)
     \/ Goto(t, "loop", "done") /\ RecvEnd(t)
     \/ Goto(t, "loop", "closeagain") /\ RecvFails(t)
  /\ UNCHANGED <<alive, main, last, fdt, cinfo, accepted, copy, client>>

(* A message, the end of the stream, or an error.                          *)
Receive(t) ==
  /\ \/ Goto(t, "loop", "echo") /\ RecvData(t)
     \/ Goto(t, "loop", "close") /\ RecvEnd(t)
     \/ Goto(t, "loop", "closeagain") /\ RecvFails(t)
  /\ UNCHANGED <<alive, main, last, fdt, cinfo, accepted, copy, client>>

(* send, in process: it succeeds while the client is there.  When it is    *)
(* gone it may succeed, fail, or raise SIGPIPE, which nothing ignores.     *)
SendFails(t) == Peer(t) # Unset => client[Peer(t)] # "open"
Send(t) ==
  /\ \/ /\ Goto(t, "welcome", "loop") \/ Goto(t, "echo", "loop")
        /\ Peer(t) # Unset
        /\ UNCHANGED alive
     \/ /\ Goto(t, "welcome", "returned") \/ Goto(t, "echo", "closeagain")
        /\ SendFails(t)
        /\ UNCHANGED alive
     \/ /\ alive /\ at[t] \in {"welcome", "echo"}
        /\ Peer(t) # Unset /\ SendFails(t)
        /\ alive' = FALSE
        /\ UNCHANGED at
  /\ UNCHANGED <<main, last, fdt, cinfo, accepted, copy, client>>

(* close(connfd): in the loop at the end of the stream, and after it.      *)
Close(t) ==
  /\ \/ Goto(t, "close", "closeagain")
     \/ Goto(t, "closeagain", "done")
  /\ fdt' = [fdt EXCEPT ![Fd(t)] = Unset]
  /\ UNCHANGED <<alive, main, last, cinfo, accepted, copy, client>>

Process(t) == Copy(t) \/ Name(t) \/ Receive(t) \/ Send(t) \/ Close(t)

(* A client closes its side or resets the connection.                      *)
Leave(c) ==
  /\ alive /\ client[c] = "open"
  /\ \E how \in Leaves : client' = [client EXCEPT ![c] = how]
  /\ UNCHANGED <<alive, main, last, fdt, cinfo, accepted, at, copy>>

Next ==
  \/ Accept \/ Assign \/ Create
  \/ \E c \in Conns : Process(c) \/ Leave(c)

Spec == Init /\ [][Next]_vars

(* The threads run, and every client leaves at last.                       *)
FairSpec == /\ Spec
            /\ WF_vars(Assign \/ Create)
            /\ \A c \in Conns : WF_vars(Process(c)) /\ WF_vars(Leave(c))

-----------------------------------------------------------------------------
Copied(t) == at[t] \notin {"none", "failed", "copy"}

(* The race has one direction: a thread may see the fields of clients that *)
(* came after its own, never of one that came before.                      *)
NeverEarlier == \A t \in Conns, x \in Fields : copy[t][x] # Unset => copy[t][x] >= t

Over(t) == at[t] \in {"done", "returned"}

(* Every thread comes to its end once the clients have left.               *)
ThreadsEnd == \A t \in Conns : at[t] = "copy" ~> Over(t) \/ ~alive

(* "allocate a separated space for thread": a thread serves the client it  *)
(* was created for, with its own descriptor and message buffer.            *)
PrivateInfo == \A t \in Conns : Copied(t) => copy[t] = [x \in Fields |-> t]

IsOpen(c) == \E f \in Fds : fdt[f] = c

(* process closes connfd twice after the end of the stream, and between    *)
(* the two accept may give the number to a new client ("Connection will    *)
(* close immediately" is meant for the one from which no information       *)
(* came).  That is the only way a client that has not left loses its       *)
(* connection: to another thread that has used the same number.            *)
LostToTwin ==
  \A c \in Conns : alive /\ c <= last /\ client[c] = "open" /\ ~IsOpen(c) =>
    \E t \in Conns \ {c} : /\ at[t] \in {"closeagain", "done"}
                          /\ Fd(t) = accepted[c]

(* When all threads have ended, a connection is still open for one of      *)
(* three reasons only.  process returned without closing it, after the     *)
(* receive of the name or the send of the welcome failed.  Or no thread    *)
(* has its number: its own was never created, although main goes on as if  *)
(* it were, or took the number of a later client, in the race for cinfo.   *)
LeaksForCause ==
  \A c \in 1..last :
    /\ alive /\ main = "accept" /\ IsOpen(c)
    /\ \A t \in 1..last : Over(t) \/ at[t] = "failed"
    => \/ \E t \in 1..last : at[t] = "returned" /\ copy[t]["connfd"] = c
       \/ /\ \A t \in 1..last : copy[t]["connfd"] # c
          /\ at[c] = "failed" \/ copy[c]["connfd"] > c
=============================================================================
