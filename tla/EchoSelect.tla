----------------------------- MODULE EchoSelect -----------------------------
(***************************************************************************)
(* The select echo server (homework4/server.cpp) and its clients           *)
(* (homework4/client.cpp).  A client sends its name, waits for the         *)
(* welcome, and then sends one message at a time and waits for its echo.   *)
(* The server keeps its clients in an array of slots.                      *)
(*                                                                         *)
(* main never initialises maxi, the last slot its loop looks at.  Whatever *)
(* the stack held is a possible first value: Init chooses it below, in or  *)
(* beyond the array.  It also chooses the limit on the process's           *)
(* descriptors.                                                            *)
(*                                                                         *)
(* FD_SETSIZE is both the length of the array and the end of an fd_set,    *)
(* and accept returns what the process's limit allows: FD_SET of a number  *)
(* beyond the set is undefined, and so is a slot beyond the array.         *)
(***************************************************************************)
EXTENDS Integers, FiniteSets

CONSTANTS
  NConns,      \* number of clients that connect (bound)
  NSlots,      \* FD_SETSIZE: the length of clients, and of an fd_set
  Listen,      \* listenfd: the first descriptor that was free at the start
  NFiles,      \* descriptors of the model (bound)
  Limits,      \* how many of them the system may allow the process
  NMsgs        \* what a client sends, its name included (bound)

ASSUME EchoSelectAssumption ==
  /\ NConns \in Nat /\ NFiles \in Nat /\ NMsgs \in Nat \ {0}
  /\ Limits \subseteq 0..NFiles
  /\ NSlots \in Nat /\ Listen \in Nat /\ Listen < NSlots

Conns == 1..NConns
Slots == 0..(NSlots - 1)
Fds == (Listen + 1)..(NFiles - 1)
Watchable == {f \in Fds : f < NSlots}    \* those an fd_set has a bit for
None == -1               \* an empty slot; a free entry of the table
Denied == -2             \* an entry that the process's limit rules out

VARIABLES
  client,      \* per connection: "away", "open", "closed" or "reset"
  sent, answered,        \* per client: messages sent, and answered
  arrived,     \* connections with a message that the server has not read
  next,        \* the next connection to accept
  fdt,         \* the descriptor table
  connfd, firstconn,     \* per slot: clients[i].connfd, clients[i].firstconn
  allset, rset, nready, maxi, i,
  at           \* where main is

clientVars == <<client, sent>>
table == <<fdt, connfd, allset>>
vars == <<clientVars, answered, arrived, next, table, firstconn, rset, nready, maxi, i, at>>

TypeOK ==
  /\ client \in [Conns -> {"away", "open", "closed", "reset"}]
  /\ sent \in [Conns -> 0..NMsgs] /\ answered \in [Conns -> 0..NMsgs]
  /\ arrived \subseteq Conns
  /\ next \in 1..(NConns + 1)
  /\ fdt \in [Fds -> Conns \cup {None, Denied}]
  /\ connfd \in [Slots -> Fds \cup {None}]
  /\ firstconn \in [Slots -> BOOLEAN]
  /\ allset \subseteq Watchable \cup {Listen} /\ rset \subseteq Watchable \cup {Listen}
  /\ nready \in 0..(Cardinality(Watchable) + 1)
  /\ maxi \in -1..NSlots /\ i \in 0..(NSlots + 1)
  /\ at \in {"select", "accept", "loop", "killed", "overrun", "outside"}

Init ==
  /\ client = [c \in Conns |-> "away"]
  /\ sent = [c \in Conns |-> 0] /\ answered = [c \in Conns |-> 0]
  /\ arrived = {}
  /\ next = 1
  /\ \E limit \in Limits : fdt = [f \in Fds |-> IF f < limit THEN None ELSE Denied]
  /\ connfd = [s \in Slots |-> None]
  /\ firstconn = [s \in Slots |-> FALSE]
  /\ allset = {Listen} /\ rset = {} /\ nready = 0
  /\ maxi \in -1..NSlots /\ i = 0
  /\ at = "select"

-----------------------------------------------------------------------------
Goto(from, to) == at = from /\ at' = to

(* Back to select: what is left of this round is dead.                     *)
BackToSelect == at' = "select" /\ rset' = {} /\ nready' = 0 /\ i' = 0

Waiting == next \in Conns /\ client[next] # "away"      \* a client to accept
IsReady(f) ==
  IF f = Listen THEN Waiting
  ELSE fdt[f] \in arrived \/ client[fdt[f]] \in {"closed", "reset"}

(* Faulty: takes allset for what select returns.                          *)
SelectAll ==
  LET ready == {f \in allset : IsReady(f)}
  IN /\ ready # {}
     /\ Goto("select", IF Listen \in ready THEN "accept" ELSE "loop")
     /\ rset' = allset /\ nready' = Cardinality(ready) /\ i' = 0
     /\ UNCHANGED <<clientVars, answered, arrived, next, table, firstconn, maxi>>

Select ==
  LET ready == {f \in allset : IsReady(f)}
  IN /\ ready # {}
     /\ Goto("select", IF Listen \in ready THEN "accept" ELSE "loop")
     /\ rset' = ready /\ nready' = Cardinality(ready) /\ i' = 0
     /\ UNCHANGED <<clientVars, answered, arrived, next, table, firstconn, maxi>>

LowestFree(f) == fdt[f] = None /\ \A g \in Fds : fdt[g] = None => f <= g
TableFull == \A f \in Fds : fdt[f] # None

(* Where main's search for an empty slot ends; at FD_SETSIZE it has found  *)
(* none ("too many clients").                                              *)
FirstEmpty(s) == /\ s \in Slots => connfd[s] = None
                 /\ \A r \in Slots : r < s => connfd[r] # None

ToLoop == at' = "loop" /\ nready' = nready - 1 /\ UNCHANGED <<rset, i>>

(* Faulty: does not watch the descriptor.                                 *)
AcceptUnwatched ==
  /\ at = "accept"
  /\ \/ \E f \in Fds, s \in 0..NSlots :
          /\ LowestFree(f) /\ FirstEmpty(s) /\ f \in Watchable
          /\ fdt' = [fdt EXCEPT ![f] = next]
          /\ next' = next + 1
          /\ UNCHANGED allset
          /\ connfd' = [r \in Slots |-> IF r = s THEN f ELSE connfd[r]]
          /\ firstconn' = [r \in Slots |-> r = s \/ firstconn[r]]
          /\ maxi' = IF s > maxi THEN s ELSE maxi
          /\ IF nready > 1 THEN ToLoop ELSE BackToSelect
     \/ \E f \in Fds \ Watchable :
          /\ LowestFree(f)
          /\ at' = "overrun"
          /\ UNCHANGED <<next, table, firstconn, maxi, rset, nready, i>>
     \/ TableFull /\ BackToSelect /\ UNCHANGED <<next, table, firstconn, maxi>>
  /\ UNCHANGED <<clientVars, answered, arrived>>

(* Faulty: the search does not break, and fills every empty slot.          *)
AcceptNoBreak ==
  /\ at = "accept"
  /\ \/ \E f \in Fds :
          /\ LowestFree(f) /\ f \in Watchable
          /\ fdt' = [fdt EXCEPT ![f] = next]
          /\ next' = next + 1
          /\ allset' = allset \cup {f}
          /\ connfd' = [r \in Slots |-> IF connfd[r] = None THEN f ELSE connfd[r]]
          /\ firstconn' = [r \in Slots |-> connfd[r] = None \/ firstconn[r]]
          /\ maxi' = NSlots
          /\ IF nready > 1 THEN ToLoop ELSE BackToSelect
     \/ \E f \in Fds \ Watchable :
          /\ LowestFree(f)
          /\ at' = "overrun"
          /\ UNCHANGED <<next, table, firstconn, maxi, rset, nready, i>>
     \/ TableFull /\ BackToSelect /\ UNCHANGED <<next, table, firstconn, maxi>>
  /\ UNCHANGED <<clientVars, answered, arrived>>

(* accept gives the client the lowest free descriptor, and main the first  *)
(* empty slot.  FD_SET takes main out of what is defined when the number   *)
(* is beyond the set.  Without a descriptor main goes back to select.      *)
Accept ==
  /\ at = "accept"
  /\ \/ \E f \in Fds, s \in 0..NSlots :
          /\ LowestFree(f) /\ FirstEmpty(s) /\ f \in Watchable
          /\ fdt' = [fdt EXCEPT ![f] = next]
          /\ next' = next + 1
          /\ allset' = allset \cup {f}
          /\ connfd' = [r \in Slots |-> IF r = s THEN f ELSE connfd[r]]
          /\ firstconn' = [r \in Slots |-> r = s \/ firstconn[r]]
          /\ maxi' = IF s > maxi THEN s ELSE maxi
          /\ IF nready > 1 THEN ToLoop ELSE BackToSelect
     \/ \E f \in Fds \ Watchable :
          /\ LowestFree(f)
          /\ at' = "overrun"
          /\ UNCHANGED <<next, table, firstconn, maxi, rset, nready, i>>
     \/ TableFull /\ BackToSelect /\ UNCHANGED <<next, table, firstconn, maxi>>
  /\ UNCHANGED <<clientVars, answered, arrived>>

-----------------------------------------------------------------------------
InArray == i \in Slots
Ready == /\ at = "loop" /\ InArray /\ i <= maxi
         /\ connfd[i] # None /\ connfd[i] \in rset
Served == fdt[connfd[i]]
Gone == client[Served] # "open"

(* The loop passes slots that are empty or not ready, and ends.  What the  *)
(* program does after it has read clients[i] beyond the array is undefined.*)
Pass ==
  /\ at = "loop"
  /\ \/ i > maxi /\ BackToSelect
     \/ /\ i <= maxi /\ ~Ready
        /\ at' = IF InArray THEN "loop" ELSE "outside"
        /\ i' = i + 1
        /\ UNCHANGED <<rset, nready>>
  /\ UNCHANGED <<clientVars, answered, arrived, next, table, firstconn, maxi>>

(* Faulty: does not look at nready.                                       *)
AdvanceOn == i' = i + 1 /\ UNCHANGED <<at, rset, nready>>

(* if (--nready <= 0) break;                                               *)
Advance ==
  IF nready > 1 THEN nready' = nready - 1 /\ i' = i + 1 /\ UNCHANGED <<at, rset>>
                ELSE BackToSelect

(* Faulty: does not clear the bit in allset.                              *)
CloseCliKeepsBit ==
  /\ connfd' = [connfd EXCEPT ![i] = None]
  /\ arrived' = arrived \ {Served}
  /\ UNCHANGED <<answered, allset, firstconn>>

(* close_cli: the slot is emptied, and select no longer watches the        *)
(* descriptor, which stays open.                                           *)
CloseCli ==
  /\ allset' = allset \ {connfd[i]}
  /\ connfd' = [connfd EXCEPT ![i] = None]
  /\ arrived' = arrived \ {Served}
  /\ UNCHANGED <<answered, firstconn>>

(* A chunk is read and answered.  While the client is there, send works;   *)
(* when it has gone, send may work all the same.                           *)
Answer ==
  /\ answered' = IF Gone THEN answered ELSE [answered EXCEPT ![Served] = @ + 1]
  /\ arrived' = arrived \ {Served}
  /\ firstconn' = [firstconn EXCEPT ![i] = FALSE]
  /\ UNCHANGED <<table>>

(* The name.  The end of the stream counts as one.  When recv or send      *)
(* fails, close_cli, and main leaves the loop.                             *)
First ==
  /\ Ready /\ firstconn[i]
  /\ \/ (Served \in arrived \/ client[Served] = "closed") /\ Answer /\ Advance
     \/ Gone /\ CloseCli /\ BackToSelect /\ UNCHANGED fdt
  /\ UNCHANGED <<clientVars, next, maxi>>

(* Faulty: close_cli after every message.                                 *)
ProcessCloses ==
  /\ Ready /\ ~firstconn[i]
  /\ \/ Served \in arrived /\ CloseCli /\ UNCHANGED fdt
     \/ /\ Gone /\ (Served \in arrived \/ client[Served] = "reset")
        /\ CloseCli /\ UNCHANGED fdt
     \/ /\ Served \notin arrived /\ client[Served] = "closed"
        /\ CloseCli /\ fdt' = [fdt EXCEPT ![connfd[i]] = None]
  /\ Advance
  /\ UNCHANGED <<clientVars, next, maxi>>

(* process: a message; an error of recv or send, and close_cli; the end of *)
(* the stream, and close and close_cli.                                    *)
Process ==
  /\ Ready /\ ~firstconn[i]
  /\ \/ Served \in arrived /\ Answer
     \/ /\ Gone /\ (Served \in arrived \/ client[Served] = "reset")
        /\ CloseCli /\ UNCHANGED fdt
     \/ /\ Served \notin arrived /\ client[Served] = "closed"
        /\ CloseCli /\ fdt' = [fdt EXCEPT ![connfd[i]] = None]
  /\ Advance
  /\ UNCHANGED <<clientVars, next, maxi>>

(* A send to a client that has gone may raise SIGPIPE, which the server    *)
(* does not ignore.                                                        *)
Killed ==
  /\ Ready /\ Gone
  /\ Served \in arrived \/ (firstconn[i] /\ client[Served] = "closed")
  /\ at' = "killed"
  /\ UNCHANGED <<clientVars, answered, arrived, next, table, firstconn, rset, nready, maxi, i>>

Server == Select \/ Accept \/ Pass \/ First \/ Process \/ Killed

-----------------------------------------------------------------------------
Connect(c) ==
  /\ client[c] = "away" /\ \A d \in Conns : d < c => client[d] # "away"
  /\ client' = [client EXCEPT ![c] = "open"]
  /\ UNCHANGED <<sent, arrived>>

(* The client sends the next message when it has the answer to the last.   *)
Send(c) ==
  /\ client[c] = "open" /\ sent[c] = answered[c] /\ sent[c] < NMsgs
  /\ sent' = [sent EXCEPT ![c] = @ + 1]
  /\ arrived' = arrived \cup {c}
  /\ UNCHANGED client

Leave(c) ==
  /\ client[c] = "open"
  /\ \/ client' = [client EXCEPT ![c] = "closed"] /\ UNCHANGED arrived
     \/ client' = [client EXCEPT ![c] = "reset"] /\ arrived' \in {arrived, arrived \ {c}}
  /\ UNCHANGED sent

Client(c) ==
  /\ at \notin {"killed", "overrun", "outside"}
  /\ Connect(c) \/ Send(c) \/ Leave(c)
  /\ UNCHANGED <<answered, next, table, firstconn, rset, nready, maxi, i, at>>

Next == Server \/ \E c \in Conns : Client(c)

Spec == Init /\ [][Next]_vars
(* Only the server runs on: a client may stay silent for ever.             *)
FairSpec == Spec /\ WF_vars(Server)
-----------------------------------------------------------------------------
InSlots == {connfd[s] : s \in Slots} \ {None}
OpenFds == {f \in Fds : fdt[f] \in Conns}

(* The slots, the watched descriptors and the descriptor table agree: what *)
(* is in a slot is watched and the other way round, and open; no two slots *)
(* share a number.                                                         *)
SlotsMatch ==
  /\ InSlots = allset \ {Listen}
  /\ InSlots \subseteq OpenFds
  /\ \A r, s \in Slots : connfd[r] = connfd[s] /\ connfd[r] # None => r = s

(* An error of recv or send leaks the descriptor, and only a client that   *)
(* has gone causes one: no client that stays loses its slot.               *)
LeaksForCause == \A f \in OpenFds \ InSlots : client[fdt[f]] # "open"

(* main always finds a slot ("too many clients" is never printed): there   *)
(* are as many as an fd_set has bits, and the first bits are not clients'. *)
(* At the limit it is FD_SET that goes wrong, and it does so first.        *)
AlwaysASlot == at = "accept" => \E s \in Slots : connfd[s] = None

(* main never initialises maxi, the end of its loop.  Yet the loop never   *)
(* reads beyond the array: whom select reported is found before its end,   *)
(* and nready ends the loop there.                                         *)
HarmlessMaxi == at # "outside"

(* recv waits for no client: what select said of a descriptor still holds  *)
(* when the loop comes to its slot.                                        *)
NeverBlocks == Ready => IsReady(connfd[i])

(* With the table full and a client in the backlog, accept fails, and the  *)
(* server goes from select to accept and back for ever and serves nobody.  *)
Starved == TableFull /\ Waiting

(* Every message of a client is answered, unless the client goes, or the   *)
(* server is starved, was killed, or had to watch a descriptor that is     *)
(* beyond the set.                                                         *)
EveryMessageAnswered ==
  \A c \in Conns : sent[c] > answered[c] ~>
    \/ sent[c] = answered[c] \/ client[c] # "open" \/ Starved
    \/ at \in {"killed", "overrun"}
=============================================================================
