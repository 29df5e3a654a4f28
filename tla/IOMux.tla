------------------------------- MODULE IOMux --------------------------------
(***************************************************************************)
(* The select web server (IOmultiplexing_server.c): one thread that waits  *)
(* with select for its listening descriptor and the descriptors of its     *)
(* pool, adds the client it accepts to the pool, and then serves the       *)
(* clients select found ready, one after the other: doit, and after it     *)
(* one more line from the client, or the end of its stream.                *)
(*                                                                         *)
(* Every read blocks, and every reader is a rio_t of its own: doit's, and  *)
(* a copy of the pool's that is thrown away.  So this module keeps, for    *)
(* each connection, the lines its client has sent and the kernel holds,    *)
(* and for the running function the lines its rio_t has taken from them.   *)
(* Lines are those of module Request; files are assumed to be there, not   *)
(* empty, and not to change (what else they cause is in Request).          *)
(***************************************************************************)
EXTENDS Integers, Sequences, FiniteSets

CONSTANTS
  NConns,      \* number of clients that connect (bound)
  NSlots,      \* FD_SETSIZE: the slots of the pool, and the bits of an fd_set
  Listen,      \* listenfd: the first descriptor that was free at the start
  NFiles,      \* descriptors the system allows the process
  Streams      \* what the clients may send before they close: functions from
               \* connections to sequences of lines

Gets == {"static", "dynamic"}
Lines == Gets \cup {"other", "header", "blank"}

ASSUME IOMuxAssumption ==
  /\ NConns \in Nat /\ NFiles \in Nat
  /\ NSlots \in Nat /\ Listen \in Nat /\ Listen < NSlots
  /\ Streams \subseteq [1..NConns -> Seq(Lines)]

Conns == 1..NConns
Slots == 0..(NSlots - 1)
Fds == (Listen + 1)..(NFiles - 1)
Watchable == {f \in Fds : f < NSlots}    \* those an fd_set has a bit for
None == -1               \* an empty slot; a free entry of the table

VARIABLES
  stream,      \* per connection: all its client sends
  unsent,      \* per connection: what its client has not sent yet
  net,         \* per connection: what the kernel holds of it
  client,      \* per connection: "away", "open" or "closed"
  next,        \* the next connection to accept
  fdt,         \* the descriptor table
  clientfd, maxi, read_set, ready_set, nready,     \* pool
  at, i,       \* where the server is, and the slot check_clients is at
  rio,         \* lines that doit's rio_t has read and doit has not
  req, hdr,    \* doit's method; whether read_requesthdrs's buf is blank
  replies      \* per connection: the replies written

clientVars == <<stream, unsent, client>>
pool == <<clientfd, maxi, read_set>>
vars == <<clientVars, net, next, fdt, pool, ready_set, nready, at, i, rio, req, hdr, replies>>

TypeOK ==
  /\ stream \in Streams
  /\ unsent \in [Conns -> Seq(Lines)] /\ net \in [Conns -> Seq(Lines)]
  /\ client \in [Conns -> {"away", "open", "closed"}]
  /\ next \in 1..(NConns + 1)
  /\ fdt \in [Fds -> Conns \cup {None}]
  /\ clientfd \in [Slots -> Fds \cup {None}]
  /\ maxi \in Slots \cup {-1}
  /\ read_set \subseteq Fds \cup {Listen} /\ ready_set \subseteq Fds \cup {Listen}
  /\ nready \in 0..(Cardinality(Watchable) + 1)
  /\ at \in {"select", "accept", "check", "line", "firsthdr", "hdrs", "reply", "after",
             "full", "overrun", "killed", "read error", "no child"}
  /\ i \in 0..NSlots
  /\ rio \in Seq(Lines)
  /\ req \in Gets \cup {"other"} /\ hdr \in {"header", "blank"}
  /\ replies \in [Conns -> Seq({"page", "501"})]

(* main, up to init_pool.                                                  *)
Init ==
  /\ stream \in Streams /\ unsent = stream
  /\ net = [c \in Conns |-> << >>]
  /\ client = [c \in Conns |-> "away"]
  /\ next = 1
  /\ fdt = [f \in Fds |-> None]
  /\ clientfd = [s \in Slots |-> None] /\ maxi = -1
  /\ read_set = {Listen} /\ ready_set = {} /\ nready = 0
  /\ at = "select" /\ i = 0
  /\ rio = << >> /\ req = "other" /\ hdr = "header"
  /\ replies = [c \in Conns |-> << >>]

-----------------------------------------------------------------------------
Exited == at \in {"full", "overrun", "killed", "read error", "no child"}
Goto(from, to) == at = from /\ at' = to
Exit(why) ==
  /\ at' = why
  /\ UNCHANGED <<clientVars, net, next, fdt, pool, ready_set, nready, i, rio, req, hdr, replies>>

(* The connection being served.                                            *)
Served == fdt[clientfd[i]]
Gone == client[Served] = "closed"

(* What select reports: a client to accept, a line to read, or the end of  *)
(* a stream.                                                               *)
IsReady(f) ==
  IF f = Listen THEN next \in Conns /\ client[next] # "away"
                ELSE net[fdt[f]] # << >> \/ client[fdt[f]] = "closed"

Select ==
  LET ready == {f \in read_set : IsReady(f)}
  IN /\ ready # {}
     /\ Goto("select", IF Listen \in ready THEN "accept" ELSE "check")
     /\ ready_set' = ready
     /\ nready' = Cardinality(ready)
     /\ i' = 0
     /\ UNCHANGED <<clientVars, net, next, fdt, pool, rio, req, hdr, replies>>

(* Faulty: does not take the listening descriptor off nready.             *)
AcceptUncounted ==
  \/ \E f \in Fds, s \in Slots :
       /\ fdt[f] = None /\ \A g \in Fds : fdt[g] = None => f <= g
       /\ f \in Watchable
       /\ clientfd[s] = None /\ \A r \in Slots : clientfd[r] = None => s <= r
       /\ Goto("accept", "check")
       /\ next' = next + 1
       /\ fdt' = [fdt EXCEPT ![f] = next]
       /\ clientfd' = [clientfd EXCEPT ![s] = f]
       /\ maxi' = IF s > maxi THEN s ELSE maxi
       /\ read_set' = read_set \cup {f}
       /\ UNCHANGED <<clientVars, net, ready_set, nready, i, rio, req, hdr, replies>>
  \/ /\ at = "accept"
     /\ \A f \in Watchable : fdt[f] # None
     /\ Exit(IF \E f \in Fds : fdt[f] = None THEN "overrun" ELSE "full")

(* Accept and add_client: the lowest free descriptor, the first free slot. *)
(* Accept exits when the table is full.  FD_SET of a descriptor beyond the *)
(* set is undefined; while it is not, there is a free slot, for there are  *)
(* more of them than bits for clients (EchoSelect's AlwaysASlot, which is  *)
(* proved there), and add_client's own error is never reached.             *)
Accept ==
  \/ \E f \in Fds, s \in Slots :
       /\ fdt[f] = None /\ \A g \in Fds : fdt[g] = None => f <= g
       /\ f \in Watchable
       /\ clientfd[s] = None /\ \A r \in Slots : clientfd[r] = None => s <= r
       /\ Goto("accept", "check")
       /\ next' = next + 1
       /\ fdt' = [fdt EXCEPT ![f] = next]
       /\ clientfd' = [clientfd EXCEPT ![s] = f]
       /\ maxi' = IF s > maxi THEN s ELSE maxi
       /\ read_set' = read_set \cup {f}
       /\ nready' = nready - 1
       /\ UNCHANGED <<clientVars, net, ready_set, i, rio, req, hdr, replies>>
  \/ /\ at = "accept"
     /\ \A f \in Watchable : fdt[f] # None
     /\ Exit(IF \E f \in Fds : fdt[f] = None THEN "overrun" ELSE "full")

(* Faulty: looks at clients that are not ready.                           *)
CheckAll ==
  /\ \/ /\ i > maxi \/ nready = 0
        /\ Goto("check", "select")
        /\ ready_set' = {} /\ nready' = 0 /\ i' = 0
     \/ /\ i <= maxi /\ nready > 0
        /\ IF clientfd[i] # None
           THEN Goto("check", "line") /\ nready' = nready - 1 /\ UNCHANGED i
           ELSE at = "check" /\ i' = i + 1 /\ UNCHANGED <<at, nready>>
        /\ UNCHANGED ready_set
  /\ UNCHANGED <<clientVars, net, next, fdt, pool, rio, req, hdr, replies>>

(* Faulty: i < maxi.                                                      *)
CheckShort ==
  /\ \/ /\ i >= maxi \/ nready = 0
        /\ Goto("check", "select")
        /\ ready_set' = {} /\ nready' = 0 /\ i' = 0
     \/ /\ i < maxi /\ nready > 0
        /\ IF clientfd[i] \in ready_set
           THEN Goto("check", "line") /\ nready' = nready - 1 /\ UNCHANGED i
           ELSE at = "check" /\ i' = i + 1 /\ UNCHANGED <<at, nready>>
        /\ UNCHANGED ready_set
  /\ UNCHANGED <<clientVars, net, next, fdt, pool, rio, req, hdr, replies>>

(* The loop of check_clients.                                              *)
Check ==
  /\ \/ /\ i > maxi \/ nready = 0
        /\ Goto("check", "select")
        /\ ready_set' = {} /\ nready' = 0 /\ i' = 0
     \/ /\ i <= maxi /\ nready > 0
        /\ IF clientfd[i] \in ready_set
           THEN Goto("check", "line") /\ nready' = nready - 1 /\ UNCHANGED i
           ELSE at = "check" /\ i' = i + 1 /\ UNCHANGED <<at, nready>>
        /\ UNCHANGED ready_set
  /\ UNCHANGED <<clientVars, net, next, fdt, pool, rio, req, hdr, replies>>

-----------------------------------------------------------------------------
(* Rio_readlineb with doit's rio_t.  It takes all that the kernel holds;   *)
(* it waits while there is nothing; at the end of the stream it leaves the *)
(* caller's buffer as it was.                                              *)
ReadLine(l) ==
  LET avail == IF rio = << >> THEN net[Served] ELSE rio
  IN /\ avail # << >>
     /\ l = Head(avail) /\ rio' = Tail(avail)
     /\ net' = IF rio = << >> THEN [net EXCEPT ![Served] = << >>] ELSE net
AtEnd == rio = << >> /\ net[Served] = << >> /\ Gone

(* The method sscanf finds: in an empty line, or at the end of the stream, *)
(* none, and doit goes by what the stack held before.                      *)
Parse(l) == CASE l \in Gets -> {l}
              [] l \in {"other", "header"} -> {"other"}
              [] l = "blank" -> Gets \cup {"other"}

DoitLine ==
  /\ at = "line"
  /\ \/ \E l \in Lines : ReadLine(l) /\ req' \in Parse(l)
     \/ AtEnd /\ req' \in Gets \cup {"other"} /\ UNCHANGED <<rio, net>>
  /\ at' = IF req' = "other" THEN "reply" ELSE "firsthdr"
  /\ UNCHANGED <<clientVars, next, fdt, pool, ready_set, nready, i, hdr, replies>>

(* Faulty: compares with another end of line.                             *)
KindNever(l) == "header"

Kind(l) == IF l = "blank" THEN "blank" ELSE "header"

(* read_requesthdrs                                                        *)
DoitHdrs ==
  /\ \/ /\ Goto("firsthdr", "hdrs")
        /\ \/ \E l \in Lines : ReadLine(l) /\ hdr' = Kind(l)
           \/ AtEnd /\ hdr' \in {"header", "blank"} /\ UNCHANGED <<rio, net>>
     \/ /\ Goto("hdrs", "hdrs") /\ hdr # "blank"
        /\ \/ \E l \in Lines : ReadLine(l) /\ hdr' = Kind(l)
           \/ AtEnd /\ UNCHANGED <<rio, net, hdr>>
     \/ Goto("hdrs", "reply") /\ hdr = "blank" /\ UNCHANGED <<rio, net, hdr>>
  /\ UNCHANGED <<clientVars, next, fdt, pool, ready_set, nready, i, req, replies>>

(* Faulty: keeps its rio_t for the next request.                          *)
DoitReplyKeeps ==
  \/ /\ Goto("reply", "after")
     /\ replies' = [replies EXCEPT ![Served] =
                      Append(@, IF req = "other" THEN "501" ELSE "page")]
     /\ req' = "other" /\ hdr' = "header"
     /\ UNCHANGED <<clientVars, net, next, fdt, pool, ready_set, nready, i, rio>>
  \/ at = "reply" /\ Gone /\ Exit("killed")
  \/ at = "reply" /\ req = "dynamic" /\ Exit("no child")

(* clienterror, serve_static or serve_dynamic; doit returns, and what its  *)
(* rio_t holds is lost.  Writing to a client that has gone may raise       *)
(* SIGPIPE, which this server does not ignore; the SIGCHLD handler may     *)
(* reap the child before Wait(NULL).                                       *)
DoitReply ==
  \/ /\ Goto("reply", "after")
     /\ replies' = [replies EXCEPT ![Served] =
                      Append(@, IF req = "other" THEN "501" ELSE "page")]
     /\ rio' = << >> /\ req' = "other" /\ hdr' = "header"
     /\ UNCHANGED <<clientVars, net, next, fdt, pool, ready_set, nready, i>>
  \/ at = "reply" /\ Gone /\ Exit("killed")
  \/ at = "reply" /\ req = "dynamic" /\ Exit("no child")

(* A client that has gone may have reset the connection.                   *)
ReadFails ==
  /\ at \in {"line", "firsthdr", "after"} \/ (at = "hdrs" /\ hdr # "blank")
  /\ rio = << >> /\ Gone
  /\ Exit("read error")

(* Faulty: does not clear the bit in read_set.                            *)
AfterKeepsBit ==
  /\ Goto("after", "check")
  /\ i' = i + 1
  /\ \/ /\ net[Served] # << >>
        /\ net' = [net EXCEPT ![Served] = << >>]
        /\ UNCHANGED <<fdt, pool>>
     \/ /\ net[Served] = << >> /\ Gone
        /\ fdt' = [fdt EXCEPT ![clientfd[i]] = None]
        /\ clientfd' = [clientfd EXCEPT ![i] = None]
        /\ UNCHANGED <<maxi, read_set, net>>
  /\ UNCHANGED <<clientVars, next, ready_set, nready, rio, req, hdr, replies>>

(* check_clients, after doit: one more line from the client, with a copy   *)
(* of the pool's rio_t, which takes all that the kernel holds and is       *)
(* thrown away; or the end of the stream, and the client is removed.       *)
After ==
  /\ Goto("after", "check")
  /\ i' = i + 1
  /\ \/ /\ net[Served] # << >>
        /\ net' = [net EXCEPT ![Served] = << >>]
        /\ UNCHANGED <<fdt, pool>>
     \/ /\ net[Served] = << >> /\ Gone
        /\ fdt' = [fdt EXCEPT ![clientfd[i]] = None]
        /\ read_set' = read_set \ {clientfd[i]}
        /\ clientfd' = [clientfd EXCEPT ![i] = None]
        /\ UNCHANGED <<maxi, net>>
  /\ UNCHANGED <<clientVars, next, ready_set, nready, rio, req, hdr, replies>>

Server == Select \/ Accept \/ Check \/ DoitLine \/ DoitHdrs \/ DoitReply \/ ReadFails \/ After

-----------------------------------------------------------------------------
(* Clients connect in order, send their lines and close.                   *)
Connect(c) ==
  /\ client[c] = "away" /\ \A d \in Conns : d < c => client[d] # "away"
  /\ client' = [client EXCEPT ![c] = "open"]
  /\ UNCHANGED <<stream, unsent, net>>

Send(c) ==
  /\ client[c] = "open" /\ unsent[c] # << >>
  /\ net' = [net EXCEPT ![c] = Append(@, Head(unsent[c]))]
  /\ unsent' = [unsent EXCEPT ![c] = Tail(@)]
  /\ UNCHANGED <<stream, client>>

Leave(c) ==
  /\ client[c] = "open" /\ unsent[c] = << >>
  /\ client' = [client EXCEPT ![c] = "closed"]
  /\ UNCHANGED <<stream, unsent, net>>

Client(c) ==
  /\ ~Exited
  /\ Connect(c) \/ Send(c) \/ Leave(c)
  /\ UNCHANGED <<next, fdt, pool, ready_set, nready, at, i, rio, req, hdr, replies>>

Next == Server \/ \E c \in Conns : Client(c)

Spec == Init /\ [][Next]_vars
(* The server runs, and every client sends its lines and leaves: while it  *)
(* stays, the server waits for it and serves nobody.                       *)
FairSpec == Spec /\ WF_vars(Server) /\ \A c \in Conns : WF_vars(Client(c))
-----------------------------------------------------------------------------
(* The pool, the descriptor set and the descriptor table agree: every      *)
(* accepted connection that is open is in exactly one slot, within maxi,   *)
(* and select watches it; no slot holds a number that was closed.          *)
PoolMatchesTable ==
  /\ {clientfd[s] : s \in Slots} \ {None} = {f \in Fds : fdt[f] # None}
  /\ read_set \ {Listen} = {f \in Fds : fdt[f] # None}
  /\ \A s \in Slots : clientfd[s] # None =>
       s <= maxi /\ \A r \in Slots : clientfd[r] = clientfd[s] => r = s

(* What select said of a descriptor is still true when check_clients comes *)
(* to it, although others were accepted, served and closed in between:     *)
(* doit's first read does not wait.                                        *)
ReadyWhenServed == at = "line" => IsReady(clientfd[i])

(* nready counts the ready clients ahead of the loop, so that the loop's   *)
(* early end (nready > 0) skips none of them.                              *)
NoneSkipped ==
  at = "check" =>
    nready = Cardinality({f \in ready_set \ {Listen} :
                            \E s \in Slots : s >= i /\ clientfd[s] = f})

(* The client's first line names a method.                                 *)
Asks(c) == stream[c] # << >> /\ Head(stream[c]) # "blank"

(* The first reply to a client is the one its request line deserves, in    *)
(* whatever pieces its lines arrive and whatever the others send.          *)
RightFirstReply ==
  \A c \in Conns : Asks(c) /\ replies[c] # << >> =>
    Head(replies[c]) = IF Head(stream[c]) \in Gets THEN "page" ELSE "501"

(* A GET request with its headers and nothing after them, or a single line *)
(* with another method.                                                    *)
Clean(c) ==
  /\ Asks(c)
  /\ IF Head(stream[c]) \in Gets
     THEN {k \in DOMAIN stream[c] : stream[c][k] = "blank"} = {Len(stream[c])}
     ELSE Len(stream[c]) = 1

(* read_requesthdrs loops at the end of the stream for ever.               *)
Hung == at = "hdrs" /\ hdr # "blank" /\ AtEnd

(* Only a client that sends less or more than one clean request hangs the  *)
(* server: less, inside the headers; more, because the lines lost between  *)
(* the readers make doit take a header or an empty line for a request.     *)
HangsForCause == Hung => ~Clean(Served)

(* Every client that connects is served until its connection is closed,    *)
(* if all clients leave at last, unless the server exits or hangs.         *)
ClosedByServer(c) == c < next /\ \A f \in Fds : fdt[f] # c
EveryClientEnds == \A c \in Conns : client[c] # "away" ~> ClosedByServer(c) \/ Exited \/ Hung
=============================================================================
