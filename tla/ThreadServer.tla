----------------------------- MODULE ThreadServer -----------------------------
(***************************************************************************)
(* The web server with a thread per connection (multithread_server.c).     *)
(* main allocates a cell, accepts a connection into it and creates a       *)
(* thread with the cell's address; the thread copies the descriptor, frees *)
(* the cell, serves one request and closes the connection.  There is no    *)
(* bound on the threads but the system's.                                  *)
(*                                                                         *)
(* As in ThreadPool the threads share the descriptor table, the children   *)
(* and the life of the process.  Here the clients' steps are modelled too: *)
(* they may leave at any point, and then the next call on their connection *)
(* may fail, and its wrapper exits the server.                             *)
(***************************************************************************)
EXTENDS Naturals, FiniteSets

CONSTANTS
  Conns,       \* connections, and the threads created for them
  Requests,    \* what the client of each connection may send
  NCells,      \* heap cells (bound)
  NFds,        \* descriptors left by the process limit after the listening one
  NThreads,    \* threads that the system lets the process have beside main
  None, Src

(* The system that composes this server assumes it.                        *)
ThreadServerAssumption ==
  /\ IsFiniteSet(Conns)
  /\ Requests \in [Conns -> SUBSET {"error", "static", "dynamic", "truncated"}]
  /\ NCells \in Nat /\ NFds \in Nat /\ NThreads \in Nat
  /\ {None, Src} \cap Conns = {} /\ None # Src
  /\ None \notin Nat /\ Src \notin Nat

Cells == 1..NCells
Fds == 1..NFds

VARIABLES
  client,      \* per connection: "away", "connected", "sent" or "closed"
  accepted,    \* connections that main has accepted
  line,        \* connections on which the reply's first line was written
  replied,     \* connections on which the whole reply was written
  main,        \* where main is: "accept" or "create"
  ptr,         \* main's connfd, a cell
  last,        \* the connection accepted last
  used,        \* heap cells that are allocated
  heap,        \* what each cell holds
  fdt,         \* the descriptor table
  at,          \* per thread: where it is in thread and doit
  arg,         \* per thread: its vargp
  connfd,      \* per thread: its local connfd
  srcfd,       \* per thread: its local srcfd, in serve_static
  kid,         \* per connection: the child that serve_dynamic forks for it
  inherited,   \* per child: the connections it has open
  pending,     \* SIGCHLD is pending for the process
  up           \* the process has not exited

reply == <<line, replied>>
mainVars == <<main, ptr, last>>
threadVars == <<at, arg, connfd, srcfd>>
kidVars == <<kid, inherited, pending>>
heapVars == <<used, heap>>
private == <<accepted, mainVars, heapVars, fdt, threadVars, kidVars, up>>
vars == <<client, reply, private>>

Labels == {"none", "start", "request", "headers", "open", "closesrc", "rest", "fork",
           "wait", "close", "done"}

TypeOK ==
  /\ client \in [Conns -> {"away", "connected", "sent", "closed"}]
  /\ accepted \subseteq Conns /\ line \subseteq Conns /\ replied \subseteq Conns
  /\ main \in {"accept", "create"}
  /\ ptr \in Cells \cup {None} /\ last \in Conns \cup {None}
  /\ used \subseteq Cells /\ heap \in [Cells -> Fds \cup {None}]
  /\ fdt \in [Fds -> Conns \cup {None, Src}]
  /\ at \in [Conns -> Labels]
  /\ arg \in [Conns -> Cells \cup {None}]
  /\ connfd \in [Conns -> Fds \cup {None}] /\ srcfd \in [Conns -> Fds \cup {None}]
  /\ kid \in [Conns -> {"none", "running", "zombie", "reaped"}]
  /\ inherited \in [Conns -> SUBSET Conns]
  /\ pending \in BOOLEAN
  /\ up \in BOOLEAN

(* main has installed its handlers and opened the listening descriptor.    *)
Init ==
  /\ client = [c \in Conns |-> "away"]
  /\ accepted = {} /\ line = {} /\ replied = {}
  /\ main = "accept" /\ ptr = None /\ last = None
  /\ used = {} /\ heap = [p \in Cells |-> None]
  /\ fdt = [f \in Fds |-> None]
  /\ at = [c \in Conns |-> "none"]
  /\ arg = [c \in Conns |-> None]
  /\ connfd = [c \in Conns |-> None] /\ srcfd = [c \in Conns |-> None]
  /\ kid = [c \in Conns |-> "none"]
  /\ inherited = [c \in Conns |-> {}]
  /\ pending = FALSE
  /\ up = TRUE

-----------------------------------------------------------------------------
(* unix_error and posix_error: exit(0) ends the threads, closes the        *)
(* descriptors and gives up the memory.  The children live on.             *)
Exit ==
  /\ up /\ up' = FALSE
  /\ main' = "accept" /\ ptr' = None /\ last' = None
  /\ used' = {} /\ heap' = [p \in Cells |-> None]
  /\ fdt' = [f \in Fds |-> None]
  /\ at' = [t \in Conns |-> IF at[t] = "none" THEN "none" ELSE "done"]
  /\ arg' = [t \in Conns |-> None]
  /\ connfd' = [t \in Conns |-> None] /\ srcfd' = [t \in Conns |-> None]
  /\ UNCHANGED <<client, reply, accepted, kidVars>>

Lowest(S) == {x \in S : \A y \in S : x <= y}
FreeFds == {f \in Fds : fdt[f] = None}
Waiting == {c \in Conns : client[c] # "away" /\ c \notin accepted}
Live == {t \in Conns : at[t] \notin {"none", "done"}}

(* connfd = Malloc(sizeof(int)); *connfd = Accept(...): a cell that is not *)
(* in use, and of any client that waits.                                   *)
Accept ==
  /\ up /\ main = "accept"
  /\ \/ \E c \in Waiting, p \in Lowest(Cells \ used), f \in Lowest(FreeFds) :
          /\ main' = "create"
          /\ ptr' = p /\ used' = used \cup {p}
          /\ fdt' = [fdt EXCEPT ![f] = c]
          /\ heap' = [heap EXCEPT ![p] = f]
          /\ last' = c
          /\ accepted' = accepted \cup {c}
          /\ UNCHANGED <<client, reply, threadVars, kidVars, up>>
     \/ FreeFds = {} /\ Exit

(* Faulty: frees the cell that the thread has yet to read.                 *)
CreateAndFree ==
  /\ up /\ main = "create"
  /\ main' = "accept" /\ ptr' = None /\ last' = None
  /\ at' = [at EXCEPT ![last] = "start"]
  /\ arg' = [arg EXCEPT ![last] = ptr]
  /\ used' = used \ {ptr}
  /\ UNCHANGED <<client, reply, accepted, heap, fdt, connfd, srcfd, kidVars, up>>

(* Pthread_create(&tid, NULL, &thread, connfd)                             *)
Create ==
  /\ up /\ main = "create"
  /\ \/ /\ Cardinality(Live) < NThreads
        /\ main' = "accept" /\ ptr' = None /\ last' = None
        /\ at' = [at EXCEPT ![last] = "start"]
        /\ arg' = [arg EXCEPT ![last] = ptr]
        /\ UNCHANGED <<client, reply, accepted, heapVars, fdt, connfd, srcfd, kidVars, up>>
     \/ Cardinality(Live) >= NThreads /\ Exit

-----------------------------------------------------------------------------
Goto(t, from, to) == up /\ at[t] = from /\ at' = [at EXCEPT ![t] = to]
Conn(t) == fdt[connfd[t]]

(* The thread copies the descriptor out of the cell and frees the cell,    *)
(* which nobody else has.                                                  *)
Start(t) ==
  /\ Goto(t, "start", "request")
  /\ connfd' = [connfd EXCEPT ![t] = heap[arg[t]]]
  /\ used' = used \ {arg[t]}
  /\ heap' = [heap EXCEPT ![arg[t]] = None]
  /\ arg' = [arg EXCEPT ![t] = None]
  /\ UNCHANGED <<client, reply, accepted, mainVars, fdt, srcfd, kidVars, up>>

(* doit reads the request and writes the first line of the reply: an error *)
(* page, the header of a file or that of a CGI program's output.  When the *)
(* client leaves without a request, doit takes what its stack holds.       *)
Respond(t) ==
  /\ up /\ at[t] = "request"
  /\ client[Conn(t)] \in {"sent", "closed"}
  /\ \E k \in Requests[Conn(t)] :
       \/ k = "error" /\ Goto(t, "request", "rest")
       \/ k = "static" /\ Goto(t, "request", "open")
       \/ k = "dynamic" /\ Goto(t, "request", "fork")
  /\ line' = line \cup {Conn(t)}
  /\ UNCHANGED <<client, replied, accepted, mainVars, heapVars, fdt, arg, connfd, srcfd,
                 kidVars, up>>

(* The client has left inside the headers: read_requesthdrs never returns. *)
ReadHdrs(t) ==
  /\ up /\ at[t] = "request"
  /\ client[Conn(t)] = "closed" /\ "truncated" \in Requests[Conn(t)]
  /\ Goto(t, "request", "headers")
  /\ UNCHANGED <<client, reply, accepted, mainVars, heapVars, fdt, arg, connfd, srcfd,
                 kidVars, up>>

(* The writes after the first line.                                        *)
WriteRest(t) ==
  /\ Goto(t, "rest", "close")
  /\ replied' = replied \cup {Conn(t)}
  /\ UNCHANGED <<client, line, accepted, mainVars, heapVars, fdt, arg, connfd, srcfd,
                 kidVars, up>>

(* A read or a write on the connection of a client that has left.          *)
ClientError(t) ==
  /\ up
  /\ at[t] \in {"request", "rest"}
  /\ client[Conn(t)] = "closed"
  /\ Exit

(* serve_static: open and mmap.  With no free descriptor both fail unseen  *)
(* and Close(-1) exits.                                                    *)
Open(t) ==
  \/ \E f \in Lowest(FreeFds) :
       /\ Goto(t, "open", "closesrc")
       /\ fdt' = [fdt EXCEPT ![f] = Src]
       /\ srcfd' = [srcfd EXCEPT ![t] = f]
       /\ UNCHANGED <<client, reply, accepted, mainVars, heapVars, arg, connfd, kidVars, up>>
  \/ up /\ at[t] = "open" /\ FreeFds = {} /\ Exit

(* Faulty: closes the connection instead of the file.                      *)
CloseWrong(t) ==
  /\ Goto(t, "closesrc", "rest")
  /\ fdt' = [fdt EXCEPT ![connfd[t]] = None]
  /\ srcfd' = [srcfd EXCEPT ![t] = None]
  /\ UNCHANGED <<client, reply, accepted, mainVars, heapVars, arg, connfd, kidVars, up>>

CloseSrc(t) ==
  /\ Goto(t, "closesrc", "rest")
  /\ fdt' = [fdt EXCEPT ![srcfd[t]] = None]
  /\ srcfd' = [srcfd EXCEPT ![t] = None]
  /\ UNCHANGED <<client, reply, accepted, mainVars, heapVars, arg, connfd, kidVars, up>>

(* Faulty: the child has no descriptor of the connection.                  *)
ForkCloexec(t) ==
  /\ Goto(t, "fork", "wait")
  /\ kid' = [kid EXCEPT ![Conn(t)] = "running"]
  /\ UNCHANGED <<client, reply, accepted, mainVars, heapVars, fdt, arg, connfd, srcfd,
                 inherited, pending, up>>

(* serve_dynamic: the child inherits every connection that is open.        *)
Fork(t) ==
  /\ Goto(t, "fork", "wait")
  /\ kid' = [kid EXCEPT ![Conn(t)] = "running"]
  /\ inherited' = [inherited EXCEPT ![Conn(t)] = {fdt[f] : f \in Fds} \cap Conns]
  /\ UNCHANGED <<client, reply, accepted, mainVars, heapVars, fdt, arg, connfd, srcfd,
                 pending, up>>

(* The system may refuse another process, and the wrapper exits.           *)
ForkFails(t) == up /\ at[t] = "fork" /\ Exit

(* Wait(NULL) reaps any child, blocks while all run, and exits the server  *)
(* when there is none.                                                     *)
Wait(t) ==
  \/ \E c \in Conns :
       /\ kid[c] = "zombie"
       /\ kid' = [kid EXCEPT ![c] = "reaped"]
       /\ Goto(t, "wait", "close")
       /\ UNCHANGED <<client, reply, accepted, mainVars, heapVars, fdt, arg, connfd, srcfd,
                      inherited, pending, up>>
  \/ /\ up /\ at[t] = "wait"
     /\ \A c \in Conns : kid[c] \in {"none", "reaped"}
     /\ Exit

(* Faulty: returns without Close.                                          *)
CloseForgets(t) ==
  /\ Goto(t, "close", "done")
  /\ connfd' = [connfd EXCEPT ![t] = None]
  /\ UNCHANGED <<client, reply, accepted, mainVars, heapVars, fdt, arg, srcfd, kidVars, up>>

(* Close(connfd); return NULL                                              *)
Close(t) ==
  /\ Goto(t, "close", "done")
  /\ fdt' = [fdt EXCEPT ![connfd[t]] = None]
  /\ connfd' = [connfd EXCEPT ![t] = None]
  /\ UNCHANGED <<client, reply, accepted, mainVars, heapVars, arg, srcfd, kidVars, up>>

Doit(t) == \/ Respond(t) \/ ReadHdrs(t) \/ WriteRest(t) \/ ClientError(t)
           \/ Open(t) \/ CloseSrc(t) \/ Fork(t) \/ ForkFails(t) \/ Wait(t)

Thread(t) == Start(t) \/ Doit(t) \/ Close(t)

-----------------------------------------------------------------------------
(* The CGI program writes the rest of the reply and ends.  What execve     *)
(* sends when it cannot run it counts as its output (see Request).         *)
ChildExit(c) ==
  /\ kid[c] = "running"
  /\ kid' = [kid EXCEPT ![c] = "zombie"]
  /\ inherited' = [inherited EXCEPT ![c] = {}]
  /\ replied' = replied \cup {c}
  /\ pending' = TRUE
  /\ UNCHANGED <<client, line, accepted, mainVars, heapVars, fdt, threadVars, up>>

(* SIGCHLD interrupts any one thread, whatever it is doing, and its        *)
(* handler reaps all that have ended: while (waitpid(-1, 0, WNOHANG) > 0). *)
Handle ==
  /\ up /\ pending
  /\ pending' = FALSE
  /\ kid' = [c \in Conns |-> IF kid[c] = "zombie" THEN "reaped" ELSE kid[c]]
  /\ UNCHANGED <<client, reply, accepted, mainVars, heapVars, fdt, threadVars, inherited, up>>

Server ==
  \/ Accept \/ Create \/ Handle
  \/ \E c \in Conns : Thread(c) \/ ChildExit(c)

(* A client that does what it likes while the server runs.                 *)
Client(c) ==
  /\ up
  /\ \/ client[c] = "away" /\ client' = [client EXCEPT ![c] = "connected"]
     \/ client[c] = "connected" /\ client' = [client EXCEPT ![c] = "sent"]
     \/ client[c] \in {"connected", "sent"} /\ client' = [client EXCEPT ![c] = "closed"]
  /\ UNCHANGED <<reply, private>>

Next == Server \/ \E c \in Conns : Client(c)

Spec == Init /\ [][Next]_vars

-----------------------------------------------------------------------------
(* "avoid race condition": the cell that a thread was given holds its own  *)
(* descriptor until it has read it, and nobody else has the cell; and from *)
(* then to its Close the descriptor denotes its connection, although       *)
(* numbers and cells go on to others at once.                              *)
PrivateDescriptor ==
  up => \A t \in Conns :
    /\ at[t] = "start" =>
         /\ arg[t] \in used /\ heap[arg[t]] \in Fds /\ fdt[heap[arg[t]]] = t
         /\ ptr # arg[t] /\ \A u \in Conns \ {t} : arg[u] # arg[t]
    /\ at[t] \notin {"none", "start", "done"} =>
         connfd[t] \in Fds /\ fdt[connfd[t]] = t

IsOpen(c) == (\E f \in Fds : fdt[f] = c) \/ \E d \in Conns : c \in inherited[d]
Ended(c) == c \in accepted /\ ~IsOpen(c)

Stream(c) == CASE c \notin accepted -> "away"
               [] c \in accepted /\ IsOpen(c) -> "open"
               [] Ended(c) /\ c \in replied -> "whole"
               [] Ended(c) /\ c \notin replied -> "cut"

(* The server with a thread per connection is a web server too.            *)
Web == INSTANCE WebServer WITH server <- IF up THEN "up" ELSE "down",
                               stream <- [c \in Conns |-> Stream(c)],
                               broken <- {}
IsWebServer == Web!Spec

(* Nothing is left to do for connection c: it has ended, its client has    *)
(* not sent a request yet, or it has closed inside the headers.            *)
Settled(c) == \/ c \notin accepted \/ Ended(c)
              \/ client[c] = "connected" \/ at[c] = "headers"

(* Every accepted connection comes to its end once its client has sent a   *)
(* request or left, whatever the other clients do or fail to do: the       *)
(* server is never behind for good.                                        *)
EveryConnectionEnds == []<>(~up \/ \A c \in Conns : Settled(c))
=============================================================================
