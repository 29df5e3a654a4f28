----------------------------- MODULE ThreadPool -----------------------------
(***************************************************************************)
(* The thread pool web server (septhreadpool_server.c).  The main thread   *)
(* accepts connections and inserts their descriptors in the shared buffer  *)
(* sbuf (module SBuf, with main the only producer); each worker thread     *)
(* removes one, serves one request on it (doit) and closes it.             *)
(*                                                                         *)
(* The threads share more than sbuf: the descriptor table of the process,  *)
(* from which accept and open take the lowest free number; its children,   *)
(* which Wait(NULL) in any thread and the SIGCHLD handler in any thread    *)
(* may reap; and its life, because every wrapper that meets an error calls *)
(* unix_error, which exits the process.                                    *)
(*                                                                         *)
(* A request is abstracted to what doit makes of it: "error" (an error     *)
(* page), "static", "dynamic" (a CGI program, run in a forked child) or    *)
(* "truncated" (the client closes inside the headers, and read_requesthdrs *)
(* never returns).                                                         *)
(***************************************************************************)
EXTENDS Integers, FiniteSets

CONSTANTS
  Main,        \* the thread that runs main
  Workers,     \* the threads that run thread
  Kinds,       \* the requests that clients send
  Resets,      \* whether a client may reset its connection
  NConns,      \* number of connections that arrive (bound)
  NFds,        \* descriptors left by the process limit after the listening one
  None, Src,   \* a free entry of the descriptor table; a file open for reading
  N            \* SBUFSIZE

ASSUME ThreadPoolAssumption ==
  /\ IsFiniteSet(Workers) /\ Main \notin Workers
  /\ Kinds \subseteq {"error", "static", "dynamic", "truncated"}
  /\ Resets \in BOOLEAN
  /\ NConns \in Nat /\ NFds \in Nat
  /\ N \in Nat \ {0}
  /\ Src # None
  /\ None \notin Int /\ Src \notin Int

Threads == {Main} \cup Workers
Conns == 1..NConns                     \* connections, in order of arrival
Fds == 1..NFds

VARIABLES
  buf, front, rear, sem, pc, item, reg,    \* the buffer and the calls to it
  next,        \* the next connection to accept
  fdt,         \* the descriptor table
  at,          \* per worker: where it is in thread and doit
  connfd,      \* per worker: its local connfd
  srcfd,       \* per worker: its local srcfd, in serve_static
  kid,         \* per connection: the child that serve_dynamic forks for it
  inherited,   \* per child: the connections whose descriptors it inherited and has open
  pending,     \* SIGCHLD is pending for the process
  handling,    \* threads that are in sigchld_handler
  replied,     \* connections on which the whole reply was written
  end          \* "running", or why the process exited

sbufVars == <<buf, front, rear, sem, pc, item, reg>>
kidVars == <<kid, inherited, pending, handling>>
workerVars == <<at, connfd, srcfd>>
vars == <<sbufVars, next, fdt, workerVars, kidVars, replied, end>>

SB == INSTANCE SBuf WITH Producers <- {Main}, Consumers <- Workers,
                         Items <- Fds, IntMax <- NConns

TypeOK ==
  /\ SB!TypeOK
  /\ next \in 1..(NConns + 1)
  /\ fdt \in [Fds -> Conns \cup {None, Src}]
  /\ at \in [Workers -> {"remove", "request", "headers", "open", "closesrc", "reply",
                         "fork", "wait", "close"}]
  /\ connfd \in [Workers -> Fds \cup {None}]
  /\ srcfd \in [Workers -> Fds \cup {None}]
  /\ kid \in [Conns -> {"none", "running", "zombie", "reaped"}]
  /\ inherited \in [Conns -> SUBSET Conns]
  /\ pending \in BOOLEAN
  /\ handling \subseteq Threads
  /\ replied \subseteq Conns
  /\ end \in {"running", "no descriptor", "client error", "no process", "no child"}

(* main has installed its handlers, made sbuf, opened the listening        *)
(* descriptor and created the workers.                                     *)
Init ==
  /\ SB!Init
  /\ next = 1
  /\ fdt = [f \in Fds |-> None]
  /\ at = [w \in Workers |-> "remove"]
  /\ connfd = [w \in Workers |-> None]
  /\ srcfd = [w \in Workers |-> None]
  /\ kid = [c \in Conns |-> "none"]
  /\ inherited = [c \in Conns |-> {}]
  /\ pending = FALSE
  /\ handling = {}
  /\ replied = {}
  /\ end = "running"

-----------------------------------------------------------------------------
(* The main flow of a thread is suspended while it runs the handler.       *)
Runs(t) == end = "running" /\ t \notin handling

(* unix_error: exit(0) ends every thread and closes every descriptor of    *)
(* the process.  Its children live on.                                     *)
Exit(why) ==
  /\ end' = why
  /\ fdt' = [f \in Fds |-> None]
  /\ UNCHANGED <<sbufVars, next, workerVars, kidVars, replied>>

Full == \A f \in Fds : fdt[f] # None
LowestFree(f) == fdt[f] = None /\ \A g \in Fds : fdt[g] = None => f <= g

Goto(w, from, to) == at[w] = from /\ at' = [at EXCEPT ![w] = to]
Conn(w) == fdt[connfd[w]]

(* connfd = Accept(...); sbuf_insert(&sbuf, connfd)                        *)
Accept ==
  /\ Runs(Main) /\ pc[Main] = "out" /\ next \in Conns
  /\ \/ \E f \in Fds :
          /\ LowestFree(f)
          /\ fdt' = [fdt EXCEPT ![f] = next]
          /\ next' = next + 1
          /\ SB!CallInsert(Main, f)
          /\ UNCHANGED <<workerVars, kidVars, replied, end>>
     \/ Full /\ Exit("no descriptor")

(* Faulty: closes the descriptor after sbuf_insert, as the server with a   *)
(* process per connection does after Fork.                                 *)
InsertThenClose ==
  /\ Runs(Main)
  /\ SB!Insert(Main)
  /\ fdt' = IF pc[Main] = "post" THEN [fdt EXCEPT ![item[Main]] = None] ELSE fdt
  /\ UNCHANGED <<next, workerVars, kidVars, replied, end>>

Insert ==
  /\ Runs(Main)
  /\ SB!Insert(Main)
  /\ UNCHANGED <<next, fdt, workerVars, kidVars, replied, end>>

(* int connfd = sbuf_remove(&sbuf)                                         *)
Remove(w) ==
  /\ Runs(w) /\ at[w] = "remove"
  /\ SB!CallRemove(w) \/ SB!Remove(w)
  /\ IF pc[w] = "post"
     THEN /\ Goto(w, "remove", "request")
          /\ connfd' = [connfd EXCEPT ![w] = item[w]]
          /\ UNCHANGED srcfd
     ELSE UNCHANGED workerVars
  /\ UNCHANGED <<next, fdt, kidVars, replied, end>>

(* doit reads the request line and the headers, and decides.               *)
ReadRequest(w) ==
  /\ Runs(w)
  /\ \E k \in Kinds :
       Goto(w, "request", CASE k = "error" -> "reply"
                            [] k = "static" -> "open"
                            [] k = "dynamic" -> "fork"
                            [] k = "truncated" -> "headers")
  /\ UNCHANGED <<sbufVars, next, fdt, connfd, srcfd, kidVars, replied, end>>

(* A read or a write on a connection that the client has reset: Rio_readn, *)
(* Rio_readlineb and Rio_writen call unix_error.                           *)
ClientError(w) ==
  /\ Runs(w) /\ Resets
  /\ at[w] \in {"request", "fork", "reply"}
  /\ Exit("client error")

(* serve_static: open, mmap, Close(srcfd).  With no free descriptor, open  *)
(* and mmap fail unseen and Close(-1) exits.                               *)
Open(w) ==
  /\ Runs(w)
  /\ \/ \E f \in Fds :
          /\ Goto(w, "open", "closesrc")
          /\ LowestFree(f)
          /\ fdt' = [fdt EXCEPT ![f] = Src]
          /\ srcfd' = [srcfd EXCEPT ![w] = f]
          /\ UNCHANGED <<sbufVars, next, connfd, kidVars, replied, end>>
     \/ at[w] = "open" /\ Full /\ Exit("no descriptor")

(* Faulty: closes the connection instead of the file.                      *)
CloseWrong(w) ==
  /\ Runs(w) /\ Goto(w, "closesrc", "reply")
  /\ fdt' = [fdt EXCEPT ![connfd[w]] = None]
  /\ srcfd' = [srcfd EXCEPT ![w] = None]
  /\ UNCHANGED <<sbufVars, next, connfd, kidVars, replied, end>>

CloseSrc(w) ==
  /\ Runs(w) /\ Goto(w, "closesrc", "reply")
  /\ fdt' = [fdt EXCEPT ![srcfd[w]] = None]
  /\ srcfd' = [srcfd EXCEPT ![w] = None]
  /\ UNCHANGED <<sbufVars, next, connfd, kidVars, replied, end>>

(* The last Rio_writen of clienterror or of serve_static.                  *)
Reply(w) ==
  /\ Runs(w) /\ Goto(w, "reply", "close")
  /\ replied' = replied \cup {Conn(w)}
  /\ UNCHANGED <<sbufVars, next, fdt, connfd, srcfd, kidVars, end>>

(* Faulty: the child has no descriptor of the connection.                  *)
ForkCloexec(w) ==
  /\ Runs(w) /\ Goto(w, "fork", "wait")
  /\ kid' = [kid EXCEPT ![Conn(w)] = "running"]
  /\ UNCHANGED <<sbufVars, next, fdt, connfd, srcfd, inherited, pending, handling,
                 replied, end>>

(* serve_dynamic: the child inherits every descriptor that is open.        *)
Fork(w) ==
  /\ Runs(w) /\ Goto(w, "fork", "wait")
  /\ kid' = [kid EXCEPT ![Conn(w)] = "running"]
  /\ inherited' = [inherited EXCEPT ![Conn(w)] =
                     {c \in Conns : \E f \in Fds : fdt[f] = c}]
  /\ UNCHANGED <<sbufVars, next, fdt, connfd, srcfd, pending, handling, replied, end>>

(* The system may refuse another process, and the wrapper exits.           *)
ForkFails(w) ==
  /\ Runs(w) /\ at[w] = "fork"
  /\ Exit("no process")

(* Wait(NULL) reaps some child, whoever forked it, blocks while all of     *)
(* them run, and exits the server when there is none.                      *)
Wait(w) ==
  /\ Runs(w)
  /\ \/ \E c \in Conns :
          /\ kid[c] = "zombie"
          /\ kid' = [kid EXCEPT ![c] = "reaped"]
          /\ Goto(w, "wait", "close")
          /\ UNCHANGED <<sbufVars, next, fdt, connfd, srcfd, inherited, pending,
                         handling, replied, end>>
     \/ /\ at[w] = "wait"
        /\ \A c \in Conns : kid[c] \in {"none", "reaped"}
        /\ Exit("no child")

(* Close(connfd)                                                           *)
Close(w) ==
  /\ Runs(w) /\ Goto(w, "close", "remove")
  /\ fdt' = [fdt EXCEPT ![connfd[w]] = None]
  /\ connfd' = [connfd EXCEPT ![w] = None]
  /\ UNCHANGED <<sbufVars, next, srcfd, kidVars, replied, end>>

Doit(w) == \/ ReadRequest(w) \/ ClientError(w) \/ Open(w) \/ CloseSrc(w)
           \/ Reply(w) \/ Fork(w) \/ ForkFails(w) \/ Wait(w) \/ Close(w)

-----------------------------------------------------------------------------
(* The CGI program of connection c writes its output, the rest of the      *)
(* reply, and ends, which closes what it inherited.  SIGCHLD is not        *)
(* queued: it is pending or it is not.  What execve sends when it cannot   *)
(* run the program counts as its output here; Request tells them apart.    *)
ChildExit(c) ==
  /\ kid[c] = "running"
  /\ kid' = [kid EXCEPT ![c] = "zombie"]
  /\ inherited' = [inherited EXCEPT ![c] = {}]
  /\ replied' = replied \cup {c}
  /\ pending' = TRUE
  /\ UNCHANGED <<sbufVars, next, fdt, workerVars, handling, end>>

(* The kernel delivers SIGCHLD to any one thread, whatever it is doing:    *)
(* SA_RESTART restarts the call it is blocked in.                          *)
Deliver(t) ==
  /\ Runs(t) /\ pending
  /\ pending' = FALSE
  /\ handling' = handling \cup {t}
  /\ UNCHANGED <<sbufVars, next, fdt, workerVars, kid, inherited, replied, end>>

(* while (waitpid(-1, 0, WNOHANG) > 0);                                    *)
Handle(t) ==
  /\ end = "running" /\ t \in handling
  /\ \/ \E c \in Conns :
          /\ kid[c] = "zombie"
          /\ kid' = [kid EXCEPT ![c] = "reaped"]
          /\ UNCHANGED handling
     \/ /\ \A c \in Conns : kid[c] # "zombie"
        /\ handling' = handling \ {t}
        /\ UNCHANGED kid
  /\ UNCHANGED <<sbufVars, next, fdt, workerVars, inherited, pending, replied, end>>

Next ==
  \/ Accept
  \/ Insert
  \/ \E w \in Workers : Remove(w) \/ Doit(w)
  \/ \E c \in Conns : ChildExit(c)
  \/ \E t \in Threads : Deliver(t) \/ Handle(t)

Spec == Init /\ [][Next]_vars

(* Every thread runs, CGI programs end and signals are delivered.          *)
Fairness ==
  /\ WF_vars(Accept) /\ WF_vars(Insert)
  /\ \A w \in Workers : WF_vars(Remove(w)) /\ WF_vars(Doit(w))
  /\ \A c \in Conns : WF_vars(ChildExit(c))
  /\ \A t \in Threads : WF_vars(Handle(t))
  /\ WF_vars(\E t \in Threads : Deliver(t))

FairSpec == Spec /\ Fairness
-----------------------------------------------------------------------------
(* Where the descriptor of an accepted connection may be: in main's hand,  *)
(* in a slot of sbuf, in the hand of a worker that is leaving sbuf_remove, *)
(* or served.                                                              *)
InMain == IF pc[Main] \in {"slots", "mutex", "load", "store"} THEN {item[Main]} ELSE {}
Ring == [i \in 1..(rear - front) |-> buf[(front + i) % N]]
RingFds == {Ring[i] : i \in DOMAIN Ring}
NoneTwice == \A i, j \in DOMAIN Ring : Ring[i] = Ring[j] => i = j
Leaving(w) == IF pc[w] \in {"unlock", "post"} THEN {item[w]} ELSE {}
Serving(w) == IF at[w] # "remove" THEN {connfd[w]} ELSE {}
Taken(w) == Leaving(w) \cup Serving(w)

ConnFds == {f \in Fds : fdt[f] \in Conns}
SrcFds == {f \in Fds : fdt[f] = Src}

ConnsOwned ==
  /\ ConnFds = InMain \cup RingFds \cup UNION {Taken(w) : w \in Workers}
  /\ NoneTwice /\ RingFds \cap InMain = {}
  /\ \A w \in Workers :
       /\ Taken(w) \cap (InMain \cup RingFds) = {}
       /\ \A v \in Workers \ {w} : Taken(w) \cap Taken(v) = {}

FilesOwned ==
  /\ SrcFds = {srcfd[w] : w \in Workers} \ {None}
  /\ \A v, w \in Workers : v # w /\ srcfd[v] = srcfd[w] => srcfd[v] = None

(* Every open connection is in exactly one place: none is lost between     *)
(* accept and Close, none is handed to two workers, and no number in sbuf  *)
(* or in a worker has been closed and given to another connection or file. *)
(* The open files are those that a worker has yet to close.                *)
FdOwnership == end = "running" => ConnsOwned /\ FilesOwned

(* sbuf throttles accept: with one descriptor for main, one per slot and   *)
(* two per worker (its connection and the file it serves), no call ever    *)
(* runs out of them, however fast the clients come.                        *)
EnoughFds == NFds >= 1 + N + 2 * Cardinality(Workers)
NeverOutOfFds == EnoughFds => end # "no descriptor"

(* A client sees the end of the stream when no process has its connection  *)
(* open any more.                                                          *)
OpenInChild(c) == \E d \in Conns : c \in inherited[d]
IsOpen(c) == (\E f \in Fds : fdt[f] = c) \/ OpenInChild(c)
Ended(c) == c < next /\ ~IsOpen(c)

Stream(c) == CASE c >= next -> "away"
               [] c < next /\ IsOpen(c) -> "open"
               [] Ended(c) /\ c \in replied -> "whole"
               [] Ended(c) /\ c \notin replied -> "cut"

(* The pool is a web server: a client that sees the end of its stream has  *)
(* got the whole reply as long as the server lives, although Wait(NULL)    *)
(* may reap another worker's child and Close come before the CGI program   *)
(* has written its output; and an ended stream stays as it is, although    *)
(* its descriptor's number goes on to other connections.                   *)
Web == INSTANCE WebServer WITH server <- IF end = "running" THEN "up" ELSE "down",
                               stream <- [c \in Conns |-> Stream(c)],
                               broken <- {}
IsWebServer == Web!Spec

(* A connection has one descriptor, and only those accepted have one.      *)
OneFd == /\ \A f, g \in Fds : fdt[f] \in Conns /\ fdt[f] = fdt[g] => f = g
         /\ \A f \in Fds : fdt[f] \in Conns => fdt[f] < next

(* What a worker holds fits where it is.                                   *)
WorkerInv ==
  \A w \in Workers : /\ at[w] # "remove" => pc[w] = "out" /\ connfd[w] \in Fds
                     /\ srcfd[w] # None => at[w] = "closesrc"
                     /\ at[w] = "closesrc" => srcfd[w] # None

(* A child has its connection open while it runs, and serve_dynamic forks  *)
(* once for each.                                                          *)
KidInv ==
  /\ \A c \in Conns : /\ kid[c] = "running" => c \in inherited[c]
                      /\ kid[c] # "running" => inherited[c] = {}
                      /\ kid[c] # "none" => c < next
  /\ end = "running" =>
       \A f \in Fds : fdt[f] \in Conns /\ kid[fdt[f]] # "none" =>
         \E w \in Workers : at[w] \in {"wait", "close"} /\ connfd[w] = f

(* The reply of a connection that the server has closed or will close is   *)
(* written, or will be by the child that still has it open.                *)
Answering(c) == c \in replied \/ c \in inherited[c]
ReplyInv ==
  end = "running" =>
    /\ \A w \in Workers : at[w] \in {"wait", "close"} => Answering(Conn(w))
    /\ \A c \in Conns : c < next => Answering(c) \/ \E f \in Fds : fdt[f] = c

(* The inductive invariant from which the theorems follow.                 *)
IInv == /\ TypeOK /\ SB!IInv
        /\ OneFd /\ WorkerInv /\ FdOwnership
        /\ KidInv /\ ReplyInv

(* Workers that read_requesthdrs does not give back.                       *)
Lost == {w \in Workers : at[w] = "headers"}

(* Every connection that arrives is served to the end of the stream, or    *)
(* the server exits: no worker waits for ever on sbuf, a semaphore, a      *)
(* child or the handler.  A client that closes inside the headers costs    *)
(* its worker, and the others are served as long as one worker is left.    *)
EveryConnectionEnds ==
  \A c \in Conns : <>(\/ Ended(c) \/ end # "running"
                      \/ \E w \in Lost : Conn(w) = c
                      \/ Lost = Workers)

(* The server provides dynamic content and goes on: a child's end does not *)
(* end it.                                                                 *)
SurvivesChildren == end # "no child"
=============================================================================
