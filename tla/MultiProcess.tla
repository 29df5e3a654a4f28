---------------------------- MODULE MultiProcess ----------------------------
(***************************************************************************)
(* The web server with a process per connection (multiprocess_server.c).   *)
(* The parent accepts a connection, forks a child for it and closes its    *)
(* own copy of the descriptor; the child serves one request and exits.     *)
(* For dynamic content the child forks in turn, and waits.  A fork copies  *)
(* the descriptor table and the SIGCHLD handler.                           *)
(*                                                                         *)
(* A connection's client sees the end of the stream when the last process  *)
(* that has it open closes it or ends.                                     *)
(***************************************************************************)
EXTENDS Naturals, FiniteSets

CONSTANTS
  NConns,      \* number of connections that arrive (bound)
  NProcs,      \* children and CGI programs the system allows, zombies included
  Kinds        \* the requests that clients send

ASSUME MultiProcessAssumption ==
  /\ NConns \in Nat /\ NProcs \in Nat
  /\ Kinds \subseteq {"page", "lost", "dynamic", "truncated", "broken"}

Conns == 1..NConns     \* connections, and the children forked for them

VARIABLES
  parent,      \* where main is: "accept", "fork", "close" or "exited"
  next,        \* the next connection to accept
  held,        \* connections the parent has open
  handling,    \* the parent is in sigchld_handler
  pending,     \* SIGCHLD is pending for the parent
  child,       \* per connection: where its child is
  inherited,   \* per child: the connections it has open
  cgi,         \* per child: its own child, the CGI program
  cgiheld,     \* per CGI program: the connections it has open
  cgipending,  \* children for which SIGCHLD is pending
  replied,     \* connections on which the whole reply was written
  broken,      \* connections whose client left before it
  failed       \* connections whose own process was refused something before it

parentVars == <<parent, next, held>>
signals == <<handling, pending>>
cgiVars == <<cgi, cgiheld, cgipending>>
vars == <<parentVars, signals, child, inherited, cgiVars, replied, broken, failed>>

States == {"none", "running", "zombie", "reaped"}

TypeOK ==
  /\ parent \in {"accept", "fork", "close", "exited"}
  /\ next \in 1..(NConns + 1)
  /\ held \subseteq Conns
  /\ handling \in BOOLEAN /\ pending \in BOOLEAN
  /\ child \in [Conns -> {"none", "doit", "hdrs", "fork", "wait", "exit", "zombie", "reaped"}]
  /\ inherited \in [Conns -> SUBSET Conns] /\ cgiheld \in [Conns -> SUBSET Conns]
  /\ cgi \in [Conns -> States]
  /\ cgipending \subseteq Conns
  /\ replied \subseteq Conns /\ broken \subseteq Conns /\ failed \subseteq Conns

Init ==
  /\ parent = "accept" /\ next = 1 /\ held = {}
  /\ handling = FALSE /\ pending = FALSE
  /\ child = [c \in Conns |-> "none"]
  /\ inherited = [c \in Conns |-> {}]
  /\ cgi = [c \in Conns |-> "none"]
  /\ cgiheld = [c \in Conns |-> {}]
  /\ cgipending = {}
  /\ replied = {} /\ broken = {} /\ failed = {}

-----------------------------------------------------------------------------
(* The parent.  Its handler may run between any two of its steps.          *)
Runs(from, to) == ~handling /\ parent = from /\ parent' = to

Accept ==
  /\ Runs("accept", "fork") /\ next \in Conns
  /\ held' = held \cup {next}
  /\ next' = next + 1
  /\ UNCHANGED <<signals, child, inherited, cgiVars, replied, broken, failed>>

(* Processes count until they are reaped: by their parent, or, once that   *)
(* has ended, by the system.                                               *)
Alive(c) == child[c] \in {"doit", "hdrs", "fork", "wait", "exit"}
Children == {c \in Conns : Alive(c) \/ (child[c] = "zombie" /\ parent # "exited")}
Programs == {c \in Conns : cgi[c] = "running" \/ (cgi[c] = "zombie" /\ Alive(c))}
Full == Cardinality(Children) + Cardinality(Programs) >= NProcs

(* Faulty: the child closes connfd in place of listenfd.                  *)
ForkWrongClose ==
  /\ \/ /\ Runs("fork", "close") /\ ~Full
        /\ child' = [child EXCEPT ![next - 1] = "doit"]
        /\ inherited' = [inherited EXCEPT ![next - 1] = {}]
        /\ UNCHANGED held
     \/ /\ Runs("fork", "exited") /\ Full
        /\ held' = {}
        /\ UNCHANGED <<child, inherited>>
  /\ UNCHANGED <<next, signals, cgiVars, replied, broken, failed>>

(* if (Fork() == 0) ...: Fork exits the server when it fails.              *)
Fork ==
  /\ \/ /\ Runs("fork", "close") /\ ~Full
        /\ child' = [child EXCEPT ![next - 1] = "doit"]
        /\ inherited' = [inherited EXCEPT ![next - 1] = held]
        /\ UNCHANGED held
     \/ /\ Runs("fork", "exited") /\ Full
        /\ held' = {}
        /\ UNCHANGED <<child, inherited>>
  /\ UNCHANGED <<next, signals, cgiVars, replied, broken, failed>>

(* Faulty: the parent keeps the descriptor.                               *)
CloseForgets ==
  /\ Runs("close", "accept")
  /\ UNCHANGED held
  /\ UNCHANGED <<next, signals, child, inherited, cgiVars, replied, broken, failed>>

(* Close(connfd)                                                           *)
Close ==
  /\ Runs("close", "accept")
  /\ held' = held \ {next - 1}
  /\ UNCHANGED <<next, signals, child, inherited, cgiVars, replied, broken, failed>>

(* SIGCHLD interrupts the parent, and SA_RESTART restarts its accept.      *)
Deliver ==
  /\ pending /\ ~handling /\ parent # "exited"
  /\ pending' = FALSE /\ handling' = TRUE
  /\ UNCHANGED <<parentVars, child, inherited, cgiVars, replied, broken, failed>>

(* Faulty: if in place of while.                                          *)
HandleOnce ==
  /\ handling
  /\ \/ \E c \in Conns :
          /\ child[c] = "zombie"
          /\ child' = [child EXCEPT ![c] = "reaped"]
          /\ handling' = FALSE
     \/ /\ \A c \in Conns : child[c] # "zombie"
        /\ handling' = FALSE
        /\ UNCHANGED child
  /\ UNCHANGED <<parentVars, pending, inherited, cgiVars, replied, broken, failed>>

(* while (waitpid(-1, 0, WNOHANG) > 0);                                    *)
Handle ==
  /\ handling
  /\ \/ \E c \in Conns :
          /\ child[c] = "zombie"
          /\ child' = [child EXCEPT ![c] = "reaped"]
          /\ UNCHANGED handling
     \/ /\ \A c \in Conns : child[c] # "zombie"
        /\ handling' = FALSE
        /\ UNCHANGED child
  /\ UNCHANGED <<parentVars, pending, inherited, cgiVars, replied, broken, failed>>

Parent == Accept \/ Fork \/ Close

-----------------------------------------------------------------------------
(* The child of connection c.                                              *)
Goto(c, from, to) == child[c] = from /\ child' = [child EXCEPT ![c] = to]

(* doit: a whole page is written, be it of an error or of an empty file,   *)
(* for which Munmap exits the child after it; the file is lost since stat, *)
(* or cannot be opened, and Close(-1) exits the child after the headers; a *)
(* CGI program is to be run; the client closes inside the headers, and     *)
(* read_requesthdrs loops for ever; or the client leaves, and a wrapper    *)
(* exits the child or SIGPIPE kills it.                                    *)
Doit(c) ==
  /\ \/ "page" \in Kinds /\ Goto(c, "doit", "exit") /\ replied' = replied \cup {c}
                         /\ UNCHANGED <<broken, failed>>
     \/ "lost" \in Kinds /\ Goto(c, "doit", "exit") /\ failed' = failed \cup {c}
                         /\ UNCHANGED <<replied, broken>>
     \/ "dynamic" \in Kinds /\ Goto(c, "doit", "fork") /\ UNCHANGED <<replied, broken, failed>>
     \/ "truncated" \in Kinds /\ Goto(c, "doit", "hdrs") /\ UNCHANGED <<replied, broken, failed>>
     \/ "broken" \in Kinds /\ Goto(c, "doit", "exit") /\ broken' = broken \cup {c}
                         /\ UNCHANGED <<replied, failed>>
  /\ UNCHANGED <<parentVars, signals, inherited, cgiVars>>

(* Fork, of the child: it exits the child when it fails, after the header. *)
ForkCgi(c) ==
  /\ \/ /\ Goto(c, "fork", "wait") /\ ~Full
        /\ cgi' = [cgi EXCEPT ![c] = "running"]
        /\ cgiheld' = [cgiheld EXCEPT ![c] = inherited[c]]
        /\ UNCHANGED failed
     \/ /\ Goto(c, "fork", "exit") /\ Full
        /\ failed' = failed \cup {c}
        /\ UNCHANGED <<cgi, cgiheld>>
  /\ UNCHANGED <<parentVars, signals, inherited, cgipending, replied, broken>>

(* Wait(NULL); when the handler was first there is no child to wait for,   *)
(* and the wrapper exits.                                                  *)
Wait(c) ==
  /\ Goto(c, "wait", "exit")
  /\ \/ cgi[c] = "zombie" /\ cgi' = [cgi EXCEPT ![c] = "reaped"]
     \/ cgi[c] = "reaped" /\ UNCHANGED cgi
  /\ UNCHANGED <<parentVars, signals, inherited, cgiheld, cgipending, replied, broken, failed>>

(* The handler that the child has inherited.                               *)
ChildHandler(c) ==
  /\ c \in cgipending /\ child[c] \in {"wait", "exit"}
  /\ cgipending' = cgipending \ {c}
  /\ cgi' = [cgi EXCEPT ![c] = IF @ = "zombie" THEN "reaped" ELSE @]
  /\ UNCHANGED <<parentVars, signals, child, inherited, cgiheld, replied, broken, failed>>

(* exit(0): the system closes what the child has open and tells the parent.*)
Exit(c) ==
  /\ Goto(c, "exit", "zombie")
  /\ inherited' = [inherited EXCEPT ![c] = {}]
  /\ pending' = TRUE
  /\ cgipending' = cgipending \ {c}
  /\ UNCHANGED <<parentVars, handling, cgi, cgiheld, replied, broken, failed>>

(* The CGI program writes the rest of the reply and ends; if Execve cannot *)
(* run it, the process ends without.                                       *)
CgiExit(c) ==
  /\ cgi[c] = "running"
  /\ cgi' = [cgi EXCEPT ![c] = "zombie"]
  /\ cgiheld' = [cgiheld EXCEPT ![c] = {}]
  /\ \/ replied' = replied \cup {c} /\ UNCHANGED failed
     \/ failed' = failed \cup {c} /\ UNCHANGED replied
  /\ cgipending' = cgipending \cup {c}
  /\ UNCHANGED <<parentVars, signals, child, inherited, broken>>

Child(c) == Doit(c) \/ ForkCgi(c) \/ Wait(c) \/ Exit(c) \/ CgiExit(c)

Next == Parent \/ Deliver \/ Handle \/ \E c \in Conns : Child(c) \/ ChildHandler(c)

Spec == Init /\ [][Next]_vars
(* Every process runs, and signals are delivered.                          *)
FairSpec ==
  /\ Spec
  /\ WF_vars(Parent) /\ WF_vars(Deliver) /\ WF_vars(Handle)
  /\ \A c \in Conns : WF_vars(Child(c))
-----------------------------------------------------------------------------
(* No process has the connection of another client open: a client's end of *)
(* stream depends on its own child and CGI program only.                   *)
OnlyOwnConnection ==
  \A c \in Conns : inherited[c] \cup cgiheld[c] \subseteq {c}

Ended(c) == /\ c < next
            /\ c \notin held
            /\ \A d \in Conns : c \notin inherited[d] \cup cgiheld[d]

(* The end of the stream comes after the whole reply, although three       *)
(* processes close the connection in any order, and the child may exit     *)
(* from a failing Wait.  There are three exceptions: the client has left;  *)
(* a call of the processes that serve it failed before the reply was whole *)
(* (open, the child's fork, execve); or the server exited in Fork.  The    *)
(* children of a server that has exited still answer.                      *)
EndMeansWhole ==
  \A c \in Conns : Ended(c) => c \in replied \cup broken \cup failed \/ child[c] = "none"

Stream(c) == CASE c >= next -> "away"
               [] c < next /\ ~Ended(c) -> "open"
               [] Ended(c) /\ c \in replied -> "whole"
               [] Ended(c) /\ c \notin replied -> "cut"

(* The process server is a web server: what fails while one client is      *)
(* served costs that client's reply, and no other's; every other stream    *)
(* ends with the whole reply while the server is up, and is over for good, *)
(* whichever of the three processes is the last to close it and whoever    *)
(* reaps the CGI program.                                                  *)
Web == INSTANCE WebServer WITH server <- IF parent = "exited" THEN "down" ELSE "up",
                               stream <- [c \in Conns |-> Stream(c)],
                               broken <- broken \cup failed
IsWebServer == Web!Spec

(* No zombie stays, although signals that come together are one signal.    *)
ZombiesAreReaped ==
  \A c \in Conns : child[c] = "zombie" ~> child[c] = "reaped" \/ parent = "exited"

(* Every connection comes to its end, except for a client that closes      *)
(* inside the headers: its child loops, and the others go on.              *)
EveryConnectionEnds == \A c \in Conns : c < next ~> Ended(c) \/ child[c] = "hdrs"
=============================================================================
