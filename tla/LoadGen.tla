------------------------------- MODULE LoadGen -------------------------------
(***************************************************************************)
(* The load generator (test_client.c).  The parent forks nchildren         *)
(* children; each connects nloops times, sends a request, reads the first  *)
(* line of the reply and closes the connection, and at last writes its     *)
(* time into a pipe.  The parent first waits for all children and then     *)
(* reads the pipe.                                                         *)
(*                                                                         *)
(* Times are left out: a report is one value in the pipe.  The server is   *)
(* known by what the clients can see of it: up, answered and over.         *)
(***************************************************************************)
EXTENDS Naturals, FiniteSets

CONSTANTS
  Args,        \* the arguments: pairs of nchildren and nloops
  PipeCap,     \* values that fit in the pipe
  NProcs       \* children that the system lets the parent have

Most(i) == CHOOSE n \in {a[i] : a \in Args} : \A a \in Args : a[i] <= n
Children == 1..Most(1)
Requested == {r \in Children \X (1..Most(2)) : \E a \in Args : r[1] <= a[1] /\ r[2] <= a[2]}

(* The system that composes the generator with a server assumes it.        *)
LoadGenAssumption ==
  /\ Args \subseteq Nat \X Nat /\ IsFiniteSet(Args) /\ Args # {}
  /\ PipeCap \in Nat \ {0} /\ NProcs \in Nat

VARIABLES
  client,      \* per connection, shared with the server (see ThreadServer)
  up,          \* the server runs
  answered,    \* connections on which it wrote the first line
  over,        \* connections of which no process has the server's side open
  nchildren, nloops,
  parent,      \* where main is: "fork", "wait", "close", "read", "done" or "exited"
  child,       \* per child: where it is
  loop,        \* per child: its j, from 1
  pipe,        \* values in the pipe
  reported,    \* children that wrote theirs
  total        \* values that the parent has added to totaltime

private == <<nchildren, nloops, parent, child, loop, pipe, reported, total>>

TypeOK ==
  /\ <<nchildren, nloops>> \in Args
  /\ parent \in {"fork", "wait", "close", "read", "done", "exited"}
  /\ child \in [Children -> {"none", "start", "connect", "line", "report", "ended"}]
  /\ loop \in [Children -> 1..(Most(2) + 1)]
  /\ pipe \in 0..PipeCap
  /\ reported \subseteq Children
  /\ total \in 0..Most(1)

Init ==
  /\ \E a \in Args : nchildren = a[1] /\ nloops = a[2]
  /\ parent = "fork"
  /\ child = [k \in Children |-> "none"]
  /\ loop = [k \in Children |-> 1]
  /\ pipe = 0 /\ reported = {} /\ total = 0

Forked == {k \in Children : child[k] # "none"}
Alive == {k \in Forked : child[k] # "ended"}

-----------------------------------------------------------------------------
(* for (i = 0; i < nchildren; i++) if ((pid = Fork()) == 0) ...: Fork      *)
(* exits the parent when it fails, and its children are not reaped before  *)
(* the loop has ended.                                                     *)
Fork ==
  /\ parent = "fork"
  /\ LET i == Cardinality(Forked) IN
     \/ /\ i < nchildren /\ i < NProcs
        /\ child' = [child EXCEPT ![i + 1] = "start"]
        /\ UNCHANGED parent
     \/ i < nchildren /\ i >= NProcs /\ parent' = "exited" /\ UNCHANGED child
     \/ i = nchildren /\ parent' = "wait" /\ UNCHANGED child
  /\ UNCHANGED <<client, nchildren, nloops, loop, pipe, reported, total>>

(* while (wait(NULL) > 0);                                                 *)
WaitAll ==
  /\ parent = "wait" /\ Alive = {}
  /\ parent' = "close"
  /\ UNCHANGED <<client, nchildren, nloops, child, loop, pipe, reported, total>>

(* Close(pipe[1])                                                          *)
ClosePipe ==
  /\ parent = "close" /\ parent' = "read"
  /\ UNCHANGED <<client, nchildren, nloops, child, loop, pipe, reported, total>>

(* Processes that may still write: read waits for them when the pipe is    *)
(* empty.                                                                  *)
Writers == Alive # {} \/ parent \in {"fork", "wait", "close"}

(* Faulty: if in place of while.                                           *)
ReadOnce ==
  /\ parent = "read"
  /\ \/ pipe > 0 /\ pipe' = pipe - 1 /\ total' = total + 1 /\ parent' = "done"
     \/ pipe = 0 /\ ~Writers /\ parent' = "done" /\ UNCHANGED <<pipe, total>>
  /\ UNCHANGED <<client, nchildren, nloops, child, loop, reported>>

(* while (Read(pipe[0], ...) > 0) totaltime += temp_time                   *)
ReadPipe ==
  /\ parent = "read"
  /\ \/ pipe > 0 /\ pipe' = pipe - 1 /\ total' = total + 1 /\ UNCHANGED parent
     \/ pipe = 0 /\ ~Writers /\ parent' = "done" /\ UNCHANGED <<pipe, total>>
  /\ UNCHANGED <<client, nchildren, nloops, child, loop, reported>>

Parent == Fork \/ WaitAll \/ ClosePipe \/ ReadPipe

-----------------------------------------------------------------------------
Goto(k, from, to) == child[k] = from /\ child' = [child EXCEPT ![k] = to]
Conn(k) == <<k, loop[k]>>
Top(j) == IF j <= nloops THEN "connect" ELSE "report"

(* Close(pipe[0])                                                          *)
Start(k) ==
  /\ Goto(k, "start", Top(1))
  /\ UNCHANGED <<client, nchildren, nloops, parent, loop, pipe, reported, total>>

(* Open_clientfd, Rio_writen.                                              *)
Connect(k) ==
  /\ up /\ Goto(k, "connect", "line")
  /\ client' = [client EXCEPT ![Conn(k)] = "sent"]
  /\ UNCHANGED <<nchildren, nloops, parent, loop, pipe, reported, total>>

(* When the server does not listen, or goes down between the two calls,    *)
(* the child exits or is killed by SIGPIPE.                                *)
ConnectFails(k) ==
  /\ ~up /\ Goto(k, "connect", "ended")
  /\ UNCHANGED <<client, nchildren, nloops, parent, loop, pipe, reported, total>>

(* Faulty: does not notice the end of the stream.                          *)
ReceiveLine(k) ==
  /\ Conn(k) \in answered
  /\ Goto(k, "line", Top(loop[k] + 1))
  /\ client' = [client EXCEPT ![Conn(k)] = "closed"]
  /\ loop' = [loop EXCEPT ![k] = @ + 1]
  /\ UNCHANGED <<nchildren, nloops, parent, pipe, reported, total>>

(* Rio_readlineb, Close(clientfd), and the next round.  The end of the     *)
(* stream is taken for a line.  When the server has exited the connection  *)
(* may be reset, and the child exits.                                      *)
Receive(k) ==
  /\ \/ /\ Conn(k) \in answered \cup over
        /\ Goto(k, "line", Top(loop[k] + 1))
     \/ Conn(k) \in over /\ ~up /\ Goto(k, "line", "ended")
  /\ client' = [client EXCEPT ![Conn(k)] = "closed"]
  /\ loop' = [loop EXCEPT ![k] = @ + 1]
  /\ UNCHANGED <<nchildren, nloops, parent, pipe, reported, total>>

(* Somebody has the reading end open: the parent, or a sibling that has    *)
(* not closed its copy yet.                                                *)
Readers == parent # "exited" \/ \E k \in Children : child[k] = "start"

(* Write(pipe[1], ...); exit(0).  Write blocks while the pipe is full, and *)
(* without a reader SIGPIPE kills the child.                               *)
Report(k) ==
  /\ Goto(k, "report", "ended")
  /\ \/ /\ Readers /\ pipe < PipeCap
        /\ pipe' = pipe + 1 /\ reported' = reported \cup {k}
     \/ ~Readers /\ UNCHANGED <<pipe, reported>>
  /\ UNCHANGED <<client, nchildren, nloops, parent, loop, total>>

Child(k) ==
  Start(k) \/ Connect(k) \/ ConnectFails(k) \/ Receive(k) \/ Report(k)

Next == Parent \/ \E k \in Children : Child(k)

-----------------------------------------------------------------------------
(* The average that the parent prints is nchildren * nloops times too      *)
(* small for every child that is missing from totaltime: all that was      *)
(* reported is read, although nothing is read before the last child has    *)
(* ended, and a child is missing only when the server went down.           *)
ReportsCounted ==
  parent = "done" =>
    /\ total = Cardinality(reported)
    /\ reported = 1..nchildren \/ ~up

(* The children wait for room in the pipe, which the parent does not read  *)
(* before they have ended.                                                 *)
Deadlock == /\ nchildren > PipeCap /\ pipe = PipeCap
            /\ Alive # {} /\ \A k \in Alive : child[k] = "report"

(* The test comes to its end whatever the server does, or to the deadlock  *)
(* of a pipe that is too small for the reports; nothing else stops it.     *)
TestEnds == <>(parent \in {"done", "exited"} \/ Deadlock)
=============================================================================
