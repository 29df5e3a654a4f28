---------------------------- MODULE LoadTestProofs ----------------------------
(***************************************************************************)
(* Proofs about the server with a thread per connection under the load     *)
(* generator, for every number of connections, cells, descriptors and      *)
(* threads, every set of tests and every size of the pipe.                 *)
(***************************************************************************)
EXTENDS LoadTest, FiniteSetTheorems, WellFoundedInduction, TLAPS

Cells == TS!Cells
Fds == TS!Fds

(* Where a thread has its connection: from its copy out of the cell to its *)
(* Close; and where serve_dynamic has not forked for it yet.               *)
Serving == {"request", "headers", "open", "closesrc", "rest", "fork", "wait", "close"}
BeforeFork == {"none", "start", "request", "headers", "open", "closesrc", "rest", "fork"}

(* While main hands a connection over, its cell holds the descriptor.      *)
MainInv ==
  /\ main = "create" =>
       /\ up /\ last \in accepted /\ at[last] = "none"
       /\ ptr \in used /\ heap[ptr] \in Fds /\ fdt[heap[ptr]] = last
  /\ main = "accept" => ptr = None

(* Every accepted connection has its thread, or is in main's hand.         *)
HandedOver ==
  /\ \A t \in Conns : at[t] # "none" => t \in accepted
  /\ up => \A t \in accepted : at[t] = "none" => main = "create" /\ last = t

(* What a thread holds fits where it is.                                   *)
ThreadInv ==
  \A t \in Conns :
    /\ IF at[t] = "start"
       THEN arg[t] \in used /\ heap[arg[t]] \in Fds /\ fdt[heap[arg[t]]] = t
       ELSE arg[t] = None
    /\ at[t] \in Serving => connfd[t] \in Fds /\ fdt[connfd[t]] = t
    /\ IF at[t] = "closesrc" THEN srcfd[t] \in Fds /\ fdt[srcfd[t]] = Src
                             ELSE srcfd[t] = None

(* Nobody shares a cell or the descriptor of a file, and no connection has *)
(* two descriptors.                                                        *)
OneHolder ==
  /\ \A t, u \in Conns : t # u => /\ arg[t] # None => arg[t] # arg[u]
                                  /\ srcfd[t] # None => srcfd[t] # srcfd[u]
  /\ \A t \in Conns : arg[t] # None => arg[t] # ptr
  /\ \A f, g \in Fds : fdt[f] = fdt[g] /\ fdt[f] \in Conns => f = g
  /\ \A f \in Fds : fdt[f] \in Conns => fdt[f] \in accepted

(* Exit has taken everything.                                              *)
DownInv ==
  ~up => /\ main = "accept"
         /\ \A f \in Fds : fdt[f] = None
         /\ \A t \in Conns : at[t] \in {"none", "done"}

(* A connection is forked for once, by its own thread, and its child has   *)
(* it open as long as it runs.                                             *)
KidInv ==
  \A c \in Conns :
    /\ kid[c] # "none" => c \in accepted
    /\ at[c] \in BeforeFork => kid[c] = "none"
    /\ IF kid[c] = "running" THEN c \in inherited[c] ELSE inherited[c] = {}
    /\ inherited[c] \subseteq accepted

(* Who is past its reply has written it, or its child will.                *)
ReplyInv ==
  \A c \in Conns :
    /\ kid[c] \in {"zombie", "reaped"} => c \in replied
    /\ at[c] = "wait" => kid[c] # "none"
    /\ at[c] = "close" \/ (up /\ at[c] = "done") => c \in replied \/ kid[c] = "running"

ServerInv == /\ TS!TypeOK /\ MainInv /\ HandedOver /\ ThreadInv /\ OneHolder /\ DownInv
             /\ KidInv /\ ReplyInv
-----------------------------------------------------------------------------
(* What the parent has read and what is in the pipe is what was reported.  *)
Conserved == total + pipe = Cardinality(reported)

(* Children are forked in order, and none is left when the pipe is read.   *)
ForkInv ==
  /\ \E n \in 0..nchildren : LG!Forked = 1..n /\ (parent \notin {"fork", "exited"} => n = nchildren)
  /\ parent \in {"close", "read", "done"} => LG!Alive = {}
  /\ parent = "done" => pipe = 0

(* A child has reported, or it went down with the server, or with the      *)
(* parent, the last reader of the pipe.                                    *)
ReportInv ==
  \A k \in LG!Children :
    /\ k \in reported => child[k] = "ended"
    /\ child[k] = "ended" => k \in reported \/ ~up \/ parent = "exited"

(* loop counts from 1 to nloops.                                           *)
LoopInv ==
  \A k \in LG!Children :
    /\ child[k] \in {"none", "start"} => loop[k] = 1
    /\ child[k] \in {"connect", "line"} => loop[k] <= nloops

TestInv == LG!TypeOK /\ Conserved /\ ForkInv /\ ReportInv /\ LoopInv

IInv == ServerInv /\ TestInv
-----------------------------------------------------------------------------
(* The steps of the server that go well, apart from those that exit.       *)
TakeIn(c, p, f) ==
  /\ up /\ main = "accept" /\ c \notin accepted /\ p \notin used /\ fdt[f] = None
  /\ main' = "create" /\ ptr' = p /\ last' = c
  /\ used' = used \cup {p} /\ heap' = [heap EXCEPT ![p] = f]
  /\ fdt' = [fdt EXCEPT ![f] = c] /\ accepted' = accepted \cup {c}
  /\ UNCHANGED <<client, line, replied, at, arg, connfd, srcfd, kid, inherited, pending, up>>

HandOver ==
  /\ up /\ main = "create"
  /\ main' = "accept" /\ ptr' = None /\ last' = None
  /\ at' = [at EXCEPT ![last] = "start"] /\ arg' = [arg EXCEPT ![last] = ptr]
  /\ UNCHANGED <<client, line, replied, accepted, used, heap, fdt, connfd, srcfd, kid,
                 inherited, pending, up>>

(* The steps of doit that only move on, or write.                          *)
Move(t, from, to) ==
  /\ up /\ at[t] = from /\ at' = [at EXCEPT ![t] = to]
  /\ UNCHANGED <<client, accepted, main, ptr, last, used, heap, fdt, arg, connfd, srcfd, kid,
                 inherited, pending, up>>
Reading(t) ==
  /\ \E l \in {"rest", "open", "fork", "headers"} : Move(t, "request", l)
  /\ line' \in {line, line \cup {TS!Conn(t)}} /\ UNCHANGED replied
Writing(t) ==
  Move(t, "rest", "close") /\ replied' = replied \cup {TS!Conn(t)} /\ UNCHANGED line

OpenFile(t, f) ==
  /\ up /\ at[t] = "open" /\ at' = [at EXCEPT ![t] = "closesrc"]
  /\ fdt[f] = None
  /\ fdt' = [fdt EXCEPT ![f] = Src] /\ srcfd' = [srcfd EXCEPT ![t] = f]
  /\ UNCHANGED <<client, line, replied, accepted, main, ptr, last, used, heap, arg, connfd,
                 kid, inherited, pending, up>>

Reap(t, c) ==
  /\ up /\ at[t] = "wait" /\ at' = [at EXCEPT ![t] = "close"]
  /\ kid[c] = "zombie" /\ kid' = [kid EXCEPT ![c] = "reaped"]
  /\ UNCHANGED <<client, line, replied, accepted, main, ptr, last, used, heap, fdt, arg,
                 connfd, srcfd, inherited, pending, up>>

ServerMoves ==
  \/ \E c \in Conns, p \in Cells, f \in Fds : TakeIn(c, p, f)
  \/ HandOver
  \/ TS!Exit
  \/ \E t \in Conns : TS!Start(t)
  \/ \E t \in Conns : Reading(t)
  \/ \E t \in Conns : Writing(t)
  \/ \E t \in Conns, f \in Fds : OpenFile(t, f)
  \/ \E t \in Conns : TS!CloseSrc(t)
  \/ \E t \in Conns : TS!Fork(t)
  \/ \E t, c \in Conns : Reap(t, c)
  \/ \E t \in Conns : TS!Close(t)
  \/ \E c \in Conns : TS!ChildExit(c)
  \/ TS!Handle

LEMMA ServerCases == TS!Server => ServerMoves
<1>1. TS!Accept => ServerMoves
  BY DEF TS!Accept, TS!Waiting, TS!Lowest, TS!FreeFds, TS!reply, TS!threadVars, TS!kidVars,
         ServerMoves, TakeIn, Cells, Fds
<1>2. TS!Create => ServerMoves
  BY DEF TS!Create, TS!reply, TS!heapVars, TS!kidVars, ServerMoves, HandOver
<1>3. ASSUME NEW t \in Conns, TS!Thread(t) PROVE ServerMoves
  <2>1. CASE TS!Start(t) \/ TS!CloseSrc(t) \/ TS!Fork(t) \/ TS!Close(t)
    BY <2>1 DEF ServerMoves
  <2>2. CASE TS!Respond(t)
    <3>1. Reading(t)
      BY <2>2 DEF TS!Respond, TS!Goto, TS!mainVars, TS!heapVars, TS!kidVars, Reading, Move
    <3> QED
      BY <3>1 DEF ServerMoves
  <2>3. CASE TS!ReadHdrs(t)
    <3>1. Reading(t)
      BY <2>3 DEF TS!ReadHdrs, TS!Goto, TS!reply, TS!mainVars, TS!heapVars, TS!kidVars,
                  Reading, Move
    <3> QED
      BY <3>1 DEF ServerMoves
  <2>4. CASE TS!WriteRest(t)
    <3>1. Writing(t)
      BY <2>4 DEF TS!WriteRest, TS!Goto, TS!mainVars, TS!heapVars, TS!kidVars, Writing, Move
    <3> QED
      BY <3>1 DEF ServerMoves
  <2>5. CASE TS!ClientError(t) \/ TS!ForkFails(t)
    BY <2>5 DEF TS!ClientError, TS!ForkFails, ServerMoves
  <2>6. CASE TS!Open(t)
    BY <2>6 DEF TS!Open, TS!Goto, TS!Lowest, TS!FreeFds, TS!reply, TS!mainVars, TS!heapVars,
                TS!kidVars, ServerMoves, OpenFile, Fds
  <2>7. CASE TS!Wait(t)
    BY <2>7 DEF TS!Wait, TS!Goto, TS!reply, TS!mainVars, TS!heapVars, ServerMoves, Reap
  <2> QED
    BY <1>3, <2>1, <2>2, <2>3, <2>4, <2>5, <2>6, <2>7 DEF TS!Thread, TS!Doit
<1>4. (\E c \in Conns : TS!ChildExit(c)) \/ TS!Handle => ServerMoves
  BY DEF ServerMoves
<1> QED
  BY <1>1, <1>2, <1>3, <1>4 DEF TS!Server

(* Every step is one of the server, or leaves the server alone.            *)
LEMMA StepCases ==
  [Next]_vars => ServerMoves \/ UNCHANGED serverVars
BY ServerCases DEF Next, Programs, ServerStep, TestStep, TS!Client, TS!reply, TS!private,
   TS!mainVars, TS!heapVars, TS!threadVars, TS!kidVars, vars, serverVars
-----------------------------------------------------------------------------
(* The server's invariant is kept, piece by piece.                         *)
LEMMA TypeFacts ==
  ServerInv => /\ accepted \subseteq Conns /\ line \subseteq Conns /\ replied \subseteq Conns
  /\ main \in {"accept", "create"}
  /\ ptr \in Cells \cup {None} /\ last \in Conns \cup {None}
  /\ used \subseteq Cells /\ heap \in [Cells -> Fds \cup {None}]
  /\ fdt \in [Fds -> Conns \cup {None, Src}]
  /\ at \in [Conns -> TS!Labels]
  /\ arg \in [Conns -> Cells \cup {None}]
  /\ connfd \in [Conns -> Fds \cup {None}] /\ srcfd \in [Conns -> Fds \cup {None}]
  /\ kid \in [Conns -> {"none", "running", "zombie", "reaped"}]
  /\ inherited \in [Conns -> SUBSET Conns]
  /\ None \notin Conns /\ Src \notin Conns /\ None # Src
  /\ None \notin Fds /\ None \notin Cells
BY LoadTestAssumption DEF ServerInv, TS!TypeOK, TS!ThreadServerAssumption, Cells, Fds, TS!Cells, TS!Fds

LEMMA MainStep == ServerInv /\ ServerMoves => MainInv'
<1> SUFFICES ASSUME ServerInv, ServerMoves PROVE MainInv'
  OBVIOUS
<1> USE TypeFacts DEF ServerInv, MainInv, HandedOver, OneHolder, DownInv, ThreadInv, Serving, BeforeFork
<1>1. ASSUME NEW c \in Conns, NEW p \in Cells, NEW f \in Fds, TakeIn(c, p, f) PROVE MainInv'
  BY <1>1 DEF TakeIn
<1>2. ASSUME HandOver PROVE MainInv'
  BY <1>2 DEF HandOver
<1>3. ASSUME TS!Exit PROVE MainInv'
  BY <1>3 DEF TS!Exit, TS!reply, TS!kidVars, Fds, Cells
<1>4. ASSUME NEW t \in Conns, TS!Start(t) PROVE MainInv'
  BY <1>4 DEF TS!Start, TS!Goto, TS!reply, TS!mainVars, TS!kidVars
<1>5. ASSUME NEW t \in Conns, Reading(t) PROVE MainInv'
  BY <1>5 DEF Reading, Move
<1>6. ASSUME NEW t \in Conns, Writing(t) PROVE MainInv'
  BY <1>6 DEF Writing, Move, TS!Conn
<1>7. ASSUME NEW t \in Conns, NEW f \in Fds, OpenFile(t, f) PROVE MainInv'
  BY <1>7 DEF OpenFile
<1>8. ASSUME NEW t \in Conns, TS!CloseSrc(t) PROVE MainInv'
  BY <1>8 DEF TS!CloseSrc, TS!Goto, TS!reply, TS!mainVars, TS!heapVars, TS!kidVars
<1>9. ASSUME NEW t \in Conns, TS!Fork(t) PROVE MainInv'
  BY <1>9 DEF TS!Fork, TS!Goto, TS!reply, TS!mainVars, TS!heapVars, TS!Conn, Fds
<1>10. ASSUME NEW t \in Conns, NEW c \in Conns, Reap(t, c) PROVE MainInv'
  BY <1>10 DEF Reap
<1>11. ASSUME NEW t \in Conns, TS!Close(t) PROVE MainInv'
  BY <1>11 DEF TS!Close, TS!Goto, TS!reply, TS!mainVars, TS!heapVars, TS!kidVars
<1>12. ASSUME NEW c \in Conns, TS!ChildExit(c) PROVE MainInv'
  BY <1>12 DEF TS!ChildExit, TS!mainVars, TS!heapVars, TS!threadVars
<1>13. ASSUME TS!Handle PROVE MainInv'
  BY <1>13 DEF TS!Handle, TS!reply, TS!mainVars, TS!heapVars, TS!threadVars
<1> QED
  BY <1>1, <1>2, <1>3, <1>4, <1>5, <1>6, <1>7, <1>8, <1>9, <1>10, <1>11, <1>12, <1>13 DEF ServerMoves

LEMMA HandedStep == ServerInv /\ ServerMoves => HandedOver'
<1> SUFFICES ASSUME ServerInv, ServerMoves PROVE HandedOver'
  OBVIOUS
<1> USE TypeFacts DEF ServerInv, HandedOver, MainInv, Serving, BeforeFork
<1>1. ASSUME NEW c \in Conns, NEW p \in Cells, NEW f \in Fds, TakeIn(c, p, f) PROVE HandedOver'
  BY <1>1 DEF TakeIn
<1>2. ASSUME HandOver PROVE HandedOver'
  BY <1>2 DEF HandOver
<1>3. ASSUME TS!Exit PROVE HandedOver'
  BY <1>3 DEF TS!Exit, TS!reply, TS!kidVars, Fds, Cells
<1>4. ASSUME NEW t \in Conns, TS!Start(t) PROVE HandedOver'
  BY <1>4 DEF TS!Start, TS!Goto, TS!reply, TS!mainVars, TS!kidVars
<1>5. ASSUME NEW t \in Conns, Reading(t) PROVE HandedOver'
  BY <1>5 DEF Reading, Move
<1>6. ASSUME NEW t \in Conns, Writing(t) PROVE HandedOver'
  BY <1>6 DEF Writing, Move, TS!Conn
<1>7. ASSUME NEW t \in Conns, NEW f \in Fds, OpenFile(t, f) PROVE HandedOver'
  BY <1>7 DEF OpenFile
<1>8. ASSUME NEW t \in Conns, TS!CloseSrc(t) PROVE HandedOver'
  BY <1>8 DEF TS!CloseSrc, TS!Goto, TS!reply, TS!mainVars, TS!heapVars, TS!kidVars
<1>9. ASSUME NEW t \in Conns, TS!Fork(t) PROVE HandedOver'
  BY <1>9 DEF TS!Fork, TS!Goto, TS!reply, TS!mainVars, TS!heapVars, TS!Conn, Fds
<1>10. ASSUME NEW t \in Conns, NEW c \in Conns, Reap(t, c) PROVE HandedOver'
  BY <1>10 DEF Reap
<1>11. ASSUME NEW t \in Conns, TS!Close(t) PROVE HandedOver'
  BY <1>11 DEF TS!Close, TS!Goto, TS!reply, TS!mainVars, TS!heapVars, TS!kidVars
<1>12. ASSUME NEW c \in Conns, TS!ChildExit(c) PROVE HandedOver'
  BY <1>12 DEF TS!ChildExit, TS!mainVars, TS!heapVars, TS!threadVars
<1>13. ASSUME TS!Handle PROVE HandedOver'
  BY <1>13 DEF TS!Handle, TS!reply, TS!mainVars, TS!heapVars, TS!threadVars
<1> QED
  BY <1>1, <1>2, <1>3, <1>4, <1>5, <1>6, <1>7, <1>8, <1>9, <1>10, <1>11, <1>12, <1>13 DEF ServerMoves

LEMMA ThreadStep == ServerInv /\ ServerMoves => ThreadInv'
<1> SUFFICES ASSUME ServerInv, ServerMoves PROVE ThreadInv'
  OBVIOUS
<1> USE TypeFacts DEF ServerInv, ThreadInv, MainInv, OneHolder, HandedOver, DownInv, Serving, BeforeFork
<1>1. ASSUME NEW c \in Conns, NEW p \in Cells, NEW f \in Fds, TakeIn(c, p, f) PROVE ThreadInv'
  BY <1>1 DEF TakeIn
<1>2. ASSUME HandOver PROVE ThreadInv'
  BY <1>2 DEF HandOver
<1>3. ASSUME TS!Exit PROVE ThreadInv'
  BY <1>3 DEF TS!Exit, TS!reply, TS!kidVars, Fds, Cells
<1>4. ASSUME NEW t \in Conns, TS!Start(t) PROVE ThreadInv'
  BY <1>4 DEF TS!Start, TS!Goto, TS!reply, TS!mainVars, TS!kidVars
<1>5. ASSUME NEW t \in Conns, Reading(t) PROVE ThreadInv'
  BY <1>5 DEF Reading, Move
<1>6. ASSUME NEW t \in Conns, Writing(t) PROVE ThreadInv'
  BY <1>6 DEF Writing, Move, TS!Conn
<1>7. ASSUME NEW t \in Conns, NEW f \in Fds, OpenFile(t, f) PROVE ThreadInv'
  BY <1>7 DEF OpenFile
<1>8. ASSUME NEW t \in Conns, TS!CloseSrc(t) PROVE ThreadInv'
  BY <1>8 DEF TS!CloseSrc, TS!Goto, TS!reply, TS!mainVars, TS!heapVars, TS!kidVars
<1>9. ASSUME NEW t \in Conns, TS!Fork(t) PROVE ThreadInv'
  BY <1>9 DEF TS!Fork, TS!Goto, TS!reply, TS!mainVars, TS!heapVars, TS!Conn, Fds
<1>10. ASSUME NEW t \in Conns, NEW c \in Conns, Reap(t, c) PROVE ThreadInv'
  BY <1>10 DEF Reap
<1>11. ASSUME NEW t \in Conns, TS!Close(t) PROVE ThreadInv'
  BY <1>11 DEF TS!Close, TS!Goto, TS!reply, TS!mainVars, TS!heapVars, TS!kidVars
<1>12. ASSUME NEW c \in Conns, TS!ChildExit(c) PROVE ThreadInv'
  BY <1>12 DEF TS!ChildExit, TS!mainVars, TS!heapVars, TS!threadVars
<1>13. ASSUME TS!Handle PROVE ThreadInv'
  BY <1>13 DEF TS!Handle, TS!reply, TS!mainVars, TS!heapVars, TS!threadVars
<1> QED
  BY <1>1, <1>2, <1>3, <1>4, <1>5, <1>6, <1>7, <1>8, <1>9, <1>10, <1>11, <1>12, <1>13 DEF ServerMoves

LEMMA HolderStep == ServerInv /\ ServerMoves => OneHolder'
<1> SUFFICES ASSUME ServerInv, ServerMoves PROVE OneHolder'
  OBVIOUS
<1> USE TypeFacts DEF ServerInv, OneHolder, MainInv, ThreadInv, HandedOver, DownInv, Serving, BeforeFork
<1>1. ASSUME NEW c \in Conns, NEW p \in Cells, NEW f \in Fds, TakeIn(c, p, f) PROVE OneHolder'
  BY <1>1 DEF TakeIn
<1>2. ASSUME HandOver PROVE OneHolder'
  BY <1>2 DEF HandOver
<1>3. ASSUME TS!Exit PROVE OneHolder'
  BY <1>3 DEF TS!Exit, TS!reply, TS!kidVars, Fds, Cells
<1>4. ASSUME NEW t \in Conns, TS!Start(t) PROVE OneHolder'
  BY <1>4 DEF TS!Start, TS!Goto, TS!reply, TS!mainVars, TS!kidVars
<1>5. ASSUME NEW t \in Conns, Reading(t) PROVE OneHolder'
  BY <1>5 DEF Reading, Move
<1>6. ASSUME NEW t \in Conns, Writing(t) PROVE OneHolder'
  BY <1>6 DEF Writing, Move, TS!Conn
<1>7. ASSUME NEW t \in Conns, NEW f \in Fds, OpenFile(t, f) PROVE OneHolder'
  BY <1>7 DEF OpenFile
<1>8. ASSUME NEW t \in Conns, TS!CloseSrc(t) PROVE OneHolder'
  BY <1>8 DEF TS!CloseSrc, TS!Goto, TS!reply, TS!mainVars, TS!heapVars, TS!kidVars
<1>9. ASSUME NEW t \in Conns, TS!Fork(t) PROVE OneHolder'
  BY <1>9 DEF TS!Fork, TS!Goto, TS!reply, TS!mainVars, TS!heapVars, TS!Conn, Fds
<1>10. ASSUME NEW t \in Conns, NEW c \in Conns, Reap(t, c) PROVE OneHolder'
  BY <1>10 DEF Reap
<1>11. ASSUME NEW t \in Conns, TS!Close(t) PROVE OneHolder'
  BY <1>11 DEF TS!Close, TS!Goto, TS!reply, TS!mainVars, TS!heapVars, TS!kidVars
<1>12. ASSUME NEW c \in Conns, TS!ChildExit(c) PROVE OneHolder'
  BY <1>12 DEF TS!ChildExit, TS!mainVars, TS!heapVars, TS!threadVars
<1>13. ASSUME TS!Handle PROVE OneHolder'
  BY <1>13 DEF TS!Handle, TS!reply, TS!mainVars, TS!heapVars, TS!threadVars
<1> QED
  BY <1>1, <1>2, <1>3, <1>4, <1>5, <1>6, <1>7, <1>8, <1>9, <1>10, <1>11, <1>12, <1>13 DEF ServerMoves

LEMMA DownStep == ServerInv /\ ServerMoves => DownInv'
<1> SUFFICES ASSUME ServerInv, ServerMoves PROVE DownInv'
  OBVIOUS
<1> USE TypeFacts DEF ServerInv, DownInv, MainInv, Serving, BeforeFork
<1>1. ASSUME NEW c \in Conns, NEW p \in Cells, NEW f \in Fds, TakeIn(c, p, f) PROVE DownInv'
  BY <1>1 DEF TakeIn
<1>2. ASSUME HandOver PROVE DownInv'
  BY <1>2 DEF HandOver
<1>3. ASSUME TS!Exit PROVE DownInv'
  BY <1>3 DEF TS!Exit, TS!reply, TS!kidVars, Fds, Cells
<1>4. ASSUME NEW t \in Conns, TS!Start(t) PROVE DownInv'
  BY <1>4 DEF TS!Start, TS!Goto, TS!reply, TS!mainVars, TS!kidVars
<1>5. ASSUME NEW t \in Conns, Reading(t) PROVE DownInv'
  BY <1>5 DEF Reading, Move
<1>6. ASSUME NEW t \in Conns, Writing(t) PROVE DownInv'
  BY <1>6 DEF Writing, Move, TS!Conn
<1>7. ASSUME NEW t \in Conns, NEW f \in Fds, OpenFile(t, f) PROVE DownInv'
  BY <1>7 DEF OpenFile
<1>8. ASSUME NEW t \in Conns, TS!CloseSrc(t) PROVE DownInv'
  BY <1>8 DEF TS!CloseSrc, TS!Goto, TS!reply, TS!mainVars, TS!heapVars, TS!kidVars
<1>9. ASSUME NEW t \in Conns, TS!Fork(t) PROVE DownInv'
  BY <1>9 DEF TS!Fork, TS!Goto, TS!reply, TS!mainVars, TS!heapVars, TS!Conn, Fds
<1>10. ASSUME NEW t \in Conns, NEW c \in Conns, Reap(t, c) PROVE DownInv'
  BY <1>10 DEF Reap
<1>11. ASSUME NEW t \in Conns, TS!Close(t) PROVE DownInv'
  BY <1>11 DEF TS!Close, TS!Goto, TS!reply, TS!mainVars, TS!heapVars, TS!kidVars
<1>12. ASSUME NEW c \in Conns, TS!ChildExit(c) PROVE DownInv'
  BY <1>12 DEF TS!ChildExit, TS!mainVars, TS!heapVars, TS!threadVars
<1>13. ASSUME TS!Handle PROVE DownInv'
  BY <1>13 DEF TS!Handle, TS!reply, TS!mainVars, TS!heapVars, TS!threadVars
<1> QED
  BY <1>1, <1>2, <1>3, <1>4, <1>5, <1>6, <1>7, <1>8, <1>9, <1>10, <1>11, <1>12, <1>13 DEF ServerMoves

LEMMA KidStep == ServerInv /\ ServerMoves => KidInv'
<1> SUFFICES ASSUME ServerInv, ServerMoves PROVE KidInv'
  OBVIOUS
<1> USE TypeFacts DEF ServerInv, KidInv, MainInv, HandedOver, ThreadInv, OneHolder, Serving, BeforeFork
<1>1. ASSUME NEW c \in Conns, NEW p \in Cells, NEW f \in Fds, TakeIn(c, p, f) PROVE KidInv'
  BY <1>1 DEF TakeIn
<1>2. ASSUME HandOver PROVE KidInv'
  BY <1>2 DEF HandOver
<1>3. ASSUME TS!Exit PROVE KidInv'
  BY <1>3 DEF TS!Exit, TS!reply, TS!kidVars, Fds, Cells
<1>4. ASSUME NEW t \in Conns, TS!Start(t) PROVE KidInv'
  BY <1>4 DEF TS!Start, TS!Goto, TS!reply, TS!mainVars, TS!kidVars
<1>5. ASSUME NEW t \in Conns, Reading(t) PROVE KidInv'
  BY <1>5 DEF Reading, Move
<1>6. ASSUME NEW t \in Conns, Writing(t) PROVE KidInv'
  BY <1>6 DEF Writing, Move, TS!Conn
<1>7. ASSUME NEW t \in Conns, NEW f \in Fds, OpenFile(t, f) PROVE KidInv'
  BY <1>7 DEF OpenFile
<1>8. ASSUME NEW t \in Conns, TS!CloseSrc(t) PROVE KidInv'
  BY <1>8 DEF TS!CloseSrc, TS!Goto, TS!reply, TS!mainVars, TS!heapVars, TS!kidVars
<1>9. ASSUME NEW t \in Conns, TS!Fork(t) PROVE KidInv'
  BY <1>9 DEF TS!Fork, TS!Goto, TS!reply, TS!mainVars, TS!heapVars, TS!Conn, Fds
<1>10. ASSUME NEW t \in Conns, NEW c \in Conns, Reap(t, c) PROVE KidInv'
  BY <1>10 DEF Reap
<1>11. ASSUME NEW t \in Conns, TS!Close(t) PROVE KidInv'
  BY <1>11 DEF TS!Close, TS!Goto, TS!reply, TS!mainVars, TS!heapVars, TS!kidVars
<1>12. ASSUME NEW c \in Conns, TS!ChildExit(c) PROVE KidInv'
  BY <1>12 DEF TS!ChildExit, TS!mainVars, TS!heapVars, TS!threadVars
<1>13. ASSUME TS!Handle PROVE KidInv'
  BY <1>13 DEF TS!Handle, TS!reply, TS!mainVars, TS!heapVars, TS!threadVars
<1> QED
  BY <1>1, <1>2, <1>3, <1>4, <1>5, <1>6, <1>7, <1>8, <1>9, <1>10, <1>11, <1>12, <1>13 DEF ServerMoves

LEMMA ReplyStep == ServerInv /\ ServerMoves => ReplyInv'
<1> SUFFICES ASSUME ServerInv, ServerMoves PROVE ReplyInv'
  OBVIOUS
<1> USE TypeFacts DEF ServerInv, ReplyInv, ThreadInv, KidInv, DownInv, Serving, BeforeFork
<1>1. ASSUME NEW c \in Conns, NEW p \in Cells, NEW f \in Fds, TakeIn(c, p, f) PROVE ReplyInv'
  BY <1>1 DEF TakeIn
<1>2. ASSUME HandOver PROVE ReplyInv'
  BY <1>2 DEF HandOver
<1>3. ASSUME TS!Exit PROVE ReplyInv'
  BY <1>3 DEF TS!Exit, TS!reply, TS!kidVars, Fds, Cells
<1>4. ASSUME NEW t \in Conns, TS!Start(t) PROVE ReplyInv'
  BY <1>4 DEF TS!Start, TS!Goto, TS!reply, TS!mainVars, TS!kidVars
<1>5. ASSUME NEW t \in Conns, Reading(t) PROVE ReplyInv'
  BY <1>5 DEF Reading, Move
<1>6. ASSUME NEW t \in Conns, Writing(t) PROVE ReplyInv'
  BY <1>6 DEF Writing, Move, TS!Conn
<1>7. ASSUME NEW t \in Conns, NEW f \in Fds, OpenFile(t, f) PROVE ReplyInv'
  BY <1>7 DEF OpenFile
<1>8. ASSUME NEW t \in Conns, TS!CloseSrc(t) PROVE ReplyInv'
  BY <1>8 DEF TS!CloseSrc, TS!Goto, TS!reply, TS!mainVars, TS!heapVars, TS!kidVars
<1>9. ASSUME NEW t \in Conns, TS!Fork(t) PROVE ReplyInv'
  BY <1>9 DEF TS!Fork, TS!Goto, TS!reply, TS!mainVars, TS!heapVars, TS!Conn, Fds
<1>10. ASSUME NEW t \in Conns, NEW c \in Conns, Reap(t, c) PROVE ReplyInv'
  BY <1>10 DEF Reap
<1>11. ASSUME NEW t \in Conns, TS!Close(t) PROVE ReplyInv'
  BY <1>11 DEF TS!Close, TS!Goto, TS!reply, TS!mainVars, TS!heapVars, TS!kidVars
<1>12. ASSUME NEW c \in Conns, TS!ChildExit(c) PROVE ReplyInv'
  BY <1>12 DEF TS!ChildExit, TS!mainVars, TS!heapVars, TS!threadVars
<1>13. ASSUME TS!Handle PROVE ReplyInv'
  BY <1>13 DEF TS!Handle, TS!reply, TS!mainVars, TS!heapVars, TS!threadVars
<1> QED
  BY <1>1, <1>2, <1>3, <1>4, <1>5, <1>6, <1>7, <1>8, <1>9, <1>10, <1>11, <1>12, <1>13 DEF ServerMoves

(* The types of the server's variables, the truth values apart.            *)
ServerTypes ==
  /\ client \in [Conns -> {"away", "connected", "sent", "closed"}]
  /\ accepted \subseteq Conns /\ line \subseteq Conns /\ replied \subseteq Conns
  /\ main \in {"accept", "create"}
  /\ ptr \in Cells \cup {None} /\ last \in Conns \cup {None}
  /\ used \subseteq Cells /\ heap \in [Cells -> Fds \cup {None}]
  /\ fdt \in [Fds -> Conns \cup {None, Src}]
  /\ at \in [Conns -> TS!Labels]
  /\ arg \in [Conns -> Cells \cup {None}]
  /\ connfd \in [Conns -> Fds \cup {None}] /\ srcfd \in [Conns -> Fds \cup {None}]
  /\ kid \in [Conns -> {"none", "running", "zombie", "reaped"}]
  /\ inherited \in [Conns -> SUBSET Conns]

LEMMA TypesSplit == TS!TypeOK <=> ServerTypes /\ pending \in BOOLEAN /\ up \in BOOLEAN
BY DEF TS!TypeOK, ServerTypes, Cells, Fds

LEMMA TypesStep == ServerInv /\ ServerMoves => ServerTypes'
<1> SUFFICES ASSUME ServerInv, ServerMoves PROVE ServerTypes'
  OBVIOUS
<1>0. ServerTypes
  BY TypesSplit DEF ServerInv
<1>a. \A t \in Conns : at[t] \in Serving => TS!Conn(t) = t
  BY DEF ServerInv, ThreadInv, TS!Conn
<1>b. \A t \in Conns : at[t] = "start" => heap[arg[t]] \in Fds
  BY DEF ServerInv, ThreadInv
<1> USE <1>0 DEF ServerTypes, TS!Labels
<1>1. ASSUME NEW c \in Conns, NEW p \in Cells, NEW f \in Fds, TakeIn(c, p, f) PROVE ServerTypes'
  BY <1>1 DEF TakeIn
<1>2. ASSUME HandOver PROVE ServerTypes'
  BY <1>2 DEF HandOver
<1>3. ASSUME TS!Exit PROVE ServerTypes'
  BY <1>3 DEF TS!Exit, TS!reply, TS!kidVars, Fds, Cells
<1>4. ASSUME NEW t \in Conns, TS!Start(t) PROVE ServerTypes'
  BY <1>4, <1>b DEF TS!Start, TS!Goto, TS!reply, TS!mainVars, TS!kidVars
<1>5. ASSUME NEW t \in Conns, Reading(t) PROVE ServerTypes'
  BY <1>5, <1>a DEF Reading, Move, Serving
<1>6. ASSUME NEW t \in Conns, Writing(t) PROVE ServerTypes'
  BY <1>6, <1>a DEF Writing, Move, Serving
<1>7. ASSUME NEW t \in Conns, NEW f \in Fds, OpenFile(t, f) PROVE ServerTypes'
  BY <1>7 DEF OpenFile
<1>8. ASSUME NEW t \in Conns, TS!CloseSrc(t) PROVE ServerTypes'
  BY <1>8 DEF TS!CloseSrc, TS!Goto, TS!reply, TS!mainVars, TS!heapVars, TS!kidVars
<1>9. ASSUME NEW t \in Conns, TS!Fork(t) PROVE ServerTypes'
  BY <1>9, <1>a DEF TS!Fork, TS!Goto, TS!reply, TS!mainVars, TS!heapVars, Fds, Serving
<1>10. ASSUME NEW t \in Conns, NEW c \in Conns, Reap(t, c) PROVE ServerTypes'
  BY <1>10 DEF Reap
<1>11. ASSUME NEW t \in Conns, TS!Close(t) PROVE ServerTypes'
  BY <1>11 DEF TS!Close, TS!Goto, TS!reply, TS!mainVars, TS!heapVars, TS!kidVars
<1>12. ASSUME NEW c \in Conns, TS!ChildExit(c) PROVE ServerTypes'
  BY <1>12 DEF TS!ChildExit, TS!mainVars, TS!heapVars, TS!threadVars
<1>13. ASSUME TS!Handle PROVE ServerTypes'
  BY <1>13 DEF TS!Handle, TS!reply, TS!mainVars, TS!heapVars, TS!threadVars
<1> QED
  BY <1>1, <1>2, <1>3, <1>4, <1>5, <1>6, <1>7, <1>8, <1>9, <1>10, <1>11, <1>12, <1>13 DEF ServerMoves

LEMMA FlagsStep == ServerInv /\ ServerMoves => pending' \in BOOLEAN /\ up' \in BOOLEAN
<1> SUFFICES ASSUME ServerInv, ServerMoves PROVE pending' \in BOOLEAN /\ up' \in BOOLEAN
  OBVIOUS
<1>1. pending \in BOOLEAN /\ up \in BOOLEAN
  BY TypesSplit DEF ServerInv
<1>2. /\ pending' = pending \/ pending' = TRUE \/ pending' = FALSE
      /\ up' = up \/ up' = FALSE
  BY DEF ServerMoves, TakeIn, HandOver, Reading, Writing, Move, OpenFile, Reap, TS!Exit, TS!Start,
     TS!CloseSrc, TS!Fork, TS!Close, TS!ChildExit, TS!Handle, TS!kidVars
<1> QED
  BY ONLY <1>1, <1>2

LEMMA ClientStep ==
  ASSUME client \in [Conns -> {"away", "connected", "sent", "closed"}],
         [Next]_vars, UNCHANGED serverVars
  PROVE  client' \in [Conns -> {"away", "connected", "sent", "closed"}]
<1>1. CASE ServerStep(TS!Server) \/ UNCHANGED vars
  <2>1. TS!Server => ServerMoves
    BY ServerCases
  <2>2. ServerMoves => client' = client
    BY DEF ServerMoves, TakeIn, HandOver, Reading, Writing, Move, OpenFile, Reap, TS!Exit,
       TS!Start, TS!CloseSrc, TS!Fork, TS!Close, TS!ChildExit, TS!Handle
  <2> QED
    BY <1>1, <2>1, <2>2 DEF ServerStep, vars
<1>2. CASE TestStep(LG!Next)
  <2>1. LG!Parent => client' = client
    BY DEF LG!Parent, LG!Fork, LG!WaitAll, LG!ClosePipe, LG!ReadPipe
  <2>2. ASSUME NEW k \in LG!Children, LG!Child(k)
        PROVE  client' \in [Conns -> {"away", "connected", "sent", "closed"}]
    BY <2>2 DEF LG!Child, LG!Start, LG!Connect, LG!ConnectFails, LG!Receive, LG!Report
  <2> QED
    BY <1>2, <2>1, <2>2 DEF TestStep, LG!Next
<1>3. CASE ServerStep(\E c \in Others : TS!Client(c))
  BY <1>3 DEF ServerStep, TS!Client
<1> QED
  BY <1>1, <1>2, <1>3 DEF Next, Programs

LEMMA ServerStepInv == ServerInv /\ [Next]_vars => ServerInv'
<1> SUFFICES ASSUME ServerInv, [Next]_vars PROVE ServerInv'
  OBVIOUS
<1>1. CASE ServerMoves
  <2>1. TS!TypeOK'
    <3>1. ServerTypes' /\ pending' \in BOOLEAN /\ up' \in BOOLEAN
      BY <1>1, TypesStep, FlagsStep
    <3> QED
      BY <3>1 DEF ServerTypes, TS!TypeOK, Cells, Fds
  <2> QED
    BY <1>1, <2>1, MainStep, HandedStep, ThreadStep, HolderStep, DownStep, KidStep, ReplyStep
       DEF ServerInv
<1>2. CASE UNCHANGED serverVars
  <2>1. TS!TypeOK'
    <3>1. ServerTypes /\ pending \in BOOLEAN /\ up \in BOOLEAN
      BY TypesSplit DEF ServerInv
    <3>2. client' \in [Conns -> {"away", "connected", "sent", "closed"}]
      BY <1>2, <3>1, ClientStep DEF ServerTypes
    <3>3. ServerTypes' /\ pending' \in BOOLEAN /\ up' \in BOOLEAN
      BY <1>2, <3>1, <3>2 DEF ServerTypes, serverVars
    <3> QED
      BY <3>3 DEF ServerTypes, TS!TypeOK, Cells, Fds
  <2>2. /\ MainInv' /\ HandedOver' /\ ThreadInv' /\ OneHolder' /\ DownInv'
        /\ KidInv' /\ ReplyInv'
    BY <1>2 DEF ServerInv, serverVars, MainInv, HandedOver, ThreadInv, OneHolder, DownInv, KidInv,
                ReplyInv
  <2> QED
    BY <2>1, <2>2 DEF ServerInv
<1> QED
  BY <1>1, <1>2, StepCases

LEMMA ServerInit == TS!Init => ServerInv
<1> SUFFICES ASSUME TS!Init PROVE ServerInv
  OBVIOUS
<1>1. TS!TypeOK
  BY DEF TS!Init, TS!TypeOK, TS!Labels
<1>2. None \notin Conns
  BY LoadTestAssumption DEF TS!ThreadServerAssumption
<1> QED
  BY <1>1, <1>2 DEF TS!Init, ServerInv, MainInv, HandedOver, ThreadInv, OneHolder, DownInv, KidInv,
     ReplyInv, Serving, BeforeFork, Fds, Cells

(* "avoid race condition": a thread reads its own descriptor out of its    *)
(* cell, and has its own connection to its Close, however cells and        *)
(* numbers are reused.                                                     *)
LEMMA PrivateFromInv == ServerInv => PrivateDescriptor
BY TypeFacts DEF ServerInv, TS!TypeOK, TS!Labels, ThreadInv, OneHolder, Serving, PrivateDescriptor,
       TS!PrivateDescriptor, Fds, Cells

-----------------------------------------------------------------------------
LEMMA StreamIs ==
  ASSUME NEW c \in Conns
  PROVE  /\ TS!Stream(c) \in {"away", "open", "whole", "cut"}
         /\ c \notin accepted => TS!Stream(c) = "away"
         /\ c \in accepted /\ TS!IsOpen(c) => TS!Stream(c) = "open"
         /\ c \in accepted /\ ~TS!IsOpen(c) =>
              TS!Stream(c) = IF c \in replied THEN "whole" ELSE "cut"
BY DEF TS!Stream, TS!Ended

LEMMA StreamWillBe ==
  ASSUME NEW c \in Conns
  PROVE  /\ TS!Stream(c)' \in {"away", "open", "whole", "cut"}
         /\ c \notin accepted' => TS!Stream(c)' = "away"
         /\ c \in accepted' /\ TS!IsOpen(c)' => TS!Stream(c)' = "open"
         /\ c \in accepted' /\ ~TS!IsOpen(c)' =>
              TS!Stream(c)' = IF c \in replied' THEN "whole" ELSE "cut"
BY DEF TS!Stream, TS!Ended

(* While the server runs, a connection that nobody has open is answered.   *)
ClosedAnswered == up => \A c \in accepted : ~TS!IsOpen(c) => c \in replied

LEMMA ClosedIsAnswered == ServerInv => ClosedAnswered
<1> SUFFICES ASSUME ServerInv, up, NEW c \in accepted, ~TS!IsOpen(c) PROVE c \in replied
  BY DEF ClosedAnswered
<1>1. /\ c \in Conns /\ at[c] \in TS!Labels
      /\ \A f \in Fds : fdt[f] # c
      /\ c \notin inherited[c]
  BY DEF ServerInv, TS!TypeOK, TS!IsOpen, Fds
<1>2. at[c] # "none" /\ at[c] # "start" /\ at[c] \notin Serving
  BY <1>1 DEF ServerInv, HandedOver, MainInv, ThreadInv, Serving
<1>3. at[c] = "done" /\ kid[c] # "running"
  BY <1>1, <1>2 DEF TS!Labels, Serving, ServerInv, KidInv
<1> QED
  BY <1>1, <1>3 DEF ServerInv, ReplyInv

(* The end of a stream is final.                                           *)
LEMMA StaysEnded ==
  ASSUME ServerInv, ServerMoves, NEW c \in accepted, ~TS!IsOpen(c)
  PROVE  ~TS!IsOpen(c)' /\ (c \in replied' <=> c \in replied)
<1> DEFINE Goal == /\ \A f \in Fds : fdt'[f] # c
                   /\ \A d \in Conns : c \notin inherited'[d]
                   /\ c \in replied' <=> c \in replied
<1>1. /\ c \in Conns
      /\ \A f \in Fds : fdt[f] # c
      /\ \A d \in Conns : c \notin inherited[d]
  BY TypeFacts DEF TS!IsOpen, Fds
<1>2. kid[c] # "running"
  BY <1>1 DEF ServerInv, KidInv
<1>3. \A t \in Conns : at[t] \in Serving => TS!Conn(t) # c
  BY <1>1 DEF ServerInv, ThreadInv, TS!Conn
<1> USE TypeFacts, <1>1
<1>4. ASSUME NEW d \in Conns, NEW p \in Cells, NEW f \in Fds, TakeIn(d, p, f) PROVE Goal
  BY <1>4 DEF TakeIn
<1>5. ASSUME HandOver PROVE Goal
  BY <1>5 DEF HandOver
<1>6. ASSUME TS!Exit PROVE Goal
  BY <1>6 DEF TS!Exit, TS!reply, TS!kidVars, Fds
<1>7. ASSUME NEW t \in Conns, TS!Start(t) PROVE Goal
  BY <1>7 DEF TS!Start, TS!reply, TS!kidVars
<1>8. ASSUME NEW t \in Conns, Reading(t) PROVE Goal
  BY <1>8 DEF Reading, Move
<1>9. ASSUME NEW t \in Conns, Writing(t) PROVE Goal
  BY <1>3, <1>9 DEF Writing, Move, Serving
<1>10. ASSUME NEW t \in Conns, NEW f \in Fds, OpenFile(t, f) PROVE Goal
  BY <1>10 DEF OpenFile
<1>11. ASSUME NEW t \in Conns, TS!CloseSrc(t) \/ TS!Close(t) PROVE Goal
  BY <1>11 DEF TS!CloseSrc, TS!Close, TS!reply, TS!kidVars
<1>12. ASSUME NEW t \in Conns, TS!Fork(t) PROVE Goal
  BY <1>12 DEF TS!Fork, TS!reply, Fds
<1>13. ASSUME NEW t \in Conns, NEW d \in Conns, Reap(t, d) PROVE Goal
  BY <1>13 DEF Reap
<1>14. ASSUME NEW d \in Conns, TS!ChildExit(d) PROVE Goal
  BY <1>2, <1>14 DEF TS!ChildExit
<1>15. ASSUME TS!Handle PROVE Goal
  BY <1>15 DEF TS!Handle, TS!reply
<1>16. Goal
  BY <1>4, <1>5, <1>6, <1>7, <1>8, <1>9, <1>10, <1>11, <1>12, <1>13, <1>14, <1>15 DEF ServerMoves
<1> QED
  BY <1>16 DEF TS!IsOpen, Fds

(* What a step does to the server's life and to what main has accepted.    *)
LEMMA StepAccepts ==
  ASSUME ServerMoves
  PROVE  /\ up' => up
         /\ \/ accepted' = accepted
            \/ \E c \in Conns, p \in Cells, f \in Fds : TakeIn(c, p, f)
BY DEF ServerMoves, HandOver, Reading, Writing, Move, OpenFile, Reap, TS!Exit, TS!Start, TakeIn,
       TS!CloseSrc, TS!Fork, TS!Close, TS!ChildExit, TS!Handle

LEMMA StepStream ==
  ASSUME ServerInv, ServerInv', ServerMoves, NEW c \in Conns, accepted' = accepted
  PROVE  \/ TS!Stream(c)' = TS!Stream(c)
         \/ TS!Stream(c) = "open" /\ TS!Stream(c)' = "whole"
         \/ TS!Stream(c) = "open" /\ TS!Stream(c)' = "cut" /\ ~up'
<1>1. CASE c \notin accepted
  BY <1>1, StreamIs, StreamWillBe
<1>2. CASE c \in accepted /\ ~TS!IsOpen(c)
  BY <1>2, StreamIs, StreamWillBe, StaysEnded
<1>3. CASE c \in accepted /\ TS!IsOpen(c)
  <2>1. ClosedAnswered'
    BY ClosedIsAnswered, PTL
  <2>2. up' /\ ~TS!IsOpen(c)' => c \in replied'
    BY <1>3, <2>1 DEF ClosedAnswered
  <2> QED
    BY <1>3, <2>2, StreamIs, StreamWillBe
<1> QED
  BY <1>1, <1>2, <1>3

(* Accepting a connection leaves the other streams as they are.            *)
LEMMA AcceptStream ==
  ASSUME ServerInv, NEW c \in Conns, NEW p \in Cells, NEW f \in Fds, TakeIn(c, p, f),
         NEW d \in Conns
  PROVE  TS!Stream(d)' = IF d = c THEN "open" ELSE TS!Stream(d)
<1> USE TypeFacts
<1>1. CASE d = c
  <2>1. fdt'[f] = c /\ c \in accepted'
    BY DEF TakeIn
  <2>2. TS!IsOpen(c)'
    BY <2>1 DEF TS!IsOpen, Fds
  <2> QED
    BY <1>1, <2>1, <2>2, StreamWillBe
<1>2. CASE d # c
  <2>1. \A g \in Fds : fdt'[g] = d <=> fdt[g] = d
    BY <1>2 DEF TakeIn
  <2>2. /\ TS!IsOpen(d)' <=> TS!IsOpen(d)
        /\ d \in accepted' <=> d \in accepted
        /\ d \in replied' <=> d \in replied
    BY <1>2, <2>1 DEF TakeIn, TS!IsOpen, Fds
  <2> QED
    BY <1>2, <2>2, StreamIs, StreamWillBe
<1> QED
  BY <1>1, <1>2

(* A step of the server is one of the web server's, and the other programs *)
(* do not touch what the web server is.                                    *)
LEMMA StepWeb == ServerInv /\ ServerInv' /\ [Next]_vars => [TS!Web!Next]_(TS!Web!vars)
<1> SUFFICES ASSUME ServerInv, ServerInv', [Next]_vars PROVE [TS!Web!Next]_(TS!Web!vars)
  OBVIOUS
<1> DEFINE S == [c \in Conns |-> TS!Stream(c)]
<1>0. /\ \A c \in Conns : S[c] = TS!Stream(c) /\ S'[c] = TS!Stream(c)'
      /\ S' \in [Conns -> {"away", "open", "whole", "cut"}]
  BY StreamWillBe
<1>1. CASE UNCHANGED serverVars
  <2>1. \A c \in Conns : TS!Stream(c)' = TS!Stream(c)
    BY <1>1 DEF serverVars, TS!Stream, TS!Ended, TS!IsOpen
  <2>2. S' = S /\ up' = up
    BY <1>1, <2>1 DEF serverVars
  <2> QED
    BY <2>2 DEF TS!Web!vars
<1>2. ASSUME ServerMoves, accepted' = accepted PROVE TS!Web!Next
  <2>1. \A c \in Conns :
          \/ S'[c] = S[c]
          \/ S[c] = "open" /\ S'[c] = "whole"
          \/ S[c] = "open" /\ S'[c] = "cut" /\ ~up'
    BY <1>0, <1>2, StepStream
  <2> HIDE DEF S
  <2>2. TS!Web!End
    BY <1>0, <2>1 DEF TS!Web!End, S
  <2>3. up' => up
    BY <1>2, StepAccepts
  <2>4. CASE up' <=> up
    BY <2>2, <2>4 DEF TS!Web!Next, TS!Web!Serve
  <2>5. CASE up /\ ~up'
    BY <2>2, <2>5 DEF TS!Web!Next, TS!Web!Exit
  <2> QED
    BY <2>3, <2>4, <2>5
<1>3. ASSUME NEW c \in Conns, NEW p \in Cells, NEW f \in Fds, TakeIn(c, p, f)
      PROVE  TS!Web!Next
  <2>1. S' = [S EXCEPT ![c] = "open"]
    BY <1>3, AcceptStream
  <2>2. S[c] = "away" /\ up /\ up'
    BY <1>3, StreamIs DEF TakeIn
  <2> HIDE DEF S
  <2>3. TS!Web!Accept(c)
    BY <2>1, <2>2 DEF TS!Web!Accept, S
  <2> QED
    BY <2>3 DEF TS!Web!Next
<1> QED
  BY <1>1, <1>2, <1>3, StepCases, StepAccepts

-----------------------------------------------------------------------------
(* A finite set of numbers that is not empty has a largest one.            *)
LEMMA Largest ==
  ASSUME NEW S \in SUBSET Nat, IsFiniteSet(S), S # {}
  PROVE  \E n \in S : \A m \in S : m <= n
<1> DEFINE HasLargest(U) == \E n \in U : \A m \in U : m <= n
           T == {U \in FiniteSubsetsOf(S) : U # {} /\ ~HasLargest(U)}
<1>1. S \in FiniteSubsetsOf(S)
  BY DEF FiniteSubsetsOf
<1>2. ASSUME T # {} PROVE FALSE
  <2>1. T \subseteq FiniteSubsetsOf(S)
    OBVIOUS
  <2>2. PICK U \in T : \A V \in T : <<V, U>> \notin StrictSubsetOrdering(S)
    BY <1>2, <2>1, FS_StrictSubsetOrderingWellFounded, WFMin
  <2>3. U \subseteq Nat /\ U \subseteq S /\ IsFiniteSet(U) /\ U # {} /\ ~HasLargest(U)
    BY <2>2 DEF FiniteSubsetsOf
  <2>4. PICK x \in U : TRUE
    BY <2>3
  <2> DEFINE V == U \ {x}
  <2>5. V \in FiniteSubsetsOf(S) /\ <<V, U>> \in StrictSubsetOrdering(S)
    BY <2>3, <2>4, FS_RemoveElement DEF FiniteSubsetsOf, StrictSubsetOrdering
  <2>6. V = {} \/ HasLargest(V)
    BY <2>2, <2>5
  <2>7. HasLargest(U)
    BY <2>3, <2>4, <2>6
  <2> QED
    BY <2>3, <2>7
<1> QED
  BY <1>1, <1>2

LEMMA MostIs ==
  \A i \in {1, 2} : LG!Most(i) \in Nat /\ \A a \in Args : a[i] <= LG!Most(i)
<1> SUFFICES ASSUME NEW i \in {1, 2}
             PROVE  LG!Most(i) \in Nat /\ \A a \in Args : a[i] <= LG!Most(i)
  OBVIOUS
<1>1. Args \subseteq Nat \X Nat /\ IsFiniteSet(Args) /\ Args # {}
  BY LoadTestAssumption DEF LG!LoadGenAssumption, IsFiniteSet, LG!IsFiniteSet
<1> DEFINE S == {a[i] : a \in Args}
           f == [a \in Args |-> a[i]]
<1>2. f \in Surjection(Args, S)
  BY DEF Surjection
<1>3. IsFiniteSet(S)
  BY <1>1, <1>2, FS_Surjection
<1>4. S \in SUBSET Nat /\ S # {}
  BY <1>1
<1>5. PICK n \in S : \A m \in S : m <= n
  BY <1>3, <1>4, Largest
<1>6. n \in S /\ \A a \in Args : a[i] <= n
  BY <1>5
<1>7. LG!Most(i) \in S /\ \A a \in Args : a[i] <= LG!Most(i)
  BY <1>6 DEF LG!Most
<1> QED
  BY <1>4, <1>7

LEMMA SameCardinality == \A S : Cardinality(S) = LG!Cardinality(S)
BY DEF Cardinality, LG!Cardinality, IsFiniteSet, LG!IsFiniteSet

LEMMA TestFacts ==
  TestInv =>
    /\ nchildren \in Nat /\ nchildren <= LG!Most(1)
    /\ nloops \in Nat /\ nloops <= LG!Most(2)
    /\ LG!Most(1) \in Nat /\ LG!Most(2) \in Nat /\ PipeCap \in Nat
    /\ IsFiniteSet(LG!Children) /\ Cardinality(LG!Children) = LG!Most(1)
    /\ IsFiniteSet(reported) /\ Cardinality(reported) \in Nat
<1> SUFFICES ASSUME TestInv
             PROVE  /\ nchildren \in Nat /\ nchildren <= LG!Most(1)
                    /\ nloops \in Nat /\ nloops <= LG!Most(2)
                    /\ LG!Most(1) \in Nat /\ LG!Most(2) \in Nat /\ PipeCap \in Nat
                    /\ IsFiniteSet(LG!Children) /\ Cardinality(LG!Children) = LG!Most(1)
                    /\ IsFiniteSet(reported) /\ Cardinality(reported) \in Nat
  OBVIOUS
<1>1. <<nchildren, nloops>> \in Args /\ reported \subseteq LG!Children
  BY DEF TestInv, LG!TypeOK
<1>2. Args \subseteq Nat \X Nat /\ PipeCap \in Nat
  BY LoadTestAssumption DEF LG!LoadGenAssumption
<1>3. nchildren \in Nat /\ nloops \in Nat
  BY <1>1, <1>2
<1>4. /\ LG!Most(1) \in Nat /\ LG!Most(2) \in Nat
      /\ nchildren <= LG!Most(1) /\ nloops <= LG!Most(2)
  BY <1>1, MostIs
<1>5. IsFiniteSet(LG!Children) /\ Cardinality(LG!Children) = LG!Most(1)
  BY <1>4, FS_Interval DEF LG!Children
<1>6. IsFiniteSet(reported) /\ Cardinality(reported) \in Nat
  BY <1>1, <1>5, FS_Subset, FS_CardinalityType
<1> QED
  BY <1>2, <1>3, <1>4, <1>5, <1>6

LEMMA ForkMove ==
  ASSUME TestInv, LG!Fork
  PROVE  \/ /\ parent = "fork" /\ parent' = "fork"
            /\ \E n \in 0..(nchildren - 1) :
                 LG!Forked = 1..n /\ child' = [child EXCEPT ![n + 1] = "start"]
         \/ parent = "fork" /\ parent' = "exited" /\ UNCHANGED child
         \/ /\ parent = "fork" /\ parent' = "wait" /\ UNCHANGED child
            /\ LG!Forked = 1..nchildren
<1>1. PICK n \in 0..nchildren : LG!Forked = 1..n
  BY DEF TestInv, ForkInv
<1>2. n \in Nat /\ nchildren \in Nat
  BY TestFacts
<1>3. LG!Cardinality(LG!Forked) = n
  BY <1>1, <1>2, SameCardinality, FS_Interval
<1>4. n < nchildren => n \in 0..(nchildren - 1)
  BY <1>2
<1> QED
  BY <1>1, <1>3, <1>4 DEF LG!Fork

LEMMA TestTypesStep == TestInv /\ LG!Next => LG!TypeOK' /\ Conserved'
<1> SUFFICES ASSUME TestInv, LG!Next PROVE LG!TypeOK' /\ Conserved'
  OBVIOUS
<1> USE TestFacts DEF TestInv, LG!TypeOK, Conserved
<1>1. CASE LG!Fork
  <2>1. UNCHANGED <<nchildren, nloops, loop, pipe, reported, total>>
    BY <1>1 DEF LG!Fork
  <2>2. \A n \in 0..(nchildren - 1) : n + 1 \in LG!Children
    BY DEF LG!Children
  <2>3. /\ child' \in [LG!Children -> {"none", "start", "connect", "line", "report", "ended"}]
        /\ parent' \in {"fork", "wait", "close", "read", "done", "exited"}
    BY <1>1, <2>2, ForkMove
  <2> QED
    BY <2>1, <2>3
<1>2. CASE LG!WaitAll \/ LG!ClosePipe
  BY <1>2 DEF LG!WaitAll, LG!ClosePipe
<1>3. CASE LG!ReadPipe
  <2>1. UNCHANGED <<nchildren, nloops, child, loop, reported>> /\ parent' \in {"read", "done"}
    BY <1>3 DEF LG!ReadPipe
  <2>2. pipe' \in 0..PipeCap /\ total' \in Nat /\ total' + pipe' = Cardinality(reported)
    BY <1>3 DEF LG!ReadPipe
  <2>3. Cardinality(reported) <= LG!Most(1)
    BY FS_Subset
  <2>4. total' \in 0..LG!Most(1)
    BY <2>2, <2>3
  <2> QED
    BY <2>1, <2>2, <2>4
<1>4. ASSUME NEW k \in LG!Children, LG!Start(k) \/ LG!Connect(k) \/ LG!ConnectFails(k)
      PROVE  LG!TypeOK' /\ Conserved'
  BY <1>4 DEF LG!Start, LG!Connect, LG!ConnectFails, LG!Goto, LG!Top
<1>5. ASSUME NEW k \in LG!Children, LG!Receive(k) PROVE LG!TypeOK' /\ Conserved'
  <2>1. loop[k] <= nloops
    BY <1>5 DEF LoopInv, LG!Receive, LG!Goto
  <2>2. loop[k] + 1 \in 1..(LG!Most(2) + 1)
    BY <2>1
  <2>3. loop' \in [LG!Children -> 1..(LG!Most(2) + 1)]
    BY <1>5, <2>2 DEF LG!Receive
  <2> QED
    BY <1>5, <2>3 DEF LG!Receive, LG!Goto, LG!Top
<1>6. ASSUME NEW k \in LG!Children, LG!Report(k) PROVE LG!TypeOK' /\ Conserved'
  <2>1. k \notin reported
    BY <1>6 DEF ReportInv, LG!Report, LG!Goto
  <2>2. Cardinality(reported \cup {k}) = Cardinality(reported) + 1
    BY <2>1, FS_AddElement
  <2> QED
    BY <1>6, <2>2 DEF LG!Report, LG!Goto
<1> QED
  BY <1>1, <1>2, <1>3, <1>4, <1>5, <1>6 DEF LG!Next, LG!Parent, LG!Child

(* A child's step forks none and brings none back.                         *)
LEMMA ChildMove ==
  ASSUME TestInv, NEW k \in LG!Children, LG!Child(k)
  PROVE  /\ child[k] \in {"start", "connect", "line", "report"}
         /\ \E l \in {"connect", "line", "report", "ended"} : child' = [child EXCEPT ![k] = l]
         /\ LG!Forked' = LG!Forked /\ LG!Alive' \subseteq LG!Alive /\ k \in LG!Alive
         /\ UNCHANGED <<parent, nchildren, nloops>>
<1>1. child \in [LG!Children -> {"none", "start", "connect", "line", "report", "ended"}]
  BY DEF TestInv, LG!TypeOK
<1>2. /\ child[k] \in {"start", "connect", "line", "report"}
      /\ \E l \in {"connect", "line", "report", "ended"} : child' = [child EXCEPT ![k] = l]
      /\ UNCHANGED <<parent, nchildren, nloops>>
  BY DEF LG!Child, LG!Start, LG!Connect, LG!ConnectFails, LG!Receive, LG!Report, LG!Goto, LG!Top
<1> QED
  BY <1>1, <1>2 DEF LG!Forked, LG!Alive

LEMMA ForkStep == TestInv /\ LG!Next => ForkInv'
<1> SUFFICES ASSUME TestInv, LG!Next PROVE ForkInv'
  OBVIOUS
<1> USE TestFacts DEF TestInv, ForkInv
<1>1. PICK n \in 0..nchildren :
        LG!Forked = 1..n /\ (parent \notin {"fork", "exited"} => n = nchildren)
  OBVIOUS
<1>2. CASE LG!Fork
  <2>1. nchildren' = nchildren /\ parent' \in {"fork", "exited", "wait"}
    BY <1>2, ForkMove DEF LG!Fork
  <2>2. \E m \in 0..nchildren : LG!Forked' = 1..m /\ (parent' = "wait" => m = nchildren)
    <3>1. ASSUME NEW m \in 0..(nchildren - 1), LG!Forked = 1..m,
                 child' = [child EXCEPT ![m + 1] = "start"], parent' = "fork"
          PROVE  \E o \in 0..nchildren : LG!Forked' = 1..o /\ (parent' = "wait" => o = nchildren)
      <4>1. m + 1 \in LG!Children /\ m + 1 \in 0..nchildren
        BY DEF LG!Children
      <4>2. LG!Forked' = LG!Forked \cup {m + 1}
        BY <3>1, <4>1 DEF LG!Forked, LG!TypeOK
      <4>3. LG!Forked' = 1..(m + 1)
        BY <3>1, <4>2
      <4> QED
        BY <3>1, <4>1, <4>3
    <3>2. CASE UNCHANGED child
      <4>1. LG!Forked' = LG!Forked
        BY <3>2 DEF LG!Forked
      <4>2. CASE parent' = "exited"
        BY <1>1, <4>1, <4>2
      <4>3. CASE parent' = "wait"
        <5>1. LG!Forked = 1..nchildren /\ nchildren \in 0..nchildren
          BY <1>2, <4>3, ForkMove
        <5> QED
          BY <4>1, <5>1
      <4> QED
        BY <1>1, <2>1, <4>1, <4>2, <4>3
    <3> QED
      BY <1>2, <3>1, <3>2, ForkMove
  <2> QED
    BY <2>1, <2>2
<1>3. CASE LG!WaitAll \/ LG!ClosePipe \/ LG!ReadPipe
  <2>1. LG!Forked' = LG!Forked /\ LG!Alive' = LG!Alive /\ nchildren' = nchildren
    BY <1>3 DEF LG!WaitAll, LG!ClosePipe, LG!ReadPipe, LG!Forked, LG!Alive
  <2>2. parent \in {"wait", "close", "read"} /\ parent' \in {"close", "read", "done"}
    BY <1>3 DEF LG!WaitAll, LG!ClosePipe, LG!ReadPipe
  <2>3. LG!Alive = {} /\ (parent' = "done" => pipe' = 0)
    BY <1>3 DEF LG!WaitAll, LG!ClosePipe, LG!ReadPipe
  <2> QED
    BY <1>1, <2>1, <2>2, <2>3
<1>4. ASSUME NEW k \in LG!Children, LG!Child(k) PROVE ForkInv'
  <2>1. parent \notin {"close", "read", "done"}
    BY <1>4, ChildMove
  <2> QED
    BY <1>1, <1>4, <2>1, ChildMove
<1> QED
  BY <1>2, <1>3, <1>4 DEF LG!Next, LG!Parent

(* Whoever has ended without a report has found no server, or no reader.   *)
LEMMA ReportStep == TestInv /\ LG!Next /\ UNCHANGED serverVars => ReportInv' /\ LoopInv'
<1> SUFFICES ASSUME TestInv, LG!Next, UNCHANGED serverVars PROVE ReportInv' /\ LoopInv'
  OBVIOUS
<1> USE TestFacts DEF TestInv, LG!TypeOK, ReportInv, LoopInv
<1>0. (up' <=> up) /\ up' = up
  BY DEF serverVars
<1>1. CASE LG!Fork
  <2>1. UNCHANGED <<nloops, loop, reported>>
    BY <1>1 DEF LG!Fork
  <2>2. CASE UNCHANGED child
    BY <1>0, <1>1, <2>1, <2>2, ForkMove
  <2>3. ASSUME NEW n \in 0..(nchildren - 1), LG!Forked = 1..n,
               child' = [child EXCEPT ![n + 1] = "start"], parent' = "fork", parent = "fork"
        PROVE  ReportInv' /\ LoopInv'
    <3>1. n + 1 \in LG!Children /\ n + 1 \notin 1..n
      BY DEF LG!Children
    <3>2. child[n + 1] = "none"
      BY <2>3, <3>1 DEF LG!Forked
    <3> QED
      BY <1>0, <2>1, <2>3, <3>1, <3>2
  <2> QED
    BY <1>1, <2>2, <2>3, ForkMove
<1>2. CASE LG!WaitAll \/ LG!ClosePipe \/ LG!ReadPipe
  BY <1>0, <1>2 DEF LG!WaitAll, LG!ClosePipe, LG!ReadPipe
<1>3. ASSUME NEW k \in LG!Children, LG!Start(k) \/ LG!Connect(k) \/ LG!ConnectFails(k)
      PROVE  ReportInv' /\ LoopInv'
  <2>1. CASE LG!Start(k)
    BY <1>0, <2>1 DEF LG!Start, LG!Goto, LG!Top
  <2>2. CASE LG!Connect(k)
    BY <1>0, <2>2 DEF LG!Connect, LG!Goto
  <2>3. CASE LG!ConnectFails(k)
    BY <1>0, <2>3 DEF LG!ConnectFails, LG!Goto
  <2> QED
    BY <1>3, <2>1, <2>2, <2>3
<1>4. ASSUME NEW k \in LG!Children, LG!Receive(k) PROVE ReportInv' /\ LoopInv'
  BY <1>0, <1>4 DEF LG!Receive, LG!Goto, LG!Top
<1>5. ASSUME NEW k \in LG!Children, LG!Report(k) PROVE ReportInv' /\ LoopInv'
  BY <1>0, <1>5 DEF LG!Report, LG!Goto, LG!Readers
<1> QED
  BY <1>1, <1>2, <1>3, <1>4, <1>5 DEF LG!Next, LG!Parent, LG!Child

(* A step of the server touches the test only by going down.               *)
LEMMA TestStepInv == TestInv /\ [Next]_vars => TestInv'
<1> SUFFICES ASSUME TestInv, [Next]_vars PROVE TestInv'
  OBVIOUS
<1>1. CASE TestStep(LG!Next)
  BY <1>1, TestTypesStep, ForkStep, ReportStep DEF TestStep, TestInv
<1>2. CASE UNCHANGED testVars /\ (up' => up)
  BY <1>2 DEF testVars, TestInv, LG!TypeOK, Conserved, ForkInv, ReportInv, LoopInv, LG!Forked,
     LG!Alive, LG!Children
<1>3. (UNCHANGED testVars /\ (up' => up)) \/ TestStep(LG!Next)
  <2>1. ServerStep(TS!Server) => (up' => up)
    BY ServerCases, StepAccepts DEF ServerStep
  <2> QED
    BY <2>1 DEF Next, Programs, ServerStep, TS!Client, TS!private, vars, serverVars
<1> QED
  BY <1>1, <1>2, <1>3

LEMMA TestInit == LG!Init => TestInv
<1> SUFFICES ASSUME LG!Init PROVE TestInv
  OBVIOUS
<1>1. PICK a \in Args : nchildren = a[1] /\ nloops = a[2]
  BY DEF LG!Init
<1>2. a \in Nat \X Nat /\ <<nchildren, nloops>> \in Args
  BY <1>1, LoadTestAssumption DEF LG!LoadGenAssumption
<1>3. /\ nchildren \in Nat /\ LG!Most(1) \in Nat /\ LG!Most(2) \in Nat /\ PipeCap \in Nat
  BY <1>1, <1>2, MostIs, LoadTestAssumption DEF LG!LoadGenAssumption
<1>4. LG!Forked = 1..0 /\ 0 \in 0..nchildren
  BY <1>3 DEF LG!Init, LG!Forked
<1>5. Cardinality(reported) = 0
  BY FS_EmptySet DEF LG!Init
<1> QED
  BY <1>2, <1>3, <1>4, <1>5 DEF LG!Init, TestInv, LG!TypeOK, Conserved, ForkInv, ReportInv, LoopInv

-----------------------------------------------------------------------------
(* The inductive invariant of the test, of the server and of the load      *)
(* generator, holds in every state.                                        *)
THEOREM Invariance == Spec => []IInv
<1>1. Init => IInv
  BY ServerInit, TestInit DEF Init, IInv
<1>2. IInv /\ [Next]_vars => IInv'
  BY ServerStepInv, TestStepInv DEF IInv
<1> QED
  BY <1>1, <1>2, PTL DEF Spec

(* Every variable of the server and the generator keeps its type.          *)
THEOREM TypeCorrect == Spec => []TypeOK
<1>1. IInv => TypeOK
  BY DEF IInv, ServerInv, TestInv, TypeOK
<1> QED
  BY <1>1, Invariance, PTL

(* "avoid race condition": a thread reads its own descriptor out of its    *)
(* cell, and has its own connection to its Close, however cells and        *)
(* numbers are reused.                                                     *)
THEOREM DescriptorsArePrivate == Spec => []PrivateDescriptor
<1>1. IInv => PrivateDescriptor
  BY PrivateFromInv DEF IInv
<1> QED
  BY <1>1, Invariance, PTL

(* All that the children reported is in the total, and a child is missing  *)
(* there only when the server has gone down.                               *)
THEOREM AllReportsCounted == Spec => []ReportsCounted
<1>1. IInv => ReportsCounted
  <2> SUFFICES ASSUME TestInv, parent = "done"
               PROVE  /\ total = LG!Cardinality(reported)
                      /\ reported = 1..nchildren \/ ~up
    BY DEF IInv, ReportsCounted, LG!ReportsCounted
  <2> USE TestFacts DEF TestInv
  <2>1. total = LG!Cardinality(reported)
    BY SameCardinality DEF Conserved, ForkInv, LG!TypeOK
  <2>2. LG!Forked = 1..nchildren /\ LG!Alive = {}
    BY DEF ForkInv
  <2>3. \A k \in LG!Forked : child[k] = "ended"
    BY <2>2 DEF LG!Alive
  <2>4. reported \subseteq LG!Forked
    BY DEF ReportInv, LG!Forked, LG!TypeOK
  <2>5. up => LG!Forked \subseteq reported
    BY <2>3 DEF ReportInv, LG!Forked
  <2> QED
    BY <2>1, <2>2, <2>4, <2>5
<1> QED
  BY <1>1, Invariance, PTL

(* The server with a thread per connection implements the web server: no   *)
(* client of a server that lives sees its stream end before the whole      *)
(* reply, and an end is final.                                             *)
THEOREM ThreadServerIsWebServer == Spec => IsWebServer
<1>1. Init => TS!Web!Init
  <2> SUFFICES ASSUME TS!Init PROVE TS!Web!Init
    BY DEF Init
  <2>1. \A c \in Conns : TS!Stream(c) = "away"
    BY StreamIs DEF TS!Init
  <2> QED
    BY <2>1 DEF TS!Init, TS!Web!Init
<1>2. IInv /\ IInv' /\ [Next]_vars => [TS!Web!Next]_(TS!Web!vars)
  BY StepWeb DEF IInv
<1> QED
  BY <1>1, <1>2, Invariance, PTL DEF Spec, IsWebServer, TS!IsWebServer, TS!Web!Spec

===============================================================================
