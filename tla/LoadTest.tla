------------------------------- MODULE LoadTest -------------------------------
(***************************************************************************)
(* The load generator and the server with a thread per connection, and     *)
(* other clients of the same server.  A connection is one of the           *)
(* generator's, <<child, round>>, or another client's.  The programs share *)
(* nothing but the connections.                                            *)
(*                                                                         *)
(* The generator's request is HEAD, which the server answers with an error *)
(* page of four writes.  The generator reads the first line and closes:    *)
(* the other writes may fail, and a failing write exits the server.        *)
(***************************************************************************)
EXTENDS Naturals, FiniteSets

CONSTANTS Args, PipeCap, NProcs,               \* of the generator
          Others, OtherRequests,               \* the other clients
          NCells, NFds, NThreads, None, Src   \* of the server

VARIABLES
  client, accepted, line, replied, main, ptr, last, used, heap, fdt, at, arg, connfd, srcfd,
  kid, inherited, pending, up,
  nchildren, nloops, parent, child, loop, pipe, reported, total

Most(i) == CHOOSE n \in {a[i] : a \in Args} : \A a \in Args : a[i] <= n
Requested == {r \in (1..Most(1)) \X (1..Most(2)) :
                \E a \in Args : r[1] <= a[1] /\ r[2] <= a[2]}
Conns == Requested \cup Others
Requests == [c \in Conns |-> IF c \in Others THEN OtherRequests ELSE {"error"}]

TS == INSTANCE ThreadServer

(* What a client can see of the server.                                    *)
Over == {c \in Conns : TS!Ended(c) \/ (c \notin accepted /\ ~up)}

LG == INSTANCE LoadGen WITH answered <- line, over <- Over

ASSUME LoadTestAssumption == TS!ThreadServerAssumption /\ LG!LoadGenAssumption

serverVars == <<accepted, line, replied, main, ptr, last, used, heap, fdt, at, arg, connfd,
                srcfd, kid, inherited, pending, up>>
testVars == <<nchildren, nloops, parent, child, loop, pipe, reported, total>>
vars == <<client, serverVars, testVars>>

Init == TS!Init /\ LG!Init

TypeOK == TS!TypeOK /\ LG!TypeOK

ServerStep(A) == A /\ UNCHANGED testVars
TestStep(A) == A /\ UNCHANGED serverVars

Programs == ServerStep(TS!Server) \/ TestStep(LG!Next)
Next == Programs \/ ServerStep(\E c \in Others : TS!Client(c))

Spec == Init /\ [][Next]_vars

(* The scheduler does not let everything stand still while a thread or a   *)
(* process can go on; each has a finite number of steps to make, so no     *)
(* more is needed.  The other clients owe nothing.                         *)
FairSpec == Spec /\ WF_vars(Programs)

-----------------------------------------------------------------------------
PrivateDescriptor == TS!PrivateDescriptor
IsWebServer == TS!IsWebServer
EveryConnectionEnds == TS!EveryConnectionEnds
ReportsCounted == LG!ReportsCounted
TestEnds == LG!TestEnds
=============================================================================
