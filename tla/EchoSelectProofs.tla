-------------------------- MODULE EchoSelectProofs --------------------------
(***************************************************************************)
(* Theorems about EchoSelect, for every number of clients and messages,    *)
(* every FD_SETSIZE and limit on descriptors, and every first value of     *)
(* maxi.                                                                   *)
(***************************************************************************)
EXTENDS EchoSelect, FiniteSetTheorems, TLAPS

Types ==
  /\ client \in [Conns -> {"away", "open", "closed", "reset"}]
  /\ next \in 1..(NConns + 1) /\ (at = "accept" => next \in Conns)
  /\ fdt \in [Fds -> Conns \cup {None, Denied}]
  /\ connfd \in [Slots -> Fds \cup {None}]
  /\ allset \subseteq Watchable \cup {Listen}
  /\ i \in Nat

(* A connection has one descriptor, and only if it was accepted.           *)
OneFd ==
  /\ \A f \in Fds : fdt[f] \in Conns => fdt[f] < next
  /\ \A f, g \in Fds : fdt[f] = fdt[g] /\ fdt[f] \in Conns => f = g

(* What select reported is watched until main comes to the loop, and is    *)
(* still ready in the slots that the loop has not passed.                  *)
ReadyAhead ==
  /\ at = "accept" => rset \subseteq allset
  /\ at \in {"accept", "loop"} =>
       \A s \in Slots : (at = "loop" => s >= i) /\ connfd[s] # None /\ connfd[s] \in rset
                          => IsReady(connfd[s])

IInv == Types /\ SlotsMatch /\ OneFd /\ ReadyAhead

LEMMA Constants == /\ Conns \subseteq Nat \ {0} /\ Fds \subseteq Nat \ {0} /\ Slots \subseteq Nat
                   /\ None \notin Conns /\ None \notin Fds /\ Listen \notin Fds
                   /\ Watchable \subseteq Fds /\ None # Listen
                   /\ Denied \notin Conns /\ Denied # None
BY EchoSelectAssumption DEF Conns, Fds, Slots, None, Denied, Watchable

(* The slots outnumber what an fd_set has bits for, so that one is empty:  *)
(* main's search ends in the array.                                        *)
LEMMA SlotLeft == ASSUME IInv PROVE \E s \in Slots : connfd[s] = None
<1> DEFINE Bits == (Listen + 1)..(NSlots - 1)
<1>1. /\ IsFiniteSet(Slots) /\ IsFiniteSet(Bits)
      /\ Cardinality(Slots) = NSlots /\ Cardinality(Bits) = NSlots - 1 - Listen
  <2>1. 0 \in Int /\ Listen + 1 \in Int /\ NSlots - 1 \in Int /\ ~(0 > NSlots - 1)
    BY EchoSelectAssumption
  <2>2. Listen + 1 > NSlots - 1 => NSlots - 1 - Listen = 0
    BY EchoSelectAssumption
  <2> QED
    BY <2>1, <2>2, FS_Interval, EchoSelectAssumption DEF Slots
<1>2. Cardinality(Bits) < Cardinality(Slots)
  BY <1>1, EchoSelectAssumption
<1>3. Watchable \subseteq Bits
  BY EchoSelectAssumption DEF Watchable, Fds
<1>4. \A s \in Slots : connfd[s] # None => connfd[s] \in Watchable
  <2>1. InSlots \subseteq Watchable
    BY DEF IInv, Types, SlotsMatch
  <2> QED
    BY <2>1 DEF InSlots
<1>5. SUFFICES ASSUME \A s \in Slots : connfd[s] # None PROVE FALSE
  OBVIOUS
<1>6. connfd \in [Slots -> Bits]
  BY <1>3, <1>4, <1>5 DEF IInv, Types
<1> HIDE DEF Bits
<1>7. \E r, s \in Slots : r # s /\ connfd[r] = connfd[s]
  <2>1. IsFiniteSet(Slots) /\ IsFiniteSet(Bits)
    BY <1>1
  <2> QED
    BY ONLY <1>2, <1>6, <2>1, FS_PigeonHole, Zenon
<1> QED
  BY <1>5, <1>7 DEF IInv, SlotsMatch

LEMMA SearchFinds ==
  ASSUME IInv, NEW s \in 0..NSlots, FirstEmpty(s)
  PROVE  s \in Slots /\ connfd[s] = None
<1>1. PICK r \in Slots : connfd[r] = None
  BY SlotLeft
<1>2. ~(r < s)
  BY <1>1 DEF FirstEmpty
<1>3. s \in Slots
  BY <1>2, EchoSelectAssumption DEF Slots
<1> QED
  BY <1>3 DEF FirstEmpty

LEMMA InitInv == Init => IInv
<1> SUFFICES ASSUME Init PROVE IInv
  OBVIOUS
<1> USE EchoSelectAssumption DEF Init
<1>1. Types
  BY DEF Types
<1>2. SlotsMatch
  <2>1. \A s \in Slots : connfd[s] = None
    OBVIOUS
  <2>2. InSlots = {}
    BY <2>1 DEF InSlots
  <2> QED
    BY <2>1, <2>2 DEF SlotsMatch
<1>3. OneFd /\ ReadyAhead
  <2>1. \A f \in Fds : fdt[f] \notin Conns
    BY Constants
  <2> QED
    BY <2>1 DEF OneFd, ReadyAhead
<1> QED
  BY <1>1, <1>2, <1>3 DEF IInv

LEMMA SelectStep == IInv /\ Select => IInv'
<1> SUFFICES ASSUME IInv, Select PROVE IInv'
  OBVIOUS
<1> DEFINE ready == {f \in allset : IsReady(f)}
<1>1. /\ rset' = ready /\ i' = 0 /\ at' \in {"accept", "loop"}
      /\ at' = "accept" => next \in Conns
      /\ UNCHANGED <<client, arrived, next, fdt, connfd, allset>>
  BY DEF Select, Goto, IsReady, Waiting, table, clientVars
<1>2. Types' /\ SlotsMatch' /\ OneFd'
  BY <1>1 DEF IInv, Types, SlotsMatch, OneFd, InSlots, OpenFds
<1>3. ASSUME NEW f \in Fds PROVE IsReady(f)' <=> IsReady(f)
  BY <1>1, Constants DEF IsReady
<1>4. ReadyAhead'
  BY <1>1, <1>3 DEF ReadyAhead, IInv, Types
<1> QED
  BY <1>2, <1>4 DEF IInv

LEMMA AcceptStep == IInv /\ Accept => IInv'
<1> SUFFICES ASSUME IInv, Accept PROVE IInv'
  OBVIOUS
<1>1. at = "accept" /\ next \in Conns
  BY DEF Accept, IInv, Types
<1>2. CASE TableFull /\ BackToSelect /\ UNCHANGED <<next, table, firstconn, maxi>>
  BY <1>2 DEF Accept, BackToSelect, table, clientVars, IInv, Types, SlotsMatch, OneFd,
              ReadyAhead, InSlots, OpenFds
<1>3. CASE at' = "overrun" /\ UNCHANGED <<next, table, rset, i>>
  BY <1>1, <1>3 DEF Accept, table, clientVars, IInv, Types, SlotsMatch, OneFd, ReadyAhead,
                    InSlots, OpenFds
<1>4. ASSUME NEW f \in Watchable, LowestFree(f),
             fdt' = [fdt EXCEPT ![f] = next], next' = next + 1, allset' = allset \cup {f},
             NEW e \in Slots, connfd[e] = None,
             connfd' = [r \in Slots |-> IF r = e THEN f ELSE connfd[r]],
             \/ at' = "loop" /\ i' = i /\ rset' = rset
             \/ at' = "select" /\ i' = 0,
             UNCHANGED <<client, arrived>>
      PROVE  IInv'
  <2>1. f \in Fds /\ fdt[f] = None /\ f \notin allset /\ f \notin InSlots
    BY <1>4, Constants DEF LowestFree, IInv, SlotsMatch, OpenFds
  <2>2. Types'
    BY <1>1, <1>4, <2>1, EchoSelectAssumption DEF IInv, Types, Conns
  <2>3. OneFd'
    BY <1>1, <1>4, <2>1, EchoSelectAssumption DEF IInv, Types, OneFd, Conns, None
  <2>4. OpenFds' = OpenFds \cup {f}
    BY <1>1, <1>4, <2>1, Constants DEF OpenFds, IInv, Types
  <2>5. /\ \A s \in Slots : connfd'[s] \in {connfd[s], f}
        /\ \A s, t \in Slots : connfd'[s] = f /\ connfd'[t] = f => s = t
    <3>1. \A s \in Slots : connfd[s] # f
      BY <2>1, Constants DEF InSlots
    <3> QED
      BY <1>4, <3>1 DEF IInv, Types
  <2>6. InSlots' = InSlots \cup {f}
    <3>1. connfd'[e] = f /\ (\A s \in Slots : s # e => connfd'[s] = connfd[s])
      BY <1>4
    <3> QED
      BY <1>4, <2>1, <3>1, Constants DEF InSlots
  <2>7. SlotsMatch'
    <3>1. InSlots' = allset' \ {Listen} /\ InSlots' \subseteq OpenFds'
      BY <1>4, <2>1, <2>4, <2>6, Constants DEF IInv, SlotsMatch
    <3>2. \A s \in Slots : connfd[s] # f
      BY <2>1, Constants DEF InSlots
    <3>3. \A s, t \in Slots : connfd'[s] = connfd'[t] /\ connfd'[s] # None => s = t
      BY <2>5, <3>2 DEF IInv, SlotsMatch
    <3> QED
      BY <3>1, <3>3 DEF SlotsMatch
  <2>8. ReadyAhead'
    <3>1. f \notin rset
      BY <1>1, <2>1 DEF IInv, ReadyAhead
    <3>2. CASE at' = "loop"
      <4> SUFFICES ASSUME NEW s \in Slots, connfd'[s] # None, connfd'[s] \in rset
                   PROVE  IsReady(connfd[s])'
        BY <1>4, <3>2 DEF ReadyAhead
      <4>1. connfd'[s] = connfd[s] /\ connfd[s] # f
        BY <2>1, <2>5, <3>1, Constants DEF InSlots
      <4>2. IsReady(connfd[s])
        BY <1>1, <4>1 DEF IInv, ReadyAhead
      <4>3. connfd[s] \in Fds /\ connfd[s] # Listen
        BY <4>1, Constants DEF IInv, Types
      <4>4. fdt'[connfd[s]] = fdt[connfd[s]]
        BY <1>4, <4>1, <4>3 DEF IInv, Types
      <4> QED
        BY <1>4, <4>1, <4>2, <4>3, <4>4 DEF IsReady
    <3>3. CASE at' = "select"
      BY <3>3 DEF ReadyAhead
    <3> QED
      BY <1>4, <3>2, <3>3
  <2> QED
    BY <2>2, <2>3, <2>7, <2>8 DEF IInv
<1> QED
  BY <1>2, <1>3, <1>4, SearchFinds DEF Accept, ToLoop, BackToSelect, clientVars, table

(* The slots the loop passes, or the end of the loop.                      *)
LEMMA PassStep == IInv /\ Pass => IInv'
<1> SUFFICES ASSUME IInv, Pass PROVE IInv'
  OBVIOUS
<1> USE DEF Pass, table, clientVars
<1>1. Types'
  BY DEF BackToSelect, IInv, Types
<1>2. SlotsMatch' /\ OneFd'
  BY DEF IInv, SlotsMatch, OneFd, InSlots, OpenFds
<1>3. ReadyAhead'
  <2>1. CASE BackToSelect
    BY <2>1 DEF BackToSelect, ReadyAhead
  <2>2. CASE at' = "outside"
    BY <2>2 DEF ReadyAhead
  <2>3. CASE i' = i + 1 /\ rset' = rset /\ at = "loop" /\ at' = "loop"
    <3> SUFFICES ASSUME NEW s \in Slots, s >= i + 1, connfd[s] # None, connfd[s] \in rset
                 PROVE  IsReady(connfd[s])'
      BY <2>3 DEF ReadyAhead
    <3>1. IsReady(connfd[s]) /\ connfd[s] \in Fds /\ connfd[s] # Listen
      BY <2>3, Constants DEF IInv, ReadyAhead, Types
    <3> QED
      BY <3>1 DEF IsReady
  <2> QED
    BY <2>1, <2>2, <2>3
<1> QED
  BY <1>1, <1>2, <1>3 DEF IInv

(* What main does for a ready client: it may read a message, empty the     *)
(* slot and close the descriptor.                                          *)
LEMMA ServeStep ==
  ASSUME IInv, Ready, Advance \/ BackToSelect,
         arrived' \in {arrived, arrived \ {Served}},
         \/ UNCHANGED <<fdt, connfd, allset>>
         \/ /\ connfd' = [connfd EXCEPT ![i] = None]
            /\ allset' = allset \ {connfd[i]}
            /\ fdt' \in {fdt, [fdt EXCEPT ![connfd[i]] = None]},
         UNCHANGED <<client, next>>
  PROVE  IInv'
<1> DEFINE f == connfd[i]
<1>1. /\ at = "loop" /\ i \in Slots /\ f \in Fds /\ f \in rset /\ i \in Nat
      /\ f \in allset \ {Listen} /\ fdt[f] \in Conns
  BY Constants DEF Ready, InArray, IInv, Types, SlotsMatch, InSlots, OpenFds
<1>2. \/ at' = "loop" /\ i' = i + 1 /\ rset' = rset
      \/ at' = "select" /\ i' = 0
  BY <1>1 DEF Advance, BackToSelect
<1>3. /\ \A s \in Slots : s # i => connfd'[s] = connfd[s]
      /\ connfd'[i] \in {f, None}
      /\ \A g \in Fds : g # f => fdt'[g] = fdt[g]
      /\ fdt'[f] \in {fdt[f], None}
  BY <1>1 DEF IInv, Types
<1> HIDE DEF f
<1>4. Types'
  BY <1>1, <1>2 DEF IInv, Types, f
<1>5. OneFd'
  BY <1>1, <1>3, Constants DEF IInv, OneFd, Conns
<1>6. \A s \in Slots : s # i => connfd[s] # f
  BY <1>1, Constants DEF IInv, SlotsMatch, f
<1>7. SlotsMatch'
  <2>1. CASE UNCHANGED <<fdt, connfd, allset>>
    BY <2>1 DEF IInv, SlotsMatch, InSlots, OpenFds
  <2>2. CASE connfd' = [connfd EXCEPT ![i] = None] /\ allset' = allset \ {f}
    <3>1. connfd'[i] = None
      BY <1>1, <2>2 DEF IInv, Types
    <3>2. InSlots' = InSlots \ {f}
      <4>1. \A s \in Slots : connfd'[s] = IF s = i THEN None ELSE connfd[s]
        BY <1>3, <3>1
      <4> QED
        BY <1>1, <1>6, <4>1 DEF InSlots, f
    <3>3. OpenFds \ {f} \subseteq OpenFds'
      BY <1>3 DEF OpenFds
    <3>4. \A r, s \in Slots : connfd'[r] = connfd'[s] /\ connfd'[r] # None => r = s
      BY <1>3, <3>1 DEF IInv, SlotsMatch
    <3> QED
      BY <1>1, <2>2, <3>2, <3>3, <3>4 DEF IInv, SlotsMatch
  <2> QED
    BY <2>1, <2>2 DEF f
<1>8. ReadyAhead'
  <2>1. CASE at' = "loop" /\ i' = i + 1 /\ rset' = rset
    <3> SUFFICES ASSUME NEW s \in Slots, s >= i + 1, connfd'[s] # None, connfd'[s] \in rset
                 PROVE  IsReady(connfd[s])'
      BY <2>1 DEF ReadyAhead
    <3>1. s # i /\ s >= i /\ connfd'[s] = connfd[s] /\ connfd[s] # f
      BY <1>1, <1>3, <1>6 DEF Slots
    <3>2. IsReady(connfd[s]) /\ connfd[s] \in Fds /\ connfd[s] # Listen
      BY <1>1, <3>1, Constants DEF IInv, ReadyAhead, Types
    <3>3. fdt'[connfd[s]] = fdt[connfd[s]] /\ fdt[connfd[s]] # fdt[f]
      <4>1. fdt[connfd[s]] \in Conns
        BY <3>1, <3>2, Constants DEF IInv, SlotsMatch, InSlots, OpenFds
      <4> QED
        BY <1>1, <1>3, <3>1, <3>2, <4>1 DEF IInv, OneFd
    <3> QED
      BY <3>1, <3>2, <3>3 DEF IsReady, Served, f
  <2>2. CASE at' = "select"
    BY <2>2 DEF ReadyAhead
  <2> QED
    BY <1>2, <2>1, <2>2
<1> QED
  BY <1>4, <1>5, <1>7, <1>8 DEF IInv

LEMMA ServerStep == IInv /\ Server => IInv'
<1> SUFFICES ASSUME IInv, Server PROVE IInv'
  OBVIOUS
<1>1. CASE First
  BY <1>1, ServeStep DEF First, Answer, CloseCli, clientVars, table
<1>2. CASE Process
  BY <1>2, ServeStep DEF Process, Answer, CloseCli, clientVars, table
<1>3. CASE Killed
  BY <1>3 DEF Killed, clientVars, table, IInv, Types, SlotsMatch, OneFd, ReadyAhead,
              InSlots, OpenFds
<1> QED
  BY <1>1, <1>2, <1>3, SelectStep, AcceptStep, PassStep DEF Server

(* A client's step makes no descriptor less ready.                         *)
LEMMA ClientStep == ASSUME IInv, NEW c \in Conns, Client(c) PROVE IInv'
<1>1. /\ UNCHANGED <<next, fdt, connfd, allset, rset, i, at>>
      /\ \E v \in {"open", "closed", "reset"} : client' = [client EXCEPT ![c] = v]
           \/ client' = client
  BY DEF Client, Connect, Send, Leave, table
<1>2. Types' /\ SlotsMatch' /\ OneFd'
  BY <1>1 DEF IInv, Types, SlotsMatch, OneFd, InSlots, OpenFds
<1>3. ASSUME NEW f \in Fds, fdt[f] \in Conns, IsReady(f) PROVE IsReady(f)'
  <2>1. fdt[f] \in Conns /\ fdt'[f] = fdt[f] /\ f # Listen
    BY <1>1, <1>3, Constants DEF IInv, Types
  <2> DEFINE d == fdt[f]
  <2>2. d \in arrived \/ client[d] \in {"closed", "reset"}
    BY <1>3, <2>1 DEF IsReady
  <2> HIDE DEF d
  <2>3. d \in arrived' \/ client'[d] \in {"closed", "reset"}
    BY <2>1, <2>2 DEF Client, Connect, Send, Leave, IInv, Types, d
  <2> QED
    BY <2>1, <2>3 DEF IsReady, d
<1>4. ReadyAhead'
  <2>1. \A s \in Slots : connfd[s] # None => connfd[s] \in Fds /\ fdt[connfd[s]] \in Conns
    BY Constants DEF IInv, Types, SlotsMatch, InSlots, OpenFds
  <2>2. \A s \in Slots : connfd[s] # None /\ IsReady(connfd[s]) => IsReady(connfd[s])'
    BY <1>1, <1>3, <2>1
  <2> QED
    BY <1>1, <2>2 DEF IInv, ReadyAhead
<1> QED
  BY <1>2, <1>4 DEF IInv

(* The inductive invariant holds in every reachable state.                 *)
THEOREM Invariance == Spec => []IInv
<1>1. IInv /\ [Next]_vars => IInv'
  <2>1. IInv /\ Next => IInv'
    BY ServerStep, ClientStep DEF Next
  <2>2. IInv /\ UNCHANGED vars => IInv'
    BY DEF vars, clientVars, table, IInv, Types, SlotsMatch, OneFd, ReadyAhead,
           InSlots, OpenFds, IsReady, Waiting
  <2> QED
    BY <2>1, <2>2
<1> QED
  BY InitInv, <1>1, PTL DEF Spec

(* clients, allset and the descriptor table agree in every state, although *)
(* main, process and close_cli release a slot, its bit and its descriptor  *)
(* in different orders.                                                    *)
THEOREM SlotsAlwaysMatch == Spec => []SlotsMatch
<1>1. IInv => SlotsMatch
  BY DEF IInv
<1> QED
  BY Invariance, <1>1, PTL

(* recv, in main and in process, never waits for a client: what select     *)
(* reported is still true when the loop comes to the slot.                 *)
THEOREM RecvNeverBlocks == Spec => []NeverBlocks
<1>1. IInv => NeverBlocks
  BY DEF IInv, ReadyAhead, NeverBlocks, Ready, InArray, Slots
<1> QED
  BY Invariance, <1>1, PTL
-----------------------------------------------------------------------------
(* main knows only clients that have connected.                            *)
Met == /\ at = "accept" => client[next] # "away"
       /\ \A f \in Fds : fdt[f] \in Conns => client[fdt[f]] # "away"

(* What select reported and main has still to come to.                     *)
Ahead == {f \in (rset \cap allset) \ {Listen} : \A s \in Slots : s < i => connfd[s] # f}

(* nready counts it.                                                       *)
CountInv ==
  /\ rset \subseteq Fds \cup {Listen}
  /\ at = "accept" => Listen \in rset /\ nready = Cardinality(rset) /\ i = 0
  /\ at = "loop" => nready = Cardinality(Ahead) /\ nready > 0

CountedInv == Met /\ LeaksForCause /\ CountInv /\ HarmlessMaxi

LEMMA FdsFinite == IsFiniteSet(Fds \cup {Listen}) /\ Listen \in Fds \cup {Listen}
<1>1. IsFiniteSet((Listen + 1)..(NFiles - 1))
  BY EchoSelectAssumption, FS_Interval
<1> QED
  BY <1>1, FS_AddElement DEF Fds

LEMMA CountedInit == Init => CountedInv
<1> SUFFICES ASSUME Init PROVE CountedInv
  OBVIOUS
<1>1. \A f \in Fds : fdt[f] \notin Conns
  BY Constants DEF Init
<1>2. Met /\ CountInv
  BY <1>1 DEF Init, Met, CountInv
<1>3. LeaksForCause /\ HarmlessMaxi
  BY <1>1 DEF Init, LeaksForCause, HarmlessMaxi, OpenFds
<1> QED
  BY <1>2, <1>3 DEF CountedInv

(* select counts the descriptors it reports.                               *)
LEMMA CountedSelect == IInv /\ CountedInv /\ Select => CountedInv'
<1> SUFFICES ASSUME IInv, CountedInv, Select PROVE CountedInv'
  OBVIOUS
<1> DEFINE ready == {f \in allset : IsReady(f)}
<1>1. /\ ready # {} /\ rset' = ready /\ nready' = Cardinality(ready) /\ i' = 0
      /\ at' = IF Listen \in ready THEN "accept" ELSE "loop"
      /\ UNCHANGED <<client, next, fdt, connfd, allset>>
  BY DEF Select, Goto, table, clientVars
<1>2. ready \subseteq Fds \cup {Listen}
  BY Constants DEF IInv, Types
<1>3. Met'
  <2>1. Listen \in ready => client[next] # "away"
    BY DEF IsReady, Waiting
  <2> QED
    BY <1>1, <2>1 DEF CountedInv, Met
<1>4. LeaksForCause' /\ HarmlessMaxi'
  BY <1>1 DEF CountedInv, LeaksForCause, HarmlessMaxi, OpenFds, InSlots
<1>5. CountInv'
  <2>1. Cardinality(ready) \in Nat /\ Cardinality(ready) # 0
    BY <1>1, <1>2, FdsFinite, FS_Subset, FS_CardinalityType, FS_EmptySet
  <2>2. Listen \notin ready => Ahead' = ready
    <3>1. \A s \in Slots : ~(s < 0)
      BY Constants
    <3> QED
      BY <1>1, <3>1 DEF Ahead
  <2> HIDE DEF ready
  <2> QED
    BY <1>1, <1>2, <2>1, <2>2 DEF CountInv
<1> QED
  BY <1>3, <1>4, <1>5 DEF CountedInv

(* The listening descriptor is taken off the count; the new connection is  *)
(* not in it.                                                              *)
LEMMA CountedAccept == IInv /\ CountedInv /\ Accept => CountedInv'
<1> SUFFICES ASSUME IInv, CountedInv, Accept PROVE CountedInv'
  OBVIOUS
<1>1. at = "accept" /\ next \in Conns /\ client[next] # "away" /\ UNCHANGED <<client, arrived>>
  BY DEF Accept, IInv, Types, CountedInv, Met, clientVars
<1>2. CASE TableFull /\ BackToSelect /\ UNCHANGED <<next, table, firstconn, maxi>>
  <2>1. Met' /\ CountInv'
    BY <1>1, <1>2 DEF BackToSelect, table, CountedInv, Met, CountInv
  <2>2. LeaksForCause' /\ HarmlessMaxi'
    BY <1>1, <1>2 DEF BackToSelect, table, CountedInv, LeaksForCause, HarmlessMaxi, OpenFds, InSlots
  <2> QED
    BY <2>1, <2>2 DEF CountedInv
<1>3. CASE at' = "overrun" /\ UNCHANGED <<next, table, rset>>
  BY <1>1, <1>3 DEF table, CountedInv, Met, CountInv, LeaksForCause, HarmlessMaxi, OpenFds,
                    InSlots
<1>4. ASSUME NEW f \in Fds, fdt[f] = None,
             fdt' = [fdt EXCEPT ![f] = next], allset' = allset \cup {f},
             NEW e \in Slots, connfd[e] = None,
             connfd' = [r \in Slots |-> IF r = e THEN f ELSE connfd[r]],
             \/ nready > 1 /\ at' = "loop" /\ i' = i /\ rset' = rset /\ nready' = nready - 1
             \/ at' = "select" /\ rset' = {}
      PROVE  CountedInv'
  <2>1. f \notin allset /\ f \notin rset /\ rset \subseteq allset
    BY <1>1, <1>4, Constants DEF IInv, SlotsMatch, OpenFds, ReadyAhead
  <2>2. \A g \in Fds : g # f => fdt'[g] = fdt[g]
    BY <1>4 DEF IInv, Types
  <2>3. Met'
    BY <1>1, <1>4, <2>2 DEF CountedInv, Met, IInv, Types
  <2>4. LeaksForCause' /\ HarmlessMaxi'
    <3>1. OpenFds' \subseteq OpenFds \cup {f}
      BY <2>2 DEF OpenFds
    <3>2. InSlots \subseteq InSlots' /\ f \in InSlots'
      <4>1. connfd'[e] = f /\ (\A s \in Slots : s # e => connfd'[s] = connfd[s])
        BY <1>4
      <4> QED
        BY <1>4, <4>1, Constants DEF InSlots
    <3>3. \A g \in OpenFds' \ InSlots' : client'[fdt'[g]] # "open"
      BY <1>1, <1>4, <2>2, <3>1, <3>2 DEF CountedInv, LeaksForCause, OpenFds
    <3> QED
      BY <1>4, <3>3 DEF LeaksForCause, HarmlessMaxi
  <2>5. CASE at' = "loop" /\ nready > 1 /\ i' = i /\ rset' = rset /\ nready' = nready - 1
    <3>1. Listen \in rset /\ nready = Cardinality(rset) /\ i = 0 /\ rset \subseteq Fds \cup {Listen}
      BY <1>1 DEF CountedInv, CountInv
    <3>2. Ahead' = rset \ {Listen}
      <4>1. \A s \in Slots : ~(s < 0)
        BY Constants
      <4> QED
        BY <1>4, <2>1, <2>5, <3>1, <4>1 DEF Ahead
    <3>3. Cardinality(rset \ {Listen}) = nready - 1 /\ nready \in Nat
      BY <3>1, FdsFinite, FS_Subset, FS_RemoveElement, FS_CardinalityType
    <3> QED
      BY <2>3, <2>4, <2>5, <3>1, <3>2, <3>3 DEF CountedInv, CountInv
  <2>6. CASE at' = "select" /\ rset' = {}
    BY <2>3, <2>4, <2>6 DEF CountedInv, CountInv
  <2> QED
    BY <1>4, <2>5, <2>6
<1> QED
  BY <1>2, <1>3, <1>4, SearchFinds, Constants DEF Accept, LowestFree, ToLoop, BackToSelect, table

(* A slot that is passed holds nothing that select reported.  The loop is  *)
(* in the array: beyond it all slots are passed, and what is left to find  *)
(* is in one of them.                                                      *)
LEMMA CountedPass == IInv /\ CountedInv /\ Pass => CountedInv'
<1> SUFFICES ASSUME IInv, CountedInv, Pass PROVE CountedInv'
  OBVIOUS
<1>1. at = "loop" /\ UNCHANGED <<client, next, fdt, connfd, allset>> /\ i \in Nat
  BY DEF Pass, clientVars, table, IInv, Types
<1>2. /\ rset \subseteq Fds \cup {Listen} /\ nready = Cardinality(Ahead) /\ nready > 0
  BY <1>1 DEF CountedInv, CountInv
<1>3. Met' /\ LeaksForCause'
  BY <1>1 DEF Pass, BackToSelect, CountedInv, Met, LeaksForCause, OpenFds, InSlots
<1>4. CASE BackToSelect
  BY <1>3, <1>4 DEF BackToSelect, CountedInv, CountInv, HarmlessMaxi
<1>5. CASE i \in Slots /\ i <= maxi /\ ~Ready /\ i' = i + 1 /\ UNCHANGED <<at, rset, nready>>
  <2>1. connfd[i] = None \/ connfd[i] \notin rset
    BY <1>1, <1>5 DEF Ready, InArray
  <2>2. \A f \in rset \cap allset : f # Listen => connfd[i] # f
    BY <1>2, <2>1, Constants
  <2>3. \A s \in Slots : s < i + 1 <=> s < i \/ s = i
    BY <1>1 DEF Slots
  <2>4. Ahead' = Ahead
    BY <1>1, <1>5, <2>2, <2>3 DEF Ahead
  <2> QED
    BY <1>1, <1>2, <1>3, <1>5, <2>4 DEF CountedInv, CountInv, HarmlessMaxi
<1>6. i \in Slots
  <2> SUFFICES ASSUME i \notin Slots PROVE FALSE
    OBVIOUS
  <2>1. \A s \in Slots : s < i
    BY <1>1, EchoSelectAssumption DEF Slots
  <2>2. PICK f \in Ahead : TRUE
    BY <1>2, FS_EmptySet
  <2>3. f \in InSlots
    BY <2>2 DEF Ahead, IInv, SlotsMatch
  <2> QED
    BY <2>1, <2>2, <2>3 DEF Ahead, InSlots
<1> QED
  BY <1>1, <1>4, <1>5, <1>6 DEF Pass, InArray

(* Whoever is served is no longer ahead, and nready is one less.           *)
LEMMA CountedServe == IInv /\ CountedInv /\ (First \/ Process) => CountedInv'
<1> SUFFICES ASSUME IInv, CountedInv, First \/ Process PROVE CountedInv'
  OBVIOUS
<1> DEFINE f == connfd[i]
<1>1. /\ at = "loop" /\ i \in Slots /\ i \in Nat /\ f \in Fds /\ f # Listen /\ f # None
      /\ f \in rset /\ f \in allset
  BY Constants DEF First, Process, Ready, InArray, IInv, Types, SlotsMatch, InSlots
<1>2. /\ \/ nready > 1 /\ nready' = nready - 1 /\ i' = i + 1 /\ UNCHANGED <<at, rset>>
         \/ at' = "select" /\ rset' = {}
      /\ UNCHANGED <<client, next>>
  BY DEF First, Process, Advance, BackToSelect, clientVars
<1>3. \/ UNCHANGED <<fdt, connfd, allset>>
      \/ /\ connfd' = [connfd EXCEPT ![i] = None] /\ allset' = allset \ {f}
         /\ \/ fdt' = fdt /\ client[fdt[f]] # "open"
            \/ fdt' = [fdt EXCEPT ![f] = None]
  BY DEF First, Process, Answer, CloseCli, table, Gone, Served
<1> HIDE DEF f
<1>4. /\ rset \subseteq Fds \cup {Listen} /\ nready = Cardinality(Ahead)
      /\ Cardinality(Ahead) \in Nat /\ IsFiniteSet(Ahead)
  <2>1. rset \subseteq Fds \cup {Listen} /\ nready = Cardinality(Ahead)
    BY <1>1 DEF CountedInv, CountInv
  <2>2. Ahead \subseteq Fds \cup {Listen}
    BY <2>1 DEF Ahead
  <2> QED
    BY <2>1, <2>2, FdsFinite, FS_Subset, FS_CardinalityType
<1>5. \A s \in Slots : s # i => connfd[s] # f /\ connfd'[s] = connfd[s]
  BY <1>1, <1>3, Constants DEF IInv, Types, SlotsMatch, f
<1>6. \A g \in Fds : g # f => fdt'[g] = fdt[g]
  BY <1>3 DEF IInv, Types
<1>7. Met'
  <2>1. \A g \in Fds : fdt'[g] \in {fdt[g], None}
    BY <1>1, <1>3 DEF IInv, Types
  <2> QED
    BY <1>1, <1>2, <2>1, Constants DEF CountedInv, Met
<1>8. LeaksForCause' /\ HarmlessMaxi'
  <2>1. CASE UNCHANGED <<fdt, connfd, allset>>
    BY <1>1, <1>2, <2>1 DEF CountedInv, LeaksForCause, HarmlessMaxi, OpenFds, InSlots
  <2>2. CASE /\ connfd' = [connfd EXCEPT ![i] = None] /\ allset' = allset \ {f}
             /\ \/ fdt' = fdt /\ client[fdt[f]] # "open"
                \/ fdt' = [fdt EXCEPT ![f] = None]
    <3> SUFFICES ASSUME NEW g \in OpenFds' \ InSlots'
                 PROVE  client[fdt'[g]] # "open"
      BY <1>1, <1>2 DEF LeaksForCause, HarmlessMaxi
    <3>1. CASE g = f
      BY <1>1, <2>2, <3>1, Constants DEF OpenFds, IInv, Types
    <3>2. CASE g # f
      <4>1. g \in OpenFds
        BY <1>6, <3>2 DEF OpenFds
      <4>2. g \notin InSlots
        BY <1>1, <1>5, <3>2 DEF InSlots, f
      <4> QED
        BY <1>6, <2>2, <3>2, <4>1, <4>2 DEF CountedInv, LeaksForCause, OpenFds
    <3> QED
      BY <3>1, <3>2
  <2> QED
    BY <1>3, <2>1, <2>2
<1>9. CASE nready > 1 /\ nready' = nready - 1 /\ i' = i + 1 /\ UNCHANGED <<at, rset>>
  <2>1. f \in Ahead
    <3>1. \A s \in Slots : s < i => connfd[s] # f
      BY <1>1, <1>5
    <3> QED
      BY <1>1, <3>1 DEF Ahead
  <2>2. \A s \in Slots : s < i + 1 <=> s < i \/ s = i
    BY <1>1 DEF Slots
  <2>3. connfd[i] = f /\ connfd'[i] \in {f, None}
    BY <1>1, <1>3 DEF f, IInv, Types
  <2>4. Ahead' = Ahead \ {f}
    <3>1. ASSUME NEW g PROVE g \in Ahead' <=> g \in Ahead \ {f}
      <4>1. CASE g = f
        BY <1>1, <1>3, <1>9, <2>2, <2>3, <4>1 DEF Ahead
      <4>2. CASE g # f
        <5>1. g \in rset \ {Listen} => g \in Fds /\ g # None
          BY <1>4, Constants
        <5>2. g \in allset' <=> g \in allset
          BY <1>3, <4>2
        <5>3. g \in Fds /\ g # None => ((\A s \in Slots : s < i + 1 => connfd'[s] # g)
                                        <=> (\A s \in Slots : s < i => connfd[s] # g))
          BY <1>1, <1>5, <2>2, <2>3, <4>2
        <5> QED
          BY <1>9, <4>2, <5>1, <5>2, <5>3 DEF Ahead
      <4> QED
        BY <4>1, <4>2
    <3> QED
      BY <3>1
  <2>5. Cardinality(Ahead') = nready - 1 /\ nready - 1 > 0
    BY <1>4, <1>9, <2>1, <2>4, FS_RemoveElement
  <2> QED
    BY <1>1, <1>4, <1>7, <1>8, <1>9, <2>5 DEF CountedInv, CountInv
<1>10. CASE at' = "select" /\ rset' = {}
  BY <1>7, <1>8, <1>10 DEF CountedInv, CountInv
<1> QED
  BY <1>2, <1>9, <1>10

LEMMA CountedClient == ASSUME IInv, CountedInv, NEW c \in Conns, Client(c) PROVE CountedInv'
<1>1. /\ UNCHANGED <<next, fdt, connfd, allset, rset, nready, i, at>> /\ at # "outside"
      /\ \E v \in {"open", "closed", "reset"} : client' = [client EXCEPT ![c] = v]
           \/ client' = client
  BY DEF Client, Connect, Send, Leave, table
<1>2. \A d \in Conns : client[d] # "away" =>
        client'[d] # "away" /\ (client'[d] = "open" => client[d] = "open")
  BY DEF Client, Connect, Send, Leave, IInv, Types
<1>3. Met'
  <2> QED
    BY <1>1, <1>2 DEF CountedInv, Met, IInv, Types
<1>4. LeaksForCause'
  <2>1. \A f \in OpenFds : f \in Fds /\ fdt[f] \in Conns /\ client[fdt[f]] # "away"
    BY DEF OpenFds, IInv, Types, CountedInv, Met
  <2> QED
    BY <1>1, <1>2, <2>1 DEF CountedInv, LeaksForCause, OpenFds, InSlots
<1>5. CountInv' /\ HarmlessMaxi'
  BY <1>1 DEF CountedInv, CountInv, Ahead, HarmlessMaxi
<1> QED
  BY <1>3, <1>4, <1>5 DEF CountedInv

LEMMA CountedStep == IInv /\ CountedInv /\ [Next]_vars => CountedInv'
<1> SUFFICES ASSUME IInv, CountedInv, [Next]_vars PROVE CountedInv'
  OBVIOUS
<1>1. CASE UNCHANGED <<client, next, fdt, connfd, allset, rset, nready, i>> /\ at' \in {at, "killed"}
  BY <1>1 DEF CountedInv, Met, LeaksForCause, CountInv, Ahead, HarmlessMaxi, OpenFds, InSlots
<1>2. CASE Killed \/ UNCHANGED vars
  BY <1>1, <1>2 DEF Killed, vars, clientVars, table
<1> QED
  BY <1>2, CountedSelect, CountedAccept, CountedPass, CountedServe, CountedClient DEF Next, Server

(* The invariant of nready's count holds in every reachable state.         *)
THEOREM CountedInvariance == Spec => []CountedInv
<1> QED
  BY Invariance, CountedInit, CountedStep, PTL DEF Spec

(* An open descriptor without a slot belonged to a client that has gone:   *)
(* no client that stays loses its slot.                                    *)
THEOREM SlotsNotLost == Spec => []LeaksForCause
<1>1. CountedInv => LeaksForCause
  BY DEF CountedInv
<1> QED
  BY CountedInvariance, <1>1, PTL

(* main always finds a slot, whatever the limit on descriptors: before the *)
(* array is full, FD_SET has left what is defined.                         *)
THEOREM SlotAlwaysLeft == Spec => []AlwaysASlot
<1>1. IInv => AlwaysASlot
  BY SlotLeft DEF AlwaysASlot
<1> QED
  BY Invariance, <1>1, PTL

(* Whatever the stack had put into maxi, the loop reads no slot beyond the *)
(* array: nready counts what is still to be found, all of it is in slots,  *)
(* and nready ends the loop with the last.                                 *)
THEOREM StackValueHarmless == Spec => []HarmlessMaxi
<1>1. CountedInv => HarmlessMaxi
  BY DEF CountedInv
<1> QED
  BY CountedInvariance, <1>1, PTL
=============================================================================
