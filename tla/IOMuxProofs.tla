---------------------------- MODULE IOMuxProofs -----------------------------
(***************************************************************************)
(* Theorems about IOMux, for every number of clients, slots and            *)
(* descriptors and everything that clients may send.                       *)
(***************************************************************************)
EXTENDS IOMux, FiniteSetTheorems, SequenceTheorems, TLAPS

Serving == at \in {"line", "firsthdr", "hdrs", "reply", "after"}

Types ==
  /\ client \in [Conns -> {"away", "open", "closed"}]
  /\ unsent \in [Conns -> Seq(Lines)] /\ net \in [Conns -> Seq(Lines)]
  /\ next \in 1..(NConns + 1) /\ (at = "accept" => next \in Conns /\ i = 0)
  /\ fdt \in [Fds -> Conns \cup {None}]
  /\ clientfd \in [Slots -> Fds \cup {None}]
  /\ maxi \in Slots \cup {-1}
  /\ i \in Nat /\ nready \in Int
  /\ Serving => i \in Slots /\ clientfd[i] # None

(* A connection has one descriptor, and only if it was accepted.           *)
OneFd ==
  /\ \A f \in Fds : fdt[f] # None => fdt[f] < next
  /\ \A f, g \in Fds : fdt[f] = fdt[g] /\ fdt[f] # None => f = g

(* The descriptors in slots from k on that select reported.                *)
Ahead(k) == {f \in ready_set \ {Listen} : \E s \in Slots : s >= k /\ clientfd[s] = f}

(* They are still ready, and nready is their number.                       *)
ReadyAhead ==
  /\ ready_set \subseteq Fds \cup {Listen}
  /\ at = "accept" => /\ ready_set \subseteq read_set /\ Listen \in ready_set
                      /\ nready = Cardinality(ready_set)
                      /\ \A f \in ready_set \ {Listen} : IsReady(f)
  /\ at = "check" => nready = Cardinality(Ahead(i)) /\ \A f \in Ahead(i) : IsReady(f)
  /\ Serving => nready = Cardinality(Ahead(i + 1)) /\ \A f \in Ahead(i + 1) : IsReady(f)
  /\ at = "line" => \A f \in Fds : f = clientfd[i] => IsReady(f)

IInv == Types /\ PoolMatchesTable /\ OneFd /\ ReadyAhead

LEMMA Constants == /\ Conns \subseteq Nat \ {0} /\ Fds \subseteq Nat \ {0} /\ Slots \subseteq Nat
                   /\ None \notin Conns /\ None \notin Fds /\ Listen \notin Fds /\ None # Listen
BY IOMuxAssumption DEF Conns, Fds, Slots, None

LEMMA FdsFinite == ASSUME NEW S, S \subseteq Fds \cup {Listen}
                   PROVE  IsFiniteSet(S) /\ Cardinality(S) \in Nat
<1>1. IsFiniteSet(Fds)
  BY IOMuxAssumption, FS_Interval DEF Fds
<1>2. IsFiniteSet(Fds \cup {Listen})
  BY <1>1, FS_AddElement
<1> QED
  BY <1>2, FS_Subset, FS_CardinalityType

LEMMA InitInv == Init => IInv
<1> SUFFICES ASSUME Init PROVE IInv
  OBVIOUS
<1> USE IOMuxAssumption DEF Init
<1>1. Types
  <2>1. stream \in [Conns -> Seq(Lines)] /\ next \in 1..(NConns + 1)
    BY DEF Conns
  <2>2. client \in [Conns -> {"away", "open", "closed"}] /\ net \in [Conns -> Seq(Lines)]
    OBVIOUS
  <2> QED
    BY <2>1, <2>2 DEF Types, Serving
<1>2. PoolMatchesTable
  BY Constants DEF PoolMatchesTable
<1>3. OneFd /\ ReadyAhead
  BY DEF OneFd, ReadyAhead, Serving
<1> QED
  BY <1>1, <1>2, <1>3 DEF IInv

(* Readiness depends on the table, the kernel and the clients.             *)
LEMMA SameReady ==
  ASSUME NEW f \in Fds, UNCHANGED <<net, fdt, client>>
  PROVE  IsReady(f)' <=> IsReady(f)
BY Constants DEF IsReady

LEMMA SelectStep == IInv /\ Select => IInv'
<1> SUFFICES ASSUME IInv, Select PROVE IInv'
  OBVIOUS
<1>1. /\ ready_set' = {f \in read_set : IsReady(f)}
      /\ nready' = Cardinality(ready_set') /\ i' = 0
      /\ at' = IF Listen \in ready_set' THEN "accept" ELSE "check"
      /\ UNCHANGED <<client, unsent, net, next, fdt, clientfd, maxi, read_set>>
  BY DEF Select, Goto, pool, clientVars
<1>2. ready_set' \subseteq read_set /\ read_set \subseteq Fds \cup {Listen}
  BY <1>1 DEF IInv, PoolMatchesTable
<1>3. nready' \in Nat
  BY <1>1, <1>2, FdsFinite
<1>4. at' = "accept" => next \in Conns
  BY <1>1 DEF IsReady
<1>5. Types' /\ PoolMatchesTable' /\ OneFd'
  BY <1>1, <1>3, <1>4 DEF IInv, Types, PoolMatchesTable, OneFd, Serving
<1>6. \A f \in ready_set' \ {Listen} : IsReady(f)'
  BY <1>1, <1>2, SameReady
<1>7. CASE at' = "check"
  <2>1. \A f \in ready_set' : \E s \in Slots : s >= 0 /\ clientfd[s] = f
    BY <1>1, <1>2, <1>7, Constants DEF IInv, PoolMatchesTable
  <2>2. Ahead(0)' = ready_set'
    BY <1>1, <1>7, <2>1 DEF Ahead
  <2> QED
    BY <1>1, <1>2, <1>5, <1>6, <1>7, <2>2 DEF IInv, ReadyAhead, Serving
<1>8. CASE at' = "accept"
  BY <1>1, <1>2, <1>5, <1>6, <1>8 DEF IInv, ReadyAhead, Serving
<1> QED
  BY <1>1, <1>7, <1>8

LEMMA AcceptStep == IInv /\ Accept => IInv'
<1> SUFFICES ASSUME IInv, Accept PROVE IInv'
  OBVIOUS
<1>1. at = "accept" /\ next \in Conns /\ i = 0
  BY DEF Accept, Goto, IInv, Types
<1>2. CASE Exit("full") \/ Exit("overrun")
  BY <1>2 DEF Exit, pool, clientVars, IInv, Types, PoolMatchesTable, OneFd, ReadyAhead, Serving
<1>3. ASSUME NEW f \in Fds, NEW s \in Slots, fdt[f] = None, clientfd[s] = None,
             next' = next + 1, at' = "check",
             fdt' = [fdt EXCEPT ![f] = next], clientfd' = [clientfd EXCEPT ![s] = f],
             maxi' = IF s > maxi THEN s ELSE maxi,
             read_set' = read_set \cup {f}, nready' = nready - 1,
             UNCHANGED <<client, unsent, net, ready_set, i>>
      PROVE  IInv'
  <2>1. f \notin read_set /\ \A r \in Slots : clientfd[r] # f
    BY <1>3, Constants DEF IInv, PoolMatchesTable
  <2>2. Types'
    BY <1>1, <1>3, Constants, IOMuxAssumption DEF IInv, Types, Conns, Serving
  <2>3. OneFd'
    <3>1. \A g \in Fds : fdt'[g] = IF g = f THEN next ELSE fdt[g]
      BY <1>3 DEF IInv, Types
    <3>2. \A g \in Fds : fdt[g] # None => fdt[g] \in Nat /\ fdt[g] < next
      BY Constants DEF IInv, Types, OneFd
    <3>3. next \in Nat /\ next # None /\ next' = next + 1
      BY <1>1, <1>3, Constants
    <3>4. \A g, h \in Fds : fdt[g] = fdt[h] /\ fdt[g] # None => g = h
      BY DEF IInv, OneFd
    <3> QED
      BY <3>1, <3>2, <3>3, <3>4 DEF OneFd
  <2>4. PoolMatchesTable'
    <3> DEFINE Open == {g \in Fds : fdt[g] # None}
               Held == {clientfd[r] : r \in Slots} \ {None}
    <3>1. Open' = Open \cup {f}
      BY <1>1, <1>3, Constants DEF IInv, Types
    <3>2. Held' = Held \cup {f}
      BY <1>3, Constants DEF IInv, Types
    <3>3. Held = Open /\ read_set \ {Listen} = Open
      BY DEF IInv, PoolMatchesTable
    <3>4. read_set' \ {Listen} = Open'
      BY <1>3, <3>1, <3>3, Constants
    <3>5. ASSUME NEW r \in Slots, clientfd'[r] # None
          PROVE  r <= maxi' /\ \A q \in Slots : clientfd'[q] = clientfd'[r] => q = r
      <4>1. \A q \in Slots : clientfd'[q] = IF q = s THEN f ELSE clientfd[q]
        BY <1>3 DEF IInv, Types
      <4> QED
        BY <1>3, <2>1, <3>5, <4>1, Constants DEF IInv, PoolMatchesTable, Types
    <3> HIDE DEF Open, Held
    <3>6. Held' = Open'
      BY <3>1, <3>2, <3>3
    <3> QED
      BY <3>4, <3>5, <3>6 DEF PoolMatchesTable, Open, Held
  <2>5. ReadyAhead'
    <3>1. /\ ready_set \subseteq read_set /\ Listen \in ready_set
          /\ nready = Cardinality(ready_set) /\ ready_set \subseteq Fds \cup {Listen}
          /\ \A g \in ready_set \ {Listen} : IsReady(g)
      BY <1>1 DEF IInv, ReadyAhead
    <3>2. Ahead(0)' = ready_set \ {Listen}
      <4>1. ASSUME NEW g \in ready_set \ {Listen}
            PROVE  \E r \in Slots : r >= 0 /\ clientfd'[r] = g
        <5>1. PICK r \in Slots : clientfd[r] = g /\ g # None /\ g # f
          BY <3>1, <2>1, Constants DEF IInv, PoolMatchesTable
        <5>2. r # s /\ r >= 0
          BY <5>1, <1>3, Constants
        <5> QED
          BY <5>1, <5>2, <1>3 DEF IInv, Types
      <4> QED
        BY <4>1, <1>3 DEF Ahead
    <3>3. nready' = Cardinality(ready_set \ {Listen})
      BY <1>3, <3>1, FdsFinite, FS_RemoveElement
    <3>4. ASSUME NEW g \in ready_set \ {Listen} PROVE IsReady(g)'
      <4>1. g \in Fds /\ g # f /\ g # Listen /\ IsReady(g)
        BY <2>1, <3>1
      <4>2. fdt'[g] = fdt[g]
        BY <1>3, <4>1 DEF IInv, Types
      <4> QED
        BY <1>3, <4>1, <4>2 DEF IsReady
    <3>5. \A g \in Ahead(0)' : IsReady(g)'
      BY <3>2, <3>4
    <3> QED
      BY <1>1, <1>3, <3>1, <3>2, <3>3, <3>5 DEF ReadyAhead, Serving
  <2> QED
    BY <2>2, <2>3, <2>4, <2>5 DEF IInv
<1> QED
  BY <1>2, <1>3 DEF Accept, Goto, clientVars

(* The slot the loop is at holds a descriptor that is open.                *)
LEMMA ServedOpen ==
  ASSUME IInv, NEW s \in Slots, clientfd[s] # None
  PROVE  /\ clientfd[s] \in Fds /\ fdt[clientfd[s]] \in Conns
         /\ \A r \in Slots : clientfd[r] = clientfd[s] => r = s
BY DEF IInv, Types, PoolMatchesTable

(* Going on from slot k to the next.                                       *)
LEMMA NextSlot ==
  ASSUME IInv, NEW k \in Slots
  PROVE  /\ Ahead(k) \subseteq Fds /\ Ahead(k + 1) \subseteq Fds
         /\ clientfd[k] \in ready_set => /\ clientfd[k] \notin Ahead(k + 1)
                                         /\ Ahead(k) = Ahead(k + 1) \cup {clientfd[k]}
         /\ clientfd[k] \notin ready_set => Ahead(k) = Ahead(k + 1)
<1>1. ready_set \subseteq Fds \cup {Listen} /\ clientfd \in [Slots -> Fds \cup {None}]
  BY DEF IInv, ReadyAhead, Types
<1>2. \A s \in Slots : s >= k <=> s = k \/ s >= k + 1
  BY Constants
<1>3. ~(k >= k + 1)
  BY Constants
<1>4. \A s \in Slots : clientfd[s] # Listen
  BY <1>1, Constants
<1>5. clientfd[k] \in ready_set => clientfd[k] # None
  BY <1>1, Constants
<1>6. clientfd[k] \in ready_set => clientfd[k] \notin Ahead(k + 1)
  BY <1>3, <1>5, ServedOpen DEF Ahead
<1> QED
  BY <1>1, <1>2, <1>4, <1>6 DEF Ahead

LEMMA CheckStep == IInv /\ Check => IInv'
<1> SUFFICES ASSUME IInv, Check PROVE IInv'
  OBVIOUS
<1>1. /\ at = "check" /\ i \in Nat /\ nready = Cardinality(Ahead(i))
      /\ \A f \in Ahead(i) : IsReady(f)
      /\ ready_set \subseteq Fds \cup {Listen}
      /\ UNCHANGED <<client, unsent, net, next, fdt, clientfd, maxi, read_set>>
  BY DEF Check, Goto, IInv, Types, ReadyAhead, clientVars, pool
<1>2. PoolMatchesTable' /\ OneFd'
  BY <1>1 DEF IInv, PoolMatchesTable, OneFd
<1>3. CASE at' = "select" /\ ready_set' = {} /\ nready' = 0 /\ i' = 0
  BY <1>1, <1>2, <1>3 DEF IInv, Types, ReadyAhead, Serving
<1>4. CASE i <= maxi /\ nready > 0 /\ UNCHANGED ready_set
  <2>1. i \in Slots /\ i + 1 \in Nat
    BY <1>1, <1>4, IOMuxAssumption DEF IInv, Types, Slots
  <2>2. Cardinality(Ahead(i + 1)) \in Nat /\ IsFiniteSet(Ahead(i + 1))
    BY <2>1, NextSlot, FdsFinite
  <2>3. \A f \in Ahead(i + 1) : f \in Fds /\ f \in Ahead(i)
    BY <2>1, NextSlot
  <2>4. \A f \in Ahead(i + 1) : IsReady(f)'
    BY <1>1, <2>3, SameReady
  <2>5. \A k : Ahead(k)' = Ahead(k)
    BY <1>1, <1>4 DEF Ahead
  <2>6. CASE clientfd[i] \in ready_set /\ at' = "line" /\ nready' = nready - 1 /\ i' = i
    <3>1. nready' = Cardinality(Ahead(i + 1)) /\ clientfd[i] \in Ahead(i)
      <4>1. /\ Ahead(i) = Ahead(i + 1) \cup {clientfd[i]}
            /\ clientfd[i] \notin Ahead(i + 1)
        BY <2>1, <2>6, NextSlot
      <4>2. Cardinality(Ahead(i)) = Cardinality(Ahead(i + 1)) + 1
        BY <2>2, <4>1, FS_AddElement
      <4> QED
        BY <1>1, <2>2, <2>6, <4>1, <4>2
    <3>2. clientfd[i] \in Fds /\ clientfd[i] # None
      BY <2>1, <3>1, NextSlot, Constants
    <3>3. \A f \in Fds : f = clientfd'[i'] => IsReady(f)'
      BY <1>1, <2>6, <3>1, <3>2, SameReady
    <3>4. Types'
      BY <1>1, <1>4, <2>1, <2>6, <3>1, <3>2, <2>2 DEF IInv, Types, Serving
    <3>5. Ahead(i + 1)' = Ahead(i + 1)
      BY <1>1, <1>4, <2>6 DEF Ahead
    <3>6. ReadyAhead'
      BY <1>1, <1>4, <2>4, <2>6, <3>1, <3>3, <3>5 DEF ReadyAhead, Serving
    <3> QED
      BY <1>2, <3>4, <3>6 DEF IInv
  <2>7. CASE clientfd[i] \notin ready_set /\ at' = at /\ nready' = nready /\ i' = i + 1
    <3>1. nready' = Cardinality(Ahead(i + 1))
      BY <1>1, <2>1, <2>7, NextSlot
    <3> QED
      BY <1>1, <1>2, <1>4, <2>1, <2>2, <2>4, <2>5, <2>7, <3>1
      DEF IInv, Types, ReadyAhead, Serving
  <2> QED
    <3>1. \/ clientfd[i] \in ready_set /\ at' = "line" /\ nready' = nready - 1 /\ i' = i
          \/ clientfd[i] \notin ready_set /\ at' = at /\ nready' = nready /\ i' = i + 1
          \/ i > maxi \/ nready = 0
      BY DEF Check, Goto
    <3>2. i \in Int /\ maxi \in Int
      BY <1>1, Constants DEF IInv, Types
    <3> QED
      BY <1>4, <2>6, <2>7, <3>1, <3>2
<1> QED
  BY <1>3, <1>4 DEF Check, Goto

(* The clients ahead of the one being served are others, with descriptors  *)
(* of others: what happens to its lines and its descriptor leaves them.    *)
LEMMA OthersStayReady ==
  ASSUME IInv, Serving, UNCHANGED client,
         \A c \in Conns \ {Served} : net'[c] = net[c],
         \A g \in Fds \ {clientfd[i]} : fdt'[g] = fdt[g],
         NEW f \in Ahead(i + 1)
  PROVE  IsReady(f)'
<1>1. i \in Slots /\ clientfd[i] # None /\ IsReady(f) /\ f \in Fds
  BY NextSlot DEF IInv, Types, ReadyAhead
<1>2. PICK s \in Slots : s >= i + 1 /\ clientfd[s] = f
  BY DEF Ahead
<1>3. s # i
  BY <1>1, <1>2, Constants
<1>4. f # clientfd[i] /\ fdt[f] \in Conns
  BY <1>1, <1>2, <1>3, Constants, ServedOpen
<1>5. fdt[f] # Served
  BY <1>1, <1>4, ServedOpen, Constants DEF IInv, OneFd, Served
<1>6. fdt'[f] = fdt[f] /\ net'[fdt[f]] = net[fdt[f]] /\ f # Listen
  BY <1>1, <1>4, <1>5, Constants
<1> QED
  BY <1>1, <1>6 DEF IsReady

(* A step of doit that does not exit.                                      *)
LEMMA InDoit ==
  ASSUME IInv, Serving, at' \in {"firsthdr", "hdrs", "reply", "after"},
         UNCHANGED <<client, unsent, next, fdt, clientfd, maxi, read_set, ready_set, nready, i>>,
         net' \in [Conns -> Seq(Lines)], \A c \in Conns \ {Served} : net'[c] = net[c]
  PROVE  IInv'
<1>1. Types' /\ PoolMatchesTable' /\ OneFd'
  BY DEF IInv, Types, PoolMatchesTable, OneFd, Serving
<1>2. Ahead(i + 1)' = Ahead(i + 1)
  BY DEF Ahead
<1>3. \A f \in Ahead(i + 1) : IsReady(f)'
  BY OthersStayReady
<1>4. ReadyAhead'
  BY <1>2, <1>3 DEF IInv, ReadyAhead, Serving
<1> QED
  BY <1>1, <1>4 DEF IInv

LEMMA SamePool ==
  ASSUME PoolMatchesTable, OneFd, UNCHANGED <<next, fdt, clientfd, maxi, read_set>>
  PROVE  PoolMatchesTable' /\ OneFd'
<1>1. /\ {clientfd'[s] : s \in Slots} = {clientfd[s] : s \in Slots}
      /\ {f \in Fds : fdt'[f] # None} = {f \in Fds : fdt[f] # None}
  OBVIOUS
<1>2. PoolMatchesTable'
  BY <1>1 DEF PoolMatchesTable
<1> QED
  BY <1>2 DEF OneFd

LEMMA ExitStep ==
  ASSUME IInv, NEW why \in {"full", "overrun", "killed", "read error", "no child"}, Exit(why)
  PROVE  IInv'
<1>1. /\ at' \in {"full", "overrun", "killed", "read error", "no child"}
      /\ UNCHANGED <<client, unsent, net, next, fdt, clientfd, maxi, read_set, ready_set,
                     nready, i>>
  BY DEF Exit, pool, clientVars
<1>2. ~Serving' /\ at' \notin {"accept", "check", "line"}
  BY <1>1 DEF Serving
<1>3. Types'
  BY <1>1, <1>2 DEF IInv, Types
<1>4. PoolMatchesTable' /\ OneFd'
  BY <1>1, SamePool DEF IInv
<1>5. ReadyAhead'
  BY <1>1, <1>2 DEF IInv, ReadyAhead
<1> QED
  BY <1>3, <1>4, <1>5 DEF IInv

LEMMA EmptiedNet ==
  ASSUME net \in [Conns -> Seq(Lines)], net' = [net EXCEPT ![Served] = << >>]
  PROVE  net' \in [Conns -> Seq(Lines)] /\ \A c \in Conns \ {Served} : net'[c] = net[c]
<1>1. << >> \in Seq(Lines)
  OBVIOUS
<1>2. \A d : [net EXCEPT ![d] = << >>] \in [Conns -> Seq(Lines)]
  BY <1>1
<1> QED
  BY <1>2

(* Reading takes lines of the served connection only.                      *)
LEMMA ReadOwn ==
  ASSUME IInv, Serving, NEW l, ReadLine(l)
  PROVE  net' \in [Conns -> Seq(Lines)] /\ \A c \in Conns \ {Served} : net'[c] = net[c]
<1>1. net' = [net EXCEPT ![Served] = << >>] \/ net' = net
  BY DEF ReadLine
<1>2. net \in [Conns -> Seq(Lines)]
  BY DEF IInv, Types
<1> QED
  BY <1>1, <1>2, EmptiedNet

LEMMA DoitStep == IInv /\ (DoitLine \/ DoitHdrs \/ DoitReply \/ ReadFails) => IInv'
<1> SUFFICES ASSUME IInv, DoitLine \/ DoitHdrs \/ DoitReply \/ ReadFails PROVE IInv'
  OBVIOUS
<1>1. Serving
  BY DEF Serving, DoitLine, DoitHdrs, DoitReply, ReadFails, Goto
<1>2. net \in [Conns -> Seq(Lines)]
  BY DEF IInv, Types
<1>3. CASE DoitLine
  <2>1. (\E l \in Lines : ReadLine(l)) \/ net' = net
    BY <1>3 DEF DoitLine
  <2>2. net' \in [Conns -> Seq(Lines)] /\ \A c \in Conns \ {Served} : net'[c] = net[c]
    BY <1>1, <1>2, <2>1, ReadOwn
  <2> QED
    BY <1>1, <1>3, <2>2, InDoit DEF DoitLine, pool, clientVars
<1>4. CASE DoitHdrs
  <2>1. (\E l \in Lines : ReadLine(l)) \/ net' = net
    BY <1>4 DEF DoitHdrs
  <2>2. net' \in [Conns -> Seq(Lines)] /\ \A c \in Conns \ {Served} : net'[c] = net[c]
    BY <1>1, <1>2, <2>1, ReadOwn
  <2> QED
    BY <1>1, <1>4, <2>2, InDoit DEF DoitHdrs, Goto, pool, clientVars
<1>5. CASE DoitReply
  <2>1. CASE Exit("killed") \/ Exit("no child")
    BY <2>1, ExitStep
  <2>2. CASE at' = "after" /\ UNCHANGED <<clientVars, net, next, fdt, pool, ready_set, nready, i>>
    BY <1>1, <1>2, <2>2, InDoit DEF pool, clientVars
  <2> QED
    BY <1>5, <2>1, <2>2 DEF DoitReply, Goto
<1>6. CASE ReadFails
  BY <1>6, ExitStep DEF ReadFails
<1> QED
  BY <1>3, <1>4, <1>5, <1>6

LEMMA AfterStep == IInv /\ After => IInv'
<1> SUFFICES ASSUME IInv, After PROVE IInv'
  OBVIOUS
<1> DEFINE f == clientfd[i]
<1>1. /\ at = "after" /\ at' = "check" /\ i' = i + 1
      /\ UNCHANGED <<client, unsent, next, ready_set, nready, maxi>>
  BY DEF After, Goto, clientVars, pool
<1>2. i \in Slots /\ f \in Fds /\ f # None /\ Serving /\ i + 1 \in Nat
  BY <1>1, ServedOpen, Constants DEF IInv, Types, Serving
<1>3. \/ UNCHANGED <<fdt, clientfd, read_set>> /\ net' = [net EXCEPT ![Served] = << >>]
      \/ /\ fdt' = [fdt EXCEPT ![f] = None] /\ read_set' = read_set \ {f}
         /\ clientfd' = [clientfd EXCEPT ![i] = None] /\ UNCHANGED net
  BY DEF After, pool
<1>4. /\ net' \in [Conns -> Seq(Lines)] /\ \A c \in Conns \ {Served} : net'[c] = net[c]
      /\ \A g \in Fds \ {f} : fdt'[g] = fdt[g]
      /\ \A s \in Slots \ {i} : clientfd'[s] = clientfd[s]
  BY <1>3, EmptiedNet DEF IInv, Types
<1>5. Types'
  BY <1>1, <1>2, <1>3, <1>4, Constants DEF IInv, Types, Serving
<1>6. OneFd'
  <2>1. \A g \in Fds : fdt'[g] = fdt[g] \/ fdt'[g] = None
    BY <1>3 DEF IInv, Types
  <2> QED
    BY <1>1, <2>1 DEF IInv, OneFd
<1>7. PoolMatchesTable'
  <2>1. CASE UNCHANGED <<fdt, clientfd, read_set>>
    BY <1>1, <2>1 DEF IInv, PoolMatchesTable
  <2>2. CASE /\ fdt' = [fdt EXCEPT ![f] = None] /\ read_set' = read_set \ {f}
             /\ clientfd' = [clientfd EXCEPT ![i] = None]
    <3> DEFINE Open == {g \in Fds : fdt[g] # None}
               Held == {clientfd[s] : s \in Slots} \ {None}
    <3>1. Open' = Open \ {f}
      BY <1>2, <2>2 DEF IInv, Types
    <3>2. \A s \in Slots : clientfd'[s] = IF s = i THEN None ELSE clientfd[s]
      BY <2>2 DEF IInv, Types
    <3>3. \A s \in Slots : clientfd[s] = f <=> s = i
      BY <1>2, ServedOpen
    <3>4. Held' = Held \ {f}
      BY <3>2, <3>3
    <3>5. Held = Open /\ read_set \ {Listen} = Open
      BY DEF IInv, PoolMatchesTable
    <3>6. \A s \in Slots : clientfd'[s] # None =>
            s <= maxi' /\ \A r \in Slots : clientfd'[r] = clientfd'[s] => r = s
      BY <1>1, <3>2 DEF IInv, PoolMatchesTable
    <3> HIDE DEF Open, Held
    <3>7. Held' = Open' /\ read_set' \ {Listen} = Open'
      BY <2>2, <3>1, <3>4, <3>5
    <3> QED
      BY <3>6, <3>7 DEF PoolMatchesTable, Open, Held
  <2> QED
    BY <1>3, <2>1, <2>2
<1>8. ReadyAhead'
  <2>1. \A s \in Slots : s >= i + 1 => s # i
    BY <1>2, Constants
  <2>2. {g \in ready_set \ {Listen} : \E s \in Slots : s >= i + 1 /\ clientfd'[s] = g}
          = Ahead(i + 1)
    BY <1>4, <2>1 DEF Ahead
  <2>3. \A g \in Ahead(i + 1) : IsReady(g)'
    BY <1>1, <1>2, <1>4, OthersStayReady
  <2> QED
    BY <1>1, <1>2, <2>2, <2>3 DEF IInv, ReadyAhead, Serving, Ahead
<1> QED
  BY <1>5, <1>6, <1>7, <1>8 DEF IInv

LEMMA ClientStep == ASSUME NEW c \in Conns PROVE IInv /\ Client(c) => IInv'
<1> SUFFICES ASSUME IInv, Client(c) PROVE IInv'
  OBVIOUS
<1>1. UNCHANGED <<next, fdt, clientfd, maxi, read_set, ready_set, nready, at, i>>
  BY DEF Client, pool
<1>2. /\ client' \in [Conns -> {"away", "open", "closed"}]
      /\ unsent' \in [Conns -> Seq(Lines)] /\ net' \in [Conns -> Seq(Lines)]
      /\ \A d \in Conns : /\ net[d] # << >> => net'[d] # << >>
                          /\ client[d] = "closed" => client'[d] = "closed"
  <2>1. /\ client \in [Conns -> {"away", "open", "closed"}]
        /\ unsent \in [Conns -> Seq(Lines)] /\ net \in [Conns -> Seq(Lines)]
    BY DEF IInv, Types
  <2>2. CASE Connect(c) \/ Leave(c)
    BY <2>1, <2>2 DEF Connect, Leave
  <2>3. CASE Send(c)
    <3> DEFINE sent == Append(net[c], Head(unsent[c]))
               rest == Tail(unsent[c])
    <3>1. sent \in Seq(Lines) /\ sent # << >> /\ rest \in Seq(Lines)
      <4>1. net[c] \in Seq(Lines) /\ unsent[c] \in Seq(Lines) /\ unsent[c] # << >>
        BY <2>1, <2>3 DEF Send
      <4>2. \A s, t \in Seq(Lines) : t # << >> =>
              /\ Append(s, Head(t)) \in Seq(Lines) /\ Append(s, Head(t)) # << >>
              /\ Tail(t) \in Seq(Lines)
        OBVIOUS
      <4> QED
        BY <4>1, <4>2
    <3>2. /\ net' = [net EXCEPT ![c] = sent] /\ unsent' = [unsent EXCEPT ![c] = rest]
          /\ client' = client
      BY <2>3 DEF Send
    <3> HIDE DEF sent, rest
    <3> QED
      BY <2>1, <3>1, <3>2
  <2> QED
    BY <2>2, <2>3 DEF Client
<1>3. Types' /\ PoolMatchesTable' /\ OneFd'
  BY <1>1, <1>2 DEF IInv, Types, PoolMatchesTable, OneFd, Serving
<1>4. ASSUME NEW f \in Fds, fdt[f] \in Conns, IsReady(f) PROVE IsReady(f)'
  BY <1>1, <1>2, <1>4, Constants DEF IsReady
<1>5. \A s \in Slots : clientfd[s] \in Fds => fdt[clientfd[s]] \in Conns
  BY Constants, ServedOpen
<1>6. \A k : Ahead(k)' = Ahead(k) /\ \A f \in Ahead(k) : f \in Fds /\ fdt[f] \in Conns
  BY <1>1, <1>5 DEF Ahead, IInv, ReadyAhead
<1>7. \A f \in read_set \ {Listen} : f \in Fds /\ fdt[f] \in Conns
  BY DEF IInv, Types, PoolMatchesTable
<1>8. ReadyAhead'
  BY <1>1, <1>4, <1>5, <1>6, <1>7 DEF IInv, Types, ReadyAhead, Serving
<1> QED
  BY <1>3, <1>8 DEF IInv

(* The invariant holds in every reachable state.                           *)
THEOREM Invariance == Spec => []IInv
<1>1. ASSUME IInv, [Next]_vars PROVE IInv'
  <2>1. CASE UNCHANGED vars
    <3>1. UNCHANGED <<client, unsent, net, next, fdt, clientfd, maxi, read_set, ready_set,
                      nready, at, i>>
      BY <2>1 DEF vars, clientVars, pool
    <3>2. Types' /\ PoolMatchesTable' /\ OneFd'
      BY <1>1, <3>1 DEF IInv, Types, PoolMatchesTable, OneFd, Serving
    <3>3. ReadyAhead'
      BY <1>1, <3>1 DEF IInv, ReadyAhead, Serving, Ahead, IsReady
    <3> QED
      BY <3>2, <3>3 DEF IInv
  <2>2. CASE Server
    BY <1>1, <2>2, SelectStep, AcceptStep, CheckStep, DoitStep, AfterStep DEF Server
  <2>3. CASE \E c \in Conns : Client(c)
    BY <1>1, <2>3, ClientStep
  <2> QED
    BY <1>1, <2>1, <2>2, <2>3 DEF Next
<1> QED
  BY <1>1, InitInv, PTL DEF Spec

(* Slots, maxi, read_set and the descriptor table agree at every step of   *)
(* main, add_client and check_clients.                                     *)
THEOREM PoolAlwaysMatches == Spec => []PoolMatchesTable
<1>1. IInv => PoolMatchesTable
  BY DEF IInv
<1> QED
  BY <1>1, Invariance, PTL

(* A client that check_clients turns to is ready: doit does not wait for   *)
(* its first line.                                                         *)
THEOREM ReadinessIsFresh == Spec => []ReadyWhenServed
<1>1. IInv => ReadyWhenServed
  BY ServedOpen DEF IInv, Types, ReadyAhead, ReadyWhenServed, Serving
<1> QED
  BY <1>1, Invariance, PTL

(* nready is the number of ready clients ahead of check_clients' loop.     *)
THEOREM NobodySkipped == Spec => []NoneSkipped
<1>1. IInv => NoneSkipped
  BY DEF IInv, ReadyAhead, Ahead, NoneSkipped
<1> QED
  BY <1>1, Invariance, PTL
-----------------------------------------------------------------------------
(* Where the lines of a connection are.  Reading: doit has taken the first *)
(* line of its request, and has not replied.                               *)
Reading == at \in {"firsthdr", "hdrs", "reply"}
ReadingOf(c) == Reading /\ Served = c

(* What doit has still to read of connection c.                            *)
Rest(c) == rio \o (net[c] \o unsent[c])

(* The only empty line is the last line.                                   *)
EndsInBlank(s) == {k \in DOMAIN s : s[k] = "blank"} = {Len(s)}

LineTypes ==
  /\ stream \in [Conns -> Seq(Lines)] /\ rio \in Seq(Lines)
  /\ replies \in [Conns -> Seq({"page", "501"})]
  /\ req \in Gets \cup {"other"} /\ hdr \in {"header", "blank"}
  /\ \A c \in Conns : /\ client[c] = "closed" => unsent[c] = << >>
                      /\ c >= next => replies[c] = << >>
  /\ ~Reading /\ ~Exited => rio = << >>
  /\ at = "after" => replies[Served] # << >>

(* Before its first request nothing of a connection is lost, and then doit *)
(* goes by its first line.                                                 *)
FirstInv ==
  \A c \in Conns : ~Exited /\ replies[c] = << >> =>
    IF ReadingOf(c) THEN (Asks(c) => (req \in Gets <=> Head(stream[c]) \in Gets))
                    ELSE stream[c] = net[c] \o unsent[c]

(* Of a clean request doit reads everything before it replies; after it    *)
(* the connection is only waited for and closed.                           *)
CleanInv ==
  \A c \in Conns : ~Exited /\ Clean(c) =>
    /\ replies[c] = << >> /\ ReadingOf(c) =>
         IF at = "firsthdr" \/ (at = "hdrs" /\ hdr # "blank")
         THEN EndsInBlank(Rest(c)) ELSE Rest(c) = << >>
    /\ replies[c] # << >> =>
         /\ net[c] = << >> /\ unsent[c] = << >>
         /\ \A f \in Fds : fdt[f] = c => at = "after" /\ clientfd[i] = f

LineInv == LineTypes /\ FirstInv /\ CleanInv /\ RightFirstReply

(* Facts about sequences of lines.                                         *)
LEMMA HeadOfConcat ==
  ASSUME NEW s \in Seq(Lines), NEW t \in Seq(Lines), s # << >>
  PROVE  s \o t # << >> /\ Head(s \o t) = Head(s) /\ Tail(s \o t) = Tail(s) \o t
<1>1. Len(s) \in Nat \ {0} /\ Len(t) \in Nat
  BY EmptySeq, LenProperties
<1>2. s \o t \in Seq(Lines) /\ Len(s \o t) = Len(s) + Len(t)
  BY ConcatProperties
<1>3. s \o t # << >>
  BY <1>1, <1>2, ConcatEqualIffEmpty
<1>4. Head(s \o t) = Head(s)
  BY <1>1, <1>2, <1>3, ConcatProperties
<1>5. /\ Tail(s) \in Seq(Lines) /\ Len(Tail(s)) = Len(s) - 1
      /\ \A k \in 1..Len(Tail(s)) : Tail(s)[k] = s[k + 1]
  BY HeadTailProperties
<1>6. /\ Tail(s \o t) \in Seq(Lines) /\ Len(Tail(s \o t)) = Len(s) + Len(t) - 1
      /\ \A k \in 1..Len(Tail(s \o t)) : Tail(s \o t)[k] = (s \o t)[k + 1]
  BY <1>2, <1>3, HeadTailProperties
<1>7. /\ Tail(s) \o t \in Seq(Lines) /\ Len(Tail(s) \o t) = Len(s) - 1 + Len(t)
      /\ \A k \in 1..(Len(s) - 1 + Len(t)) :
           (Tail(s) \o t)[k] = IF k <= Len(s) - 1 THEN Tail(s)[k] ELSE t[k - (Len(s) - 1)]
  BY <1>5, ConcatProperties
<1>8. \A k \in 1..(Len(s) + Len(t)) : (s \o t)[k] = IF k <= Len(s) THEN s[k] ELSE t[k - Len(s)]
  BY ConcatProperties
<1>9. \A k \in 1..Len(Tail(s \o t)) : Tail(s \o t)[k] = (Tail(s) \o t)[k]
  <2> SUFFICES ASSUME NEW k \in 1..(Len(s) + Len(t) - 1)
               PROVE  (s \o t)[k + 1] = (Tail(s) \o t)[k]
    BY <1>6
  <2> QED
    BY <1>1, <1>5, <1>7, <1>8
<1>10. Tail(s \o t) = Tail(s) \o t
  <2>1. Len(Tail(s \o t)) = Len(Tail(s) \o t)
    BY <1>1, <1>6, <1>7
  <2> QED
    BY <1>6, <1>7, <1>9, <2>1, SeqEqual
<1> QED
  BY <1>3, <1>4, <1>10

LEMMA SentLine ==
  ASSUME NEW s \in Seq(Lines), NEW t \in Seq(Lines), t # << >>
  PROVE  Append(s, Head(t)) \o Tail(t) = s \o t
<1>1. Head(t) \in Lines /\ Tail(t) \in Seq(Lines) /\ <<Head(t)>> \in Seq(Lines)
  BY HeadTailProperties
<1>2. Append(s, Head(t)) = s \o <<Head(t)>>
  BY <1>1, AppendIsConcat
<1>3. (s \o <<Head(t)>>) \o Tail(t) = s \o (<<Head(t)>> \o Tail(t))
  BY <1>1, ConcatAssociative
<1>4. <<Head(t)>> \o Tail(t) = t
  <2>1. Len(t) \in Nat \ {0} /\ Len(Tail(t)) = Len(t) - 1
    BY EmptySeq, HeadTailProperties
  <2> QED
    BY <1>1, <2>1
<1> QED
  BY <1>2, <1>3, <1>4

LEMMA BlankAtEnd ==
  ASSUME NEW s \in Seq(Lines), EndsInBlank(s)
  PROVE  /\ s # << >>
         /\ Head(s) = "blank" => Tail(s) = << >>
         /\ Head(s) # "blank" => EndsInBlank(Tail(s))
<1>1. PICK n \in Nat : n = Len(s) /\ DOMAIN s = 1..n
  BY LenProperties
<1>2. n \in 1..n /\ (\A k \in 1..n : s[k] = "blank" => k = n) /\ s[n] = "blank"
  <2>1. \A k : k \in {j \in DOMAIN s : s[j] = "blank"} <=> k = n
    BY <1>1 DEF EndsInBlank
  <2> QED
    BY <1>1, <2>1
<1>3. n >= 1
  BY <1>2
<1>4. s # << >> /\ Head(s) = s[1]
  <2>1. s # << >>
    BY <1>1, <1>3, EmptySeq
  <2> QED
    BY <2>1
<1>5. /\ Tail(s) \in Seq(Lines) /\ Len(Tail(s)) = n - 1
      /\ \A k \in 1..(n - 1) : Tail(s)[k] = s[k + 1]
  BY <1>1, <1>4, HeadTailProperties
<1>6. ASSUME Head(s) = "blank" PROVE Tail(s) = << >>
  <2>1. Len(Tail(s)) = 0
    BY <1>2, <1>3, <1>4, <1>5, <1>6
  <2> QED
    BY <1>5, <2>1, EmptySeq
<1>7. ASSUME Head(s) # "blank" PROVE EndsInBlank(Tail(s))
  <2>1. n # 1 /\ n - 1 \in 1..(n - 1)
    BY <1>2, <1>3, <1>4, <1>7
  <2>2. Tail(s)[n - 1] = "blank"
    BY <1>2, <1>5, <2>1
  <2>3. ASSUME NEW k \in 1..(n - 1), Tail(s)[k] = "blank" PROVE k = n - 1
    <3>1. s[k + 1] = "blank" /\ k + 1 \in 1..n
      BY <1>5, <2>3
    <3>2. k + 1 = n
      BY <1>2, <3>1
    <3> QED
      BY <3>2
  <2>4. DOMAIN Tail(s) = 1..(n - 1)
    BY <1>5, LenProperties
  <2> QED
    BY <1>5, <2>1, <2>2, <2>3, <2>4 DEF EndsInBlank
<1> QED
  BY <1>4, <1>6, <1>7
-----------------------------------------------------------------------------
LEMMA LinesInit == Init => LineInv
<1> SUFFICES ASSUME Init PROVE LineInv
  OBVIOUS
<1>1. ~Reading /\ ~Exited /\ \A c \in Conns : replies[c] = << >>
  BY DEF Init, Reading, Exited
<1>2. stream \in [Conns -> Seq(Lines)]
  BY IOMuxAssumption DEF Init, Conns
<1>3. LineTypes
  <2>1. << >> \in Seq(Lines) /\ << >> \in Seq({"page", "501"})
    OBVIOUS
  <2>2. replies = [c \in Conns |-> << >>] /\ client = [c \in Conns |-> "away"]
    BY DEF Init
  <2>3. replies \in [Conns -> Seq({"page", "501"})]
    BY <2>1, <2>2
  <2> QED
    BY <1>1, <1>2, <2>1, <2>2, <2>3 DEF Init, LineTypes, Gets
<1>4. FirstInv
  <2> SUFFICES ASSUME NEW c \in Conns PROVE stream[c] = net[c] \o unsent[c]
    BY <1>1 DEF FirstInv, ReadingOf
  <2>1. stream[c] \in Seq(Lines) /\ net[c] = << >> /\ unsent[c] = stream[c]
    BY <1>2 DEF Init
  <2> QED
    BY <2>1, ConcatEmptySeq
<1> QED
  BY <1>1, <1>3, <1>4 DEF LineInv, CleanInv, RightFirstReply, ReadingOf

(* main and the loop of check_clients touch no lines.                      *)
LEMMA IdleLines ==
  ASSUME LineInv, next \in Nat, at \in {"select", "accept", "check"},
         at' \in {"select", "accept", "check", "line"},
         UNCHANGED <<stream, unsent, net, client, rio, req, hdr, replies>>,
         next' \in {next, next + 1},
         \A f \in Fds : fdt'[f] \in {fdt[f], next}
  PROVE  LineInv'
<1>1. ~Reading /\ ~Exited /\ ~Reading' /\ ~Exited' /\ at' # "after"
  BY DEF Reading, Exited
<1>2. LineTypes'
  BY <1>1, Constants DEF LineInv, LineTypes
<1>3. FirstInv'
  BY <1>1 DEF LineInv, FirstInv, ReadingOf
<1>4. CleanInv'
  <2> SUFFICES ASSUME NEW c \in Conns, Clean(c)', replies[c] # << >>
               PROVE  net[c] = << >> /\ unsent[c] = << >> /\ \A f \in Fds : fdt'[f] # c
    BY <1>1 DEF CleanInv, ReadingOf
  <2>1. Clean(c)
    BY DEF Clean, Asks
  <2>2. c # next
    BY DEF LineInv, LineTypes
  <2> QED
    BY <1>1, <2>1, <2>2 DEF LineInv, CleanInv
<1>5. RightFirstReply'
  BY DEF LineInv, RightFirstReply, Asks
<1> QED
  BY <1>2, <1>3, <1>4, <1>5 DEF LineInv

LEMMA ExitLines ==
  ASSUME LineInv, NEW why \in {"full", "overrun", "killed", "read error", "no child"}, Exit(why)
  PROVE  LineInv'
<1>1. /\ Exited' /\ ~Reading' /\ at' # "after"
      /\ UNCHANGED <<stream, client, unsent, net, next, rio, req, hdr, replies>>
  BY DEF Exit, Exited, Reading, clientVars
<1>2. LineTypes'
  BY <1>1 DEF LineInv, LineTypes
<1>3. FirstInv' /\ CleanInv'
  BY <1>1 DEF FirstInv, CleanInv
<1>4. RightFirstReply'
  BY <1>1 DEF LineInv, RightFirstReply, Asks
<1> QED
  BY <1>2, <1>3, <1>4 DEF LineInv

LEMMA LoopLines == IInv /\ LineInv /\ (Select \/ Accept \/ Check) => LineInv'
<1> SUFFICES ASSUME IInv, LineInv, Select \/ Accept \/ Check PROVE LineInv'
  OBVIOUS
<1>1. next \in Nat /\ fdt \in [Fds -> Conns \cup {None}]
  BY DEF IInv, Types
<1>2. CASE Select \/ Check
  BY <1>1, <1>2, IdleLines DEF Select, Check, Goto, clientVars, pool
<1>3. CASE Exit("full") \/ Exit("overrun")
  BY <1>3, ExitLines
<1>4. CASE /\ at = "accept" /\ at' = "check" /\ next' = next + 1
           /\ \E f \in Fds : fdt' = [fdt EXCEPT ![f] = next]
           /\ UNCHANGED <<clientVars, net, rio, req, hdr, replies>>
  <2>1. \A f \in Fds : fdt'[f] \in {fdt[f], next}
    BY <1>1, <1>4
  <2> QED
    BY <1>1, <1>4, <2>1, IdleLines DEF clientVars
<1> QED
  BY <1>2, <1>3, <1>4 DEF Accept, Goto

(* Where the lines of the connection being served are.                     *)
LEMMA ServedLines ==
  ASSUME IInv, LineInv, Serving
  PROVE  /\ Served \in Conns /\ clientfd[i] \in Fds /\ fdt[clientfd[i]] = Served
         /\ stream[Served] \in Seq(Lines) /\ net[Served] \in Seq(Lines)
         /\ unsent[Served] \in Seq(Lines) /\ rio \in Seq(Lines)
         /\ net[Served] \o unsent[Served] \in Seq(Lines) /\ Rest(Served) \in Seq(Lines)
         /\ ~Exited
         /\ at # "after" /\ Clean(Served) => replies[Served] = << >>
<1>1. Served \in Conns /\ clientfd[i] \in Fds /\ fdt[clientfd[i]] = Served
  BY ServedOpen DEF IInv, Types, Served
<1>2. /\ stream[Served] \in Seq(Lines) /\ net[Served] \in Seq(Lines)
      /\ unsent[Served] \in Seq(Lines) /\ rio \in Seq(Lines)
  BY <1>1 DEF IInv, Types, LineInv, LineTypes
<1>3. net[Served] \o unsent[Served] \in Seq(Lines)
  BY <1>2, ConcatProperties
<1>4. Rest(Served) \in Seq(Lines)
  BY <1>2, <1>3, ConcatProperties DEF Rest
<1>5. ~Exited
  BY DEF Serving, Exited
<1> QED
  BY <1>1, <1>2, <1>3, <1>4, <1>5 DEF LineInv, CleanInv

(* Rio_readlineb returns the first of the lines that are left, and at the  *)
(* end of the stream there is none.                                        *)
LEMMA TakesFirst ==
  ASSUME IInv, LineInv, Serving, NEW l, ReadLine(l)
  PROVE  /\ rio' \in Seq(Lines) /\ Rest(Served) # << >> /\ l = Head(Rest(Served))
         /\ rio' \o (net'[Served] \o unsent[Served]) = Tail(Rest(Served))
<1> DEFINE n == net[Served]
           u == unsent[Served]
<1>1. n \in Seq(Lines) /\ u \in Seq(Lines) /\ rio \in Seq(Lines) /\ Served \in Conns
      /\ n \o u \in Seq(Lines)
  BY ServedLines
<1>2. CASE rio = << >>
  <2>1. /\ n # << >> /\ l = Head(n) /\ rio' = Tail(n)
        /\ net' = [net EXCEPT ![Served] = << >>]
    BY <1>2 DEF ReadLine
  <2>2. net'[Served] = << >>
    BY <1>1, <2>1 DEF IInv, Types
  <2>3. Rest(Served) = n \o u
    BY <1>1, <1>2, ConcatEmptySeq DEF Rest
  <2>4. << >> \o u = u
    BY <1>1, ConcatEmptySeq
  <2>5. Tail(n) \in Seq(Lines)
    BY <1>1, <2>1, HeadTailProperties
  <2>6. n \o u # << >> /\ Head(n \o u) = Head(n) /\ Tail(n \o u) = Tail(n) \o u
    BY <1>1, <2>1, HeadOfConcat
  <2>7. rio' \o (net'[Served] \o u) = Tail(n) \o u
    BY <2>1, <2>2, <2>4
  <2> QED
    BY <2>1, <2>3, <2>5, <2>6, <2>7
<1>3. CASE rio # << >>
  <2>1. l = Head(rio) /\ rio' = Tail(rio) /\ net' = net
    BY <1>3 DEF ReadLine
  <2>2. Tail(rio) \in Seq(Lines)
    BY <1>1, <1>3, HeadTailProperties
  <2>3. /\ rio \o (n \o u) # << >> /\ Head(rio \o (n \o u)) = Head(rio)
        /\ Tail(rio \o (n \o u)) = Tail(rio) \o (n \o u)
    BY <1>1, <1>3, HeadOfConcat
  <2> QED
    BY <2>1, <2>2, <2>3 DEF Rest
<1> QED
  BY <1>2, <1>3

LEMMA NothingLeft ==
  ASSUME IInv, LineInv, Serving, AtEnd
  PROVE  Rest(Served) = << >> /\ unsent[Served] = << >>
<1>1. rio = << >> /\ net[Served] = << >> /\ unsent[Served] = << >>
  BY ServedLines DEF AtEnd, Gone, LineInv, LineTypes
<1>2. << >> \o << >> = << >>
  BY ConcatEmptySeq
<1> QED
  BY <1>1, <1>2 DEF Rest

(* A step of doit before the reply: the others' lines stay where they are. *)
LEMMA InRequest ==
  ASSUME IInv, LineInv, Serving, Reading',
         UNCHANGED <<stream, unsent, client, next, fdt, clientfd, i, replies>>,
         \A c \in Conns \ {Served} : net'[c] = net[c],
         rio' \in Seq(Lines), req' \in Gets \cup {"other"}, hdr' \in {"header", "blank"},
         replies[Served] = << >> /\ Asks(Served) =>
           (req' \in Gets <=> Head(stream[Served]) \in Gets),
         replies[Served] = << >> /\ Clean(Served) =>
           IF at' = "firsthdr" \/ (at' = "hdrs" /\ hdr' # "blank")
           THEN EndsInBlank(rio' \o (net'[Served] \o unsent[Served]))
           ELSE rio' \o (net'[Served] \o unsent[Served]) = << >>,
         at # "after"
  PROVE  LineInv'
<1>1. Served' = Served /\ ~Exited /\ ~Exited' /\ at' # "after"
  BY DEF Served, Exited, Serving, Reading
<1>2. \A c \in Conns \ {Served} : ~ReadingOf(c) /\ ~ReadingOf(c)'
  BY <1>1 DEF ReadingOf
<1>3. \A c \in Conns : c = Served => ReadingOf(c)'
  BY <1>1 DEF ReadingOf
<1>4. \A c : (Asks(c)' <=> Asks(c)) /\ (Clean(c)' <=> Clean(c))
  BY DEF Asks, Clean
<1>5. LineTypes'
  BY <1>1 DEF LineInv, LineTypes
<1>6. FirstInv'
  <2> SUFFICES ASSUME NEW c \in Conns, replies[c] = << >>
               PROVE  IF ReadingOf(c)'
                      THEN (Asks(c) => (req' \in Gets <=> Head(stream[c]) \in Gets))
                      ELSE stream[c] = net'[c] \o unsent[c]
    BY <1>1, <1>4 DEF FirstInv
  <2>1. CASE c = Served
    BY <1>3, <2>1
  <2>2. CASE c # Served
    BY <1>1, <1>2, <2>2 DEF LineInv, FirstInv
  <2> QED
    BY <2>1, <2>2
<1>7. CleanInv'
  <2> SUFFICES ASSUME NEW c \in Conns, Clean(c)
               PROVE  /\ replies[c] = << >> /\ ReadingOf(c)' =>
                           IF at' = "firsthdr" \/ (at' = "hdrs" /\ hdr' # "blank")
                           THEN EndsInBlank(rio' \o (net'[c] \o unsent[c]))
                           ELSE rio' \o (net'[c] \o unsent[c]) = << >>
                      /\ replies[c] # << >> => /\ net'[c] = << >> /\ unsent[c] = << >>
                                               /\ \A f \in Fds : fdt[f] # c
    BY <1>1, <1>4 DEF CleanInv, Rest
  <2>1. replies[c] # << >> =>
          net[c] = << >> /\ unsent[c] = << >> /\ \A f \in Fds : fdt[f] # c
    BY <1>1 DEF LineInv, CleanInv
  <2>2. CASE c = Served
    BY <1>3, <2>1, <2>2, ServedLines
  <2>3. CASE c # Served
    BY <1>2, <2>1, <2>3
  <2> QED
    BY <2>2, <2>3
<1>8. RightFirstReply'
  BY <1>4 DEF LineInv, RightFirstReply
<1> QED
  BY <1>5, <1>6, <1>7, <1>8 DEF LineInv

(* The request line is the first line of a connection that doit has not    *)
(* replied to.                                                             *)
LEMMA LineLines == IInv /\ LineInv /\ DoitLine => LineInv'
<1> SUFFICES ASSUME IInv, LineInv, DoitLine PROVE LineInv'
  OBVIOUS
<1>1. /\ at = "line" /\ Serving /\ rio = << >>
      /\ at' = IF req' = "other" THEN "reply" ELSE "firsthdr"
      /\ UNCHANGED <<stream, unsent, client, next, fdt, clientfd, i, hdr, replies>>
  BY DEF DoitLine, Serving, LineInv, LineTypes, Reading, Exited, clientVars, pool
<1>2. /\ Reading' /\ req' \in Gets \cup {"other"} /\ hdr' \in {"header", "blank"}
  BY <1>1 DEF DoitLine, Parse, Reading, LineInv, LineTypes, Lines, Gets
<1>3. (\E l \in Lines : ReadLine(l)) \/ UNCHANGED <<rio, net>>
  BY DEF DoitLine
<1>4. /\ \A c \in Conns \ {Served} : net'[c] = net[c]
      /\ rio' \in Seq(Lines)
  BY <1>1, <1>3, ReadOwn, TakesFirst, ServedLines
<1>5. ASSUME replies[Served] = << >>, Asks(Served)
      PROVE  /\ req' \in Gets <=> Head(stream[Served]) \in Gets
             /\ rio' \o (net'[Served] \o unsent[Served]) = Tail(stream[Served])
  <2>1. Served \in Conns /\ ~Exited /\ ~ReadingOf(Served)
    BY <1>1, ServedLines DEF ReadingOf, Reading
  <2>2. stream[Served] = net[Served] \o unsent[Served]
    BY <1>5, <2>1 DEF LineInv, FirstInv
  <2>3. Rest(Served) = stream[Served] /\ stream[Served] # << >>
    BY <1>1, <1>5, <2>1, <2>2, ServedLines, ConcatEmptySeq DEF Rest, Asks
  <2>4. PICK l \in Lines : ReadLine(l) /\ req' \in Parse(l)
    BY <1>1, <2>3, NothingLeft DEF DoitLine
  <2>5. /\ l = Head(stream[Served]) /\ l # "blank"
        /\ rio' \o (net'[Served] \o unsent[Served]) = Tail(stream[Served])
    BY <1>1, <1>5, <2>3, <2>4, TakesFirst DEF Asks
  <2>6. req' \in Gets <=> l \in Gets
    BY <2>4, <2>5 DEF Parse, Gets, Lines
  <2> QED
    BY <2>5, <2>6
<1>6. ASSUME replies[Served] = << >>, Clean(Served)
      PROVE  IF at' = "firsthdr" \/ (at' = "hdrs" /\ hdr' # "blank")
             THEN EndsInBlank(rio' \o (net'[Served] \o unsent[Served]))
             ELSE rio' \o (net'[Served] \o unsent[Served]) = << >>
  <2>1. Asks(Served) /\ stream[Served] \in Seq(Lines)
    BY <1>1, <1>6, ServedLines DEF Clean
  <2>2. /\ req' \in Gets <=> Head(stream[Served]) \in Gets
        /\ rio' \o (net'[Served] \o unsent[Served]) = Tail(stream[Served])
    BY <1>5, <1>6, <2>1
  <2>3. CASE Head(stream[Served]) \in Gets
    <3>1. EndsInBlank(stream[Served]) /\ Head(stream[Served]) # "blank"
      BY <1>6, <2>3 DEF Clean, EndsInBlank, Gets
    <3>2. EndsInBlank(Tail(stream[Served])) /\ at' = "firsthdr"
      BY <1>1, <2>1, <2>2, <2>3, <3>1, BlankAtEnd DEF Gets
    <3> QED
      BY <2>2, <3>2
  <2>4. CASE Head(stream[Served]) \notin Gets
    <3>1. Len(stream[Served]) = 1 /\ stream[Served] # << >>
      BY <1>6, <2>4 DEF Clean, Asks
    <3>2. Tail(stream[Served]) \in Seq(Lines) /\ Len(Tail(stream[Served])) = 0
      BY <2>1, <3>1, HeadTailProperties
    <3>3. Tail(stream[Served]) = << >>
      BY <3>2, EmptySeq
    <3>4. at' = "reply"
      BY <1>1, <1>2, <2>2, <2>4
    <3> QED
      BY <2>2, <3>3, <3>4
  <2> QED
    BY <2>3, <2>4
<1> QED
  BY <1>1, <1>2, <1>4, <1>5, <1>6, InRequest

(* The headers of a clean request end with its last line: doit does not    *)
(* wait at the end of the stream.                                          *)
LEMMA HdrsLines == IInv /\ LineInv /\ DoitHdrs => LineInv'
<1> SUFFICES ASSUME IInv, LineInv, DoitHdrs PROVE LineInv'
  OBVIOUS
<1>1. /\ at \in {"firsthdr", "hdrs"} /\ at' \in {"hdrs", "reply"} /\ Serving /\ Reading /\ Reading'
      /\ UNCHANGED <<stream, unsent, client, next, fdt, clientfd, i, req, replies>>
  BY DEF DoitHdrs, Goto, Serving, Reading, clientVars, pool
<1>2. \/ /\ at = "firsthdr" \/ (at = "hdrs" /\ hdr # "blank")
         /\ at' = "hdrs"
         /\ \/ \E l \in Lines : ReadLine(l) /\ hdr' = Kind(l)
            \/ AtEnd /\ hdr' \in {"header", "blank"} /\ UNCHANGED <<rio, net>>
      \/ at = "hdrs" /\ hdr = "blank" /\ at' = "reply" /\ UNCHANGED <<rio, net, hdr>>
  BY DEF DoitHdrs, Goto, LineInv, LineTypes
<1>3. req' \in Gets \cup {"other"} /\ hdr' \in {"header", "blank"}
  BY <1>1, <1>2 DEF LineInv, LineTypes, Kind
<1>4. /\ \A c \in Conns \ {Served} : net'[c] = net[c]
      /\ rio' \in Seq(Lines)
  BY <1>1, <1>2, ReadOwn, TakesFirst, ServedLines
<1>5. Served \in Conns /\ ~Exited /\ ReadingOf(Served)
  BY <1>1, ServedLines DEF ReadingOf
<1>6. replies[Served] = << >> /\ Asks(Served) =>
        (req' \in Gets <=> Head(stream[Served]) \in Gets)
  BY <1>1, <1>5 DEF LineInv, FirstInv
<1>7. ASSUME replies[Served] = << >>, Clean(Served)
      PROVE  IF at' = "firsthdr" \/ (at' = "hdrs" /\ hdr' # "blank")
             THEN EndsInBlank(rio' \o (net'[Served] \o unsent[Served]))
             ELSE rio' \o (net'[Served] \o unsent[Served]) = << >>
  <2>1. IF at = "firsthdr" \/ (at = "hdrs" /\ hdr # "blank")
        THEN EndsInBlank(Rest(Served)) ELSE Rest(Served) = << >>
    BY <1>5, <1>7 DEF LineInv, CleanInv
  <2>2. CASE at = "hdrs" /\ hdr = "blank" /\ at' = "reply" /\ UNCHANGED <<rio, net, hdr>>
    BY <2>1, <2>2 DEF Rest
  <2>3. CASE /\ at = "firsthdr" \/ (at = "hdrs" /\ hdr # "blank")
             /\ at' = "hdrs"
    <3>1. EndsInBlank(Rest(Served)) /\ Rest(Served) \in Seq(Lines)
      BY <1>1, <2>1, <2>3, ServedLines
    <3>2. Rest(Served) # << >>
      BY <3>1, BlankAtEnd
    <3>3. PICK l \in Lines : ReadLine(l) /\ hdr' = Kind(l)
      BY <1>1, <1>2, <2>3, <3>2, NothingLeft
    <3>4. /\ l = Head(Rest(Served))
          /\ rio' \o (net'[Served] \o unsent[Served]) = Tail(Rest(Served))
      BY <1>1, <3>3, TakesFirst
    <3>5. hdr' = "blank" <=> l = "blank"
      BY <3>3 DEF Kind
    <3> QED
      BY <2>3, <3>1, <3>4, <3>5, BlankAtEnd
  <2> QED
    BY <1>2, <2>2, <2>3
<1> QED
  BY <1>1, <1>3, <1>4, <1>6, <1>7, InRequest

(* The reply is the one doit's method deserves; of a clean request nothing *)
(* is left.                                                                *)
LEMMA ReplyLines == IInv /\ LineInv /\ DoitReply => LineInv'
<1> SUFFICES ASSUME IInv, LineInv, DoitReply PROVE LineInv'
  OBVIOUS
<1> DEFINE reply == IF req = "other" THEN "501" ELSE "page"
<1>1. CASE Exit("killed") \/ Exit("no child")
  BY <1>1, ExitLines
<1>2. CASE /\ at = "reply" /\ at' = "after"
           /\ replies' = [replies EXCEPT ![Served] = Append(@, reply)]
           /\ rio' = << >> /\ req' = "other" /\ hdr' = "header"
           /\ UNCHANGED <<clientVars, net, next, fdt, pool, i>>
  <2>1. /\ Serving /\ Reading /\ ~Reading' /\ ~Exited /\ ~Exited'
        /\ UNCHANGED <<stream, unsent, client, net, next, fdt, clientfd, i>>
        /\ Served' = Served /\ at # "after"
    BY <1>2 DEF Serving, Reading, Exited, clientVars, pool, Served
  <2>2. /\ Served \in Conns /\ clientfd[i] \in Fds /\ fdt[clientfd[i]] = Served
        /\ ReadingOf(Served) /\ Served < next
    <3>1. Served \in Conns /\ clientfd[i] \in Fds /\ fdt[clientfd[i]] = Served
      BY <2>1, ServedLines
    <3>2. fdt[clientfd[i]] # None
      BY <3>1, Constants
    <3>3. Served < next
      BY <3>1, <3>2 DEF IInv, OneFd
    <3> QED
      BY <2>1, <3>1, <3>3 DEF ReadingOf
  <2>3. reply \in {"page", "501"} /\ (reply = "page" <=> req \in Gets)
    BY DEF LineInv, LineTypes, Gets
  <2>4. /\ replies \in [Conns -> Seq({"page", "501"})]
        /\ Append(replies[Served], reply) \in Seq({"page", "501"})
        /\ Append(replies[Served], reply) # << >>
        /\ Head(Append(replies[Served], reply)) =
             IF replies[Served] = << >> THEN reply ELSE Head(replies[Served])
    <3>1. /\ replies \in [Conns -> Seq({"page", "501"})]
          /\ replies[Served] \in Seq({"page", "501"})
      BY <2>2 DEF LineInv, LineTypes
    <3> HIDE DEF reply
    <3>2. \A t \in Seq({"page", "501"}), e \in {"page", "501"} :
            Append(t, e) \in Seq({"page", "501"}) /\ Append(t, e) # << >>
      BY AppendProperties
    <3>3. \A t \in Seq({"page", "501"}), e \in {"page", "501"} :
            Head(Append(t, e)) = IF t = << >> THEN e ELSE Head(t)
      BY HeadTailAppend
    <3> QED
      BY <2>3, <3>1, <3>2, <3>3
  <2> HIDE DEF reply
  <2>5. /\ replies' \in [Conns -> Seq({"page", "501"})]
        /\ replies'[Served] = Append(replies[Served], reply)
        /\ \A c \in Conns \ {Served} : replies'[c] = replies[c]
    BY <1>2, <2>2, <2>4
  <2>6. \A c : (Asks(c)' <=> Asks(c)) /\ (Clean(c)' <=> Clean(c))
    BY <2>1 DEF Asks, Clean
  <2>7. LineTypes'
    <3>1. << >> \in Seq(Lines) /\ next \in Nat
      BY DEF IInv, Types
    <3>2. \A c \in Conns : c >= next => c # Served
      BY <2>2, <3>1, Constants
    <3> QED
      BY <1>2, <2>1, <2>4, <2>5, <3>1, <3>2 DEF LineInv, LineTypes
  <2>8. FirstInv'
    <3> SUFFICES ASSUME NEW c \in Conns, replies'[c] = << >>
                 PROVE  stream[c] = net[c] \o unsent[c]
      BY <2>1 DEF FirstInv, ReadingOf
    <3>1. c # Served /\ replies[c] = << >>
      BY <2>4, <2>5
    <3> QED
      BY <2>1, <3>1 DEF LineInv, FirstInv, ReadingOf
  <2>9. CleanInv'
    <3> SUFFICES ASSUME NEW c \in Conns, Clean(c), replies'[c] # << >>
                 PROVE  /\ net[c] = << >> /\ unsent[c] = << >>
                        /\ \A f \in Fds : fdt[f] = c => clientfd[i] = f
      BY <1>2, <2>1, <2>6 DEF CleanInv, ReadingOf
    <3>1. CASE c = Served
      <4>1. replies[c] = << >>
        BY <2>1, <3>1, ServedLines
      <4>2. Rest(c) = << >>
        BY <1>2, <2>1, <2>2, <3>1, <4>1 DEF LineInv, CleanInv
      <4>3. net[c] \o unsent[c] = << >>
        BY <2>1, <3>1, <4>2, ServedLines, ConcatEqualIffEmpty DEF Rest
      <4>4. net[c] = << >> /\ unsent[c] = << >>
        BY <2>1, <3>1, <4>3, ServedLines, ConcatEqualIffEmpty
      <4>5. \A f \in Fds : fdt[f] = c => clientfd[i] = f
        BY <2>2, <3>1, Constants DEF IInv, OneFd
      <4> QED
        BY <4>4, <4>5
    <3>2. CASE c # Served
      BY <2>1, <2>5, <3>2 DEF LineInv, CleanInv
    <3> QED
      BY <3>1, <3>2
  <2>10. RightFirstReply'
    <3> SUFFICES ASSUME NEW c \in Conns, Asks(c), replies'[c] # << >>
                 PROVE  Head(replies'[c]) = IF Head(stream[c]) \in Gets THEN "page" ELSE "501"
      BY <2>1, <2>6 DEF RightFirstReply
    <3>1. CASE c = Served /\ replies[c] = << >>
      <4>1. req \in Gets <=> Head(stream[c]) \in Gets
        BY <2>1, <2>2, <3>1 DEF LineInv, FirstInv
      <4> QED
        BY <2>3, <2>4, <2>5, <3>1, <4>1
    <3>2. CASE c # Served \/ replies[c] # << >>
      BY <2>4, <2>5, <3>2 DEF LineInv, RightFirstReply
    <3> QED
      BY <3>1, <3>2
  <2> QED
    BY <2>7, <2>8, <2>9, <2>10 DEF LineInv
<1> QED
  BY <1>1, <1>2 DEF DoitReply, Goto

(* What check_clients itself reads is lost; of a clean request there is    *)
(* nothing, and the connection is closed.                                  *)
LEMMA AfterLines == IInv /\ LineInv /\ After => LineInv'
<1> SUFFICES ASSUME IInv, LineInv, After PROVE LineInv'
  OBVIOUS
<1> DEFINE f == clientfd[i]
<1>1. /\ at = "after" /\ at' = "check" /\ Serving
      /\ ~Reading /\ ~Reading' /\ ~Exited /\ ~Exited'
      /\ UNCHANGED <<stream, unsent, client, next, rio, req, hdr, replies>>
  BY DEF After, Goto, Serving, Reading, Exited, clientVars
<1>2. Served \in Conns /\ f \in Fds /\ fdt[f] = Served /\ replies[Served] # << >>
  BY <1>1, ServedLines DEF LineInv, LineTypes
<1>3. \/ net[Served] # << >> /\ fdt' = fdt /\ net' = [net EXCEPT ![Served] = << >>]
      \/ net[Served] = << >> /\ fdt' = [fdt EXCEPT ![f] = None] /\ UNCHANGED net
  BY DEF After
<1>4. /\ \A c \in Conns \ {Served} : net'[c] = net[c]
      /\ \A g \in Fds : fdt'[g] \in {fdt[g], None}
      /\ net[Served] = << >> => net' = net /\ fdt'[f] = None
  BY <1>3, <1>2, EmptiedNet DEF IInv, Types
<1>5. \A c : (Asks(c)' <=> Asks(c)) /\ (Clean(c)' <=> Clean(c))
  BY <1>1 DEF Asks, Clean
<1>6. LineTypes'
  BY <1>1 DEF LineInv, LineTypes
<1>7. FirstInv'
  <2> SUFFICES ASSUME NEW c \in Conns, replies[c] = << >>
               PROVE  stream[c] = net'[c] \o unsent[c]
    BY <1>1 DEF FirstInv, ReadingOf
  <2> QED
    BY <1>1, <1>2, <1>4 DEF LineInv, FirstInv, ReadingOf
<1>8. CleanInv'
  <2> SUFFICES ASSUME NEW c \in Conns, Clean(c), replies[c] # << >>
               PROVE  net'[c] = << >> /\ unsent[c] = << >> /\ \A g \in Fds : fdt'[g] # c
    BY <1>1, <1>5 DEF CleanInv, ReadingOf
  <2>1. net[c] = << >> /\ unsent[c] = << >> /\ \A g \in Fds : fdt[g] = c => f = g
    BY <1>1 DEF LineInv, CleanInv
  <2>2. CASE c = Served
    <3>1. net' = net /\ fdt'[f] = None /\ c # None
      BY <1>4, <2>1, <2>2, Constants
    <3>2. ASSUME NEW g \in Fds, fdt'[g] = c PROVE FALSE
      <4>1. fdt[g] = c
        BY <1>4, <3>1, <3>2
      <4> QED
        BY <2>1, <3>1, <3>2, <4>1
    <3> QED
      BY <2>1, <3>1, <3>2
  <2>3. CASE c # Served
    <3>1. net'[c] = << >> /\ unsent[c] = << >>
      BY <1>4, <2>1, <2>3
    <3>2. \A g \in Fds : fdt[g] # c
      BY <1>2, <2>1, <2>3
    <3>3. \A g \in Fds : fdt'[g] # c
      BY <1>4, <3>2, Constants
    <3> QED
      BY <3>1, <3>3
  <2> QED
    BY <2>2, <2>3
<1>9. RightFirstReply'
  BY <1>1, <1>5 DEF LineInv, RightFirstReply
<1> QED
  BY <1>6, <1>7, <1>8, <1>9 DEF LineInv

(* A client that sends moves a line to the kernel.                         *)
LEMMA ClientLines == ASSUME NEW c \in Conns PROVE IInv /\ LineInv /\ Client(c) => LineInv'
<1> SUFFICES ASSUME IInv, LineInv, Client(c) PROVE LineInv'
  OBVIOUS
<1>1. /\ UNCHANGED <<stream, next, fdt, clientfd, at, i, rio, req, hdr, replies>>
      /\ Connect(c) \/ Send(c) \/ Leave(c)
  BY DEF Client, Connect, Send, Leave, pool
<1>2. /\ \A d : (Asks(d)' <=> Asks(d)) /\ (Clean(d)' <=> Clean(d))
      /\ \A d : ReadingOf(d)' <=> ReadingOf(d)
      /\ (Reading' <=> Reading) /\ (Exited' <=> Exited) /\ Served' = Served
  BY <1>1 DEF Asks, Clean, ReadingOf, Reading, Exited, Served
<1>3. /\ client \in [Conns -> {"away", "open", "closed"}]
      /\ unsent \in [Conns -> Seq(Lines)] /\ net \in [Conns -> Seq(Lines)]
  BY DEF IInv, Types
<1>4. /\ \A d \in Conns : net'[d] \o unsent'[d] = net[d] \o unsent[d]
      /\ \A d \in Conns : unsent[d] = << >> => net'[d] = net[d] /\ unsent'[d] = << >>
      /\ \A d \in Conns : client'[d] = "closed" => unsent'[d] = << >>
  <2>1. \A d \in Conns : client[d] = "closed" => unsent[d] = << >>
    BY DEF LineInv, LineTypes
  <2>2. CASE Connect(c) \/ Leave(c)
    BY <1>3, <2>1, <2>2 DEF Connect, Leave
  <2>3. CASE Send(c)
    <3>1. /\ net[c] \in Seq(Lines) /\ unsent[c] \in Seq(Lines) /\ unsent[c] # << >>
          /\ client[c] = "open" /\ UNCHANGED client
          /\ net' = [net EXCEPT ![c] = Append(net[c], Head(unsent[c]))]
          /\ unsent' = [unsent EXCEPT ![c] = Tail(unsent[c])]
      BY <1>3, <2>3 DEF Send
    <3>2. Append(net[c], Head(unsent[c])) \o Tail(unsent[c]) = net[c] \o unsent[c]
      BY <3>1, SentLine
    <3>3. /\ net'[c] \o unsent'[c] = net[c] \o unsent[c]
          /\ \A d \in Conns \ {c} : net'[d] = net[d] /\ unsent'[d] = unsent[d]
      BY <1>3, <3>1, <3>2
    <3> QED
      BY <2>1, <3>1, <3>3
  <2> QED
    BY <1>1, <2>2, <2>3
<1>5. LineTypes'
  BY <1>1, <1>2, <1>4 DEF LineInv, LineTypes
<1>6. FirstInv'
  BY <1>1, <1>2, <1>4 DEF LineInv, FirstInv
<1>7. CleanInv'
  <2>1. \A d \in Conns : Rest(d)' = Rest(d)
    BY <1>1, <1>4 DEF Rest
  <2> QED
    BY <1>1, <1>2, <1>4, <2>1 DEF LineInv, CleanInv, EndsInBlank
<1>8. RightFirstReply'
  BY <1>1, <1>2 DEF LineInv, RightFirstReply
<1> QED
  BY <1>5, <1>6, <1>7, <1>8 DEF LineInv

(* The flow of the lines, in every reachable state.                        *)
THEOREM LineInvariance == Spec => []LineInv
<1>1. ASSUME IInv, LineInv, [Next]_vars PROVE LineInv'
  <2>1. CASE UNCHANGED vars
    <3>1. UNCHANGED <<stream, unsent, net, client, next, fdt, clientfd, at, i, rio, req, hdr,
                      replies>>
      BY <2>1 DEF vars, clientVars, pool
    <3>2. LineTypes'
      BY <1>1, <3>1 DEF LineInv, LineTypes, Reading, Exited, Served
    <3>3. FirstInv'
      BY <1>1, <3>1 DEF LineInv, FirstInv, ReadingOf, Reading, Exited, Served, Asks
    <3>4. CleanInv'
      BY <1>1, <3>1 DEF LineInv, CleanInv, Clean, Asks, ReadingOf, Reading, Exited, Served, Rest,
                        EndsInBlank
    <3>5. RightFirstReply'
      BY <1>1, <3>1 DEF LineInv, RightFirstReply, Asks
    <3> QED
      BY <3>2, <3>3, <3>4, <3>5 DEF LineInv
  <2>2. CASE ReadFails
    BY <1>1, <2>2, ExitLines DEF ReadFails
  <2>3. CASE Server
    BY <1>1, <2>2, <2>3, LoopLines, LineLines, HdrsLines, ReplyLines, AfterLines DEF Server
  <2>4. CASE \E c \in Conns : Client(c)
    BY <1>1, <2>4, ClientLines
  <2> QED
    BY <1>1, <2>1, <2>3, <2>4 DEF Next
<1> QED
  BY <1>1, LinesInit, Invariance, PTL DEF Spec

(* Whatever pieces the clients' lines arrive in and whatever order doit    *)
(* serves the clients in, the first reply to a client is the one that the  *)
(* first line it sent deserves.                                            *)
THEOREM FirstReplyIsRight == Spec => []RightFirstReply
<1>1. LineInv => RightFirstReply
  BY DEF LineInv
<1> QED
  BY <1>1, LineInvariance, PTL

(* read_requesthdrs loops at the end of a stream only for a client that    *)
(* sent less or more than one clean request.                               *)
THEOREM OnlyUncleanHang == Spec => []HangsForCause
<1>1. ASSUME IInv, LineInv PROVE HangsForCause
  <2> SUFFICES ASSUME at = "hdrs", hdr # "blank", AtEnd, Clean(Served) PROVE FALSE
    BY DEF HangsForCause, Hung
  <2>1. Serving /\ Reading /\ at # "after"
    BY DEF Serving, Reading
  <2>2. Served \in Conns /\ ~Exited /\ replies[Served] = << >> /\ ReadingOf(Served)
    BY <2>1, <1>1, ServedLines DEF ReadingOf
  <2>3. EndsInBlank(Rest(Served)) /\ Rest(Served) \in Seq(Lines) /\ Rest(Served) = << >>
    BY <1>1, <2>1, <2>2, ServedLines, NothingLeft DEF LineInv, CleanInv
  <2> QED
    BY <2>3, BlankAtEnd
<1> QED
  BY <1>1, Invariance, LineInvariance, PTL
=============================================================================
