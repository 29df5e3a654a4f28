-------------------------- MODULE ThreadEchoProofs --------------------------
(***************************************************************************)
(* Theorems about ThreadEcho, for every number of clients and descriptors  *)
(* and every way the clients may leave.                                    *)
(***************************************************************************)
EXTENDS ThreadEcho, TLAPS

(* Connections and threads come in the order of their numbers: the last    *)
(* one accepted has no thread before main has tried to create it.          *)
InOrder ==
  /\ main # "accept" => last \in Conns
  /\ \A c \in Conns :
       /\ accepted[c] \in Fds <=> c <= last
       /\ at[c] # "none" <=> c < last \/ (c = last /\ main = "accept")

(* main's struct describes the last connection, in the fields that it has  *)
(* assigned, and the one before in the others.                             *)
Overwritten ==
  \A x \in Fields :
    cinfo[x] = IF main = "connfd" \/ (main = "msg" /\ x = "msg") THEN last - 1 ELSE last

(* A thread copies its own connection, or one that came after it.          *)
CopyInv ==
  \A t \in Conns, x \in Fields :
    /\ at[t] \in {"none", "failed"} => copy[t][x] = Unset
    /\ Copied(t) => copy[t][x] # Unset
    /\ copy[t][x] # Unset => t <= copy[t][x] /\ copy[t][x] <= last

(* A connection is open under the number that accept returned for it.      *)
OwnNumber == \A f \in Fds : fdt[f] # Unset => fdt[f] <= last /\ accepted[fdt[f]] = f

(* What is about to be closed is not the connection that the thread was    *)
(* created for, unless its client has left; and what a thread has closed   *)
(* for good is not the connection that it copied.                          *)
CloseInv ==
  \A t \in Conns :
    /\ at[t] \in {"close", "closeagain"} /\ Fd(t) = accepted[t] /\ fdt[Fd(t)] = t
         => client[t] # "open"
    /\ at[t] = "done" => fdt[Fd(t)] # copy[t]["connfd"]

(* LostToTwin, of the number that accept returned.                         *)
Lost(c) == c <= last /\ client[c] = "open" /\ fdt[accepted[c]] # c
HasTwin(c) ==
  \E t \in Conns \ {c} : at[t] \in {"closeagain", "done"} /\ Fd(t) = accepted[c]
LostInv == \A c \in Conns : Lost(c) => HasTwin(c)

IInv == TypeOK /\ InOrder /\ Overwritten /\ CopyInv /\ OwnNumber /\ CloseInv /\ LostInv
-----------------------------------------------------------------------------
LEMMA Numbers ==
  /\ NConns \in Nat /\ Conns \subseteq Nat /\ Unset \notin Conns /\ Unset \notin Fds
  /\ Unset \in Nat /\ Fds \subseteq Nat
  /\ \A n \in Nat : n \in Conns <=> n # Unset /\ n <= NConns
BY ThreadEchoAssumption DEF Conns, Fds, Unset

(* A thread that has its copy has a descriptor.                            *)
LEMMA CopiedFd ==
  ASSUME TypeOK, InOrder, CopyInv, NEW t \in Conns, Copied(t)
  PROVE  copy[t]["connfd"] \in Conns /\ copy[t]["connfd"] <= last /\ Fd(t) \in Fds
BY Numbers DEF TypeOK, InOrder, CopyInv, Fd, Fields, Conns

LEMMA InitInv == Init => IInv
<1> SUFFICES ASSUME Init PROVE IInv
  OBVIOUS
<1> USE Numbers DEF Init
<1>1. TypeOK
  BY DEF TypeOK
<1>2. InOrder /\ Overwritten /\ OwnNumber
  BY DEF InOrder, Overwritten, OwnNumber, Unset
<1>3. CopyInv /\ CloseInv /\ LostInv
  BY DEF CopyInv, CloseInv, LostInv, Lost, Copied, Unset
<1> QED
  BY <1>1, <1>2, <1>3 DEF IInv

(* The new connection gets a number that nobody has open.                  *)
LEMMA AcceptStep == IInv /\ Accept => IInv'
<1> SUFFICES ASSUME IInv, Accept PROVE IInv'
  OBVIOUS
<1> USE Numbers DEF IInv
<1>1. PICK f \in Fds : /\ fdt[f] = Unset
                      /\ fdt' = [fdt EXCEPT ![f] = last + 1]
                      /\ accepted' = [accepted EXCEPT ![last + 1] = f]
  BY DEF Accept
<1>2. /\ last \in Nat /\ last + 1 \in Conns /\ last' = last + 1
      /\ main = "accept" /\ main' = "connfd"
      /\ client' = [client EXCEPT ![last + 1] = "open"]
      /\ UNCHANGED <<alive, cinfo, at, copy>>
  BY DEF Accept, TypeOK, Unset
<1>3. TypeOK'
  BY <1>1, <1>2 DEF TypeOK
<1>4. InOrder' /\ Overwritten'
  BY <1>1, <1>2 DEF TypeOK, InOrder, Overwritten
<1>5. CopyInv'
  BY <1>2 DEF CopyInv, TypeOK, Copied, Conns, Unset
<1>6. OwnNumber'
  <2> SUFFICES ASSUME NEW g \in Fds, fdt'[g] # Unset
               PROVE  fdt'[g] <= last + 1 /\ accepted'[fdt'[g]] = g
    BY <1>2 DEF OwnNumber
  <2>1. CASE g = f
    BY <1>1, <1>2, <2>1 DEF TypeOK
  <2>2. CASE g # f
    BY <1>1, <1>2, <2>2 DEF OwnNumber, TypeOK, Conns
  <2> QED
    BY <2>1, <2>2
<1>7. ASSUME NEW t \in Conns, Copied(t)
      PROVE  /\ t <= last /\ accepted'[t] = accepted[t] /\ client'[t] = client[t]
             /\ Fd(t)' = Fd(t) /\ Fd(t) \in Fds
  <2>1. t <= last
    BY <1>2, <1>7 DEF InOrder, Copied, TypeOK
  <2>2. copy[t]["connfd"] \in Conns /\ copy[t]["connfd"] <= last /\ Fd(t) \in Fds
    BY <1>7, CopiedFd
  <2> QED
    BY <1>1, <1>2, <2>1, <2>2 DEF Fd, TypeOK
<1>8. CloseInv'
  <2> SUFFICES ASSUME NEW t \in Conns, at[t] \in {"close", "closeagain", "done"}
               PROVE  /\ /\ at[t] \in {"close", "closeagain"} /\ Fd(t) = accepted[t]
                         /\ fdt'[Fd(t)] = t
                         => client[t] # "open"
                      /\ at[t] = "done" => fdt'[Fd(t)] # copy[t]["connfd"]
    BY <1>2, <1>7 DEF CloseInv, Copied
  <2>1. fdt'[Fd(t)] \in {fdt[Fd(t)], last + 1} /\ t <= last
    BY <1>1, <1>7 DEF TypeOK, Copied
  <2>2. copy[t]["connfd"] # last + 1
    BY <1>2, CopiedFd DEF Copied
  <2> QED
    BY <1>2, <2>1, <2>2 DEF CloseInv
<1>9. LostInv'
  <2> SUFFICES ASSUME NEW c \in Conns, Lost(c)' PROVE HasTwin(c)'
    BY DEF LostInv
  <2>1. CASE c = last + 1
    BY <1>1, <1>2, <2>1 DEF Lost, TypeOK
  <2>2. CASE c # last + 1
    <3>1. c <= last /\ accepted'[c] = accepted[c] /\ client[c] = "open" /\ accepted[c] \in Fds
      BY <1>1, <1>2, <2>2 DEF Lost, TypeOK, InOrder
    <3>2. fdt[accepted[c]] # c
      BY <1>1, <3>1 DEF Lost, TypeOK, OwnNumber
    <3> QED
      BY <1>2, <1>7, <3>1, <3>2 DEF LostInv, Lost, HasTwin, Copied
  <2> QED
    BY <2>1, <2>2
<1> QED
  BY <1>3, <1>4, <1>5, <1>6, <1>8, <1>9

(* Steps that leave the connections alone keep what was said of them.      *)
LEMMA SameThreads ==
  /\ IInv /\ UNCHANGED <<last, fdt, accepted, copy, client>>
  /\ \A t \in Conns : at'[t] # at[t] => at[t] = "none" /\ at'[t] \in {"copy", "failed"}
  => OwnNumber' /\ CloseInv' /\ LostInv'
<1> SUFFICES ASSUME IInv, UNCHANGED <<last, fdt, accepted, copy, client>>,
                    \A t \in Conns : at'[t] # at[t] => at[t] = "none" /\ at'[t] \in {"copy", "failed"}
             PROVE  OwnNumber' /\ CloseInv' /\ LostInv'
  OBVIOUS
<1>1. OwnNumber'
  BY DEF IInv, OwnNumber
<1>2. CloseInv'
  BY DEF IInv, CloseInv, Fd, Copied
<1>3. LostInv'
  BY DEF IInv, LostInv, Lost, HasTwin, Fd, Copied
<1> QED
  BY <1>1, <1>2, <1>3

LEMMA AssignStep == IInv /\ Assign => IInv'
<1> SUFFICES ASSUME IInv, Assign PROVE IInv'
  OBVIOUS
<1> USE Numbers DEF IInv, Assign
<1>1. TypeOK'
  BY DEF TypeOK, InOrder, Fields
<1>2. InOrder' /\ CopyInv'
  BY DEF InOrder, CopyInv, Copied, Fields
<1>3. Overwritten'
  BY DEF Overwritten, TypeOK, Fields
<1>4. OwnNumber' /\ CloseInv' /\ LostInv'
  BY SameThreads
<1> QED
  BY <1>1, <1>2, <1>3, <1>4

LEMMA CreateStep == IInv /\ Create => IInv'
<1> SUFFICES ASSUME IInv, Create PROVE IInv'
  OBVIOUS
<1> USE Numbers DEF IInv
<1>0. /\ main = "create" /\ main' = "accept"
       /\ UNCHANGED <<alive, last, fdt, cinfo, accepted, copy, client>>
  BY DEF Create
<1>1. PICK r \in {"copy", "failed"} : /\ last \in Conns /\ at[last] = "none"
                                     /\ at' = [at EXCEPT ![last] = r]
  <2>1. last \in Conns /\ ~(last < last \/ (last = last /\ main = "accept"))
    BY <1>0 DEF InOrder, TypeOK
  <2>2. at[last] = "none"
    BY <2>1 DEF InOrder
  <2> QED
    BY <2>1, <2>2 DEF Create
<1>2. TypeOK' /\ Overwritten'
  BY <1>1, <1>0 DEF TypeOK, Overwritten
<1>3. InOrder'
  BY <1>1, <1>0 DEF TypeOK, InOrder
<1>4. CopyInv'
  <2> SUFFICES ASSUME NEW t \in Conns, NEW x \in Fields
               PROVE  /\ at'[t] \in {"none", "failed"} => copy[t][x] = Unset
                      /\ at'[t] \notin {"none", "failed", "copy"} => copy[t][x] # Unset
                      /\ copy[t][x] # Unset => t <= copy[t][x] /\ copy[t][x] <= last
    BY <1>0 DEF CopyInv, Copied
  <2> QED
    BY <1>1, <1>0 DEF TypeOK, CopyInv, Copied
<1>5. OwnNumber' /\ CloseInv' /\ LostInv'
  BY <1>1, <1>0, SameThreads DEF TypeOK, Copied
<1> QED
  BY <1>2, <1>3, <1>4, <1>5

(* Whatever main has in its struct, it is not from before the thread.      *)
LEMMA CopyStep == ASSUME IInv, NEW t \in Conns, Copy(t) PROVE IInv'
<1> USE Numbers DEF IInv
<1>1. PICK x \in Fields : copy[t][x] = Unset /\ copy' = [copy EXCEPT ![t][x] = cinfo[x]]
  BY DEF Copy
<1>2. /\ at[t] = "copy" /\ UNCHANGED <<alive, main, last, fdt, cinfo, accepted, client>>
      /\ at' = IF \A y \in Fields : copy'[t][y] # Unset THEN [at EXCEPT ![t] = "name"] ELSE at
  BY DEF Copy
<1>3. t <= cinfo[x] /\ cinfo[x] <= last /\ cinfo[x] \in Conns
  <2>1. t <= last /\ (main # "accept" => t <= last - 1)
    BY <1>2 DEF InOrder, TypeOK, Conns
  <2>2. cinfo[x] \in {last - 1, last} /\ (main = "accept" => cinfo[x] = last)
    BY <1>2 DEF Overwritten
  <2> QED
    BY <2>1, <2>2 DEF TypeOK, Conns, Unset
<1>4. TypeOK'
  BY <1>1, <1>2, <1>3 DEF TypeOK
<1>5. InOrder' /\ Overwritten'
  BY <1>2 DEF InOrder, Overwritten, TypeOK
<1>6. CopyInv'
  <2> SUFFICES ASSUME NEW u \in Conns, NEW y \in Fields
               PROVE  /\ at'[u] \in {"none", "failed"} => copy'[u][y] = Unset
                      /\ at'[u] \notin {"none", "failed", "copy"} => copy'[u][y] # Unset
                      /\ copy'[u][y] # Unset => u <= copy'[u][y] /\ copy'[u][y] <= last
    BY <1>2 DEF CopyInv, Copied
  <2>1. CASE u = t
    BY <1>1, <1>2, <1>3, <2>1 DEF TypeOK, CopyInv, Copied
  <2>2. CASE u # t
    BY <1>1, <1>2, <2>2 DEF TypeOK, CopyInv, Copied
  <2> QED
    BY <2>1, <2>2
<1>7. \A u \in Conns : Copied(u) => at'[u] = at[u] /\ u # t /\ copy'[u] = copy[u]
  BY <1>1, <1>2 DEF TypeOK, Copied
<1>8. OwnNumber'
  BY <1>2 DEF OwnNumber
<1>9. CloseInv'
  BY <1>2, <1>7 DEF CloseInv, Copied, Fd, TypeOK
<1>10. LostInv'
  BY <1>2, <1>7 DEF LostInv, Lost, HasTwin, Copied, Fd
<1> QED
  BY <1>4, <1>5, <1>6, <1>8, <1>9, <1>10

(* A thread comes to its Close only when the connection is not that of a   *)
(* client that is there.                                                   *)
LEMMA ServeStep ==
  ASSUME IInv, NEW t \in Conns, Name(t) \/ Receive(t) \/ Send(t)
  PROVE  IInv'
<1> USE Numbers DEF IInv
<1>1. PICK to \in {"welcome", "returned", "loop", "echo", "close", "closeagain"} :
        /\ at[t] \in {"name", "welcome", "loop", "echo"}
        /\ at' = [at EXCEPT ![t] = to] \/ at' = at
        /\ to \in {"close", "closeagain"} /\ Peer(t) # Unset => client[Peer(t)] # "open"
  BY DEF Name, Receive, Send, Goto, RecvEnd, RecvFails, SendFails
<1>2. UNCHANGED <<main, last, fdt, cinfo, accepted, copy, client>> /\ alive' \in BOOLEAN
  BY DEF Name, Receive, Send, Goto, TypeOK
<1>3. TypeOK' /\ InOrder' /\ Overwritten' /\ OwnNumber'
  BY <1>1, <1>2 DEF TypeOK, InOrder, Overwritten, OwnNumber
<1>4. CopyInv'
  BY <1>1, <1>2 DEF TypeOK, CopyInv, Copied
<1>5. CloseInv'
  BY <1>1, <1>2 DEF TypeOK, CloseInv, Fd, Peer
<1>6. LostInv'
  BY <1>1, <1>2 DEF TypeOK, LostInv, Lost, HasTwin, Fd
<1> QED
  BY <1>3, <1>4, <1>5, <1>6

(* Whose connection the thread closes now is lost to a twin, or has left.  *)
LEMMA CloseStep == ASSUME IInv, NEW t \in Conns, Close(t) PROVE IInv'
<1> USE Numbers DEF IInv
<1>1. /\ \/ at[t] = "close" /\ at' = [at EXCEPT ![t] = "closeagain"]
         \/ at[t] = "closeagain" /\ at' = [at EXCEPT ![t] = "done"]
      /\ fdt' = [fdt EXCEPT ![Fd(t)] = Unset]
      /\ UNCHANGED <<alive, main, last, cinfo, accepted, copy, client>>
  BY DEF Close, Goto
<1>2. Fd(t) \in Fds /\ copy[t]["connfd"] \in Conns
  BY <1>1, CopiedFd DEF Copied
<1>3. TypeOK' /\ InOrder' /\ Overwritten'
  BY <1>1 DEF TypeOK, InOrder, Overwritten
<1>4. OwnNumber' /\ CopyInv'
  BY <1>1 DEF TypeOK, OwnNumber, CopyInv, Copied
<1>5. CloseInv'
  <2> SUFFICES ASSUME NEW u \in Conns, at'[u] \in {"close", "closeagain", "done"}
               PROVE  /\ /\ at'[u] \in {"close", "closeagain"} /\ Fd(u) = accepted[u]
                         /\ fdt'[Fd(u)] = u
                         => client[u] # "open"
                      /\ at'[u] = "done" => fdt'[Fd(u)] # copy[u]["connfd"]
    BY <1>1 DEF CloseInv, Fd
  <2>1. Copied(u)
    BY <1>1 DEF TypeOK, Copied
  <2>2. Fd(u) \in Fds /\ copy[u]["connfd"] \in Conns
    BY <2>1, CopiedFd
  <2>3. CASE Fd(u) = Fd(t)
    BY <1>1, <1>2, <2>2, <2>3 DEF TypeOK
  <2>4. CASE Fd(u) # Fd(t)
    BY <1>1, <1>2, <2>2, <2>4 DEF TypeOK, CloseInv
  <2> QED
    BY <2>3, <2>4
<1>6. LostInv'
  <2> SUFFICES ASSUME NEW c \in Conns, Lost(c)' PROVE HasTwin(c)'
    BY DEF LostInv
  <2>1. c <= last /\ client[c] = "open" /\ accepted[c] \in Fds
    BY <1>1 DEF Lost, InOrder
  <2>2. \A u \in Conns : at[u] \in {"closeagain", "done"} =>
          at'[u] \in {"closeagain", "done"} /\ Fd(u)' = Fd(u)
    BY <1>1 DEF TypeOK, Fd
  <2>3. CASE fdt[accepted[c]] # c
    BY <2>1, <2>2, <2>3, <1>1 DEF LostInv, Lost, HasTwin
  <2>4. CASE fdt[accepted[c]] = c
    <3>1. Fd(t) = accepted[c]
      BY <1>1, <1>2, <2>1, <2>4 DEF Lost, TypeOK
    <3>2. t # c
      BY <1>1, <2>1, <2>4, <3>1 DEF CloseInv
    <3>3. at'[t] \in {"closeagain", "done"} /\ Fd(t)' = accepted'[c]
      BY <1>1, <3>1 DEF TypeOK, Fd
    <3> QED
      BY <3>2, <3>3 DEF HasTwin
  <2> QED
    BY <2>3, <2>4
<1> QED
  BY <1>3, <1>4, <1>5, <1>6

LEMMA LeaveStep == ASSUME IInv, NEW c \in Conns, Leave(c) PROVE IInv'
<1> USE DEF IInv
<1>1. /\ UNCHANGED <<alive, main, last, fdt, cinfo, accepted, at, copy>>
      /\ client' \in [Conns -> {"away", "open", "closed", "reset"}]
      /\ \A d \in Conns : client'[d] = "open" => client[d] = "open"
  BY ThreadEchoAssumption DEF Leave, TypeOK
<1>2. TypeOK' /\ InOrder' /\ Overwritten' /\ CopyInv' /\ OwnNumber'
  BY <1>1 DEF TypeOK, InOrder, Overwritten, CopyInv, OwnNumber, Copied
<1>3. CloseInv' /\ LostInv'
  BY <1>1 DEF CloseInv, LostInv, Lost, HasTwin, Fd
<1> QED
  BY <1>2, <1>3

LEMMA StepInv == IInv /\ [Next]_vars => IInv'
<1> SUFFICES ASSUME IInv, [Next]_vars PROVE IInv'
  OBVIOUS
<1>1. CASE UNCHANGED vars
  BY <1>1 DEF IInv, vars, TypeOK, InOrder, Overwritten, CopyInv, Copied, OwnNumber, CloseInv,
     LostInv, Lost, HasTwin, Fd
<1>2. ASSUME NEW c \in Conns, Process(c) PROVE IInv'
  BY <1>2, CopyStep, ServeStep, CloseStep DEF Process
<1> QED
  BY <1>1, <1>2, AcceptStep, AssignStep, CreateStep, LeaveStep DEF Next

-----------------------------------------------------------------------------
(* The inductive invariant of the echo server holds in every state.        *)
THEOREM Invariance == Spec => []IInv
<1> QED
  BY InitInv, StepInv, PTL DEF Spec

(* Every variable keeps its type.                                          *)
THEOREM TypeCorrect == Spec => []TypeOK
<1>1. IInv => TypeOK
  BY DEF IInv
<1> QED
  BY <1>1, Invariance, PTL

(* The race for main's struct has one direction: what a thread copies was  *)
(* filled in for its own client or for one that came later.                *)
THEOREM RaceGoesForward == Spec => []NeverEarlier
<1>1. IInv => NeverEarlier
  BY Numbers DEF IInv, TypeOK, CopyInv, NeverEarlier, Conns, Unset
<1> QED
  BY <1>1, Invariance, PTL

(* A client that stays loses its connection only to another thread, which  *)
(* has closed the same number before.                                      *)
THEOREM OnlyTwinsTakeConnections == Spec => []LostToTwin
<1>1. IInv => LostToTwin
  <2> SUFFICES ASSUME IInv, NEW c \in Conns, c <= last, client[c] = "open", ~IsOpen(c)
               PROVE  HasTwin(c)
    BY DEF LostToTwin, HasTwin
  <2>1. accepted[c] \in Fds
    BY DEF IInv, InOrder
  <2> QED
    BY <2>1 DEF IInv, LostInv, Lost, IsOpen
<1> QED
  BY <1>1, Invariance, PTL

(* When all threads have ended, what is still open was left by the two     *)
(* early returns of process, or no thread has its number: none was created *)
(* for it, or the race for cinfo gave its thread a later one.              *)
THEOREM LeaksExplained == Spec => []LeaksForCause
<1>1. ASSUME IInv, NEW c \in 1..last, IsOpen(c),
             \A t \in 1..last : Over(t) \/ at[t] = "failed"
      PROVE  /\ \A t \in 1..last : copy[t]["connfd"] = c => at[t] = "returned"
             /\ copy[c]["connfd"] # c => at[c] = "failed" \/ copy[c]["connfd"] > c
  <2>1. c \in Conns /\ last \in Nat /\ \A t \in 1..last : t \in Conns
    BY <1>1, Numbers DEF IInv, TypeOK, Conns
  <2>2. fdt[accepted[c]] = c
    BY <1>1, <2>1, Numbers DEF IsOpen, IInv, OwnNumber
  <2>3. ASSUME NEW t \in 1..last, copy[t]["connfd"] = c PROVE at[t] = "returned"
    <3>1. at[t] # "failed"
      <4>1. copy[t]["connfd"] # Unset
        BY <2>1, <2>3, Numbers
      <4>2. t \in Conns /\ "connfd" \in Fields
        BY <2>1 DEF Fields
      <4> QED
        BY <1>1, <4>1, <4>2 DEF IInv, CopyInv
    <3> QED
      BY <1>1, <2>1, <2>2, <2>3, <3>1 DEF IInv, CloseInv, Fd, Over
  <2>4. ASSUME copy[c]["connfd"] # c, at[c] # "failed" PROVE copy[c]["connfd"] > c
    <3>1. Copied(c)
      BY <1>1, <2>4 DEF Over, Copied
    <3>2. /\ copy[c]["connfd"] \in Conns /\ c <= copy[c]["connfd"]
          /\ c \in Nat /\ copy[c]["connfd"] \in Nat
      BY <1>1, <2>1, <3>1, CopiedFd, Numbers DEF IInv, CopyInv, Fields
    <3> QED
      BY <2>4, <3>2
  <2> QED
    BY <2>3, <2>4
<1>2. IInv => LeaksForCause
  BY <1>1 DEF LeaksForCause
<1> QED
  BY <1>2, Invariance, PTL
=============================================================================
