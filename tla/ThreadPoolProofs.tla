--------------------------- MODULE ThreadPoolProofs ---------------------------
(***************************************************************************)
(* Proofs about the thread pool web server, for every number of workers,   *)
(* slots, connections and descriptors.  What sbuf does is taken from its   *)
(* own proofs, instantiated for main as the only producer.                 *)
(***************************************************************************)
EXTENDS ThreadPool, FiniteSetTheorems, SequenceTheorems, TLAPS

SP == INSTANCE SBufProofs WITH Producers <- {Main}, Consumers <- Workers,
                               Items <- Fds, IntMax <- NConns

(* The assumption of SBuf.                                                 *)
LEMMA BufferAssumption ==
  /\ SP!IsFiniteSet({Main}) /\ SP!IsFiniteSet(Workers)
  /\ {Main} \cap Workers = {}
  /\ None \notin Fds
  /\ N \in Nat \ {0}
  /\ NConns \in Nat
<1>1. IsFiniteSet({Main}) /\ IsFiniteSet(Workers)
  BY ThreadPoolAssumption, FS_Singleton
<1>2. SP!IsFiniteSet({Main}) /\ SP!IsFiniteSet(Workers)
  BY <1>1 DEF IsFiniteSet, SP!IsFiniteSet
<1>3. {Main} \cap Workers = {} /\ N \in Nat \ {0} /\ NConns \in Nat
  BY ThreadPoolAssumption
<1>4. None \notin Fds
  BY ThreadPoolAssumption DEF Fds
<1> QED
  BY <1>2, <1>3, <1>4

(* The buffer of the server is the one that was proved about.              *)
LEMMA SameInvariant == SB!IInv <=> SP!IInv
<1>1. \A S : Cardinality(S) = SB!Cardinality(S) /\ Cardinality(S) = SP!Cardinality(S)
  BY DEF Cardinality, SB!Cardinality, SP!Cardinality, IsFiniteSet, SB!IsFiniteSet,
         SP!IsFiniteSet
<1>2. SB!SlotsConserved = SP!SlotsConserved /\ SB!Occupancy = SP!Occupancy
  BY <1>1 DEF SB!SlotsConserved, SP!SlotsConserved, SB!Occupancy, SP!Occupancy,
       SB!Reserving, SP!Reserving, SB!Claiming, SP!Claiming,
       SB!Publishing, SP!Publishing, SB!Expecting, SP!Expecting
<1> QED
  BY <1>2 DEF SB!Threads, SP!Threads, SB!Semaphores, SP!Semaphores, SB!Labels, SP!Labels,
       SB!TypeOK, SP!TypeOK, SB!PcByRole, SP!PcByRole, SB!ItemInv, SP!ItemInv,
       SB!MutualExclusion, SP!MutualExclusion, SB!MutexInv, SP!MutexInv, SB!InCS,
       SP!InCS, SB!IInv, SP!IInv

LEMMA SameActions ==
  /\ SB!Init = SP!Init /\ SB!vars = SP!vars
  /\ \A f : SB!CallInsert(Main, f) = SP!CallInsert(Main, f)
  /\ SB!Insert(Main) = SP!Insert(Main) /\ SB!Store(Main) = SP!Store(Main)
  /\ \A w : /\ SB!CallRemove(w) = SP!CallRemove(w)
            /\ SB!Remove(w) = SP!Remove(w) /\ SB!Fetch(w) = SP!Fetch(w)
BY DEF SB!Init, SP!Init, SB!vars, SP!vars, SB!Threads, SP!Threads,
       SB!Semaphores, SP!Semaphores, SB!Goto, SP!Goto, SB!Wait, SP!Wait,
       SB!P, SP!P, SB!V, SP!V, SB!Load, SP!Load,
       SB!Store, SP!Store, SB!Fetch, SP!Fetch, SB!Unlock, SP!Unlock,
       SB!PostAndReturn, SP!PostAndReturn, SB!Insert, SP!Insert, SB!Remove,
       SP!Remove, SB!CallInsert, SP!CallInsert, SB!CallRemove, SP!CallRemove

LEMMA InitBuffer == Init => SB!IInv
BY SameInvariant, SameActions, SP!InitIInv, BufferAssumption DEF Init

(* Every step of the server is one of sbuf or leaves sbuf alone.           *)
LEMMA StepBuffer == SB!IInv /\ [Next]_vars => SB!IInv'
<1> SUFFICES ASSUME SB!IInv, [Next]_vars PROVE SB!IInv'
  OBVIOUS
<1>1. [SP!Next]_(SP!vars)
  <2>1. CASE Accept
    BY <2>1, SameActions DEF Accept, LowestFree, Exit, sbufVars, SP!Next, SP!vars
  <2>2. CASE Insert
    BY <2>2, SameActions DEF Insert, SP!Next
  <2>3. ASSUME NEW w \in Workers, Remove(w) PROVE SP!Next
    BY <2>3, SameActions DEF Remove, SP!Next
  <2>4. ASSUME NEW w \in Workers, Doit(w) PROVE UNCHANGED sbufVars
    BY <2>4 DEF Doit, ReadRequest, ClientError, ForkFails, Open, CloseSrc, Reply, Fork, Wait, Close, Exit
  <2>5. ASSUME NEW c \in Conns, ChildExit(c) PROVE UNCHANGED sbufVars
    BY <2>5 DEF ChildExit
  <2>6. ASSUME NEW t \in Threads, Deliver(t) \/ Handle(t) PROVE UNCHANGED sbufVars
    BY <2>6 DEF Deliver, Handle
  <2>7. CASE UNCHANGED vars
    BY <2>7 DEF vars, sbufVars, SP!vars
  <2>8. UNCHANGED sbufVars => UNCHANGED SP!vars
    BY DEF sbufVars, SP!vars
  <2> QED
    BY <2>1, <2>2, <2>3, <2>4, <2>5, <2>6, <2>7, <2>8 DEF Next
<1>2. SP!IInv
  BY SameInvariant
<1>3. SP!IInv'
  BY <1>1, <1>2, SP!StepIInv, BufferAssumption
<1> QED
  BY <1>3, SameInvariant, PTL

LEMMA RingIsSequence ==
  SB!IInv => /\ Ring \in Seq(Fds \cup {None}) /\ Len(Ring) = rear - front
             /\ rear - front \in 0..N
<1> SUFFICES ASSUME SB!IInv
             PROVE  /\ Ring \in Seq(Fds \cup {None}) /\ Len(Ring) = rear - front
                    /\ rear - front \in 0..N
  OBVIOUS
<1>1. SP!IInv
  BY SameInvariant
<1>2. SP!RingIsSeq
  BY <1>1, SP!ContentsType, BufferAssumption
<1>3. Ring = SP!Contents
  BY DEF Ring, SP!Contents
<1>4. SP!RingBounded
  BY <1>1, SP!RingFromIInv, BufferAssumption
<1> QED
  BY <1>2, <1>3, <1>4 DEF SP!RingIsSeq, SP!Values, SP!RingBounded

(* sbuf_insert puts main's descriptor in the ring.                         *)
LEMMA StoreInRing ==
  ASSUME SB!IInv, SB!IInv', SB!Store(Main), NoneTwice, item[Main] \notin RingFds
  PROVE  NoneTwice' /\ RingFds' = RingFds \cup {item[Main]}
<1> DEFINE k == Len(Ring)
<1>1. SP!IInv /\ SP!IInv'
  BY SameInvariant, PTL
<1>2. Ring = SP!Contents /\ Ring' = SP!Contents'
  BY DEF Ring, SP!Contents
<1>3. Ring' = Append(Ring, item[Main])
  BY <1>1, <1>2, SameActions, SP!StoreAppends, BufferAssumption
<1>4. Ring \in Seq(Fds \cup {None}) /\ k \in Nat /\ item[Main] \in Fds \cup {None}
  BY RingIsSequence DEF SB!IInv, SB!TypeOK, SB!Threads
<1>5. /\ DOMAIN Ring = 1..k /\ DOMAIN Ring' = 1..(k + 1)
      /\ \A i \in 1..k : Ring'[i] = Ring[i]
      /\ Ring'[k + 1] = item[Main]
  BY <1>3, <1>4, AppendProperties
<1> HIDE DEF k
<1>6. \A i \in 1..(k + 1) : i \in 1..k \/ i = k + 1
  BY <1>4
<1>7. k + 1 \in 1..(k + 1) /\ 1..k \subseteq 1..(k + 1)
  BY <1>4
<1>8. \A i \in 1..k : Ring[i] # item[Main]
  BY <1>5 DEF RingFds
<1>9. NoneTwice'
  BY <1>5, <1>6, <1>8 DEF NoneTwice
<1>10. RingFds' = RingFds \cup {item[Main]}
  BY <1>5, <1>6, <1>7 DEF RingFds
<1> QED
  BY <1>9, <1>10

(* sbuf_remove takes a descriptor out of the ring.                         *)
LEMMA FetchFromRing ==
  ASSUME SB!IInv, SB!IInv', NEW w \in Workers, SB!Fetch(w), NoneTwice
  PROVE  /\ NoneTwice' /\ RingFds' = RingFds \ {item'[w]}
         /\ item'[w] \in RingFds /\ \A t \in Threads \ {w} : item'[t] = item[t]
<1> DEFINE k == Len(Ring)
<1>1. SP!IInv /\ SP!IInv'
  BY SameInvariant, PTL
<1>2. Ring = SP!Contents /\ Ring' = SP!Contents'
  BY DEF Ring, SP!Contents
<1>3. /\ Ring # << >> /\ Ring' = Tail(Ring)
      /\ item' = [item EXCEPT ![w] = Head(Ring)]
  BY <1>1, <1>2, SameActions, SP!FetchTakesHead, BufferAssumption
<1>4. Ring \in Seq(Fds \cup {None}) /\ k \in Nat
  BY RingIsSequence
<1>5. item'[w] = Ring[1] /\ \A t \in Threads \ {w} : item'[t] = item[t]
  BY <1>3, <1>4 DEF SB!IInv, SB!TypeOK, SB!Threads, Threads
<1>6. /\ k >= 1 /\ DOMAIN Ring = 1..k /\ DOMAIN Ring' = 1..(k - 1)
      /\ \A i \in 1..(k - 1) : Ring'[i] = Ring[i + 1]
  BY <1>3, <1>4, HeadTailProperties
<1> HIDE DEF k
<1>7. /\ \A i \in 1..(k - 1) : i + 1 \in 1..k /\ i + 1 # 1
      /\ \A i \in 1..k : i = 1 \/ (i - 1 \in 1..(k - 1) /\ (i - 1) + 1 = i)
      /\ \A i, j \in 1..(k - 1) : i + 1 = j + 1 => i = j
      /\ 1 \in 1..k
  BY <1>4, <1>6
<1>8. NoneTwice'
  BY <1>6, <1>7 DEF NoneTwice
<1>9. RingFds' \subseteq RingFds \ {Ring[1]}
  BY <1>6, <1>7 DEF RingFds, NoneTwice
<1>10. RingFds \ {Ring[1]} \subseteq RingFds'
  BY <1>6, <1>7 DEF RingFds
<1> QED
  BY <1>5, <1>6, <1>7, <1>8, <1>9, <1>10 DEF RingFds

-----------------------------------------------------------------------------
LEMMA NoClash ==
  /\ Conns \subseteq Nat /\ None \notin Conns /\ Src \notin Conns
  /\ None \notin Fds /\ Src # None /\ Main \notin Workers
BY ThreadPoolAssumption DEF Conns, Fds

(* While the server runs, a worker that serves has a connection, and one   *)
(* that has opened a file has a file.                                      *)
LEMMA Holds ==
  ASSUME IInv, end = "running", NEW w \in Workers
  PROVE  /\ at[w] # "remove" => connfd[w] \in Fds /\ fdt[connfd[w]] \in Conns
         /\ at[w] = "closesrc" => srcfd[w] \in Fds /\ fdt[srcfd[w]] = Src
<1>1. ConnsOwned /\ FilesOwned
  BY DEF IInv, FdOwnership
<1>2. ASSUME at[w] # "remove" PROVE connfd[w] \in ConnFds
  <2>1. connfd[w] \in Taken(w)
    BY <1>2 DEF Taken, Serving
  <2> QED
    BY <2>1, <1>1 DEF ConnsOwned
<1>3. ASSUME at[w] = "closesrc" PROVE srcfd[w] \in SrcFds
  BY <1>1, <1>3 DEF FilesOwned, IInv, WorkerInv
<1> QED
  BY <1>2, <1>3 DEF ConnFds, SrcFds

LEMMA ReadGoto ==
  ASSUME NEW w \in Workers, ReadRequest(w)
  PROVE  \E l \in {"reply", "open", "fork", "headers"} : Goto(w, "request", l)
BY ThreadPoolAssumption DEF ReadRequest

LEMMA WaitSplit ==
  ASSUME NEW w \in Workers, Wait(w)
  PROVE  \/ Exit("no child")
         \/ /\ Goto(w, "wait", "close")
            /\ \E c \in Conns : kid' = [kid EXCEPT ![c] = "reaped"]
            /\ UNCHANGED <<sbufVars, next, fdt, connfd, srcfd, inherited, pending, handling,
                           replied, end>>
BY DEF Wait

LEMMA StepTypes == IInv /\ [Next]_vars => TypeOK'
<1> SUFFICES ASSUME IInv, [Next]_vars PROVE TypeOK'
  OBVIOUS
<1>0. SB!TypeOK'
  <2>1. SB!IInv'
    BY StepBuffer DEF IInv
  <2> QED
    BY <2>1 DEF SB!IInv
<1> DEFINE T == /\ next \in 1..(NConns + 1)
                /\ fdt \in [Fds -> Conns \cup {None, Src}]
                /\ at \in [Workers -> {"remove", "request", "headers", "open", "closesrc",
                                       "reply", "fork", "wait", "close"}]
                /\ connfd \in [Workers -> Fds \cup {None}]
                /\ srcfd \in [Workers -> Fds \cup {None}]
                /\ kid \in [Conns -> {"none", "running", "zombie", "reaped"}]
                /\ inherited \in [Conns -> SUBSET Conns]
                /\ handling \subseteq Threads
                /\ replied \subseteq Conns
                /\ end \in {"running", "no descriptor", "client error", "no process",
                            "no child"}
<1>01. T /\ pending \in BOOLEAN
  BY DEF IInv, TypeOK
<1> USE <1>01, ThreadPoolAssumption DEF Goto, Conns
<1>1. ASSUME NEW why \in {"no descriptor", "client error", "no process", "no child"}, Exit(why) PROVE T'
  BY <1>1 DEF Exit, workerVars, kidVars
<1>2. ASSUME Accept PROVE T'
  <2>1. CASE Exit("no descriptor")
    BY <1>1, <2>1
  <2>2. ASSUME NEW f \in Fds, fdt' = [fdt EXCEPT ![f] = next], next \in Conns,
               next' = next + 1, UNCHANGED <<workerVars, kidVars, replied, end>>
        PROVE  T'
    <3>1. next' \in 1..(NConns + 1)
      <4>1. next \in 1..NConns /\ next' = next + 1 /\ NConns \in Nat
        BY <2>2
      <4> QED
        BY ONLY <4>1
    <3>2. fdt' \in [Fds -> Conns \cup {None, Src}]
      BY <1>01, <2>2
    <3> QED
      BY ONLY <1>01, <2>2, <3>1, <3>2 DEF workerVars, kidVars
  <2> QED
    BY <1>2, <2>1, <2>2 DEF Accept
<1>3. ASSUME Insert PROVE T'
  BY <1>3 DEF Insert, workerVars, kidVars
<1>4. ASSUME NEW w \in Workers, Remove(w) PROVE T'
  <2>1. item[w] \in Fds \cup {None}
    BY DEF IInv, SB!IInv, SB!TypeOK, SB!Threads
  <2> QED
    BY <1>4, <2>1 DEF Remove, workerVars, kidVars
<1>5. ASSUME NEW w \in Workers, Doit(w) PROVE T'
  <2>1. CASE ReadRequest(w)
    <3>1. PICK l \in {"reply", "open", "fork", "headers"} : Goto(w, "request", l)
      BY <2>1, ReadGoto
    <3>2. UNCHANGED <<next, fdt, connfd, srcfd, kid, inherited, handling, replied, end>>
      BY <2>1 DEF ReadRequest, kidVars
    <3> QED
      BY <3>1, <3>2
  <2>2. CASE ClientError(w) \/ ForkFails(w)
    BY <1>1, <2>2 DEF ClientError, ForkFails
  <2>3. CASE Open(w)
    <3>1. CASE Exit("no descriptor")
      BY <1>1, <3>1
    <3>2. ASSUME NEW f \in Fds, Goto(w, "open", "closesrc"),
                 fdt' = [fdt EXCEPT ![f] = Src], srcfd' = [srcfd EXCEPT ![w] = f],
                 UNCHANGED <<next, connfd, kidVars, replied, end>>
          PROVE  T'
      BY <3>2 DEF kidVars
    <3> QED
      BY <2>3, <3>1, <3>2 DEF Open
  <2>4. CASE CloseSrc(w)
    BY <2>4 DEF CloseSrc, kidVars
  <2>5. CASE Reply(w)
    <3>1. Conn(w) \in Conns
      BY <2>5, Holds DEF Reply, Runs, Conn
    <3> QED
      BY <2>5, <3>1 DEF Reply, kidVars
  <2>6. CASE Fork(w)
    BY <2>6 DEF Fork
  <2>7. CASE Wait(w)
    <3>1. CASE Exit("no child")
      BY <1>1, <3>1
    <3>2. CASE ~Exit("no child")
      BY <2>7, <3>2, WaitSplit
    <3> QED
      BY <3>1, <3>2
  <2>8. CASE Close(w)
    BY <2>8 DEF Close, kidVars
  <2> QED
    BY <1>5, <2>1, <2>2, <2>3, <2>4, <2>5, <2>6, <2>7, <2>8 DEF Doit
<1>6. ASSUME NEW c \in Conns, ChildExit(c) PROVE T'
  BY <1>6 DEF ChildExit, workerVars
<1>7. ASSUME NEW t \in Threads, Deliver(t) \/ Handle(t) PROVE T'
  BY <1>7 DEF Deliver, Handle, workerVars
<1>8. ASSUME UNCHANGED vars PROVE T'
  BY <1>8 DEF vars, workerVars, kidVars
<1>9. T'
  BY <1>2, <1>3, <1>4, <1>5, <1>6, <1>7, <1>8 DEF Next
<1>10. pending' \in BOOLEAN
  <2>1. UNCHANGED kidVars \/ UNCHANGED pending => pending' = pending
    BY DEF kidVars
  <2>2. pending' = pending \/ pending' = TRUE \/ pending' = FALSE
    BY <2>1 DEF Next, vars, Accept, Insert, Remove, Doit, ReadRequest, ClientError, ForkFails, Open, CloseSrc,
           Reply, Fork, Wait, Close, Exit, ChildExit, Deliver, Handle
  <2> QED
    BY ONLY <1>01, <2>2
<1> QED
  BY <1>0, <1>9, <1>10 DEF TypeOK

(* What main's calls to sbuf change.                                       *)
LEMMA CallInsertStep ==
  ASSUME SB!IInv, NEW f \in Fds, SB!CallInsert(Main, f)
  PROVE  /\ pc[Main] = "out" /\ pc'[Main] = "slots" /\ item'[Main] = f
         /\ \A w \in Workers : pc'[w] = pc[w] /\ item'[w] = item[w]
         /\ UNCHANGED <<buf, front, rear>>
BY ThreadPoolAssumption DEF SB!CallInsert, SB!Goto, SB!IInv, SB!TypeOK, SB!Threads

LEMMA InsertStep ==
  ASSUME SB!IInv, SB!IInv', SB!Insert(Main), pc[Main] = "store",
         NoneTwice, item[Main] \notin RingFds
  PROVE  /\ \A w \in Workers : pc'[w] = pc[w] /\ item'[w] = item[w]
         /\ pc'[Main] = "unlock" /\ NoneTwice' /\ RingFds' = RingFds \cup {item[Main]}
<1>1. SB!Store(Main)
  BY DEF SB!Insert, SB!Wait, SB!Load, SB!Unlock, SB!PostAndReturn, SB!Goto
<1>2. NoneTwice' /\ RingFds' = RingFds \cup {item[Main]}
  BY <1>1, StoreInRing
<1> QED
  BY <1>1, <1>2, ThreadPoolAssumption DEF SB!Store, SB!Goto, SB!IInv, SB!TypeOK, SB!Threads

LEMMA InsertOther ==
  ASSUME SB!IInv, SB!Insert(Main), pc[Main] # "store"
  PROVE  /\ \A w \in Workers : pc'[w] = pc[w] /\ item'[w] = item[w]
         /\ \/ /\ pc[Main] \in {"slots", "mutex", "load"}
               /\ pc'[Main] \in {"mutex", "load", "store"} /\ item'[Main] = item[Main]
            \/ pc[Main] \in {"unlock", "post"} /\ pc'[Main] \in {"post", "out"}
         /\ UNCHANGED <<buf, front, rear>>
<1> USE ThreadPoolAssumption DEF SB!Goto, SB!IInv, SB!TypeOK, SB!Threads
<1>1. CASE SB!Wait(Main, "slots", "slots", "mutex") \/ SB!Wait(Main, "mutex", "mutex", "load")
  BY <1>1 DEF SB!Wait
<1>2. CASE SB!Load(Main, rear, "store")
  BY <1>2 DEF SB!Load
<1>3. CASE SB!Unlock(Main)
  BY <1>3 DEF SB!Unlock
<1>4. CASE SB!PostAndReturn(Main, "items")
  BY <1>4 DEF SB!PostAndReturn
<1> QED
  BY <1>1, <1>2, <1>3, <1>4 DEF SB!Insert, SB!Store

(* What a worker's calls to sbuf change.                                   *)
LEMMA RemoveStep ==
  ASSUME SB!IInv, SB!IInv', NEW w \in Workers, SB!CallRemove(w) \/ SB!Remove(w), NoneTwice
  PROVE  /\ \A t \in Threads \ {w} : pc'[t] = pc[t] /\ item'[t] = item[t]
         /\ \/ /\ pc[w] = "fetch" /\ pc'[w] = "unlock"
               /\ NoneTwice' /\ RingFds' = RingFds \ {item'[w]} /\ item'[w] \in RingFds
            \/ /\ pc[w] \in {"out", "items", "mutex", "load"}
               /\ pc'[w] \in {"items", "mutex", "load", "fetch"}
               /\ UNCHANGED <<buf, front, rear>>
            \/ /\ pc[w] = "unlock" /\ pc'[w] = "post" /\ item'[w] = item[w]
               /\ UNCHANGED <<buf, front, rear>>
            \/ /\ pc[w] = "post" /\ pc'[w] = "out"
               /\ UNCHANGED <<buf, front, rear>>
<1> USE ThreadPoolAssumption DEF SB!Goto, SB!IInv, SB!TypeOK, SB!Threads, Threads
<1>1. CASE SB!Fetch(w)
  <2>1. /\ NoneTwice' /\ RingFds' = RingFds \ {item'[w]}
        /\ item'[w] \in RingFds /\ \A t \in Threads \ {w} : item'[t] = item[t]
    BY <1>1, FetchFromRing
  <2>2. pc[w] = "fetch" /\ pc' = [pc EXCEPT ![w] = "unlock"]
    BY <1>1 DEF SB!Fetch
  <2> QED
    BY <2>1, <2>2
<1>2. CASE SB!Wait(w, "items", "items", "mutex") \/ SB!Wait(w, "mutex", "mutex", "load")
  BY <1>2 DEF SB!Wait
<1>3. CASE SB!Load(w, front, "fetch")
  BY <1>3 DEF SB!Load
<1>4. CASE SB!Unlock(w)
  BY <1>4 DEF SB!Unlock
<1>5. CASE SB!PostAndReturn(w, "slots")
  BY <1>5 DEF SB!PostAndReturn
<1>6. CASE SB!CallRemove(w)
  BY <1>6 DEF SB!CallRemove
<1> QED
  BY <1>1, <1>2, <1>3, <1>4, <1>5, <1>6 DEF SB!Remove

LEMMA SameRing ==
  UNCHANGED <<buf, front, rear>> => RingFds' = RingFds /\ (NoneTwice' <=> NoneTwice)
BY DEF RingFds, NoneTwice, Ring

-----------------------------------------------------------------------------
LEMMA StepOneFd == IInv /\ [Next]_vars => OneFd'
<1> SUFFICES ASSUME IInv, [Next]_vars PROVE OneFd'
  OBVIOUS
<1>1. /\ fdt \in [Fds -> Conns \cup {None, Src}] /\ next \in Nat /\ OneFd
      /\ Conns \subseteq Nat /\ None \notin Conns /\ Src \notin Conns
  <2>1. fdt \in [Fds -> Conns \cup {None, Src}] /\ next \in 1..(NConns + 1) /\ OneFd
    BY DEF IInv, TypeOK
  <2>2. next \in Nat
    BY <2>1, ThreadPoolAssumption
  <2> QED
    BY <2>1, <2>2, NoClash
<1>2. ASSUME UNCHANGED <<fdt, next>> PROVE OneFd'
  BY <1>1, <1>2 DEF OneFd
<1>3. ASSUME NEW f \in Fds, NEW x \in {None, Src}, fdt' = [fdt EXCEPT ![f] = x], next' = next
      PROVE  OneFd'
  BY <1>1, <1>3 DEF OneFd
<1>4. ASSUME NEW why, Exit(why) PROVE OneFd'
  BY <1>1, <1>4 DEF OneFd, Exit
<1>5. ASSUME NEW f \in Fds, fdt' = [fdt EXCEPT ![f] = next], next' = next + 1 PROVE OneFd'
  <2>1. \A g \in Fds : fdt'[g] = IF g = f THEN next ELSE fdt[g]
    BY <1>1, <1>5
  <2>2. ASSUME NEW g \in Fds, fdt[g] \in Conns
        PROVE  fdt[g] \in Nat /\ fdt[g] < next /\ fdt[g] # next
    <3>1. fdt[g] \in Nat /\ fdt[g] < next /\ next \in Nat
      BY <1>1, <2>2 DEF OneFd
    <3> QED
      BY ONLY <3>1
  <2>3. next' \in Nat /\ next < next' /\ \A x \in Nat : x < next => x < next'
    <3>1. next \in Nat /\ next' = next + 1
      BY <1>1, <1>5
    <3> QED
      BY ONLY <3>1
  <2> QED
    BY <1>1, <2>1, <2>2, <2>3 DEF OneFd
<1>6. CASE Accept
  BY <1>4, <1>5, <1>6 DEF Accept
<1>7. CASE Insert
  BY <1>2, <1>7 DEF Insert
<1>8. ASSUME NEW w \in Workers, Remove(w) PROVE OneFd'
  BY <1>2, <1>8 DEF Remove
<1>9. ASSUME NEW w \in Workers, Doit(w) PROVE OneFd'
  <2>1. CASE ReadRequest(w) \/ Reply(w) \/ Fork(w)
    BY <1>2, <2>1 DEF ReadRequest, Reply, Fork
  <2>2. CASE ClientError(w) \/ ForkFails(w) \/ Wait(w)
    BY <1>2, <1>4, <2>2 DEF ClientError, ForkFails, Wait
  <2>3. CASE Open(w)
    BY <1>3, <1>4, <2>3 DEF Open
  <2>4. CASE CloseSrc(w)
    <3>1. srcfd[w] \in Fds
      BY <2>4, Holds DEF CloseSrc, Runs, Goto
    <3> QED
      BY <1>3, <2>4, <3>1 DEF CloseSrc
  <2>5. CASE Close(w)
    <3>1. connfd[w] \in Fds
      BY <2>5, Holds DEF Close, Runs, Goto
    <3> QED
      BY <1>3, <2>5, <3>1 DEF Close
  <2> QED
    BY <1>9, <2>1, <2>2, <2>3, <2>4, <2>5 DEF Doit
<1>10. ASSUME NEW c \in Conns, ChildExit(c) PROVE OneFd'
  BY <1>2, <1>10 DEF ChildExit
<1>11. ASSUME NEW t \in Threads, Deliver(t) \/ Handle(t) PROVE OneFd'
  BY <1>2, <1>11 DEF Deliver, Handle
<1>12. CASE UNCHANGED vars
  BY <1>2, <1>12 DEF vars
<1> QED
  BY <1>6, <1>7, <1>8, <1>9, <1>10, <1>11, <1>12 DEF Next

(* A worker that leaves sbuf_remove has the descriptor of a connection.    *)
LEMMA Removed ==
  ASSUME IInv, end = "running", NEW w \in Workers, pc[w] \in {"unlock", "post"}
  PROVE  item[w] \in Fds
<1>1. item[w] \in Taken(w)
  BY DEF Taken, Leaving
<1>2. item[w] \in ConnFds
  BY <1>1 DEF IInv, FdOwnership, ConnsOwned
<1> QED
  BY <1>2 DEF ConnFds

LEMMA StepWorkers == IInv /\ [Next]_vars => WorkerInv'
<1> SUFFICES ASSUME IInv, [Next]_vars PROVE WorkerInv'
  OBVIOUS
<1>1. /\ at \in [Workers -> {"remove", "request", "headers", "open", "closesrc",
                            "reply", "fork", "wait", "close"}]
      /\ connfd \in [Workers -> Fds \cup {None}]
      /\ srcfd \in [Workers -> Fds \cup {None}]
  BY DEF IInv, TypeOK
<1>2. WorkerInv /\ SB!IInv /\ SB!IInv' /\ None \notin Fds /\ Main \notin Workers
  BY StepBuffer, ThreadPoolAssumption DEF IInv, Fds
<1>3. end = "running" => ConnsOwned
  BY DEF IInv, FdOwnership
<1>4. ASSUME \A v \in Workers : pc'[v] = pc[v], UNCHANGED workerVars PROVE WorkerInv'
  BY <1>2, <1>4 DEF WorkerInv, workerVars
<1>5. ASSUME NEW why, Exit(why) PROVE WorkerInv'
  BY <1>4, <1>5 DEF Exit, sbufVars
<1>6. CASE Accept
  BY <1>2, <1>4, <1>5, <1>6, CallInsertStep DEF Accept
<1>7. CASE Insert
  <2>1. \A v \in Workers : pc'[v] = pc[v]
    BY <1>7, <1>2 DEF Insert, SB!Insert, SB!Wait, SB!Load, SB!Store, SB!Unlock,
       SB!PostAndReturn, SB!Goto, SB!IInv, SB!TypeOK, SB!Threads
  <2> QED
    BY <1>4, <1>7, <2>1 DEF Insert
<1>8. ASSUME NEW w \in Workers, Remove(w) PROVE WorkerInv'
  <2>1. NoneTwice /\ end = "running" /\ at[w] = "remove"
    BY <1>3, <1>8 DEF Remove, Runs, ConnsOwned
  <2>2. /\ \A v \in Workers \ {w} : pc'[v] = pc[v]
        /\ pc[w] = "post" => pc'[w] = "out" /\ item[w] \in Fds
    BY <1>2, <1>8, <2>1, RemoveStep, Removed DEF Remove, Threads
  <2>3. CASE pc[w] = "post"
    BY <1>1, <1>2, <1>8, <2>1, <2>2, <2>3 DEF Remove, Goto, WorkerInv
  <2>4. CASE pc[w] # "post"
    BY <1>1, <1>2, <1>8, <2>1, <2>2, <2>4 DEF Remove, workerVars, WorkerInv
  <2> QED
    BY <2>3, <2>4
<1>9. ASSUME NEW w \in Workers, Doit(w) PROVE WorkerInv'
  <2>1. CASE ReadRequest(w)
    BY <1>1, <1>2, <2>1, ReadGoto DEF ReadRequest, Goto, sbufVars, WorkerInv
  <2>2. CASE Reply(w)
    BY <1>1, <1>2, <2>2 DEF Reply, Goto, sbufVars, WorkerInv
  <2>3. CASE Fork(w)
    BY <1>1, <1>2, <2>3 DEF Fork, Goto, sbufVars, WorkerInv
  <2>4. CASE ClientError(w) \/ ForkFails(w)
    BY <1>5, <2>4 DEF ClientError, ForkFails
  <2>5. CASE Wait(w)
    <3>1. CASE Exit("no child")
      BY <1>5, <3>1
    <3>2. CASE ~Exit("no child")
      <4>1. Goto(w, "wait", "close") /\ UNCHANGED <<sbufVars, connfd, srcfd>>
        BY <2>5, <3>2, WaitSplit
      <4> QED
        BY <1>1, <1>2, <4>1 DEF Goto, sbufVars, WorkerInv
    <3> QED
      BY <3>1, <3>2
  <2>6. CASE Open(w)
    <3>1. CASE Exit("no descriptor")
      BY <1>5, <3>1
    <3>2. ASSUME NEW f \in Fds, Goto(w, "open", "closesrc"), srcfd' = [srcfd EXCEPT ![w] = f],
                 UNCHANGED <<sbufVars, connfd>>
          PROVE  WorkerInv'
      BY <1>1, <1>2, <3>2 DEF Goto, sbufVars, WorkerInv
    <3> QED
      BY <2>6, <3>1, <3>2 DEF Open
  <2>7. CASE CloseSrc(w)
    BY <1>1, <1>2, <2>7 DEF CloseSrc, Goto, sbufVars, WorkerInv
  <2>8. CASE Close(w)
    BY <1>1, <1>2, <2>8 DEF Close, Goto, sbufVars, WorkerInv
  <2> QED
    BY <1>9, <2>1, <2>2, <2>3, <2>4, <2>5, <2>6, <2>7, <2>8 DEF Doit
<1>10. ASSUME NEW c \in Conns, ChildExit(c) PROVE WorkerInv'
  BY <1>4, <1>10 DEF ChildExit, sbufVars
<1>11. ASSUME NEW t \in Threads, Deliver(t) \/ Handle(t) PROVE WorkerInv'
  BY <1>4, <1>11 DEF Deliver, Handle, sbufVars
<1>12. CASE UNCHANGED vars
  BY <1>4, <1>12 DEF vars, sbufVars
<1> QED
  BY <1>6, <1>7, <1>8, <1>9, <1>10, <1>11, <1>12 DEF Next

-----------------------------------------------------------------------------
(* The ways in which a connection changes hands.                           *)
LEMMA KeepConns ==
  ASSUME ConnsOwned, NoneTwice', RingFds' = RingFds, InMain' = InMain, ConnFds' = ConnFds,
         \A w \in Workers : Taken(w)' = Taken(w)
  PROVE  ConnsOwned'
BY DEF ConnsOwned

LEMMA AcceptConn ==
  ASSUME ConnsOwned, NoneTwice', RingFds' = RingFds, InMain = {}, NEW f, InMain' = {f},
         f \notin ConnFds, ConnFds' = ConnFds \cup {f},
         \A w \in Workers : Taken(w)' = Taken(w)
  PROVE  ConnsOwned'
BY DEF ConnsOwned

LEMMA InsertConn ==
  ASSUME ConnsOwned, NoneTwice', NEW f, InMain = {f}, InMain' = {},
         RingFds' = RingFds \cup {f}, ConnFds' = ConnFds,
         \A w \in Workers : Taken(w)' = Taken(w)
  PROVE  ConnsOwned'
BY DEF ConnsOwned

LEMMA RemoveConn ==
  ASSUME ConnsOwned, NoneTwice', NEW f, f \in RingFds, RingFds' = RingFds \ {f},
         InMain' = InMain, ConnFds' = ConnFds, NEW w \in Workers, Taken(w) = {},
         Taken(w)' = {f}, \A v \in Workers \ {w} : Taken(v)' = Taken(v)
  PROVE  ConnsOwned'
BY DEF ConnsOwned

LEMMA CloseConn ==
  ASSUME ConnsOwned, NoneTwice', RingFds' = RingFds, InMain' = InMain, NEW f,
         ConnFds' = ConnFds \ {f}, NEW w \in Workers, Taken(w) = {f},
         Taken(w)' = {}, \A v \in Workers \ {w} : Taken(v)' = Taken(v)
  PROVE  ConnsOwned'
BY DEF ConnsOwned

(* The server does not come back.                                          *)
LEMMA StaysDown == [Next]_vars /\ end' = "running" => end = "running"
BY DEF Next, vars, Accept, Insert, Remove, Doit, ReadRequest, ClientError, ForkFails, Open, CloseSrc,
       Reply, Fork, Wait, Close, Exit, ChildExit, Deliver, Handle

(* No step of a running server makes a connection two threads' or nobody's.*)
LEMMA StepConns ==
  ASSUME IInv, [Next]_vars, end = "running", end' = "running"
  PROVE  ConnsOwned'
<1>1. /\ ConnsOwned /\ NoneTwice /\ SB!IInv /\ SB!IInv' /\ WorkerInv
  BY StepBuffer DEF IInv, FdOwnership, ConnsOwned
<1>2. /\ fdt \in [Fds -> Conns \cup {None, Src}] /\ next \in 1..(NConns + 1)
      /\ at \in [Workers -> {"remove", "request", "headers", "open", "closesrc",
                            "reply", "fork", "wait", "close"}]
      /\ connfd \in [Workers -> Fds \cup {None}]
      /\ None \notin Conns /\ Src \notin Conns /\ Main \notin Workers
  BY NoClash DEF IInv, TypeOK
<1>3. ASSUME UNCHANGED <<buf, front, rear>>
      PROVE  NoneTwice' /\ RingFds' = RingFds
  BY <1>1, <1>3, SameRing
<1>4. ASSUME UNCHANGED <<pc, item>> PROVE InMain' = InMain
  BY <1>4 DEF InMain
<1>5. ASSUME UNCHANGED <<sbufVars, workerVars>>, ConnFds' = ConnFds PROVE ConnsOwned'
  <2>1. \A w \in Workers : Taken(w)' = Taken(w)
    BY <1>5 DEF Taken, Leaving, Serving, sbufVars, workerVars
  <2> QED
    BY <1>1, <1>3, <1>4, <1>5, <2>1, KeepConns DEF sbufVars
<1>6. ASSUME UNCHANGED fdt PROVE ConnFds' = ConnFds
  BY <1>6 DEF ConnFds
<1>7. ASSUME NEW why \in {"no descriptor", "client error", "no process", "no child"}, Exit(why) PROVE FALSE
  BY <1>7 DEF Exit
<1>8. CASE Accept
  <2>1. PICK f \in Fds : /\ LowestFree(f) /\ fdt' = [fdt EXCEPT ![f] = next] /\ next \in Conns
                         /\ SB!CallInsert(Main, f) /\ UNCHANGED workerVars
    BY <1>7, <1>8 DEF Accept
  <2>2. /\ pc[Main] = "out" /\ pc'[Main] = "slots" /\ item'[Main] = f
        /\ \A w \in Workers : pc'[w] = pc[w] /\ item'[w] = item[w]
        /\ UNCHANGED <<buf, front, rear>>
    BY <1>1, <2>1, CallInsertStep
  <2>3. InMain = {} /\ InMain' = {f}
    BY <2>2 DEF InMain
  <2>4. f \notin ConnFds /\ ConnFds' = ConnFds \cup {f}
    BY <1>2, <2>1 DEF ConnFds, LowestFree
  <2>5. \A w \in Workers : Taken(w)' = Taken(w)
    BY <2>1, <2>2 DEF Taken, Leaving, Serving, workerVars
  <2> QED
    BY <1>1, <1>3, <2>2, <2>3, <2>4, <2>5, AcceptConn
<1>9. CASE Insert
  <2>1. SB!Insert(Main) /\ UNCHANGED workerVars /\ ConnFds' = ConnFds
    BY <1>6, <1>9 DEF Insert
  <2>2. CASE pc[Main] = "store"
    <3>1. InMain = {item[Main]} /\ item[Main] \notin RingFds
      BY <1>1, <2>2 DEF InMain, ConnsOwned
    <3>2. /\ \A w \in Workers : pc'[w] = pc[w] /\ item'[w] = item[w]
          /\ pc'[Main] = "unlock" /\ NoneTwice' /\ RingFds' = RingFds \cup {item[Main]}
      BY <1>1, <2>1, <2>2, <3>1, InsertStep
    <3>3. \A w \in Workers : Taken(w)' = Taken(w)
      BY <2>1, <3>2 DEF Taken, Leaving, Serving, workerVars
    <3>4. InMain' = {}
      BY <3>2 DEF InMain
    <3> QED
      BY <1>1, <2>1, <3>1, <3>2, <3>3, <3>4, InsertConn
  <2>3. CASE pc[Main] # "store"
    <3>1. /\ \A w \in Workers : pc'[w] = pc[w] /\ item'[w] = item[w]
          /\ \/ /\ pc[Main] \in {"slots", "mutex", "load"}
                /\ pc'[Main] \in {"mutex", "load", "store"} /\ item'[Main] = item[Main]
             \/ pc[Main] \in {"unlock", "post"} /\ pc'[Main] \in {"post", "out"}
          /\ UNCHANGED <<buf, front, rear>>
      BY <1>1, <2>1, <2>3, InsertOther
    <3>2. InMain' = InMain
      BY <3>1 DEF InMain
    <3>3. \A w \in Workers : Taken(w)' = Taken(w)
      BY <2>1, <3>1 DEF Taken, Leaving, Serving, workerVars
    <3> QED
      BY <1>1, <1>3, <2>1, <3>1, <3>2, <3>3, KeepConns
  <2> QED
    BY <2>2, <2>3
<1>10. ASSUME NEW w \in Workers, Remove(w) PROVE ConnsOwned'
  <2>1. /\ SB!CallRemove(w) \/ SB!Remove(w)
        /\ at[w] = "remove" /\ ConnFds' = ConnFds
        /\ \A v \in Workers \ {w} : at'[v] = at[v] /\ connfd'[v] = connfd[v]
        /\ pc[w] = "post" => at'[w] = "request" /\ connfd'[w] = item[w]
        /\ pc[w] # "post" => at'[w] = "remove"
    BY <1>2, <1>6, <1>10 DEF Remove, Goto, workerVars
  <2>2. \A t \in Threads \ {w} : pc'[t] = pc[t] /\ item'[t] = item[t]
    BY <1>1, <2>1, RemoveStep
  <2>3. InMain' = InMain
    BY <1>2, <2>2 DEF InMain, Threads
  <2>4. \A v \in Workers \ {w} : Taken(v)' = Taken(v)
    BY <2>1, <2>2 DEF Taken, Leaving, Serving, Threads
  <2>5. CASE pc[w] = "fetch"
    <3>1. /\ pc'[w] = "unlock" /\ NoneTwice' /\ item'[w] \in RingFds
          /\ RingFds' = RingFds \ {item'[w]}
      BY <1>1, <2>1, <2>5, RemoveStep
    <3>2. Taken(w) = {} /\ Taken(w)' = {item'[w]}
      BY <2>1, <2>5, <3>1 DEF Taken, Leaving, Serving
    <3> QED
      BY <1>1, <2>1, <2>3, <2>4, <3>1, <3>2, RemoveConn
  <2>6. CASE pc[w] # "fetch"
    <3>1. UNCHANGED <<buf, front, rear>>
      BY <1>1, <2>1, <2>6, RemoveStep
    <3>2. Taken(w)' = Taken(w)
      <4>1. CASE pc[w] = "post"
        <5>1. pc'[w] = "out"
          BY <1>1, <2>1, <4>1, RemoveStep
        <5> QED
          BY <2>1, <4>1, <5>1 DEF Taken, Leaving, Serving
      <4>2. CASE pc[w] = "unlock"
        <5>1. pc'[w] = "post" /\ item'[w] = item[w]
          BY <1>1, <2>1, <4>2, RemoveStep
        <5> QED
          BY <2>1, <4>2, <5>1 DEF Taken, Leaving, Serving
      <4>3. CASE pc[w] \notin {"post", "unlock"}
        <5>1. pc'[w] \in {"items", "mutex", "load", "fetch"}
          BY <1>1, <2>1, <2>6, <4>3, RemoveStep
        <5> QED
          BY <2>1, <4>3, <5>1 DEF Taken, Leaving, Serving
      <4> QED
        BY <4>1, <4>2, <4>3
    <3> QED
      BY <1>1, <1>3, <2>1, <2>3, <2>4, <3>1, <3>2, KeepConns
  <2> QED
    BY <2>5, <2>6
<1>11. ASSUME NEW w \in Workers, UNCHANGED <<sbufVars, connfd>>, ConnFds' = ConnFds,
              NEW from \in {"request", "open", "closesrc", "reply", "fork", "wait"},
              NEW to \in {"headers", "open", "closesrc", "reply", "fork", "wait", "close"},
              Goto(w, from, to)
       PROVE  ConnsOwned'
  <2>1. \A v \in Workers : Taken(v)' = Taken(v)
    BY <1>2, <1>11 DEF Taken, Leaving, Serving, sbufVars, Goto
  <2> QED
    BY <1>1, <1>3, <1>4, <1>11, <2>1, KeepConns DEF sbufVars
<1>12. ASSUME NEW w \in Workers, Doit(w) PROVE ConnsOwned'
  <2>1. CASE ReadRequest(w)
    BY <1>6, <1>11, <2>1, ReadGoto DEF ReadRequest
  <2>2. CASE Reply(w)
    BY <1>6, <1>11, <2>2 DEF Reply
  <2>3. CASE Fork(w)
    BY <1>6, <1>11, <2>3 DEF Fork
  <2>4. CASE ClientError(w) \/ ForkFails(w)
    BY <1>7, <2>4 DEF ClientError, ForkFails
  <2>5. CASE Wait(w)
    BY <1>6, <1>7, <1>11, <2>5 DEF Wait
  <2>6. CASE Open(w)
    <3>1. PICK f \in Fds : /\ Goto(w, "open", "closesrc") /\ LowestFree(f)
                           /\ fdt' = [fdt EXCEPT ![f] = Src]
                           /\ UNCHANGED <<sbufVars, connfd>>
      BY <1>7, <2>6 DEF Open
    <3>2. ConnFds' = ConnFds
      BY <1>2, <3>1 DEF ConnFds, LowestFree
    <3> QED
      BY <1>11, <3>1, <3>2
  <2>7. CASE CloseSrc(w)
    <3>1. srcfd[w] \in Fds /\ fdt[srcfd[w]] = Src
      BY <2>7, Holds DEF CloseSrc, Goto
    <3>2. ConnFds' = ConnFds
      BY <1>2, <2>7, <3>1 DEF ConnFds, CloseSrc
    <3> QED
      BY <1>11, <2>7, <3>2 DEF CloseSrc
  <2>8. CASE Close(w)
    <3>1. at[w] = "close" /\ connfd[w] \in Fds /\ pc[w] = "out"
      BY <1>1, <2>8 DEF Close, Goto, WorkerInv
    <3>2. ConnFds' = ConnFds \ {connfd[w]}
      BY <1>2, <2>8, <3>1 DEF ConnFds, Close
    <3>3. Taken(w) = {connfd[w]} /\ Taken(w)' = {}
      BY <1>2, <2>8, <3>1 DEF Taken, Leaving, Serving, Close, Goto, sbufVars
    <3>4. \A v \in Workers \ {w} : Taken(v)' = Taken(v)
      BY <1>2, <2>8 DEF Taken, Leaving, Serving, Close, Goto, sbufVars
    <3> QED
      BY <1>1, <1>3, <1>4, <2>8, <3>2, <3>3, <3>4, CloseConn DEF Close, sbufVars
  <2> QED
    BY <1>12, <2>1, <2>2, <2>3, <2>4, <2>5, <2>6, <2>7, <2>8 DEF Doit
<1>13. ASSUME NEW c \in Conns, ChildExit(c) PROVE ConnsOwned'
  BY <1>5, <1>6, <1>13 DEF ChildExit
<1>14. ASSUME NEW t \in Threads, Deliver(t) \/ Handle(t) PROVE ConnsOwned'
  BY <1>5, <1>6, <1>14 DEF Deliver, Handle
<1>15. CASE UNCHANGED vars
  BY <1>5, <1>6, <1>15 DEF vars
<1> QED
  BY <1>8, <1>9, <1>10, <1>12, <1>13, <1>14, <1>15 DEF Next

(* No step leaves a file open that no worker will close.                   *)
LEMMA StepFiles ==
  ASSUME IInv, [Next]_vars, end = "running", end' = "running"
  PROVE  FilesOwned'
<1>1. /\ fdt \in [Fds -> Conns \cup {None, Src}] /\ next \in 1..(NConns + 1)
      /\ srcfd \in [Workers -> Fds \cup {None}]
      /\ None \notin Conns /\ Src \notin Conns /\ Src # None /\ None \notin Fds
  BY NoClash DEF IInv, TypeOK
<1>2. FilesOwned /\ WorkerInv
  BY DEF IInv, FdOwnership
<1>3. ASSUME UNCHANGED srcfd, SrcFds' = SrcFds PROVE FilesOwned'
  BY <1>2, <1>3 DEF FilesOwned
<1>4. ASSUME UNCHANGED <<srcfd, fdt>> PROVE FilesOwned'
  BY <1>3, <1>4 DEF SrcFds
<1>5. ASSUME NEW why \in {"no descriptor", "client error", "no process", "no child"}, Exit(why) PROVE FALSE
  BY <1>5 DEF Exit
<1>6. CASE Accept
  <2>1. PICK f \in Fds : /\ LowestFree(f) /\ fdt' = [fdt EXCEPT ![f] = next] /\ next \in Conns
                         /\ UNCHANGED workerVars
    BY <1>5, <1>6 DEF Accept
  <2>2. SrcFds' = SrcFds
    BY <1>1, <2>1 DEF SrcFds, LowestFree
  <2> QED
    BY <1>3, <2>1, <2>2 DEF workerVars
<1>7. CASE Insert
  BY <1>4, <1>7 DEF Insert, workerVars
<1>8. ASSUME NEW w \in Workers, Remove(w) PROVE FilesOwned'
  BY <1>4, <1>8 DEF Remove, workerVars
<1>9. ASSUME NEW w \in Workers, Doit(w) PROVE FilesOwned'
  <2>1. CASE ReadRequest(w) \/ Reply(w) \/ Fork(w)
    BY <1>4, <2>1 DEF ReadRequest, Reply, Fork
  <2>2. CASE ClientError(w) \/ ForkFails(w) \/ Wait(w)
    BY <1>4, <1>5, <2>2 DEF ClientError, ForkFails, Wait
  <2>3. CASE Open(w)
    <3>1. PICK f \in Fds : /\ at[w] = "open" /\ LowestFree(f) /\ fdt' = [fdt EXCEPT ![f] = Src]
                           /\ srcfd' = [srcfd EXCEPT ![w] = f]
      BY <1>5, <2>3 DEF Open, Goto
    <3>2. srcfd[w] = None
      BY <1>1, <1>2, <3>1 DEF WorkerInv
    <3>3. f \notin SrcFds /\ SrcFds' = SrcFds \cup {f}
      BY <1>1, <3>1 DEF SrcFds, LowestFree
    <3>4. \A v \in Workers : srcfd'[v] = IF v = w THEN f ELSE srcfd[v]
      BY <1>1, <3>1
    <3>5. {srcfd'[v] : v \in Workers} \ {None} = ({srcfd[v] : v \in Workers} \ {None}) \cup {f}
      BY <1>1, <3>2, <3>4
    <3> QED
      BY <1>1, <1>2, <3>3, <3>4, <3>5 DEF FilesOwned
  <2>4. CASE CloseSrc(w)
    <3>1. srcfd[w] \in Fds /\ fdt[srcfd[w]] = Src
      BY <2>4, Holds DEF CloseSrc, Goto
    <3>2. SrcFds' = SrcFds \ {srcfd[w]}
      BY <1>1, <2>4, <3>1 DEF SrcFds, CloseSrc
    <3>3. \A v \in Workers : srcfd'[v] = IF v = w THEN None ELSE srcfd[v]
      BY <1>1, <2>4 DEF CloseSrc
    <3>4. \A v \in Workers \ {w} : srcfd[v] # srcfd[w]
      BY <1>1, <1>2, <3>1 DEF FilesOwned
    <3>5. {srcfd'[v] : v \in Workers} \ {None} = ({srcfd[v] : v \in Workers} \ {None}) \ {srcfd[w]}
      BY <3>3, <3>4
    <3> QED
      BY <1>2, <3>2, <3>3, <3>5 DEF FilesOwned
  <2>5. CASE Close(w)
    <3>1. connfd[w] \in Fds /\ fdt[connfd[w]] \in Conns
      BY <2>5, Holds DEF Close, Goto
    <3>2. SrcFds' = SrcFds
      BY <1>1, <2>5, <3>1 DEF SrcFds, Close
    <3> QED
      BY <1>3, <2>5, <3>2 DEF Close
  <2> QED
    BY <1>9, <2>1, <2>2, <2>3, <2>4, <2>5 DEF Doit
<1>10. ASSUME NEW c \in Conns, ChildExit(c) PROVE FilesOwned'
  BY <1>4, <1>10 DEF ChildExit, workerVars
<1>11. ASSUME NEW t \in Threads, Deliver(t) \/ Handle(t) PROVE FilesOwned'
  BY <1>4, <1>11 DEF Deliver, Handle, workerVars
<1>12. CASE UNCHANGED vars
  BY <1>4, <1>12 DEF vars, workerVars
<1> QED
  BY <1>6, <1>7, <1>8, <1>9, <1>10, <1>11, <1>12 DEF Next

LEMMA StepOwnership == IInv /\ [Next]_vars => FdOwnership'
BY StaysDown, StepConns, StepFiles DEF FdOwnership

-----------------------------------------------------------------------------
(* A worker that forks has a connection that has no child yet.             *)
LEMMA ForkedOnce ==
  ASSUME IInv, end = "running", NEW w \in Workers, at[w] = "fork"
  PROVE  /\ connfd[w] \in Fds /\ Conn(w) = fdt[connfd[w]] /\ Conn(w) \in Conns
         /\ Conn(w) < next /\ kid[Conn(w)] = "none" /\ inherited[Conn(w)] = {}
<1>1. connfd[w] \in Fds /\ Conn(w) = fdt[connfd[w]] /\ Conn(w) \in Conns
  BY Holds DEF Conn
<1>2. Conn(w) < next
  BY <1>1 DEF IInv, OneFd
<1>3. kid[Conn(w)] = "none"
  <2> SUFFICES ASSUME kid[Conn(w)] # "none" PROVE FALSE
    OBVIOUS
  <2>1. PICK v \in Workers : at[v] \in {"wait", "close"} /\ connfd[v] = connfd[w]
    BY <1>1 DEF IInv, KidInv
  <2>2. v # w /\ connfd[w] \in Taken(v) /\ connfd[w] \in Taken(w)
    BY <2>1 DEF Taken, Serving
  <2> QED
    BY <2>2 DEF IInv, FdOwnership, ConnsOwned
<1> QED
  BY <1>1, <1>2, <1>3 DEF IInv, KidInv

(* What is answered stays so.                                              *)
LEMMA StepReplied ==
  ASSUME IInv, [Next]_vars, NEW c \in Conns, Answering(c)
  PROVE  Answering(c)'
<1>1. inherited \in [Conns -> SUBSET Conns]
  BY DEF IInv, TypeOK
<1>2. ASSUME UNCHANGED <<inherited, replied>> PROVE Answering(c)'
  BY <1>2 DEF Answering
<1>3. ASSUME NEW w \in Workers, Doit(w) PROVE Answering(c)'
  <2>1. CASE ReadRequest(w) \/ Open(w) \/ CloseSrc(w) \/ Wait(w) \/ Close(w) \/ ClientError(w) \/ ForkFails(w)
    BY <1>2, <2>1 DEF ReadRequest, Open, CloseSrc, Wait, Close, ClientError, ForkFails, Exit, kidVars
  <2>2. CASE Reply(w)
    BY <2>2 DEF Reply, Answering, kidVars
  <2>3. CASE Fork(w)
    <3>1. at[w] = "fork" /\ end = "running"
      BY <2>3 DEF Fork, Goto, Runs
    <3>2. c # Conn(w) => inherited'[c] = inherited[c]
      BY <1>1, <2>3 DEF Fork
    <3>3. c = Conn(w) => c \in inherited'[c]
      BY <1>1, <2>3, <3>1, ForkedOnce DEF Fork
    <3> QED
      BY <2>3, <3>2, <3>3 DEF Answering, Fork
  <2> QED
    BY <1>3, <2>1, <2>2, <2>3 DEF Doit
<1>4. ASSUME NEW d \in Conns, ChildExit(d) PROVE Answering(c)'
  BY <1>1, <1>4 DEF Answering, ChildExit
<1>5. CASE Accept \/ Insert \/ (\E w \in Workers : Remove(w)) \/ UNCHANGED vars
  BY <1>2, <1>5 DEF Accept, Insert, Remove, Exit, vars, kidVars
<1>6. ASSUME NEW t \in Threads, Deliver(t) \/ Handle(t) PROVE Answering(c)'
  BY <1>2, <1>6 DEF Deliver, Handle
<1> QED
  BY <1>3, <1>4, <1>5, <1>6 DEF Next

(* How an entry of the descriptor table changes.                           *)
LEMMA TableMoves ==
  ASSUME IInv, [Next]_vars, end = "running", end' = "running", NEW f \in Fds
  PROVE  \/ fdt'[f] = fdt[f]
         \/ fdt[f] = None /\ Accept /\ fdt'[f] = next /\ next \in Conns /\ next' = next + 1
         \/ fdt[f] = None /\ fdt'[f] = Src
         \/ fdt[f] = Src /\ fdt'[f] = None
         \/ fdt'[f] = None /\ \E w \in Workers : Close(w) /\ connfd[w] = f
<1>1. fdt \in [Fds -> Conns \cup {None, Src}]
  BY DEF IInv, TypeOK
<1>2. ASSUME NEW why \in {"no descriptor", "client error", "no process", "no child"}, Exit(why) PROVE FALSE
  BY <1>2 DEF Exit
<1>3. CASE Accept
  <2>1. PICK g \in Fds : /\ LowestFree(g) /\ fdt' = [fdt EXCEPT ![g] = next] /\ next \in Conns
                         /\ next' = next + 1
    BY <1>2, <1>3 DEF Accept
  <2> QED
    BY <1>1, <1>3, <2>1 DEF LowestFree
<1>4. ASSUME NEW w \in Workers, Doit(w)
      PROVE  \/ fdt'[f] = fdt[f]
             \/ fdt[f] = None /\ fdt'[f] = Src
             \/ fdt[f] = Src /\ fdt'[f] = None
             \/ fdt'[f] = None /\ Close(w) /\ connfd[w] = f
  <2>1. CASE ReadRequest(w) \/ Reply(w) \/ Fork(w) \/ Wait(w) \/ ClientError(w) \/ ForkFails(w)
    BY <1>2, <2>1 DEF ReadRequest, Reply, Fork, Wait, ClientError, ForkFails
  <2>2. CASE Open(w)
    <3>1. PICK g \in Fds : LowestFree(g) /\ fdt' = [fdt EXCEPT ![g] = Src]
      BY <1>2, <2>2 DEF Open
    <3> QED
      BY <1>1, <3>1 DEF LowestFree
  <2>3. CASE CloseSrc(w)
    <3>1. srcfd[w] \in Fds /\ fdt[srcfd[w]] = Src
      BY <2>3, Holds DEF CloseSrc, Goto
    <3> QED
      BY <1>1, <2>3, <3>1 DEF CloseSrc
  <2>4. CASE Close(w)
    <3>1. connfd[w] \in Fds
      BY <2>4, Holds DEF Close, Goto
    <3> QED
      BY <1>1, <2>4, <3>1 DEF Close
  <2> QED
    BY <1>4, <2>1, <2>2, <2>3, <2>4 DEF Doit
<1>5. CASE Insert \/ (\E w \in Workers : Remove(w)) \/ UNCHANGED vars
  BY <1>5 DEF Insert, Remove, vars
<1>6. CASE (\E c \in Conns : ChildExit(c)) \/ (\E t \in Threads : Deliver(t) \/ Handle(t))
  BY <1>6 DEF ChildExit, Deliver, Handle
<1> QED
  BY <1>3, <1>4, <1>5, <1>6 DEF Next

(* How a worker comes to the end of doit and leaves it.                    *)
LEMMA WorkerMoves ==
  ASSUME IInv, [Next]_vars, NEW v \in Workers
  PROVE  /\ at[v] \in {"wait", "close"} => at'[v] \in {"wait", "close"} \/ Close(v)
         /\ at[v] \notin {"wait", "close"} /\ at'[v] \in {"wait", "close"} => Reply(v) \/ Fork(v)
<1> DEFINE Goal == /\ at[v] \in {"wait", "close"} => at'[v] \in {"wait", "close"} \/ Close(v)
                   /\ at[v] \notin {"wait", "close"} /\ at'[v] \in {"wait", "close"}
                        => Reply(v) \/ Fork(v)
<1>1. at \in [Workers -> {"remove", "request", "headers", "open", "closesrc",
                         "reply", "fork", "wait", "close"}]
  BY DEF IInv, TypeOK
<1>2. ASSUME UNCHANGED workerVars PROVE Goal
  BY <1>2 DEF workerVars
<1>3. ASSUME NEW why, Exit(why) PROVE Goal
  BY <1>2, <1>3 DEF Exit
<1>4. ASSUME NEW w \in Workers, NEW from \in {"remove", "request", "open", "closesrc", "wait"},
             NEW to \in {"request", "headers", "open", "closesrc", "reply", "fork", "close"},
             to = "close" => from = "wait", from = "wait" => to = "close", Goto(w, from, to)
      PROVE  Goal
  BY <1>1, <1>4 DEF Goto
<1>5. ASSUME NEW w \in Workers, Doit(w) PROVE Goal
  <2>1. CASE ReadRequest(w)
    BY <1>4, <2>1, ReadGoto
  <2>2. CASE Reply(w)
    BY <1>1, <2>2 DEF Reply, Goto
  <2>3. CASE Fork(w)
    BY <1>1, <2>3 DEF Fork, Goto
  <2>4. CASE Wait(w) \/ ClientError(w) \/ ForkFails(w)
    BY <1>3, <1>4, <2>4 DEF Wait, ClientError, ForkFails
  <2>5. CASE Open(w)
    BY <1>3, <1>4, <2>5 DEF Open
  <2>6. CASE CloseSrc(w)
    BY <1>4, <2>6 DEF CloseSrc
  <2>7. CASE Close(w)
    BY <1>1, <2>7 DEF Close, Goto
  <2> QED
    BY <1>5, <2>1, <2>2, <2>3, <2>4, <2>5, <2>6, <2>7 DEF Doit
<1>6. CASE Accept \/ Insert \/ UNCHANGED vars
  BY <1>2, <1>3, <1>6 DEF Accept, Insert, vars
<1>7. CASE \E w \in Workers : Remove(w)
  BY <1>2, <1>4, <1>7 DEF Remove
<1>8. CASE (\E c \in Conns : ChildExit(c)) \/ (\E t \in Threads : Deliver(t) \/ Handle(t))
  BY <1>2, <1>8 DEF ChildExit, Deliver, Handle
<1> QED
  BY <1>5, <1>6, <1>7, <1>8 DEF Next

(* A connection that is served keeps its descriptor until Close.           *)
LEMMA KeepsConn ==
  ASSUME IInv, [Next]_vars, end = "running", end' = "running",
         NEW v \in Workers, at[v] \in {"wait", "close"}, at'[v] \in {"wait", "close"}
  PROVE  connfd'[v] = connfd[v] /\ Conn(v)' = Conn(v)
<1>1. connfd \in [Workers -> Fds \cup {None}] /\ at \in [Workers -> {"remove", "request",
        "headers", "open", "closesrc", "reply", "fork", "wait", "close"}]
  BY DEF IInv, TypeOK
<1>2. connfd[v] \in Fds /\ fdt[connfd[v]] \in Conns /\ None \notin Conns /\ Src \notin Conns
  BY Holds, NoClash
<1>3. connfd'[v] = connfd[v]
  BY <1>1 DEF Next, vars, workerVars, Accept, Insert, Remove, Doit, ReadRequest, ClientError, ForkFails,
       Open, CloseSrc, Reply, Fork, Wait, Close, Exit, ChildExit, Deliver, Handle, Goto
<1>4. ASSUME NEW w \in Workers, Close(w) PROVE connfd[w] # connfd[v]
  <2>1. v # w
    BY <1>1, <1>4 DEF Close, Goto
  <2>2. connfd[w] \in Taken(w) /\ connfd[v] \in Taken(v)
    BY <1>4 DEF Close, Goto, Taken, Serving
  <2> QED
    BY <2>1, <2>2 DEF IInv, FdOwnership, ConnsOwned
<1>5. fdt'[connfd[v]] = fdt[connfd[v]]
  BY <1>2, <1>4, TableMoves
<1> QED
  BY <1>3, <1>5 DEF Conn

(* A child is forked by serve_dynamic and by nobody else.                  *)
LEMMA KidMoves ==
  ASSUME IInv, [Next]_vars, NEW c \in Conns, kid[c] = "none", kid'[c] # "none"
  PROVE  \E w \in Workers : Fork(w) /\ c = Conn(w)
<1>1. kid \in [Conns -> {"none", "running", "zombie", "reaped"}]
  BY DEF IInv, TypeOK
<1>2. ASSUME NEW w \in Workers, Doit(w) PROVE Fork(w) /\ c = Conn(w)
  <2>1. CASE Fork(w)
    BY <1>1, <2>1 DEF Fork
  <2>2. CASE Wait(w)
    BY <1>1, <2>2 DEF Wait, Exit, kidVars
  <2>3. CASE ReadRequest(w) \/ Open(w) \/ CloseSrc(w) \/ Reply(w) \/ Close(w) \/ ClientError(w) \/ ForkFails(w)
    BY <2>3 DEF ReadRequest, Open, CloseSrc, Reply, Close, ClientError, ForkFails, Exit, kidVars
  <2> QED
    BY <1>2, <2>1, <2>2, <2>3 DEF Doit
<1>3. ~ \E d \in Conns : ChildExit(d)
  BY <1>1 DEF ChildExit
<1>4. ~ \E t \in Threads : Deliver(t) \/ Handle(t)
  BY <1>1 DEF Deliver, Handle
<1>5. ~ (Accept \/ Insert \/ (\E w \in Workers : Remove(w)) \/ UNCHANGED vars)
  BY DEF Accept, Insert, Remove, Exit, vars, kidVars
<1> QED
  BY <1>2, <1>3, <1>4, <1>5 DEF Next

LEMMA StepKids == IInv /\ [Next]_vars => KidInv'
<1> SUFFICES ASSUME IInv, [Next]_vars PROVE KidInv'
  OBVIOUS
<1> DEFINE K == \A c \in Conns : /\ kid[c] = "running" => c \in inherited[c]
                                 /\ kid[c] # "running" => inherited[c] = {}
                                 /\ kid[c] # "none" => c < next
<1>1. /\ kid \in [Conns -> {"none", "running", "zombie", "reaped"}]
      /\ inherited \in [Conns -> SUBSET Conns] /\ Conns \subseteq Nat /\ None \notin Conns
      /\ Src \notin Conns /\ KidInv /\ OneFd
  BY NoClash DEF IInv, TypeOK
<1>2. ASSUME UNCHANGED <<kid, inherited>>, next' = next PROVE K'
  BY <1>1, <1>2 DEF KidInv
<1>3. ASSUME NEW w \in Workers, Doit(w) PROVE K'
  <2>1. CASE Fork(w)
    <3>1. Conn(w) \in Conns /\ Conn(w) < next /\ connfd[w] \in Fds /\ Conn(w) = fdt[connfd[w]]
      BY <2>1, ForkedOnce DEF Fork, Goto, Runs
    <3>2. /\ kid' = [kid EXCEPT ![Conn(w)] = "running"] /\ next' = next
          /\ inherited' = [inherited EXCEPT ![Conn(w)] = {c \in Conns : \E f \in Fds : fdt[f] = c}]
      BY <2>1 DEF Fork
    <3> DEFINE d == Conn(w)
               I == {c \in Conns : \E f \in Fds : fdt[f] = c}
    <3>3. d \in Conns /\ d < next /\ d \in I /\ kid' = [kid EXCEPT ![d] = "running"]
          /\ inherited' = [inherited EXCEPT ![d] = I]
      BY <3>1, <3>2
    <3> HIDE DEF d, I
    <3>4. \A c \in Conns : /\ kid'[c] = IF c = d THEN "running" ELSE kid[c]
                           /\ inherited'[c] = IF c = d THEN I ELSE inherited[c]
      BY <1>1, <3>3
    <3> QED
      BY <1>1, <3>2, <3>3, <3>4 DEF KidInv
  <2>2. CASE Wait(w)
    <3>1. CASE UNCHANGED kidVars /\ next' = next
      BY <1>2, <3>1 DEF kidVars
    <3>2. ASSUME NEW c \in Conns, kid[c] = "zombie", kid' = [kid EXCEPT ![c] = "reaped"],
                 UNCHANGED <<inherited, next>>
          PROVE  K'
      BY <1>1, <3>2 DEF KidInv
    <3> QED
      BY <2>2, <3>1, <3>2 DEF Wait, Exit
  <2>3. CASE ReadRequest(w) \/ Open(w) \/ CloseSrc(w) \/ Reply(w) \/ Close(w) \/ ClientError(w) \/ ForkFails(w)
    BY <1>2, <2>3 DEF ReadRequest, Open, CloseSrc, Reply, Close, ClientError, ForkFails, Exit, kidVars
  <2> QED
    BY <1>3, <2>1, <2>2, <2>3 DEF Doit
<1>4. K'
  <2>1. CASE Accept
    <3>1. UNCHANGED <<kid, inherited>> /\ (next' = next \/ (next \in Conns /\ next' = next + 1))
      <4>1. CASE Exit("no descriptor")
        BY <4>1 DEF Exit, kidVars
      <4> QED
        BY <2>1, <4>1 DEF Accept, kidVars
    <3>2. \A c \in Conns : c < next => c < next'
      <4>1. next' = next \/ (next \in Nat /\ next' = next + 1)
        BY <1>1, <3>1
      <4> QED
        BY ONLY <1>1, <4>1
    <3> QED
      BY <1>1, <3>1, <3>2 DEF KidInv
  <2>2. CASE Insert \/ (\E w \in Workers : Remove(w)) \/ UNCHANGED vars
    BY <1>2, <2>2 DEF Insert, Remove, vars, kidVars
  <2>3. ASSUME NEW c \in Conns, ChildExit(c) PROVE K'
    BY <1>1, <2>3 DEF ChildExit, KidInv
  <2>4. ASSUME NEW t \in Threads, Deliver(t) PROVE K'
    BY <1>2, <2>4 DEF Deliver
  <2>5. ASSUME NEW t \in Threads, Handle(t) PROVE K'
    BY <1>1, <2>5 DEF Handle, KidInv
  <2> QED
    BY <1>3, <2>1, <2>2, <2>3, <2>4, <2>5 DEF Next
<1>5. ASSUME end' = "running", NEW f \in Fds, fdt'[f] \in Conns, kid'[fdt'[f]] # "none"
      PROVE  \E w \in Workers : at'[w] \in {"wait", "close"} /\ connfd'[w] = f
  <2>1. end = "running"
    BY <1>5, StaysDown
  <2>2. CASE fdt'[f] # fdt[f]
    <3>1. Accept /\ fdt'[f] = next
      BY <1>1, <1>5, <2>1, <2>2, TableMoves
    <3>2. kid[next] # "none"
      BY <1>5, <3>1 DEF Accept, Exit, kidVars
    <3>3. next < next /\ next \in Nat
      BY <1>1, <1>5, <3>1, <3>2 DEF KidInv
    <3> QED
      BY ONLY <3>3
  <2>3. CASE fdt'[f] = fdt[f] /\ kid[fdt[f]] # "none"
    <3>1. PICK w \in Workers : at[w] \in {"wait", "close"} /\ connfd[w] = f
      BY <1>1, <1>5, <2>1, <2>3 DEF KidInv
    <3>2. ~ Close(w)
      <4> SUFFICES ASSUME Close(w) PROVE FALSE
        OBVIOUS
      <4>1. fdt'[f] = None
        BY <3>1 DEF Close, IInv, TypeOK
      <4> QED
        BY <1>1, <1>5, <4>1
    <3>3. at'[w] \in {"wait", "close"}
      BY <3>1, <3>2, WorkerMoves
    <3> QED
      BY <1>5, <2>1, <3>1, <3>3, KeepsConn
  <2>4. CASE fdt'[f] = fdt[f] /\ kid[fdt[f]] = "none"
    <3>1. PICK w \in Workers : Fork(w) /\ fdt[f] = Conn(w)
      BY <1>5, <2>4, KidMoves
    <3>2. connfd[w] \in Fds /\ fdt[f] = fdt[connfd[w]]
      BY <3>1, ForkedOnce DEF Fork, Goto, Runs
    <3>3. connfd[w] = f
      BY <1>1, <1>5, <2>4, <3>2 DEF OneFd
    <3>4. at'[w] = "wait" /\ connfd'[w] = f
      BY <3>1, <3>3 DEF Fork, Goto, IInv, TypeOK
    <3> QED
      BY <3>4
  <2> QED
    BY <2>2, <2>3, <2>4
<1> QED
  BY <1>4, <1>5 DEF KidInv

LEMMA StepReplies == IInv /\ [Next]_vars => ReplyInv'
<1> SUFFICES ASSUME IInv, [Next]_vars, end' = "running"
             PROVE  /\ \A w \in Workers : at'[w] \in {"wait", "close"} => Answering(Conn(w))'
                    /\ \A c \in Conns : c < next' => Answering(c)' \/ \E f \in Fds : fdt'[f] = c
  BY DEF ReplyInv
<1>1. end = "running" /\ ReplyInv
  BY StaysDown DEF IInv
<1>2. /\ inherited \in [Conns -> SUBSET Conns] /\ next \in 1..(NConns + 1)
      /\ Conns \subseteq Nat /\ None \notin Conns /\ Src \notin Conns
  BY NoClash DEF IInv, TypeOK
<1>3. ASSUME NEW w \in Workers, at'[w] \in {"wait", "close"} PROVE Answering(Conn(w))'
  <2>1. CASE at[w] \in {"wait", "close"}
    <3>1. Conn(w)' = Conn(w) /\ Conn(w) \in Conns /\ Answering(Conn(w))
      BY <1>1, <1>3, <2>1, KeepsConn, Holds DEF ReplyInv, Conn
    <3>2. Conn(w) \in replied' \/ Conn(w) \in inherited'[Conn(w)]
      BY <3>1, StepReplied DEF Answering
    <3> QED
      BY <3>1, <3>2 DEF Answering
  <2>2. CASE at[w] \notin {"wait", "close"}
    <3>1. Reply(w) \/ Fork(w)
      BY <1>3, <2>2, WorkerMoves
    <3>2. Conn(w)' = Conn(w)
      BY <3>1 DEF Reply, Fork, Conn
    <3>3. CASE Reply(w)
      BY <3>2, <3>3 DEF Reply, Answering
    <3>4. CASE Fork(w)
      <4>1. Conn(w) \in Conns /\ connfd[w] \in Fds /\ Conn(w) = fdt[connfd[w]]
        BY <3>4, ForkedOnce DEF Fork, Goto, Runs
      <4>2. Conn(w) \in inherited'[Conn(w)]
        BY <1>2, <3>4, <4>1 DEF Fork
      <4> QED
        BY <3>2, <4>2 DEF Answering
    <3> QED
      BY <3>1, <3>3, <3>4
  <2> QED
    BY <2>1, <2>2
<1>4. ASSUME NEW c \in Conns, c < next' PROVE Answering(c)' \/ \E f \in Fds : fdt'[f] = c
  <2>1. CASE Answering(c)
    BY <2>1, StepReplied
  <2>2. CASE ~Answering(c) /\ c < next
    <3>1. PICK f \in Fds : fdt[f] = c
      BY <1>1, <2>2 DEF ReplyInv
    <3>2. CASE fdt'[f] = c
      BY <3>2
    <3>3. CASE fdt'[f] # c
      <4>1. PICK w \in Workers : Close(w) /\ connfd[w] = f
        BY <1>1, <1>2, <3>1, <3>3, TableMoves
      <4>2. Answering(c)
        BY <1>1, <3>1, <4>1 DEF ReplyInv, Close, Goto, Conn
      <4> QED
        BY <2>2, <4>2
    <3> QED
      BY <3>2, <3>3
  <2>3. CASE ~(c < next)
    <3>1. next' # next
      BY <1>4, <2>3
    <3>2. Accept
      BY <3>1 DEF Next, vars, Insert, Remove, Doit, ReadRequest, ClientError, ForkFails, Open, CloseSrc,
         Reply, Fork, Wait, Close, Exit, ChildExit, Deliver, Handle
    <3>3. PICK f \in Fds : fdt' = [fdt EXCEPT ![f] = next] /\ next' = next + 1
      BY <3>1, <3>2 DEF Accept, Exit
    <3>4. c = next
      <4>1. c \in Nat /\ next \in Nat /\ c < next + 1 /\ ~(c < next)
        BY <1>2, <1>4, <2>3, <3>3
      <4> QED
        BY ONLY <4>1
    <3>5. fdt'[f] = next
      BY <3>3 DEF IInv, TypeOK
    <3> QED
      BY <3>4, <3>5
  <2> QED
    BY <2>1, <2>2, <2>3
<1> QED
  BY <1>3, <1>4

-----------------------------------------------------------------------------
LEMMA InitIInv == Init => IInv
<1> SUFFICES ASSUME Init PROVE IInv
  OBVIOUS
<1>1. SB!IInv
  BY InitBuffer
<1>2. TypeOK
  <2>1. SB!TypeOK
    BY <1>1 DEF SB!IInv
  <2>2. next \in 1..(NConns + 1)
    BY ThreadPoolAssumption DEF Init
  <2> QED
    BY <2>1, <2>2 DEF Init, TypeOK
<1>3. OneFd /\ WorkerInv /\ KidInv
  BY NoClash DEF Init, OneFd, WorkerInv, KidInv
<1>4. ReplyInv
  <2>1. \A c \in Conns : ~(c < next)
    BY ThreadPoolAssumption DEF Init, Conns
  <2> QED
    BY <2>1 DEF Init, ReplyInv
<1>5. FdOwnership
  <2>1. ConnFds = {} /\ SrcFds = {}
    BY NoClash DEF Init, ConnFds, SrcFds
  <2>2. RingFds = {} /\ NoneTwice
    <3>1. front = 0 /\ rear = 0
      BY DEF Init, SB!Init
    <3>2. 1..(rear - front) = {}
      BY <3>1
    <3>3. DOMAIN Ring = {}
      BY <3>2 DEF Ring
    <3> QED
      BY <3>3 DEF RingFds, NoneTwice
  <2>3. \A t \in Threads : pc[t] = "out"
    BY DEF Init, SB!Init, SB!Threads, Threads
  <2>4. InMain = {}
    BY <2>3 DEF InMain, Threads
  <2>5. \A w \in Workers : Taken(w) = {}
    BY <2>3 DEF Init, Taken, Leaving, Serving, Threads
  <2>6. \A w \in Workers : srcfd[w] = None
    BY DEF Init
  <2> QED
    BY <2>1, <2>2, <2>4, <2>5, <2>6 DEF FdOwnership, ConnsOwned, FilesOwned
<1> QED
  BY <1>1, <1>2, <1>3, <1>4, <1>5 DEF IInv

LEMMA StepIInv == IInv /\ [Next]_vars => IInv'
<1>1. IInv /\ [Next]_vars => SB!IInv'
  BY StepBuffer DEF IInv
<1> QED
  BY <1>1, StepTypes, StepOneFd, StepWorkers, StepOwnership, StepKids, StepReplies DEF IInv

(* The inductive invariant of the pool.                                    *)
THEOREM Invariance == Spec => []IInv
BY InitIInv, StepIInv, PTL DEF Spec

(* While the server runs, each accepted connection is in the hands of main,*)
(* of sbuf or of one worker until it is closed, and no open file is lost.  *)
THEOREM DescriptorsOwned == Spec => []FdOwnership
<1>1. IInv => FdOwnership
  BY DEF IInv
<1> QED
  BY <1>1, Invariance, PTL

-----------------------------------------------------------------------------
LEMMA ImageBound ==
  ASSUME NEW S, IsFiniteSet(S), NEW V, NEW h \in [S -> V], NEW T, T \subseteq {h[x] : x \in S}
  PROVE  IsFiniteSet(T) /\ Cardinality(T) <= Cardinality(S)
<1> DEFINE I == {h[x] : x \in S}
<1>1. h \in Surjection(S, I)
  BY DEF Surjection
<1>2. IsFiniteSet(I) /\ Cardinality(I) <= Cardinality(S)
  BY <1>1, FS_Surjection
<1>3. IsFiniteSet(T) /\ Cardinality(T) <= Cardinality(I)
  BY <1>2, FS_Subset
<1>4. Cardinality(T) \in Int /\ Cardinality(I) \in Int /\ Cardinality(S) \in Int
  BY <1>2, <1>3, FS_CardinalityType
<1> HIDE DEF I
<1> QED
  BY <1>2, <1>3, <1>4

LEMMA UnionBound ==
  ASSUME NEW S, NEW T, IsFiniteSet(S), IsFiniteSet(T)
  PROVE  /\ IsFiniteSet(S \cup T) /\ Cardinality(S \cup T) \in Nat
         /\ Cardinality(S) \in Nat /\ Cardinality(T) \in Nat
         /\ Cardinality(S \cup T) <= Cardinality(S) + Cardinality(T)
<1>1. /\ IsFiniteSet(S \cup T)
      /\ Cardinality(S \cup T) = Cardinality(S) + Cardinality(T) - Cardinality(S \cap T)
  BY FS_Union
<1>2. IsFiniteSet(S \cap T)
  BY FS_Subset
<1>3. /\ Cardinality(S \cap T) \in Nat /\ Cardinality(S) \in Nat /\ Cardinality(T) \in Nat
      /\ Cardinality(S \cup T) \in Nat
  BY <1>1, <1>2, FS_CardinalityType
<1> QED
  BY <1>1, <1>3

(* sbuf holds at most N descriptors and every worker at most one           *)
(* connection and one file.                                                *)
LEMMA HowMany ==
  ASSUME IInv, end = "running", NEW S \in SUBSET Workers, \A w \in Workers \ S : srcfd[w] = None
  PROVE  /\ IsFiniteSet(ConnFds \cup SrcFds) /\ IsFiniteSet(InMain)
         /\ Cardinality(ConnFds \cup SrcFds)
              <= Cardinality(InMain) + N + Cardinality(Workers) + Cardinality(S)
<1> DEFINE B == UNION {Taken(w) : w \in Workers}
<1>1. ConnsOwned /\ FilesOwned /\ SB!IInv /\ WorkerInv /\ IsFiniteSet(Workers) /\ N \in Nat
  BY ThreadPoolAssumption DEF IInv, FdOwnership
<1>2. IsFiniteSet(InMain)
  BY FS_EmptySet, FS_Singleton DEF InMain
<1>3. IsFiniteSet(RingFds) /\ Cardinality(RingFds) <= N
  <2> DEFINE k == Len(Ring)
  <2>1. Ring \in [1..k -> Fds \cup {None}] /\ k \in 0..N
    BY <1>1, RingIsSequence
  <2> HIDE DEF k
  <2>2. IsFiniteSet(1..k) /\ Cardinality(1..k) = k
    BY <1>1, <2>1, FS_Interval
  <2>3. RingFds \subseteq {Ring[i] : i \in 1..k}
    BY <2>1 DEF RingFds
  <2>4. IsFiniteSet(RingFds) /\ Cardinality(RingFds) <= k
    BY <2>1, <2>2, <2>3, ImageBound
  <2>5. Cardinality(RingFds) \in Nat
    BY <2>4, FS_CardinalityType
  <2> QED
    BY <1>1, <2>1, <2>4, <2>5
<1>4. IsFiniteSet(B) /\ Cardinality(B) <= Cardinality(Workers)
  <2> DEFINE held(w) == IF pc[w] \in {"unlock", "post"} THEN item[w] ELSE connfd[w]
             h == [w \in Workers |-> held(w)]
             V == {held(w) : w \in Workers}
  <2>1. h \in [Workers -> V]
    OBVIOUS
  <2>2. \A w \in Workers : Taken(w) \subseteq {h[w]}
    BY <1>1 DEF Taken, Leaving, Serving, WorkerInv
  <2>3. B \subseteq {h[w] : w \in Workers}
    BY <2>2
  <2> HIDE DEF h, V, B
  <2> QED
    BY <1>1, <2>1, <2>3, ImageBound
<1>5. IsFiniteSet(SrcFds) /\ Cardinality(SrcFds) <= Cardinality(S) /\ IsFiniteSet(S)
  <2> DEFINE h == [w \in S |-> srcfd[w]]
             V == {srcfd[w] : w \in S}
  <2>1. IsFiniteSet(S)
    BY <1>1, FS_Subset
  <2>2. h \in [S -> V]
    OBVIOUS
  <2>3. SrcFds \subseteq {h[w] : w \in S}
    BY <1>1 DEF FilesOwned
  <2> HIDE DEF h, V
  <2> QED
    BY <2>1, <2>2, <2>3, ImageBound
<1>6. ConnFds \cup SrcFds = ((InMain \cup RingFds) \cup B) \cup SrcFds
  BY <1>1 DEF ConnsOwned
<1> HIDE DEF B
<1> DEFINE a == Cardinality(InMain)
           r == Cardinality(RingFds)
           t == Cardinality(B)
           o == Cardinality(SrcFds)
           u == Cardinality(InMain \cup RingFds)
           v == Cardinality((InMain \cup RingFds) \cup B)
           x == Cardinality(((InMain \cup RingFds) \cup B) \cup SrcFds)
           m == Cardinality(Workers)
           q == Cardinality(S)
<1>7. IsFiniteSet(InMain \cup RingFds) /\ u \in Nat /\ a \in Nat /\ r \in Nat /\ u <= a + r
  BY <1>2, <1>3, UnionBound
<1>8. IsFiniteSet((InMain \cup RingFds) \cup B) /\ v \in Nat /\ t \in Nat /\ v <= u + t
  BY <1>4, <1>7, UnionBound
<1>9. /\ IsFiniteSet(((InMain \cup RingFds) \cup B) \cup SrcFds)
      /\ x \in Nat /\ o \in Nat /\ x <= v + o
  BY <1>5, <1>8, UnionBound
<1>10. r <= N /\ t <= m /\ o <= q /\ m \in Nat /\ q \in Nat
  BY <1>1, <1>3, <1>4, <1>5, FS_CardinalityType
<1>11. x <= a + N + m + q
  <2> HIDE DEF a, r, t, o, u, v, x, m, q
  <2> QED
    BY <1>1, <1>7, <1>8, <1>9, <1>10
<1> QED
  BY <1>2, <1>6, <1>9, <1>11

(* With enough descriptors the table is not full where main and the        *)
(* workers take one.                                                       *)
LEMMA RoomInTable ==
  ASSUME IInv, end = "running", EnoughFds,
         \/ pc[Main] = "out"
         \/ \E w \in Workers : at[w] = "open"
  PROVE  ~Full
<1> SUFFICES ASSUME Full PROVE FALSE
  OBVIOUS
<1>1. Fds = ConnFds \cup SrcFds
  BY DEF Full, ConnFds, SrcFds, IInv, TypeOK
<1>2. Cardinality(Fds) = NFds /\ NFds \in Nat
  <2>1. NFds \in Nat
    BY ThreadPoolAssumption
  <2> QED
    BY <2>1, FS_Interval DEF Fds
<1> DEFINE m == Cardinality(Workers)
           a == Cardinality(InMain)
<1>3. /\ IsFiniteSet(Workers) /\ m \in Nat /\ N \in Nat /\ NFds >= 1 + N + 2 * m
      /\ WorkerInv
  BY ThreadPoolAssumption, FS_CardinalityType DEF EnoughFds, IInv
<1>4. a \in Nat /\ a <= 1 /\ (pc[Main] = "out" => a = 0)
  <2>1. Cardinality({}) = 0
    BY FS_EmptySet
  <2>2. Cardinality({item[Main]}) = 1
    BY FS_Singleton
  <2>3. /\ InMain = {} \/ InMain = {item[Main]}
        /\ pc[Main] = "out" => InMain = {}
    BY DEF InMain
  <2>4. CASE InMain = {}
    BY <2>1, <2>4
  <2>5. CASE InMain = {item[Main]} /\ InMain # {}
    BY <2>2, <2>3, <2>5
  <2> QED
    BY <2>3, <2>4, <2>5
<1>5. CASE pc[Main] = "out"
  <2>1. NFds <= a + N + m + m
    BY <1>1, <1>2, HowMany
  <2> HIDE DEF a, m
  <2> QED
    BY <1>2, <1>3, <1>4, <1>5, <2>1
<1>6. ASSUME NEW w \in Workers, at[w] = "open" PROVE FALSE
  <2>1. srcfd[w] = None
    BY <1>3, <1>6 DEF WorkerInv
  <2>2. Cardinality(Workers \ {w}) = m - 1
    BY <1>3, FS_RemoveElement
  <2>3. NFds <= a + N + m + Cardinality(Workers \ {w})
    BY <1>1, <1>2, <2>1, HowMany
  <2> HIDE DEF a, m
  <2> QED
    BY <1>2, <1>3, <1>4, <2>2, <2>3
<1> QED
  BY <1>5, <1>6

(* sbuf throttles accept: with a descriptor for main, one for each slot    *)
(* and two for each worker, the server never runs out of them.             *)
THEOREM DescriptorsSuffice == Spec => []NeverOutOfFds
<1>1. Init => NeverOutOfFds
  BY DEF Init, NeverOutOfFds
<1>2. IInv /\ NeverOutOfFds /\ [Next]_vars => NeverOutOfFds'
  <2> SUFFICES ASSUME IInv, NeverOutOfFds, [Next]_vars, EnoughFds, end' = "no descriptor"
               PROVE  FALSE
    BY DEF NeverOutOfFds, EnoughFds
  <2>1. end # "no descriptor"
    BY DEF NeverOutOfFds
  <2>2. \/ Accept /\ Full
        \/ \E w \in Workers : Open(w) /\ at[w] = "open" /\ Full
    BY <2>1 DEF Next, vars, Accept, Insert, Remove, Doit, ReadRequest, ClientError, ForkFails, Open,
       CloseSrc, Reply, Fork, Wait, Close, Exit, ChildExit, Deliver, Handle
  <2> QED
    BY <2>2, RoomInTable DEF Accept, Open, Runs
<1> QED
  BY <1>1, <1>2, Invariance, PTL DEF Spec

-----------------------------------------------------------------------------
LEMMA Numbers ==
  /\ \A n \in 1..(NConns + 1) : n \in Nat
  /\ \A c \in Conns : c \in Nat
<1>1. \A m : \A n \in 1..m : n \in Int /\ 1 <= n
  OBVIOUS
<1>2. \A n \in Int : 1 <= n => n \in Nat
  OBVIOUS
<1> QED
  BY <1>1, <1>2 DEF Conns

(* What the client of a connection sees.                                   *)
LEMMA StreamIs ==
  ASSUME TypeOK, NEW c \in Conns
  PROVE  /\ Stream(c) \in {"away", "open", "whole", "cut"}
         /\ c >= next => Stream(c) = "away"
         /\ c < next /\ IsOpen(c) => Stream(c) = "open"
         /\ c < next /\ ~IsOpen(c) =>
              Stream(c) = IF c \in replied THEN "whole" ELSE "cut"
<1>1. c \in Nat /\ next \in Nat
  BY Numbers DEF TypeOK
<1>2. c < next \/ c >= next
  BY <1>1
<1>3. ~(c < next /\ c >= next)
  BY <1>1
<1> QED
  BY <1>2, <1>3 DEF Stream, Ended

LEMMA StreamWillBe ==
  ASSUME TypeOK', NEW c \in Conns
  PROVE  /\ Stream(c)' \in {"away", "open", "whole", "cut"}
         /\ c >= next' => Stream(c)' = "away"
         /\ c < next' /\ IsOpen(c)' => Stream(c)' = "open"
         /\ c < next' /\ ~IsOpen(c)' =>
              Stream(c)' = IF c \in replied' THEN "whole" ELSE "cut"
<1>1. c \in Nat /\ next' \in Nat
  BY Numbers DEF TypeOK
<1>2. c < next' \/ c >= next'
  BY <1>1
<1>3. ~(c < next' /\ c >= next')
  BY <1>1
<1> QED
  BY <1>2, <1>3 DEF Stream, Ended

(* No descriptor of a connection appears after Accept.                     *)
LEMMA StaysOutOfTable ==
  ASSUME IInv, [Next]_vars, NEW c \in Conns, c < next, NEW f \in Fds, fdt'[f] = c
  PROVE  fdt[f] = c
<1>1. None \notin Conns /\ Src \notin Conns /\ c # next
  <2>1. c \in Nat /\ next \in Nat
    BY Numbers DEF IInv, TypeOK
  <2> QED
    BY <2>1, NoClash
<1>2. CASE end = "running" /\ end' = "running"
  BY <1>1, <1>2, TableMoves
<1>3. CASE end' # "running"
  <2>1. CASE \E why : Exit(why)
    BY <1>1, <2>1 DEF Exit
  <2>2. CASE ~ \E why : Exit(why)
    <3>1. end' = end
      BY <2>2 DEF Next, vars, Accept, Insert, Remove, Doit, ReadRequest, ClientError, ForkFails, Open,
         CloseSrc, Reply, Fork, Wait, Close, ChildExit, Deliver, Handle
    <3>2. fdt' = fdt
      BY <1>3, <3>1, <2>2 DEF Next, vars, Accept, Insert, Remove, Doit, ReadRequest,
         ClientError, ForkFails, Open, CloseSrc, Reply, Fork, Wait, Close, ChildExit, Deliver, Handle,
         Runs
    <3> QED
      BY <3>2
  <2> QED
    BY <2>1, <2>2
<1> QED
  BY <1>2, <1>3, StaysDown

(* Which replies are written, and which descriptors are inherited.         *)
LEMMA KidsAndReplies ==
  ASSUME IInv, [Next]_vars, NEW c \in Conns
  PROVE  /\ replied \subseteq replied'
         /\ c \in replied' \ replied =>
              \/ kid[c] = "running"
              \/ \E w \in Workers : at[w] = "reply" /\ end = "running" /\ c = Conn(w)
         /\ \A d \in Conns : c \in inherited'[d] =>
              c \in inherited[d] \/ \E f \in Fds : fdt[f] = c
<1> DEFINE Goal ==
      /\ replied \subseteq replied'
      /\ c \in replied' \ replied =>
           \/ kid[c] = "running"
           \/ \E w \in Workers : at[w] = "reply" /\ end = "running" /\ c = Conn(w)
      /\ \A d \in Conns : c \in inherited'[d] =>
           c \in inherited[d] \/ \E f \in Fds : fdt[f] = c
<1>1. inherited \in [Conns -> SUBSET Conns]
  BY DEF IInv, TypeOK
<1>2. ASSUME UNCHANGED <<inherited, replied>> PROVE Goal
  BY <1>2
<1>3. ASSUME NEW w \in Workers, Doit(w) PROVE Goal
  <2>1. CASE ReadRequest(w) \/ Open(w) \/ CloseSrc(w) \/ Wait(w) \/ Close(w) \/ ClientError(w) \/ ForkFails(w)
    BY <1>2, <2>1 DEF ReadRequest, Open, CloseSrc, Wait, Close, ClientError, ForkFails, Exit, kidVars
  <2>2. CASE Reply(w)
    BY <2>2 DEF Reply, Goto, Runs, kidVars
  <2>3. CASE Fork(w)
    BY <1>1, <2>3 DEF Fork
  <2> QED
    BY <1>3, <2>1, <2>2, <2>3 DEF Doit
<1>4. ASSUME NEW d \in Conns, ChildExit(d) PROVE Goal
  BY <1>1, <1>4 DEF ChildExit
<1>5. CASE Accept \/ Insert \/ (\E w \in Workers : Remove(w)) \/ UNCHANGED vars
  BY <1>2, <1>5 DEF Accept, Insert, Remove, Exit, vars, kidVars
<1>6. ASSUME NEW t \in Threads, Deliver(t) \/ Handle(t) PROVE Goal
  BY <1>2, <1>6 DEF Deliver, Handle
<1> QED
  BY <1>3, <1>4, <1>5, <1>6 DEF Next

(* The end of a stream is final.                                           *)
LEMMA StaysEnded ==
  ASSUME IInv, [Next]_vars, NEW c \in Conns, c < next, ~IsOpen(c)
  PROVE  ~IsOpen(c)' /\ (c \in replied' <=> c \in replied)
<1>1. \A f \in Fds : fdt[f] # c
  BY DEF IsOpen
<1>2. \A d \in Conns : c \notin inherited[d]
  BY DEF IsOpen, OpenInChild
<1>3. ~IsOpen(c)'
  <2>1. \A f \in Fds : fdt'[f] # c
    BY <1>1, StaysOutOfTable
  <2>2. \A d \in Conns : c \notin inherited'[d]
    BY <1>1, <1>2, KidsAndReplies
  <2> QED
    BY <2>1, <2>2 DEF IsOpen, OpenInChild
<1>4. kid[c] # "running"
  BY <1>2 DEF IInv, KidInv
<1>5. ASSUME NEW w \in Workers, at[w] = "reply", end = "running" PROVE c # Conn(w)
  BY <1>1, <1>5, Holds DEF Conn
<1> QED
  BY <1>3, <1>4, <1>5, KidsAndReplies

(* A stream that ends while the server lives is whole.                     *)
LEMMA StepStream ==
  ASSUME IInv, IInv', [Next]_vars, NEW c \in Conns, next' = next
  PROVE  \/ Stream(c)' = Stream(c)
         \/ Stream(c) = "open" /\ Stream(c)' = "whole"
         \/ Stream(c) = "open" /\ Stream(c)' = "cut" /\ end' # "running"
<1>1. TypeOK /\ TypeOK' /\ c \in Nat /\ next \in Nat
  BY Numbers DEF IInv, TypeOK
<1>2. CASE c >= next
  BY <1>1, <1>2, StreamIs, StreamWillBe
<1>3. CASE c < next /\ ~IsOpen(c)
  <2>1. ~IsOpen(c)' /\ (c \in replied' <=> c \in replied)
    BY <1>3, StaysEnded
  <2>2. Stream(c) = IF c \in replied THEN "whole" ELSE "cut"
    BY <1>1, <1>3, StreamIs
  <2>3. Stream(c)' = IF c \in replied' THEN "whole" ELSE "cut"
    BY <1>1, <1>3, <2>1, StreamWillBe
  <2> QED
    BY <2>1, <2>2, <2>3
<1>4. CASE c < next /\ IsOpen(c)
  <2>1. Stream(c) = "open"
    BY <1>1, <1>4, StreamIs
  <2>2. CASE IsOpen(c)'
    BY <1>1, <1>4, <2>1, <2>2, StreamWillBe
  <2>3. CASE ~IsOpen(c)'
    <3>1. Stream(c)' = IF c \in replied' THEN "whole" ELSE "cut"
      BY <1>1, <1>4, <2>3, StreamWillBe
    <3>2. ASSUME end' = "running" PROVE c \in replied'
      <4>1. (\A f \in Fds : fdt'[f] # c) /\ \A d \in Conns : c \notin inherited'[d]
        BY <2>3 DEF IsOpen, OpenInChild
      <4>2. Answering(c)'
        BY <1>4, <3>2, <4>1 DEF IInv, ReplyInv
      <4> QED
        BY <4>1, <4>2 DEF Answering
    <3> QED
      BY <2>1, <3>1, <3>2
  <2> QED
    BY <2>2, <2>3
<1>5. c < next \/ c >= next
  BY <1>1
<1> QED
  BY <1>2, <1>3, <1>4, <1>5

(* A step that accepts leaves the streams of the others as they are.       *)
LEMMA AcceptStream ==
  ASSUME IInv, IInv', [Next]_vars, next' # next
  PROVE  /\ end = "running" /\ end' = "running" /\ next \in Conns
         /\ Stream(next) = "away"
         /\ \A c \in Conns : Stream(c)' = IF c = next THEN "open" ELSE Stream(c)
<1>1. /\ TypeOK /\ TypeOK' /\ Conns \subseteq Nat /\ next \in Nat
      /\ fdt \in [Fds -> Conns \cup {None, Src}]
  BY Numbers DEF IInv, TypeOK
<1>2. Accept
  BY DEF Next, vars, Insert, Remove, Doit, ReadRequest, ClientError, ForkFails, Open, CloseSrc,
     Reply, Fork, Wait, Close, Exit, ChildExit, Deliver, Handle
<1>3. PICK f \in Fds : LowestFree(f) /\ fdt' = [fdt EXCEPT ![f] = next]
  BY <1>2 DEF Accept, Exit
<1>4. /\ end = "running" /\ end' = "running" /\ next \in Conns /\ next' = next + 1
      /\ UNCHANGED <<inherited, replied>>
  BY <1>2 DEF Accept, Exit, Runs, kidVars
<1>5. Stream(next) = "away"
  <2>1. next >= next
    BY <1>1
  <2> QED
    BY <1>1, <1>4, <2>1, StreamIs
<1>6. ASSUME NEW c \in Conns PROVE Stream(c)' = IF c = next THEN "open" ELSE Stream(c)
  <2>1. CASE c = next
    <3>1. c < next'
      BY <1>1, <1>4, <2>1
    <3>2. fdt'[f] = c
      BY <1>1, <1>3, <2>1
    <3>3. IsOpen(c)'
      BY <3>2 DEF IsOpen
    <3> QED
      BY <1>1, <2>1, <3>1, <3>3, StreamWillBe
  <2>2. CASE c # next
    <3>1. (c < next' <=> c < next) /\ (c >= next' <=> c >= next) /\ (c < next \/ c >= next)
      BY <1>1, <1>4, <2>2
    <3>2. fdt[f] = None /\ None \notin Conns
      BY <1>3, NoClash DEF LowestFree
    <3>3. \A g \in Fds : fdt'[g] = c <=> fdt[g] = c
      BY <1>1, <1>3, <2>2, <3>2
    <3>4. IsOpen(c)' <=> IsOpen(c)
      BY <1>4, <3>3 DEF IsOpen, OpenInChild
    <3>5. CASE c >= next
      BY <1>1, <2>2, <3>1, <3>5, StreamIs, StreamWillBe
    <3>6. CASE c < next /\ IsOpen(c)
      BY <1>1, <2>2, <3>1, <3>4, <3>6, StreamIs, StreamWillBe
    <3>7. CASE c < next /\ ~IsOpen(c)
      BY <1>1, <1>4, <2>2, <3>1, <3>4, <3>7, StreamIs, StreamWillBe
    <3> QED
      BY <3>1, <3>5, <3>6, <3>7
  <2> QED
    BY <2>1, <2>2
<1> QED
  BY <1>4, <1>5, <1>6

(* The pool implements the web server: no client of a server that lives    *)
(* sees its stream end before the whole reply, and an end is final.        *)
THEOREM PoolIsWebServer == Spec => IsWebServer
<1>1. Init => Web!Init
  <2> SUFFICES ASSUME Init PROVE Web!Init
    OBVIOUS
  <2>1. TypeOK /\ end = "running"
    BY InitIInv DEF IInv, Init
  <2>2. \A c \in Conns : c >= next
    BY ThreadPoolAssumption DEF Init, Conns
  <2>3. \A c \in Conns : Stream(c) = "away"
    BY <2>1, <2>2, StreamIs
  <2> QED
    BY <2>1, <2>3 DEF Web!Init
<1>2. IInv /\ IInv' /\ [Next]_vars => [Web!Next]_Web!vars
  <2> SUFFICES ASSUME IInv, IInv', [Next]_vars PROVE Web!Next
    BY DEF Web!vars
  <2> DEFINE S == [c \in Conns |-> Stream(c)]
             up(e) == IF e = "running" THEN "up" ELSE "down"
  <2>1. CASE next' = next
    <3>1. S' \in [Conns -> {"away", "open", "whole", "cut"}]
      BY StreamWillBe DEF IInv
    <3>2. \A c \in Conns : S[c] = Stream(c) /\ S'[c] = Stream(c)'
      OBVIOUS
    <3>3. \A c \in Conns :
            \/ S'[c] = S[c]
            \/ S[c] = "open" /\ S'[c] = "whole"
            \/ S[c] = "open" /\ S'[c] = "cut" /\ end' # "running"
      BY <2>1, <3>2, StepStream
    <3> HIDE DEF S
    <3>4. Web!End
      BY <3>1, <3>3 DEF Web!End, S
    <3>5. CASE end' = "running" \/ end # "running"
      BY <3>4, <3>5, StaysDown DEF Web!Next, Web!Serve
    <3>6. CASE end' # "running" /\ end = "running"
      BY <3>4, <3>6 DEF Web!Next, Web!Exit
    <3> QED
      BY <3>5, <3>6
  <2>2. CASE next' # next
    <3>1. /\ end = "running" /\ end' = "running" /\ next \in Conns /\ Stream(next) = "away"
          /\ \A c \in Conns : Stream(c)' = IF c = next THEN "open" ELSE Stream(c)
      BY <2>2, AcceptStream
    <3>2. S' = [S EXCEPT ![next] = "open"]
      BY <3>1
    <3>3. S[next] = "away"
      BY <3>1
    <3> HIDE DEF S
    <3>4. Web!Accept(next)
      BY <3>1, <3>2, <3>3 DEF Web!Accept, S
    <3> QED
      BY <3>1, <3>4 DEF Web!Next
  <2> QED
    BY <2>1, <2>2
<1> QED
  BY <1>1, <1>2, Invariance, PTL DEF Spec, IsWebServer, Web!Spec

===============================================================================
