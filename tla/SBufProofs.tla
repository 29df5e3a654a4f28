----------------------------- MODULE SBufProofs -----------------------------
(***************************************************************************)
(* Theorems about SBuf, for every number of slots, producers, consumers    *)
(* and items.  IInv is inductive; mutual exclusion, the accounting of the  *)
(* semaphores, the bounds of the ring and the implementation of            *)
(* BoundedQueue follow from it.                                            *)
(***************************************************************************)
EXTENDS SBuf, FiniteSetTheorems, SequenceTheorems, TLAPS

(* The four sets the semaphore accounting counts are finite.               *)
LEMMA FiniteCounts ==
  /\ IsFiniteSet(Reserving) /\ IsFiniteSet(Claiming)
  /\ IsFiniteSet(Publishing) /\ IsFiniteSet(Expecting)
  /\ Cardinality(Reserving) \in Nat /\ Cardinality(Claiming) \in Nat
  /\ Cardinality(Publishing) \in Nat /\ Cardinality(Expecting) \in Nat
<1>1. Reserving \subseteq Producers /\ Publishing \subseteq Producers
  BY DEF Reserving, Publishing
<1>2. Claiming \subseteq Consumers /\ Expecting \subseteq Consumers
  BY DEF Claiming, Expecting
<1>3. IsFiniteSet(Producers) /\ IsFiniteSet(Consumers)
  BY SBufAssumption
<1>4. /\ IsFiniteSet(Reserving) /\ IsFiniteSet(Claiming)
      /\ IsFiniteSet(Publishing) /\ IsFiniteSet(Expecting)
  BY <1>1, <1>2, <1>3, FS_Subset
<1> QED
  BY <1>4, FS_CardinalityType

(* Cardinality of a finite set that gains or loses one element.            *)
LEMMA Gain ==
  ASSUME NEW S, IsFiniteSet(S), NEW e, e \notin S
  PROVE  Cardinality(S \cup {e}) = Cardinality(S) + 1
BY FS_AddElement

LEMMA Loss ==
  ASSUME NEW S, IsFiniteSet(S), NEW e, e \in S
  PROVE  Cardinality(S \ {e}) = Cardinality(S) - 1
BY FS_RemoveElement

-----------------------------------------------------------------------------
(* The invariant holds when sbuf_init returns.                             *)
LEMMA InitIInv == Init => IInv
<1> SUFFICES ASSUME Init PROVE IInv
  OBVIOUS
<1> USE SBufAssumption DEF Init
<1>1. TypeOK
  BY DEF TypeOK, Labels, Semaphores
<1>2. PcByRole /\ ItemInv /\ MutualExclusion /\ MutexInv
  BY DEF PcByRole, ItemInv, MutualExclusion, MutexInv, InCS, Threads, Semaphores
<1>3. Reserving = {} /\ Claiming = {} /\ Publishing = {} /\ Expecting = {}
  BY DEF Reserving, Claiming, Publishing, Expecting, Threads
<1>4. SlotsConserved /\ Occupancy
  BY <1>3, FS_EmptySet DEF SlotsConserved, Occupancy, Semaphores
<1> QED
  BY <1>1, <1>2, <1>4 DEF IInv

(* Types, the labels of each role and the producers' parameters.           *)
LEMMA StepTypes == IInv /\ [Next]_vars => (TypeOK /\ PcByRole /\ ItemInv)'
<1> SUFFICES ASSUME IInv, [Next]_vars
             PROVE  (TypeOK /\ PcByRole /\ ItemInv)'
  OBVIOUS
<1> USE SBufAssumption DEF IInv, TypeOK, PcByRole, ItemInv, Labels, Semaphores, Threads, Goto
<1>1. ASSUME NEW p \in Producers, NEW x \in Items, CallInsert(p, x)
      PROVE  (TypeOK /\ PcByRole /\ ItemInv)'
  BY <1>1 DEF CallInsert
<1>2. ASSUME NEW p \in Producers, Insert(p)
      PROVE  (TypeOK /\ PcByRole /\ ItemInv)'
  <2>1. CASE Wait(p, "slots", "slots", "mutex")
    BY <2>1 DEF Wait, P
  <2>2. CASE Wait(p, "mutex", "mutex", "load")
    BY <2>2 DEF Wait, P
  <2>3. CASE Load(p, rear, "store")
    BY <2>3 DEF Load
  <2>4. CASE Store(p)
    BY <2>4 DEF Store
  <2>5. CASE Unlock(p)
    BY <2>5 DEF Unlock, V
  <2>6. CASE PostAndReturn(p, "items")
    BY <2>6 DEF PostAndReturn, V
  <2> QED
    BY <1>2, <2>1, <2>2, <2>3, <2>4, <2>5, <2>6 DEF Insert
<1>3. ASSUME NEW c \in Consumers, CallRemove(c)
      PROVE  (TypeOK /\ PcByRole /\ ItemInv)'
  BY <1>3 DEF CallRemove
<1>4. ASSUME NEW c \in Consumers, Remove(c)
      PROVE  (TypeOK /\ PcByRole /\ ItemInv)'
  <2>1. CASE Wait(c, "items", "items", "mutex")
    BY <2>1 DEF Wait, P
  <2>2. CASE Wait(c, "mutex", "mutex", "load")
    BY <2>2 DEF Wait, P
  <2>3. CASE Load(c, front, "fetch")
    BY <2>3 DEF Load
  <2>4. CASE Fetch(c)
    BY <2>4 DEF Fetch
  <2>5. CASE Unlock(c)
    BY <2>5 DEF Unlock, V
  <2>6. CASE PostAndReturn(c, "slots")
    BY <2>6 DEF PostAndReturn, V
  <2> QED
    BY <1>4, <2>1, <2>2, <2>3, <2>4, <2>5, <2>6 DEF Remove
<1>5. CASE UNCHANGED vars
  BY <1>5 DEF vars
<1> QED
  BY <1>1, <1>2, <1>3, <1>4, <1>5 DEF Next

-----------------------------------------------------------------------------
(* The critical section.  A step of thread t keeps the set of threads in   *)
(* it, or is t's entry, or is t's exit.                                    *)
LEMMA StepMutex == IInv /\ [Next]_vars => (MutualExclusion /\ MutexInv)'
<1> SUFFICES ASSUME IInv, [Next]_vars
             PROVE  (MutualExclusion /\ MutexInv)'
  OBVIOUS
<1> USE SBufAssumption DEF IInv, TypeOK, PcByRole, MutualExclusion, MutexInv, InCS,
                           Semaphores, Threads, Goto
<1>1. ASSUME NEW t \in Threads, Wait(t, "mutex", "mutex", "load")
      PROVE  (MutualExclusion /\ MutexInv)'
  <2>1. \A u \in Threads : ~InCS(u)
    BY <1>1 DEF Wait, P
  <2>2. \A u \in Threads : InCS(u)' <=> u = t
    BY <1>1, <2>1 DEF Wait
  <2>3. sem'["mutex"] = 0
    BY <1>1, <2>1 DEF Wait, P
  <2> QED
    BY <1>1, <2>1, <2>2, <2>3 DEF Wait
<1>2. ASSUME NEW t \in Threads, Unlock(t)
      PROVE  (MutualExclusion /\ MutexInv)'
  <2>1. \A u \in Threads : InCS(u) <=> u = t
    BY <1>2 DEF Unlock
  <2>2. \A u \in Threads : ~InCS(u)'
    BY <1>2, <2>1 DEF Unlock
  <2>3. sem'["mutex"] = 1
    BY <1>2, <2>1 DEF Unlock, V
  <2> QED
    BY <2>2, <2>3
<1>3. ASSUME NEW p \in Producers, NEW x \in Items, CallInsert(p, x)
      PROVE  (MutualExclusion /\ MutexInv)'
  BY <1>3 DEF CallInsert
<1>4. ASSUME NEW p \in Producers, Insert(p)
      PROVE  (MutualExclusion /\ MutexInv)'
  <2>1. CASE Wait(p, "slots", "slots", "mutex")
    BY <2>1 DEF Wait, P
  <2>2. CASE Wait(p, "mutex", "mutex", "load")
    BY <2>2, <1>1
  <2>3. CASE Load(p, rear, "store")
    BY <2>3 DEF Load
  <2>4. CASE Store(p)
    BY <2>4 DEF Store
  <2>5. CASE Unlock(p)
    BY <2>5, <1>2
  <2>6. CASE PostAndReturn(p, "items")
    BY <2>6 DEF PostAndReturn, V
  <2> QED
    BY <1>4, <2>1, <2>2, <2>3, <2>4, <2>5, <2>6 DEF Insert
<1>5. ASSUME NEW c \in Consumers, CallRemove(c)
      PROVE  (MutualExclusion /\ MutexInv)'
  BY <1>5 DEF CallRemove
<1>6. ASSUME NEW c \in Consumers, Remove(c)
      PROVE  (MutualExclusion /\ MutexInv)'
  <2>1. CASE Wait(c, "items", "items", "mutex")
    BY <2>1 DEF Wait, P
  <2>2. CASE Wait(c, "mutex", "mutex", "load")
    BY <2>2, <1>1
  <2>3. CASE Load(c, front, "fetch")
    BY <2>3 DEF Load
  <2>4. CASE Fetch(c)
    BY <2>4 DEF Fetch
  <2>5. CASE Unlock(c)
    BY <2>5, <1>2
  <2>6. CASE PostAndReturn(c, "slots")
    BY <2>6 DEF PostAndReturn, V
  <2> QED
    BY <1>6, <2>1, <2>2, <2>3, <2>4, <2>5, <2>6 DEF Remove
<1>7. CASE UNCHANGED vars
  BY <1>7 DEF vars
<1> QED
  BY <1>3, <1>4, <1>5, <1>6, <1>7 DEF Next

-----------------------------------------------------------------------------
(* The accounting.  Each step moves at most one slot from one of the       *)
(* counted places to another.                                              *)
LEMMA StepCounts == IInv /\ [Next]_vars => (SlotsConserved /\ Occupancy)'
<1> SUFFICES ASSUME IInv, [Next]_vars
             PROVE  (SlotsConserved /\ Occupancy)'
  OBVIOUS
<1> DEFINE R == Cardinality(Reserving)
           C == Cardinality(Claiming)
           U == Cardinality(Publishing)
           E == Cardinality(Expecting)
           Same == UNCHANGED <<Reserving, Claiming, Publishing, Expecting>>
<1>0. /\ R \in Nat /\ C \in Nat /\ U \in Nat /\ E \in Nat
      /\ IsFiniteSet(Reserving) /\ IsFiniteSet(Claiming)
      /\ IsFiniteSet(Publishing) /\ IsFiniteSet(Expecting)
  BY FiniteCounts
<1>a. /\ sem["slots"] + sem["items"] + R + C = N
      /\ rear - front = sem["items"] + U + E
      /\ sem["slots"] \in Nat /\ sem["items"] \in Nat /\ N \in Nat
      /\ rear \in Nat /\ front \in Nat
  BY SBufAssumption DEF IInv, SlotsConserved, Occupancy, TypeOK, Semaphores
<1>s. ASSUME Same, UNCHANGED <<rear, front>>,
             sem'["slots"] = sem["slots"], sem'["items"] = sem["items"]
      PROVE  (SlotsConserved /\ Occupancy)'
  <2>1. R' = R /\ C' = C /\ U' = U /\ E' = E
    BY <1>s
  <2> QED
    BY <2>1, <1>a, <1>s DEF SlotsConserved, Occupancy
<1>1. ASSUME NEW p \in Producers, NEW x \in Items, CallInsert(p, x)
      PROVE  (SlotsConserved /\ Occupancy)'
  <2>1. Same
    BY <1>1, SBufAssumption
    DEF CallInsert, Goto, IInv, TypeOK, Threads, Reserving, Claiming, Publishing, Expecting
  <2> QED
    BY <1>1, <2>1, <1>s DEF CallInsert
<1>2. ASSUME NEW c \in Consumers, CallRemove(c)
      PROVE  (SlotsConserved /\ Occupancy)'
  <2>1. Same
    BY <1>2, SBufAssumption
    DEF CallRemove, Goto, IInv, TypeOK, Threads, Reserving, Claiming, Publishing, Expecting
  <2> QED
    BY <1>2, <2>1, <1>s DEF CallRemove
<1>3. ASSUME NEW t \in Threads,
             \/ Wait(t, "mutex", "mutex", "load")
             \/ Load(t, rear, "store") /\ t \in Producers
             \/ Load(t, front, "fetch") /\ t \in Consumers
             \/ Unlock(t)
      PROVE  (SlotsConserved /\ Occupancy)'
  <2>1. Same
    BY <1>3, SBufAssumption
    DEF Wait, Load, Unlock, Goto, IInv, TypeOK, Threads,
        Reserving, Claiming, Publishing, Expecting
  <2>2. sem'["slots"] = sem["slots"] /\ sem'["items"] = sem["items"]
    BY <1>3 DEF Wait, P, Load, Unlock, V, IInv, TypeOK, Semaphores
  <2>3. UNCHANGED <<rear, front>>
    BY <1>3 DEF Wait, Load, Unlock
  <2> QED
    BY <2>1, <2>2, <2>3, <1>s
<1>4. ASSUME NEW p \in Producers, Wait(p, "slots", "slots", "mutex")
      PROVE  (SlotsConserved /\ Occupancy)'
  <2>1. /\ Reserving' = Reserving \cup {p} /\ p \notin Reserving
        /\ UNCHANGED <<Claiming, Publishing, Expecting>>
    BY <1>4, SBufAssumption
    DEF Wait, Goto, IInv, TypeOK, Threads, Reserving, Claiming, Publishing, Expecting
  <2>2. R' = R + 1 /\ C' = C /\ U' = U /\ E' = E
    BY <2>1, <1>0, Gain
  <2>3. /\ sem'["slots"] = sem["slots"] - 1 /\ sem'["items"] = sem["items"]
        /\ rear' = rear /\ front' = front
    BY <1>4 DEF Wait, P, IInv, TypeOK, Semaphores
  <2> QED
    BY <2>2, <2>3, <1>0, <1>a DEF SlotsConserved, Occupancy
<1>5. ASSUME NEW p \in Producers, Store(p)
      PROVE  (SlotsConserved /\ Occupancy)'
  <2>1. /\ Publishing' = Publishing \cup {p} /\ p \notin Publishing
        /\ UNCHANGED <<Reserving, Claiming, Expecting>>
    BY <1>5, SBufAssumption
    DEF Store, Goto, IInv, TypeOK, Threads, Reserving, Claiming, Publishing, Expecting
  <2>2. R' = R /\ C' = C /\ U' = U + 1 /\ E' = E
    BY <2>1, <1>0, Gain
  <2>3. sem' = sem /\ rear' = rear + 1 /\ front' = front
    BY <1>5 DEF Store, Goto, IInv, MutexInv, Threads
  <2> QED
    BY <2>2, <2>3, <1>0, <1>a DEF SlotsConserved, Occupancy
<1>6. ASSUME NEW p \in Producers, PostAndReturn(p, "items")
      PROVE  (SlotsConserved /\ Occupancy)'
  <2>1. /\ Reserving' = Reserving \ {p} /\ p \in Reserving
        /\ Publishing' = Publishing \ {p} /\ p \in Publishing
        /\ UNCHANGED <<Claiming, Expecting>>
    BY <1>6, SBufAssumption
    DEF PostAndReturn, Goto, IInv, TypeOK, Threads, Reserving, Claiming, Publishing, Expecting
  <2>2. R' = R - 1 /\ C' = C /\ U' = U - 1 /\ E' = E
    BY <2>1, <1>0, Loss
  <2>3. /\ sem'["slots"] = sem["slots"] /\ sem'["items"] = sem["items"] + 1
        /\ rear' = rear /\ front' = front
    BY <1>6 DEF PostAndReturn, V, IInv, TypeOK, Semaphores
  <2> QED
    BY <2>2, <2>3, <1>0, <1>a DEF SlotsConserved, Occupancy
<1>7. ASSUME NEW c \in Consumers, Wait(c, "items", "items", "mutex")
      PROVE  (SlotsConserved /\ Occupancy)'
  <2>1. /\ Claiming' = Claiming \cup {c} /\ c \notin Claiming
        /\ Expecting' = Expecting \cup {c} /\ c \notin Expecting
        /\ UNCHANGED <<Reserving, Publishing>>
    BY <1>7, SBufAssumption
    DEF Wait, Goto, IInv, TypeOK, Threads, Reserving, Claiming, Publishing, Expecting
  <2>2. R' = R /\ C' = C + 1 /\ U' = U /\ E' = E + 1
    BY <2>1, <1>0, Gain
  <2>3. /\ sem'["slots"] = sem["slots"] /\ sem'["items"] = sem["items"] - 1
        /\ rear' = rear /\ front' = front
    BY <1>7 DEF Wait, P, IInv, TypeOK, Semaphores
  <2> QED
    BY <2>2, <2>3, <1>0, <1>a DEF SlotsConserved, Occupancy
<1>8. ASSUME NEW c \in Consumers, Fetch(c)
      PROVE  (SlotsConserved /\ Occupancy)'
  <2>1. /\ Expecting' = Expecting \ {c} /\ c \in Expecting
        /\ UNCHANGED <<Reserving, Claiming, Publishing>>
    BY <1>8, SBufAssumption
    DEF Fetch, Goto, IInv, TypeOK, Threads, Reserving, Claiming, Publishing, Expecting
  <2>2. R' = R /\ C' = C /\ U' = U /\ E' = E - 1
    BY <2>1, <1>0, Loss
  <2>3. sem' = sem /\ rear' = rear /\ front' = front + 1
    BY <1>8 DEF Fetch, Goto, IInv, MutexInv, Threads
  <2>4. SlotsConserved'
    BY <2>2, <2>3, <1>a DEF SlotsConserved
  <2>5. rear - (front + 1) = sem["items"] + U + (E - 1)
    <3> HIDE DEF R, C, U, E
    <3> QED
      BY <1>0, <1>a
  <2>6. Occupancy'
    BY <2>2, <2>3, <2>5 DEF Occupancy
  <2> QED
    BY <2>4, <2>6
<1>9. ASSUME NEW c \in Consumers, PostAndReturn(c, "slots")
      PROVE  (SlotsConserved /\ Occupancy)'
  <2>1. /\ Claiming' = Claiming \ {c} /\ c \in Claiming
        /\ UNCHANGED <<Reserving, Publishing, Expecting>>
    BY <1>9, SBufAssumption
    DEF PostAndReturn, Goto, IInv, TypeOK, Threads, Reserving, Claiming, Publishing, Expecting
  <2>2. R' = R /\ C' = C - 1 /\ U' = U /\ E' = E
    BY <2>1, <1>0, Loss
  <2>3. /\ sem'["slots"] = sem["slots"] + 1 /\ sem'["items"] = sem["items"]
        /\ rear' = rear /\ front' = front
    BY <1>9 DEF PostAndReturn, V, IInv, TypeOK, Semaphores
  <2> QED
    BY <2>2, <2>3, <1>0, <1>a DEF SlotsConserved, Occupancy
<1>10. CASE UNCHANGED vars
  <2>1. Same
    BY <1>10 DEF vars, Reserving, Claiming, Publishing, Expecting
  <2> QED
    BY <1>10, <2>1, <1>s DEF vars
<1> QED
  BY <1>1, <1>2, <1>3, <1>4, <1>5, <1>6, <1>7, <1>8, <1>9, <1>10
  DEF Next, Insert, Remove, Threads

(* IInv is inductive.                                                      *)
LEMMA StepIInv == IInv /\ [Next]_vars => IInv'
BY StepTypes, StepMutex, StepCounts DEF IInv

(* Announced and granted items fit in the slots that are not available.    *)
LEMMA RingFromIInv == IInv => RingBounded
<1> SUFFICES ASSUME IInv PROVE RingBounded
  OBVIOUS
<1>1. Publishing \subseteq Reserving /\ Expecting \subseteq Claiming
  BY DEF Publishing, Reserving, Expecting, Claiming
<1>2. /\ Cardinality(Publishing) <= Cardinality(Reserving)
      /\ Cardinality(Expecting) <= Cardinality(Claiming)
  BY <1>1, FiniteCounts, FS_Subset
<1>3. sem["slots"] \in Nat /\ sem["items"] \in Nat /\ N \in Nat
  BY SBufAssumption DEF IInv, TypeOK, Semaphores
<1> QED
  BY <1>2, <1>3, FiniteCounts DEF IInv, SlotsConserved, Occupancy, RingBounded

-----------------------------------------------------------------------------
(* Every reachable state satisfies the inductive invariant.                *)
THEOREM Invariance == Spec => []IInv
BY InitIInv, StepIInv, PTL DEF Spec

(* No two threads are between P(mutex) and V(mutex) of sbuf_insert or      *)
(* sbuf_remove.                                                            *)
THEOREM MutexCorrect == Spec => []MutualExclusion
<1>1. IInv => MutualExclusion
  BY DEF IInv
<1> QED
  BY <1>1, Invariance, PTL

(* The semaphores slots and items count what sbuf_t says they count.       *)
THEOREM SlotsCorrect == Spec => []SlotsConserved
<1>1. IInv => SlotsConserved
  BY DEF IInv
<1> QED
  BY <1>1, Invariance, PTL

(* The ring never holds fewer than no items or more than N.                *)
THEOREM RingCorrect == Spec => []RingBounded
BY RingFromIInv, Invariance, PTL
-----------------------------------------------------------------------------
(* SBuf implements BoundedQueue: every step of a thread is a step of the   *)
(* queue or leaves the queue as it is.  The store into a slot is Put, the  *)
(* read of a slot is Get; IInv says that a store meets no unread slot and  *)
(* that a read meets a stored one.                                         *)

(* Two positions less than n apart have different slots.                   *)
LEMMA SlotsApart ==
  ASSUME NEW n \in Nat, n > 0, NEW a \in Nat, NEW b \in Nat, a < b, b - a < n
  PROVE  a % n # b % n
<1> SUFFICES ASSUME a % n = b % n PROVE FALSE
  OBVIOUS
<1>1. a = n * (a \div n) + (a % n) /\ a \div n \in Int /\ a % n \in 0..(n - 1)
  OBVIOUS
<1>2. b = n * (b \div n) + (b % n) /\ b \div n \in Int
  OBVIOUS
<1> DEFINE p == a \div n
           q == b \div n
           r == a % n
<1>3. p \in Int /\ q \in Int /\ r \in Int /\ a = n * p + r /\ b = n * q + r
  BY <1>1, <1>2
<1> HIDE DEF p, q, r
<1> DEFINE k == q - p
<1>4. k \in Int /\ b - a = n * k
  BY <1>3
<1> HIDE DEF k
<1>5. k >= 1
  <2>1. k <= 0 => n * k <= 0
    BY <1>4
  <2> QED
    BY <1>4, <2>1
<1>6. n * k >= n
  <2>1. n * (k - 1) >= 0
    BY <1>4, <1>5
  <2>2. n * k = n * (k - 1) + n
    BY <1>4
  <2>3. n * k \in Int /\ n * (k - 1) \in Int
    BY <1>4
  <2> QED
    BY <2>1, <2>2, <2>3
<1> QED
  BY <1>4, <1>6

(* A position has a slot.                                                  *)
LEMMA SlotType == ASSUME NEW a \in Nat PROVE a % N \in 0..(N - 1)
BY SBufAssumption

Values == Items \cup {None}

(* What the ring holds is a sequence of as many values as the counters say.*)
RingIsSeq ==
  /\ Contents \in Seq(Values)
  /\ Len(Contents) = rear - front
  /\ \A i \in 1..(rear - front) : Contents[i] = buf[(front + i) % N]

LEMMA ContentsType == IInv => RingIsSeq
<1> SUFFICES ASSUME IInv PROVE RingIsSeq
  OBVIOUS
<1>1. front \in Nat /\ rear \in Nat /\ rear - front \in Nat
  BY RingFromIInv DEF RingBounded, IInv, TypeOK
<1>2. \A i \in 1..(rear - front) : buf[(front + i) % N] \in Values
  <2>1. buf \in [0..(N - 1) -> Values]
    BY DEF IInv, TypeOK, Values
  <2>2. ASSUME NEW i \in 1..(rear - front) PROVE (front + i) % N \in 0..(N - 1)
    <3>1. front + i \in Nat
      BY <1>1
    <3> QED
      BY <3>1, SlotType
  <2> QED
    BY <2>1, <2>2
<1>3. Contents \in [1..(rear - front) -> Values]
  BY <1>2 DEF Contents
<1>4. Contents \in Seq(Values) /\ Len(Contents) = rear - front
  BY <1>1, <1>3
<1> QED
  BY <1>4 DEF Contents, RingIsSeq

(* A step that leaves the ring alone.                                      *)
LEMMA SameContents ==
  UNCHANGED <<buf, front, rear>> => Contents' = Contents
BY DEF Contents

(* A store appends the item of its thread.                                 *)
LEMMA StoreAppends ==
  ASSUME IInv, IInv', NEW p \in Producers, Store(p)
  PROVE  Contents' = Append(Contents, item[p]) /\ Len(Contents) < N
<1> DEFINE k == rear - front
<1>1. /\ rear' = rear + 1 /\ front' = front
      /\ buf' = [buf EXCEPT ![(rear + 1) % N] = item[p]]
  BY DEF Store, Goto, IInv, MutexInv, Threads
<1>2. /\ front \in Nat /\ rear \in Nat /\ k \in Nat /\ k + 1 <= N
      /\ N \in Nat /\ N > 0 /\ rear = front + k
  <2>1. RingBounded /\ RingBounded'
    BY RingFromIInv, PTL
  <2> QED
    BY <2>1, <1>1, SBufAssumption DEF RingBounded, IInv, TypeOK
<1>3. item[p] \in Values
  BY DEF IInv, TypeOK, Threads, Values
<1>4. /\ Contents \in Seq(Values) /\ Len(Contents) = k
      /\ \A i \in 1..k : Contents[i] = buf[(front + i) % N]
  BY ContentsType DEF RingIsSeq
<1>5. /\ Contents' \in Seq(Values) /\ Len(Contents') = k + 1
      /\ \A i \in 1..(k + 1) : Contents'[i] = buf'[(front + i) % N]
  <2>1. RingIsSeq'
    BY ContentsType, PTL
  <2>2. rear' - front' = k + 1
    BY <1>1, <1>2
  <2> QED
    BY <2>1, <2>2, <1>1 DEF RingIsSeq
<1> HIDE DEF k
<1>6. \A i \in 1..k : buf'[(front + i) % N] = buf[(front + i) % N]
  <2> SUFFICES ASSUME NEW i \in 1..k
               PROVE  buf'[(front + i) % N] = buf[(front + i) % N]
    OBVIOUS
  <2>1. /\ (front + i) % N # (rear + 1) % N
        /\ (front + i) % N \in 0..(N - 1)
    <3> DEFINE u == front + i
               v == rear + 1
    <3>1. u \in Nat /\ v \in Nat /\ u < v /\ v - u < N
      BY <1>2
    <3> HIDE DEF u, v
    <3>2. u % N # v % N /\ u % N \in 0..(N - 1)
      BY <1>2, <3>1, SlotsApart, SlotType
    <3> QED
      BY <3>2 DEF u, v
  <2>2. buf \in [0..(N - 1) -> Values] /\ (rear + 1) % N \in 0..(N - 1)
    BY <1>2, SlotType DEF IInv, TypeOK, Values
  <2> DEFINE a == (front + i) % N
             b == (rear + 1) % N
  <2>3. a # b /\ a \in 0..(N - 1) /\ b \in 0..(N - 1) /\ buf' = [buf EXCEPT ![b] = item[p]]
    BY <1>1, <2>1, <2>2
  <2> HIDE DEF a, b
  <2>4. buf'[a] = buf[a]
    BY <2>2, <2>3
  <2> QED
    BY <2>4 DEF a
<1>7. buf'[(front + (k + 1)) % N] = item[p]
  <2>1. front + (k + 1) = rear + 1 /\ (rear + 1) % N \in 0..(N - 1)
    BY <1>2, SlotType
  <2>2. buf \in [0..(N - 1) -> Values]
    BY DEF IInv, TypeOK, Values
  <2> QED
    BY <1>1, <2>1, <2>2
<1> DEFINE s == Append(Contents, item[p])
<1>8. /\ s \in Seq(Values) /\ Len(s) = k + 1
      /\ \A i \in 1..k : s[i] = Contents[i]
      /\ s[k + 1] = item[p]
  BY <1>3, <1>4, AppendProperties
<1> HIDE DEF s
<1>9. \A i \in 1..(k + 1) : Contents'[i] = s[i]
  <2> SUFFICES ASSUME NEW i \in 1..(k + 1) PROVE Contents'[i] = s[i]
    OBVIOUS
  <2>1. CASE i \in 1..k
    BY <2>1, <1>2, <1>4, <1>5, <1>6, <1>8
  <2>2. CASE i = k + 1
    BY <2>2, <1>5, <1>7, <1>8
  <2> QED
    BY <1>2, <2>1, <2>2
<1>10. Contents' = s
  BY <1>5, <1>8, <1>9, SeqEqual
<1> QED
  BY <1>10, <1>2, <1>4 DEF s

(* A read takes the head of the ring.                                      *)
LEMMA FetchTakesHead ==
  ASSUME IInv, IInv', NEW c \in Consumers, Fetch(c)
  PROVE  /\ Contents # << >> /\ Contents' = Tail(Contents)
         /\ item' = [item EXCEPT ![c] = Head(Contents)]
<1> DEFINE k == rear - front
<1>1. /\ rear' = rear /\ front' = front + 1 /\ buf' = buf
      /\ item' = [item EXCEPT ![c] = buf[(front + 1) % N]]
  BY DEF Fetch, Goto, IInv, MutexInv, Threads
<1>2. front \in Nat /\ rear \in Nat /\ k \in Nat /\ k >= 1
  <2>1. RingBounded /\ RingBounded'
    BY RingFromIInv, PTL
  <2> QED
    BY <2>1, <1>1, SBufAssumption DEF RingBounded, IInv, TypeOK
<1>3. /\ Contents \in Seq(Values) /\ Len(Contents) = k
      /\ \A i \in 1..k : Contents[i] = buf[(front + i) % N]
  BY ContentsType DEF RingIsSeq
<1>4. /\ Contents' \in Seq(Values) /\ Len(Contents') = k - 1
      /\ \A i \in 1..(k - 1) : Contents'[i] = buf[(front + 1 + i) % N]
  <2>1. RingIsSeq'
    BY ContentsType, PTL
  <2>2. rear' - front' = k - 1
    BY <1>1, <1>2
  <2> QED
    BY <2>1, <2>2, <1>1 DEF RingIsSeq
<1> HIDE DEF k
<1>5. Contents # << >>
  BY <1>2, <1>3
<1> DEFINE s == Tail(Contents)
<1>6. /\ s \in Seq(Values) /\ Len(s) = k - 1
      /\ \A i \in 1..(k - 1) : s[i] = Contents[i + 1]
  BY <1>3, <1>5, HeadTailProperties
<1> HIDE DEF s
<1>7. \A i \in 1..(k - 1) : Contents'[i] = s[i]
  <2> SUFFICES ASSUME NEW i \in 1..(k - 1) PROVE Contents'[i] = s[i]
    OBVIOUS
  <2>1. i + 1 \in 1..k /\ front + (i + 1) = front + 1 + i
    BY <1>2
  <2> QED
    BY <2>1, <1>3, <1>4, <1>6
<1>8. Contents' = s
  BY <1>4, <1>6, <1>7, SeqEqual
<1>9. Head(Contents) = buf[(front + 1) % N]
  BY <1>2, <1>3, <1>5
<1> QED
  BY <1>1, <1>5, <1>8, <1>9 DEF s

-----------------------------------------------------------------------------
Phases == [t \in Threads |-> Phase(t)]

PhaseOf(l) == IF l = "out" THEN "out"
              ELSE IF l \in {"unlock", "post"} THEN "done" ELSE "called"

(* A thread that goes to label l changes its own phase only.               *)
LEMMA PhaseStep ==
  ASSUME IInv, NEW t \in Threads, NEW from, NEW l, Goto(t, from, l)
  PROVE  Phases[t] = PhaseOf(from) /\ Phases' = [Phases EXCEPT ![t] = PhaseOf(l)]
BY DEF Goto, Phases, Phase, PhaseOf, IInv, TypeOK

(* A step inside a call, before or after it takes effect.                  *)
LEMMA SamePhase ==
  ASSUME IInv, NEW t \in Threads, NEW from, NEW l, Goto(t, from, l),
         \/ /\ from \in {"slots", "items", "mutex", "load"}
            /\ l \in {"mutex", "load", "store", "fetch"}
         \/ from = "unlock" /\ l = "post"
  PROVE  Phases' = Phases
BY DEF Goto, Phases, Phase, IInv, TypeOK

LEMMA InitQueue == Init => BQ!Init
<1> SUFFICES ASSUME Init PROVE BQ!Init
  OBVIOUS
<1>1. Contents = << >>
  BY DEF Init, Contents
<1>2. Phases = [t \in Threads |-> "out"]
  BY DEF Init, Phases, Phase
<1> QED
  BY <1>1, <1>2 DEF BQ!Init, Init, Phases, Threads

(* A producer's steps: the call is CallPut, the store Put, the last V      *)
(* Return, the others leave the queue alone.                               *)
LEMMA ProducerStep ==
  ASSUME IInv, IInv', NEW p \in Producers, Insert(p) \/ \E x \in Items : CallInsert(p, x)
  PROVE  BQ!Next \/ UNCHANGED BQ!vars
<1> USE DEF Threads
<1>1. ASSUME NEW x \in Items, CallInsert(p, x) PROVE BQ!CallPut(p, x)
  <2>1. Phases[p] = "out" /\ Phases' = [Phases EXCEPT ![p] = "called"]
    BY <1>1, PhaseStep DEF CallInsert, PhaseOf
  <2>2. Contents' = Contents
    BY <1>1, SameContents DEF CallInsert
  <2> QED
    BY <1>1, <2>1, <2>2 DEF BQ!CallPut, BQ!Step, CallInsert, Phases
<1>2. CASE \/ Wait(p, "slots", "slots", "mutex")
           \/ Wait(p, "mutex", "mutex", "load")
           \/ Load(p, rear, "store")
           \/ Unlock(p)
  <2>1. Phases' = Phases
    BY <1>2, SamePhase DEF Wait, Load, Unlock
  <2>2. Contents' = Contents /\ item' = item
    BY <1>2, SameContents DEF Wait, Load, Unlock
  <2> QED
    BY <2>1, <2>2 DEF BQ!vars, Phases
<1>3. CASE Store(p)
  <2>1. Phases[p] = "called" /\ Phases' = [Phases EXCEPT ![p] = "done"]
    BY <1>3, PhaseStep DEF Store, PhaseOf
  <2>2. Contents' = Append(Contents, item[p]) /\ Len(Contents) < N
    BY <1>3, StoreAppends
  <2>3. BQ!Put(p)
    BY <1>3, <2>1, <2>2 DEF BQ!Put, BQ!Step, Store, Phases
  <2> QED
    BY <2>3 DEF BQ!Next
<1>4. CASE PostAndReturn(p, "items")
  <2>1. Phases[p] = "done" /\ Phases' = [Phases EXCEPT ![p] = "out"]
    BY <1>4, PhaseStep DEF PostAndReturn, PhaseOf
  <2>2. Contents' = Contents
    BY <1>4, SameContents DEF PostAndReturn
  <2>3. BQ!Return(p)
    BY <1>4, <2>1, <2>2 DEF BQ!Return, BQ!Step, PostAndReturn, Phases
  <2> QED
    BY <2>3 DEF BQ!Next
<1> QED
  BY <1>1, <1>2, <1>3, <1>4 DEF Insert, BQ!Next

(* A consumer's steps: CallGet, Get where it reads the slot, Return.       *)
LEMMA ConsumerStep ==
  ASSUME IInv, IInv', NEW c \in Consumers, CallRemove(c) \/ Remove(c)
  PROVE  BQ!Next \/ UNCHANGED BQ!vars
<1> USE DEF Threads
<1>1. CASE CallRemove(c)
  <2>1. Phases[c] = "out" /\ Phases' = [Phases EXCEPT ![c] = "called"]
    BY <1>1, PhaseStep DEF CallRemove, PhaseOf
  <2>2. Contents' = Contents
    BY <1>1, SameContents DEF CallRemove
  <2>3. BQ!CallGet(c)
    BY <1>1, <2>1, <2>2 DEF BQ!CallGet, BQ!Step, CallRemove, Phases
  <2> QED
    BY <2>3 DEF BQ!Next
<1>2. CASE \/ Wait(c, "items", "items", "mutex")
           \/ Wait(c, "mutex", "mutex", "load")
           \/ Load(c, front, "fetch")
           \/ Unlock(c)
  <2>1. Phases' = Phases
    BY <1>2, SamePhase DEF Wait, Load, Unlock
  <2>2. Contents' = Contents /\ item' = item
    BY <1>2, SameContents DEF Wait, Load, Unlock
  <2> QED
    BY <2>1, <2>2 DEF BQ!vars, Phases
<1>3. CASE Fetch(c)
  <2>1. Phases[c] = "called" /\ Phases' = [Phases EXCEPT ![c] = "done"]
    BY <1>3, PhaseStep DEF Fetch, PhaseOf
  <2>2. /\ Contents # << >> /\ Contents' = Tail(Contents)
        /\ item' = [item EXCEPT ![c] = Head(Contents)]
    BY <1>3, FetchTakesHead
  <2>3. BQ!Get(c)
    BY <2>1, <2>2 DEF BQ!Get, BQ!Step, Phases
  <2> QED
    BY <2>3 DEF BQ!Next
<1>4. CASE PostAndReturn(c, "slots")
  <2>1. Phases[c] = "done" /\ Phases' = [Phases EXCEPT ![c] = "out"]
    BY <1>4, PhaseStep DEF PostAndReturn, PhaseOf
  <2>2. Contents' = Contents
    BY <1>4, SameContents DEF PostAndReturn
  <2>3. BQ!Return(c)
    BY <1>4, <2>1, <2>2 DEF BQ!Return, BQ!Step, PostAndReturn, Phases
  <2> QED
    BY <2>3 DEF BQ!Next
<1> QED
  BY <1>1, <1>2, <1>3, <1>4 DEF Remove

(* sbuf is a bounded first-in first-out queue: for every number of         *)
(* threads and slots, every behaviour of sbuf_insert and sbuf_remove is    *)
(* one of BoundedQueue.                                                    *)
THEOREM Refinement == Spec => IsBoundedQueue
<1>1. IInv /\ IInv' /\ [Next]_vars => [BQ!Next]_(BQ!vars)
  <2> SUFFICES ASSUME IInv, IInv', [Next]_vars PROVE BQ!Next \/ UNCHANGED BQ!vars
    OBVIOUS
  <2>1. CASE Next
    BY <2>1, ProducerStep, ConsumerStep DEF Next
  <2>2. CASE UNCHANGED vars
    BY <2>2 DEF vars, BQ!vars, Contents, Phase
  <2> QED
    BY <2>1, <2>2
<1>2. Spec => BQ!Spec
  BY InitQueue, Invariance, <1>1, PTL DEF Spec, BQ!Spec
<1> QED
  BY <1>2 DEF IsBoundedQueue
=============================================================================
