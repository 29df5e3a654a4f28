-------------------------------- MODULE SBuf --------------------------------
(***************************************************************************)
(* The shared buffer of connected descriptors of the thread pool server    *)
(* (septhreadpool_server.c: sbuf_t, sbuf_init, sbuf_insert, sbuf_remove):  *)
(* a ring of N slots guarded by three POSIX semaphores.  Any number of     *)
(* producers and consumers; a thread's steps interleave with the others'   *)
(* between any two semaphore calls, and inside the critical section the    *)
(* increment of the counter is a load and a store, so that only the mutex  *)
(* keeps two threads from losing an increment.                             *)
(*                                                                         *)
(* rear and front are C ints that only grow: this module has the behaviour *)
(* the C program defines, up to the insert that would take rear past       *)
(* IntMax.                                                                 *)
(***************************************************************************)
EXTENDS Integers, FiniteSets, Sequences

CONSTANTS
  Producers,   \* threads that call sbuf_insert
  Consumers,   \* threads that call sbuf_remove
  Items,       \* descriptors
  None,        \* no descriptor
  N,           \* sp->n, the number of slots
  IntMax       \* the largest int (bound on rear)

ASSUME SBufAssumption ==
  /\ IsFiniteSet(Producers) /\ IsFiniteSet(Consumers)
  /\ Producers \cap Consumers = {}
  /\ None \notin Items
  /\ N \in Nat \ {0}
  /\ IntMax \in Nat

VARIABLES
  buf,         \* sp->buf
  front, rear, \* sp->front, sp->rear
  sem,         \* sp->mutex, sp->slots, sp->items
  pc,          \* per thread: "out", or the call it is about to make
  item,        \* per thread: the parameter of insert, the local of remove
  reg          \* per thread: the counter value loaded by ++, 0 when dead

vars == <<buf, front, rear, sem, pc, item, reg>>

Threads == Producers \cup Consumers
Semaphores == {"mutex", "slots", "items"}
Labels == {"out", "slots", "items", "mutex", "load", "store", "fetch",
           "unlock", "post"}

TypeOK ==
  /\ buf \in [0..(N-1) -> Items \cup {None}]
  /\ front \in 0..IntMax /\ rear \in 0..IntMax
  /\ sem \in [Semaphores -> Nat]
  /\ pc \in [Threads -> Labels]
  /\ item \in [Threads -> Items \cup {None}]
  /\ reg \in [Threads -> 0..IntMax]

(* sbuf_init *)
Init ==
  /\ buf = [i \in 0..(N-1) |-> None]
  /\ front = 0 /\ rear = 0
  /\ sem = [s \in Semaphores |-> IF s = "mutex" THEN 1
                                 ELSE IF s = "slots" THEN N ELSE 0]
  /\ pc = [t \in Threads |-> "out"]
  /\ item = [t \in Threads |-> None]
  /\ reg = [t \in Threads |-> 0]

Goto(t, from, to) == pc[t] = from /\ pc' = [pc EXCEPT ![t] = to]

(* P: sem_wait blocks until the count is positive and takes one.  It does  *)
(* not fail: Signal installs the handlers with SA_RESTART.                 *)
P(s) == sem[s] > 0 /\ sem' = [sem EXCEPT ![s] = @ - 1]

V(s) == sem' = [sem EXCEPT ![s] = @ + 1]

(* ++counter, first half: the thread loads the counter.                    *)
Load(t, counter, to) ==
  /\ Goto(t, "load", to)
  /\ reg' = [reg EXCEPT ![t] = counter]
  /\ UNCHANGED <<buf, front, rear, sem, item>>

(* The semaphore calls of thread t that leave its local variables alone.   *)
Wait(t, s, from, to) ==
  Goto(t, from, to) /\ P(s) /\ UNCHANGED <<buf, front, rear, item, reg>>
(* Faulty: leaves the critical section without V.                          *)
UnlockForgets(t) ==
  Goto(t, "unlock", "post") /\ UNCHANGED <<buf, front, rear, sem, item, reg>>
Unlock(t) ==
  Goto(t, "unlock", "post") /\ V("mutex") /\ UNCHANGED <<buf, front, rear, item, reg>>
(* Faulty: returns without V.                                              *)
ReturnSilently(t, s) ==
  /\ Goto(t, "post", "out")
  /\ item' = [item EXCEPT ![t] = None]
  /\ UNCHANGED <<buf, front, rear, sem, reg>>
PostAndReturn(t, s) ==
  /\ Goto(t, "post", "out")
  /\ V(s)
  /\ item' = [item EXCEPT ![t] = None]
  /\ UNCHANGED <<buf, front, rear, reg>>

-----------------------------------------------------------------------------
CallInsert(p, x) ==
  /\ Goto(p, "out", "slots")
  /\ item' = [item EXCEPT ![p] = x]
  /\ UNCHANGED <<buf, front, rear, sem, reg>>

(* sp->buf[(++sp->rear) % sp->n] = item, second half.                      *)
Store(p) ==
  /\ Goto(p, "store", "unlock")
  /\ reg[p] \in 0..(IntMax - 1)
  /\ rear' = reg[p] + 1
  /\ buf' = [buf EXCEPT ![(reg[p] + 1) % N] = item[p]]
  /\ reg' = [reg EXCEPT ![p] = 0]
  /\ UNCHANGED <<front, sem, item>>

(* Faulty: does not take the mutex.                                        *)
InsertUnlocked(p) ==
  \/ Wait(p, "slots", "slots", "load")
  \/ Load(p, rear, "store")
  \/ Store(p)
  \/ Goto(p, "unlock", "post") /\ UNCHANGED <<buf, front, rear, sem, item, reg>>
  \/ PostAndReturn(p, "items")

Insert(p) ==
  \/ Wait(p, "slots", "slots", "mutex")
  \/ Wait(p, "mutex", "mutex", "load")
  \/ Load(p, rear, "store")
  \/ Store(p)
  \/ Unlock(p)
  \/ PostAndReturn(p, "items")

CallRemove(c) ==
  /\ Goto(c, "out", "items")
  /\ UNCHANGED <<buf, front, rear, sem, item, reg>>

(* Faulty: takes the item inserted last.                                   *)
FetchNewest(c) ==
  /\ Goto(c, "fetch", "unlock")
  /\ reg[c] \in 0..(IntMax - 1)
  /\ front' = reg[c] + 1
  /\ item' = [item EXCEPT ![c] = buf[rear % N]]
  /\ reg' = [reg EXCEPT ![c] = 0]
  /\ UNCHANGED <<buf, rear, sem>>

(* item = sp->buf[(++sp->front) % sp->n], second half.                     *)
Fetch(c) ==
  /\ Goto(c, "fetch", "unlock")
  /\ reg[c] \in 0..(IntMax - 1)
  /\ front' = reg[c] + 1
  /\ item' = [item EXCEPT ![c] = buf[(reg[c] + 1) % N]]
  /\ reg' = [reg EXCEPT ![c] = 0]
  /\ UNCHANGED <<buf, rear, sem>>

Remove(c) ==
  \/ Wait(c, "items", "items", "mutex")
  \/ Wait(c, "mutex", "mutex", "load")
  \/ Load(c, front, "fetch")
  \/ Fetch(c)
  \/ Unlock(c)
  \/ PostAndReturn(c, "slots")

Next ==
  \/ \E p \in Producers : (\E x \in Items : CallInsert(p, x)) \/ Insert(p)
  \/ \E c \in Consumers : CallRemove(c) \/ Remove(c)

Spec == Init /\ [][Next]_vars

-----------------------------------------------------------------------------
InCS(t) == pc[t] \in {"load", "store", "fetch", "unlock"}

(* The mutex protects the buffer (sbuf_t: "Protects accesses to buf"): no  *)
(* two threads are between P(mutex) and V(mutex).                          *)
MutualExclusion == \A t, u \in Threads : InCS(t) /\ InCS(u) => t = u

(* Slots a producer has reserved and not yet published, and items a        *)
(* consumer has claimed and whose slot it has not yet given back.          *)
Reserving == {p \in Producers : pc[p] \notin {"out", "slots"}}
Claiming  == {c \in Consumers : pc[c] \notin {"out", "items"}}

(* The semaphores count what sbuf_t says they count ("Counts available     *)
(* slots", "Counts available items"): at every moment each of the N slots  *)
(* is available, holds an available item, or is in the hands of exactly    *)
(* one thread.                                                             *)
SlotsConserved ==
  sem["slots"] + sem["items"] + Cardinality(Reserving) + Cardinality(Claiming) = N

(* The counters never let the ring overrun or underrun, whatever order the *)
(* threads go through the critical section.                                *)
RingBounded == rear - front \in 0..N

(* Producers that have stored their item and not yet announced it, and     *)
(* consumers that have been granted an item and not yet read it.           *)
Publishing == {p \in Producers : pc[p] \in {"unlock", "post"}}
Expecting  == {c \in Consumers : pc[c] \in {"mutex", "load", "fetch"}}

(* The ring holds the announced items, the stored ones about to be         *)
(* announced and the ones granted to a consumer that has not read them.    *)
Occupancy ==
  rear - front = sem["items"] + Cardinality(Publishing) + Cardinality(Expecting)

PcByRole ==
  /\ \A p \in Producers :
       pc[p] \in {"out", "slots", "mutex", "load", "store", "unlock", "post"}
  /\ \A c \in Consumers :
       pc[c] \in {"out", "items", "mutex", "load", "fetch", "unlock", "post"}

(* The mutex is 1 exactly when the critical section is empty, and the      *)
(* counter a thread loaded in it is still the counter's value.             *)
MutexInv ==
  /\ sem["mutex"] = IF \E t \in Threads : InCS(t) THEN 0 ELSE 1
  /\ \A t \in Threads : /\ pc[t] = "store" => reg[t] = rear
                        /\ pc[t] = "fetch" => reg[t] = front

ItemInv == \A p \in Producers : pc[p] # "out" => item[p] \in Items

(* The inductive invariant from which the theorems follow.                 *)
IInv == /\ TypeOK /\ PcByRole /\ ItemInv
        /\ MutualExclusion /\ MutexInv
        /\ SlotsConserved /\ Occupancy

(* The contents of the ring, oldest first: buf[(front+1)%n] is the first   *)
(* item and buf[rear%n] the last, as sbuf_t's comments on front and rear   *)
(* say.                                                                    *)
Contents == [i \in 1..(rear - front) |-> buf[(front + i) % N]]

Phase(t) == IF pc[t] = "out" THEN "out"
            ELSE IF pc[t] \in {"unlock", "post"} THEN "done" ELSE "called"

(* The buffer implements the bounded first-in first-out queue: an insert   *)
(* takes effect when it stores into the slot, a remove when it reads it.   *)
BQ == INSTANCE BoundedQueue WITH queue <- Contents,
                                 phase <- [t \in Threads |-> Phase(t)]
IsBoundedQueue == BQ!Spec
=============================================================================
