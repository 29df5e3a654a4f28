---------------------------- MODULE BoundedQueue ----------------------------
(***************************************************************************)
(* What the connection buffer sbuf of the thread pool server promises its  *)
(* callers: a first-in first-out queue of at most N items.  An operation   *)
(* is called, takes effect in one step somewhere between its call and its  *)
(* return (its linearization point), and returns.  A put waits for room, a *)
(* get waits for an item.                                                  *)
(***************************************************************************)
EXTENDS Naturals, Sequences

CONSTANTS
  Producers,   \* threads that put
  Consumers,   \* threads that get
  Items,       \* what they exchange
  None,        \* no item
  N            \* capacity

VARIABLES
  queue,       \* items put and not yet got, oldest first
  phase,       \* per thread: "out", "called" (no effect yet) or "done"
  item         \* per thread: a put's argument, a finished get's result

vars == <<queue, phase, item>>

Init ==
  /\ queue = << >>
  /\ phase = [t \in Producers \cup Consumers |-> "out"]
  /\ item = [t \in Producers \cup Consumers |-> None]

Step(t, from, to) == phase[t] = from /\ phase' = [phase EXCEPT ![t] = to]

CallPut(p, x) ==
  /\ Step(p, "out", "called")
  /\ item' = [item EXCEPT ![p] = x]
  /\ UNCHANGED queue

Put(p) ==
  /\ Step(p, "called", "done")
  /\ Len(queue) < N
  /\ queue' = Append(queue, item[p])
  /\ UNCHANGED item

CallGet(c) ==
  /\ Step(c, "out", "called")
  /\ UNCHANGED <<queue, item>>

Get(c) ==
  /\ Step(c, "called", "done")
  /\ queue # << >>
  /\ queue' = Tail(queue)
  /\ item' = [item EXCEPT ![c] = Head(queue)]

Return(t) ==
  /\ Step(t, "done", "out")
  /\ item' = [item EXCEPT ![t] = None]
  /\ UNCHANGED queue

Next ==
  \/ \E p \in Producers : (\E x \in Items : CallPut(p, x)) \/ Put(p) \/ Return(p)
  \/ \E c \in Consumers : CallGet(c) \/ Get(c) \/ Return(c)

Spec == Init /\ [][Next]_vars
=============================================================================
