----------------------------- MODULE SharedQueue -----------------------------
(***************************************************************************)
(* What ktos_SendMsg promises to senders that preempt one another: a call  *)
(* is two moments, the answer that there is room and the insertion, and    *)
(* the insertion is indivisible.  Nothing holds the room that was promised *)
(* in between, so the queue is not a bounded FIFO.  Calls nest: the higher *)
(* context begins later and is done earlier.                               *)
(***************************************************************************)
EXTENDS MessageRing

CONSTANTS Capacity, Message, Filler, Senders

VARIABLES
  ring,      \* the queue
  promised   \* <<c, m>>: context c was told that there is room for m

svars == <<ring, promised>>

Init == ring = EmptyRing(Capacity, Filler) /\ promised = {}

Promise(c, m) ==
  /\ \A p \in promised : p[1] < c
  /\ ~IsFull(Capacity, ring)
  /\ promised' = promised \cup {<<c, m>>}
  /\ UNCHANGED ring

Insert(c, m) ==
  /\ <<c, m>> \in promised
  /\ \A p \in promised : p[1] <= c
  /\ ring' = Enqueue(Capacity, ring, m)
  /\ promised' = promised \ {<<c, m>>}

\* The scheduler runs in the background: no call is under way.
Remove ==
  /\ promised = {}
  /\ ring.num # 0
  /\ ring' = Dequeue(Capacity, ring)
  /\ UNCHANGED promised

Next ==
  \/ \E c \in Senders, m \in Message : Promise(c, m) \/ Insert(c, m)
  \/ Remove

Spec == Init /\ [][Next]_svars
=============================================================================
