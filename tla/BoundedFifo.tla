----------------------------- MODULE BoundedFifo -----------------------------
(***************************************************************************)
(* What a task's message queue promises: a first-in first-out buffer of at *)
(* most Capacity messages.  A message is taken in only while there is room *)
(* and every message taken in leaves once, in the order of arrival.  A     *)
(* message refused by a full queue (ktos_SendMsg returns false) leaves the *)
(* buffer as it was, which is a stuttering step here.                      *)
(***************************************************************************)
EXTENDS Naturals, Sequences

CONSTANTS Capacity, Message

VARIABLE fifo

Init == fifo = << >>

Put(m) == /\ Len(fifo) < Capacity
          /\ fifo' = Append(fifo, m)

Get == /\ fifo # << >>
       /\ fifo' = Tail(fifo)

Next == Get \/ \E m \in Message : Put(m)

Spec == Init /\ [][Next]_fifo
=============================================================================
