----------------------------- MODULE MessageRing -----------------------------
(***************************************************************************)
(* The circular message queue inside struct ktos_TASK (core/ktos.h).       *)
(*                                                                         *)
(* A queue is a record: slot is the calloc-ed array MsgQueue, in and out   *)
(* are the offsets of MsgQueueIn and MsgQueueOut from MsgQueue, num is     *)
(* NumMessages.  MsgQueueEnd is MsgQueue + cap, so "pointer >= MsgQueueEnd"*)
(* is "offset >= cap".  A message (MsgType, Param1, Param2) is one value.  *)
(*                                                                         *)
(* The operators below are the straight-line pieces of ktos_SendMsg and    *)
(* ktos_SwitchTask; the modules that use them decide which of those pieces *)
(* are separate steps.  cap is a parameter because each task has its own   *)
(* QueueSize.                                                              *)
(***************************************************************************)
EXTENDS Integers, Sequences

\* The values a queue of cap slots over messages M can take.  num is not
\* bounded by cap here: whether it is, is a property and not a type.
RingOf(cap, M) ==
  [slot : [0 .. cap - 1 -> M],
   in   : 0 .. cap - 1,
   out  : 0 .. cap - 1,
   num  : Nat]

\* calloc clears the array; filler stands for the all-zero message.
EmptyRing(cap, filler) ==
  [slot |-> [i \in 0 .. cap - 1 |-> filler], in |-> 0, out |-> 0, num |-> 0]

\* "if (++pointer >= MsgQueueEnd) pointer = MsgQueue;"
NextSlot(cap, i) == IF i + 1 >= cap THEN 0 ELSE i + 1

\* The early return of ktos_SendMsg.
IsFull(cap, q) == q.num >= cap

\* The three pieces of the enqueue in ktos_SendMsg ...
StoreMsg(q, m)    == [q EXCEPT !.slot[q.in] = m]
AdvanceIn(cap, q) == [q EXCEPT !.in = NextSlot(cap, q.in)]
CountMsg(q)       == [q EXCEPT !.num = q.num + 1]

\* Mutant: the pointer is advanced before the message is written.
MutEnqueueSwapped(cap, q, m) == CountMsg(StoreMsg(AdvanceIn(cap, q), m))

\* ... and the whole of it, for callers that nothing can interrupt.
Enqueue(cap, q, m) == CountMsg(AdvanceIn(cap, StoreMsg(q, m)))

\* The message the scheduler reads, and its removal.
Oldest(q)       == q.slot[q.out]
Dequeue(cap, q) == [q EXCEPT !.out = NextSlot(cap, q.out), !.num = q.num - 1]

-----------------------------------------------------------------------------
(* What the queue means: the sequence of messages it holds, oldest first.  *)

SlotOf(cap, q, i) ==
  LET j == q.out + (i - 1) IN IF j >= cap THEN j - cap ELSE j

Contents(cap, q) == [i \in 1 .. q.num |-> q.slot[SlotOf(cap, q, i)]]

\* The write offset is num slots after the read offset, and num fits.
InIsAfter(cap, q) ==
  q.in = IF q.out + q.num >= cap THEN q.out + q.num - cap ELSE q.out + q.num

RingConsistent(cap, q) == q.num <= cap /\ InIsAfter(cap, q)
=============================================================================
