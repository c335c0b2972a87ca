------------------------------ MODULE KtosQueue ------------------------------
(***************************************************************************)
(* One task's message queue under preemption: ktos_SendMsg statement by    *)
(* statement (core/ktos.c), called at the same time from the background    *)
(* (the running task or main) and from interrupt handlers, while the       *)
(* scheduler consumes.                                                     *)
(*                                                                         *)
(* Contexts are numbered by priority: 0 is the background, in which KTOS   *)
(* runs the scheduler and one task at a time; 1 .. MaxLevel are interrupt  *)
(* levels.  A context is entered only while interrupts are enabled, and it *)
(* runs to completion before any lower one moves again.                    *)
(***************************************************************************)
EXTENDS MessageRing, FiniteSets

CONSTANTS
  Capacity,   \* QueueSize of the task
  Message,    \* what can be sent
  Filler,     \* the all-zero message that calloc leaves in the slots
  MaxLevel,   \* number of interrupt priority levels
  Senders     \* the contexts whose code sends to this task

ASSUME CapacityAssumption == Capacity \in Nat \ {0}
ASSUME LevelAssumption == MaxLevel \in Nat /\ Senders \subseteq 0 .. MaxLevel

VARIABLES
  q,     \* the queue: MsgQueue, MsgQueueIn, MsgQueueOut, NumMessages
  irq,   \* interrupts enabled?  one flag for the processor
  pc,    \* pc[c]: the statement of ktos_SendMsg context c is about to run
  arg    \* arg[c]: the message c is sending

vars == <<q, irq, pc, arg>>

Context == 0 .. MaxLevel

\* The statements between DisableInterrupts and EnableInterrupts.
InSection == {"store", "advance", "count", "enable"}

Statement == {"idle", "check", "disable"} \cup InSection

TypeOK ==
  /\ q \in RingOf(Capacity, Message \cup {Filler})
  /\ irq \in BOOLEAN
  /\ pc \in [Context -> Statement]
  /\ arg \in [Context -> Message \cup {Filler}]

Init ==
  /\ q = EmptyRing(Capacity, Filler)
  /\ irq \in BOOLEAN
  /\ pc = [c \in Context |-> "idle"]
  /\ arg = [c \in Context |-> Filler]

-----------------------------------------------------------------------------

\* No context of higher priority is active: c has the processor.
HasCpu(c) == \A d \in Context : d > c => pc[d] = "idle"

At(c, label) == HasCpu(c) /\ pc[c] = label

Goto(c, label) == pc' = [pc EXCEPT ![c] = label]

\* A context calls ktos_SendMsg.  An interrupt handler can only start while
\* interrupts are enabled.
Call(c, m) ==
  /\ At(c, "idle")
  /\ c > 0 => irq
  /\ Goto(c, "check")
  /\ arg' = [arg EXCEPT ![c] = m]
  /\ UNCHANGED <<q, irq>>

\* Mutant: the test for room is missing.
MutCheckMissing(c) ==
  /\ At(c, "check")
  /\ Goto(c, "disable")
  /\ UNCHANGED <<q, irq, arg>>

\* "if (Task->NumMessages >= Task->QCapacity) { return false; }": the test
\* runs before interrupts are disabled.
Check(c) ==
  /\ At(c, "check")
  /\ Goto(c, IF IsFull(Capacity, q) THEN "idle" ELSE "disable")
  /\ UNCHANGED <<q, irq, arg>>

Disable(c) ==
  /\ At(c, "disable")
  /\ irq' = FALSE
  /\ Goto(c, "store")
  /\ UNCHANGED <<q, arg>>

Store(c) ==
  /\ At(c, "store")
  /\ q' = StoreMsg(q, arg[c])
  /\ Goto(c, "advance")
  /\ UNCHANGED <<irq, arg>>

\* Mutant: EnableInterrupts before ++NumMessages.
MutEnabledEarly(c) ==
  /\ At(c, "advance")
  /\ q' = AdvanceIn(Capacity, q)
  /\ irq' = TRUE
  /\ Goto(c, "count")
  /\ UNCHANGED arg

Advance(c) ==
  /\ At(c, "advance")
  /\ q' = AdvanceIn(Capacity, q)
  /\ Goto(c, "count")
  /\ UNCHANGED <<irq, arg>>

Count(c) ==
  /\ At(c, "count")
  /\ q' = CountMsg(q)
  /\ Goto(c, "enable")
  /\ UNCHANGED <<irq, arg>>

\* EnableInterrupts is unconditional; ktos_SendMsg returns true.
Enable(c) ==
  /\ At(c, "enable")
  /\ irq' = TRUE
  /\ Goto(c, "idle")
  /\ UNCHANGED <<q, arg>>

SendMsg(c) ==
  \/ \E m \in Message : Call(c, m)
  \/ Check(c) \/ Disable(c) \/ Store(c) \/ Advance(c) \/ Count(c) \/ Enable(c)

\* The scheduler takes the oldest message with interrupts disabled and enters
\* the task; whether interrupts are enabled in the task depends on whether the
\* HAL's stack frame holds the interrupt state (AVR, MSP430) or not (Cortex-M).
Dispatch ==
  /\ At(0, "idle")
  /\ q.num # 0
  /\ q' = Dequeue(Capacity, q)
  /\ irq' \in BOOLEAN
  /\ UNCHANGED <<pc, arg>>

\* The EnableInterrupts that ends a pass of the scheduler.
EndPass ==
  /\ At(0, "idle")
  /\ ~irq
  /\ irq' = TRUE
  /\ UNCHANGED <<q, pc, arg>>

Next ==
  \/ \E c \in Senders : SendMsg(c)
  \/ Dispatch
  \/ EndPass

Spec == Init /\ [][Next]_vars

-----------------------------------------------------------------------------

\* Contexts that have passed the test for room and not yet counted their
\* message.
Committed == {c \in Context : pc[c] \in {"disable", "store", "advance", "count"}}

\* At most one context is between DisableInterrupts and EnableInterrupts of
\* ktos_SendMsg, and interrupts are off as long as one is: the slot, the write
\* pointer and the counter are updated by one sender at a time.
SectionExclusive ==
  \A c \in Context : pc[c] \in InSection =>
    ~irq /\ \A d \in Context \ {c} : pc[d] \notin InSection

\* The test at the top of ktos_SendMsg is made outside the critical section, so
\* each preempted sender can be late by one message: the queue is over its
\* capacity by at most the number of contexts that send, less one.
OverflowBounded ==
  q.num + Cardinality(Committed) < Capacity + Cardinality(Senders)

\* A queue never holds more than QCapacity messages, "Maximum number of
\* messages the queue can hold".
WithinCapacity == q.num <= Capacity

\* With a single sending context the queue is a bounded FIFO: what it contains
\* changes only by appending an accepted message while there is room and by
\* removing the oldest.
Fifo == INSTANCE BoundedFifo WITH fifo <- Contents(Capacity, q)

QueueIsFifo == Fifo!Spec

\* The queue as it will be when the context in the critical section has left it.
Settled ==
  IF \E c \in Context : pc[c] = "advance" THEN CountMsg(AdvanceIn(Capacity, q))
  ELSE IF \E c \in Context : pc[c] = "count" THEN CountMsg(q)
  ELSE q

\* The calls that have passed the test for room and not yet written their slot.
Promised == {<<c, arg[c]>> : c \in {d \in Context : pc[d] \in {"disable", "store"}}}

\* However senders preempt one another, each call that passed the test enqueues its
\* own message once and as a whole: no slot is shared, no pointer or count update is
\* lost or seen half done.  Only the test for room and the insertion are two steps.
Shared == INSTANCE SharedQueue WITH ring <- Settled, promised <- Promised

SendsAreAtomic == Shared!Spec
=============================================================================
