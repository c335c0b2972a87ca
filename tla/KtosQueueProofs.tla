--------------------------- MODULE KtosQueueProofs ---------------------------
(***************************************************************************)
(* What ktos_SendMsg guarantees under preemption, for every capacity, set  *)
(* of messages, number of interrupt levels and set of sending contexts.    *)
(***************************************************************************)
EXTENDS KtosQueue, MessageRingProofs, FiniteSetTheorems

\* Every variable keeps its type.
THEOREM TypeCorrect == Spec => []TypeOK
<1>1. Init => TypeOK
  BY CapacityAssumption, LevelAssumption, EmptyRingHolds
     DEF Init, TypeOK, Context, Statement
<1>2. TypeOK /\ [Next]_vars => TypeOK'
  <2> SUFFICES ASSUME TypeOK, [Next]_vars PROVE TypeOK'
    OBVIOUS
  <2> USE CapacityAssumption, LevelAssumption
  <2>1. /\ q \in RingOf(Capacity, Message \cup {Filler})
        /\ pc \in [Context -> Statement]
        /\ arg \in [Context -> Message \cup {Filler}]
        /\ irq \in BOOLEAN
        /\ Senders \subseteq Context
    BY DEF TypeOK, Context
  <2>2. ASSUME NEW c \in Senders, SendMsg(c) PROVE TypeOK'
    <3>1. c \in Context /\ arg[c] \in Message \cup {Filler}
      BY <2>1
    <3>2. ASSUME NEW m \in Message, Call(c, m) PROVE TypeOK'
      BY <2>1, <3>1, <3>2 DEF TypeOK, Call, Goto, Statement
    <3>3. CASE Check(c)
      BY <2>1, <3>1, <3>3 DEF TypeOK, Check, Goto, Statement
    <3>4. CASE Disable(c)
      BY <2>1, <3>1, <3>4 DEF TypeOK, Disable, Goto, Statement, InSection
    <3>5. CASE Store(c)
      BY <2>1, <3>1, <3>5, RingTypes DEF TypeOK, Store, Goto, Statement, InSection
    <3>6. CASE Advance(c)
      BY <2>1, <3>1, <3>6, RingTypes DEF TypeOK, Advance, Goto, Statement, InSection
    <3>7. CASE Count(c)
      BY <2>1, <3>1, <3>7, RingTypes DEF TypeOK, Count, Goto, Statement, InSection
    <3>8. CASE Enable(c)
      BY <2>1, <3>1, <3>8 DEF TypeOK, Enable, Goto, Statement
    <3> QED BY <2>2, <3>2, <3>3, <3>4, <3>5, <3>6, <3>7, <3>8 DEF SendMsg
  <2>3. CASE Dispatch
    BY <2>1, <2>3, RingTypes DEF TypeOK, Dispatch
  <2>4. CASE EndPass
    BY <2>1, <2>4 DEF TypeOK, EndPass
  <2>5. CASE UNCHANGED vars
    BY <2>5 DEF TypeOK, vars
  <2> QED BY <2>2, <2>3, <2>4, <2>5 DEF Next
<1> QED BY <1>1, <1>2, PTL DEF Spec

-----------------------------------------------------------------------------

\* The inductive form of SectionExclusive: a context in the critical section
\* has interrupts disabled, and nothing of higher priority has been entered.
SectionInv == \A c \in Context : pc[c] \in InSection => ~irq /\ HasCpu(c)

\* A context enters the critical section only when it is the highest one that
\* is active, and with interrupts disabled no higher one can start.
LEMMA SectionHolds == Spec => []SectionInv
<1>1. Init => SectionInv
  BY DEF Init, SectionInv, InSection
<1>2. TypeOK /\ SectionInv /\ [Next]_vars => SectionInv'
  <2> SUFFICES ASSUME TypeOK, SectionInv, [Next]_vars,
                      NEW d \in Context, pc'[d] \in InSection
               PROVE  ~irq' /\ HasCpu(d)'
    BY DEF SectionInv
  <2> USE LevelAssumption
  <2>1. pc \in [Context -> Statement] /\ Context \subseteq Int /\ Senders \subseteq Context
    BY DEF TypeOK, Context
  <2>2. ASSUME NEW c \in Senders, SendMsg(c) PROVE ~irq' /\ HasCpu(d)'
    <3>1. c \in Context
      BY <2>1
    <3>2. ASSUME NEW m \in Message, Call(c, m) PROVE ~irq' /\ HasCpu(d)'
      <4>1. /\ pc' = [pc EXCEPT ![c] = "check"] /\ irq' = irq
            /\ c > 0 => irq
            /\ \A e \in Context : e > c => pc[e] = "idle"
        BY <3>2 DEF Call, Goto, At, HasCpu
      <4>2. d # c /\ pc[d] \in InSection
        BY <4>1, <3>1, <2>1 DEF InSection
      <4>3. ~irq /\ ~(d > c)
        BY <4>1, <4>2 DEF SectionInv, InSection
      <4>4. c = 0 /\ d < c
        BY <4>1, <4>2, <4>3, <3>1, <2>1 DEF Context
      <4> QED BY <4>4 DEF Context
    <3>3. CASE Check(c)
      <4>1. irq' = irq /\ d # c /\ pc[d] \in InSection
        BY <3>3, <3>1, <2>1 DEF Check, Goto, InSection
      <4>2. pc[c] # "idle" /\ \A e \in Context : e # c => pc'[e] = pc[e]
        BY <3>3, <3>1, <2>1 DEF Check, Goto, At
      <4> QED BY <4>1, <4>2, <3>1 DEF SectionInv, HasCpu
    <3>4. CASE Disable(c)
      <4>1. /\ irq' = FALSE /\ pc[c] # "idle"
            /\ \A e \in Context : e > c => pc[e] = "idle"
            /\ \A e \in Context : e # c => pc'[e] = pc[e]
        BY <3>4, <3>1, <2>1 DEF Disable, Goto, At, HasCpu
      <4>2. d # c => pc[d] \in InSection /\ HasCpu(d)
        BY <4>1 DEF SectionInv
      <4>3. d = c
        BY <4>1, <4>2, <3>1, <2>1 DEF HasCpu, InSection
      <4> QED BY <4>1, <4>3, <2>1 DEF HasCpu
    <3>5. CASE Store(c) \/ Advance(c) \/ Count(c)
      <4>1. /\ irq' = irq /\ pc[c] \in InSection /\ pc[c] # "idle"
            /\ \A e \in Context : e # c => pc'[e] = pc[e]
        BY <3>5, <3>1, <2>1 DEF Store, Advance, Count, Goto, At, InSection
      <4>2. pc[d] \in InSection
        BY <4>1
      <4>3. ~irq /\ HasCpu(d)
        BY <4>2 DEF SectionInv
      <4>4. ~(c > d)
        BY <4>1, <4>3, <3>1 DEF HasCpu
      <4> QED BY <4>1, <4>3, <4>4, <2>1 DEF HasCpu
    <3>6. CASE Enable(c)
      <4>1. /\ pc[c] \in InSection /\ pc[c] # "idle" /\ pc'[c] = "idle"
            /\ \A e \in Context : e > c => pc[e] = "idle"
            /\ \A e \in Context : e # c => pc'[e] = pc[e]
        BY <3>6, <3>1, <2>1 DEF Enable, Goto, At, InSection, HasCpu
      <4>2. d # c /\ pc[d] \in InSection /\ ~(d > c)
        BY <4>1 DEF InSection
      <4>3. HasCpu(d) /\ c > d
        BY <4>2, <3>1, <2>1 DEF SectionInv
      <4> QED BY <4>1, <4>3, <3>1 DEF HasCpu
    <3> QED BY <2>2, <3>2, <3>3, <3>4, <3>5, <3>6 DEF SendMsg
  <2>3. CASE Dispatch \/ EndPass
    <3>1. pc' = pc /\ pc[0] = "idle" /\ \A e \in Context : e > 0 => pc[e] = "idle"
      BY <2>3 DEF Dispatch, EndPass, At, HasCpu
    <3>2. pc[d] = "idle"
      BY <3>1 DEF Context
    <3> QED BY <3>1, <3>2 DEF InSection
  <2>4. CASE UNCHANGED vars
    BY <2>4 DEF SectionInv, HasCpu, vars
  <2> QED BY <2>2, <2>3, <2>4 DEF Next
<1> QED BY <1>1, <1>2, TypeCorrect, PTL DEF Spec

\* At most one context is between DisableInterrupts and EnableInterrupts of
\* ktos_SendMsg, and interrupts are off as long as one is.
THEOREM SectionIsExclusive == Spec => []SectionExclusive
<1>1. SectionInv => SectionExclusive
  <2> SUFFICES ASSUME SectionInv, NEW c \in Context, NEW d \in Context \ {c},
                      pc[c] \in InSection, pc[d] \in InSection
               PROVE  FALSE
    BY DEF SectionInv, SectionExclusive
  <2>1. HasCpu(c) /\ HasCpu(d)
    BY DEF SectionInv
  <2>2. ~(c > d) /\ ~(d > c)
    BY <2>1 DEF HasCpu, InSection
  <2> QED BY <2>2, LevelAssumption DEF Context
<1> QED BY <1>1, SectionHolds, PTL

-----------------------------------------------------------------------------

\* Only senders are inside ktos_SendMsg.
SendersInv == \A c \in Context : pc[c] # "idle" => c \in Senders

\* The contexts that have committed are finitely many senders.
LEMMA CommittedCount ==
  ASSUME TypeOK, SendersInv
  PROVE  /\ Committed \subseteq Senders
         /\ IsFiniteSet(Senders) /\ IsFiniteSet(Committed)
         /\ Cardinality(Senders) \in Nat /\ Cardinality(Committed) \in Nat
<1>1. Committed \subseteq Senders
  BY DEF SendersInv, Committed
<1>2. IsFiniteSet(0 .. MaxLevel)
  BY LevelAssumption, FS_Interval
<1>3. IsFiniteSet(Senders)
  BY <1>2, LevelAssumption, FS_Subset
<1>4. IsFiniteSet(Committed)
  BY <1>1, <1>3, FS_Subset
<1> QED BY <1>1, <1>3, <1>4, FS_CardinalityType

\* Each context commits at most once at a time, so however the senders preempt
\* one another the queue exceeds its capacity by less than their number.
THEOREM OverflowIsBounded == Spec => []OverflowBounded
<1> DEFINE IInv == SendersInv /\ OverflowBounded
<1>1. Init => IInv
  <2> SUFFICES ASSUME Init PROVE IInv
    OBVIOUS
  <2>1. SendersInv /\ Committed = {} /\ q.num = 0 /\ TypeOK
    BY CapacityAssumption, LevelAssumption, EmptyRingHolds
       DEF Init, SendersInv, Committed, TypeOK, Context, Statement
  <2>2. Cardinality(Committed) = 0 /\ Cardinality(Senders) \in Nat
    BY <2>1, CommittedCount, FS_EmptySet
  <2> QED BY <2>1, <2>2, CapacityAssumption DEF OverflowBounded
<1>2. TypeOK /\ TypeOK' /\ IInv /\ [Next]_vars => IInv'
  <2> SUFFICES ASSUME TypeOK, TypeOK', IInv, [Next]_vars PROVE IInv'
    OBVIOUS
  <2> USE LevelAssumption, CapacityAssumption
  <2>1. /\ pc \in [Context -> Statement] /\ Senders \subseteq Context
        /\ q.num \in Nat /\ q'.num \in Nat
        /\ q \in RingOf(Capacity, Message \cup {Filler})
    BY DEF TypeOK, Context, RingOf
  <2>2. SendersInv'
    <3>1. CASE \E c \in Senders : SendMsg(c)
      <4>1. PICK c \in Senders : SendMsg(c)
        BY <3>1
      <4>2. \A d \in Context : d # c => pc'[d] = pc[d]
        BY <4>1, <2>1 DEF SendMsg, Call, Check, Disable, Store, Advance, Count, Enable, Goto
      <4> QED BY <4>2 DEF SendersInv
    <3>2. CASE Dispatch \/ EndPass \/ UNCHANGED vars
      BY <3>2 DEF SendersInv, Dispatch, EndPass, vars
    <3> QED BY <3>1, <3>2 DEF Next
  <2>3. /\ IsFiniteSet(Senders) /\ Cardinality(Senders) \in Nat
        /\ IsFiniteSet(Committed) /\ Cardinality(Committed) \in Nat
        /\ Committed \subseteq Senders
    BY CommittedCount
  <2>4. OverflowBounded'
    <3>1. ASSUME NEW c \in Senders, SendMsg(c) PROVE OverflowBounded'
      <4>1. c \in Context
        BY <2>1
      <4>2. CASE Check(c)
        <5>1. c \notin Committed /\ q' = q
          BY <4>2 DEF Check, At, Committed
        <5>2. CASE IsFull(Capacity, q)
          <6>1. pc' = [pc EXCEPT ![c] = "idle"]
            BY <4>2, <5>2 DEF Check, Goto
          <6>2. Committed' = Committed
            BY <6>1, <5>1, <4>1, <2>1 DEF Committed
          <6> QED BY <5>1, <6>2 DEF OverflowBounded
        <5>3. CASE ~IsFull(Capacity, q)
          <6>1. pc' = [pc EXCEPT ![c] = "disable"]
            BY <4>2, <5>3 DEF Check, Goto
          <6>2. Committed' = Committed \cup {c}
            BY <6>1, <4>1, <2>1 DEF Committed
          <6>3. Cardinality(Committed \cup {c}) <= Cardinality(Senders)
            BY <2>3, FS_Subset
          <6>4. q.num < Capacity
            BY <5>3, <2>1 DEF IsFull
          <6>5. Cardinality(Committed \cup {c}) \in Nat
            BY <2>3, FS_AddElement, FS_CardinalityType
          <6> QED BY <5>1, <6>2, <6>3, <6>4, <6>5, <2>1, <2>3 DEF OverflowBounded
        <5> QED BY <5>2, <5>3
      <4>3. CASE Count(c)
        <5>1. pc' = [pc EXCEPT ![c] = "enable"] /\ pc[c] = "count" /\ q'.num = q.num + 1
          BY <4>3, <2>1 DEF Count, Goto, At, CountMsg, RingOf
        <5>2. Committed' = Committed \ {c} /\ c \in Committed
          BY <5>1, <4>1, <2>1 DEF Committed
        <5>3. Cardinality(Committed \ {c}) = Cardinality(Committed) - 1
          BY <5>2, <2>3, FS_RemoveElement
        <5> QED BY <5>1, <5>2, <5>3, <2>1, <2>3 DEF OverflowBounded
      <4>4. CASE \/ \E m \in Message : Call(c, m)
                 \/ Disable(c) \/ Store(c) \/ Advance(c) \/ Enable(c)
        <5>1. q'.num = q.num
          BY <4>4, <2>1 DEF Call, Disable, Store, Advance, Enable, StoreMsg, AdvanceIn, RingOf
        <5>2. Committed' = Committed
          BY <4>4, <4>1, <2>1
             DEF Call, Disable, Store, Advance, Enable, Goto, At, Committed
        <5> QED BY <5>1, <5>2 DEF OverflowBounded
      <4> QED BY <3>1, <4>2, <4>3, <4>4 DEF SendMsg
    <3>2. CASE Dispatch
      <4>1. Committed' = Committed /\ q'.num = q.num - 1
        BY <3>2, <2>1 DEF Dispatch, Committed, Dequeue, RingOf
      <4> QED BY <4>1, <2>1, <2>3 DEF OverflowBounded
    <3>3. CASE EndPass \/ UNCHANGED vars
      BY <3>3 DEF EndPass, vars, OverflowBounded, Committed
    <3> QED BY <3>1, <3>2, <3>3 DEF Next
  <2> QED BY <2>2, <2>4
<1> QED BY <1>1, <1>2, TypeCorrect, PTL DEF Spec

-----------------------------------------------------------------------------

\* Writing the free slot and advancing the write pointer change nothing that
\* the queue holds; counting the message appends it.
LEMMA PiecewiseEnqueue ==
  ASSUME NEW cap \in Nat \ {0}, NEW M, NEW m \in M, NEW r \in RingOf(cap, M),
         r.num < cap
  PROVE  /\ InIsAfter(cap, r) => Contents(cap, StoreMsg(r, m)) = Contents(cap, r)
         /\ Contents(cap, AdvanceIn(cap, r)) = Contents(cap, r)
         /\ Contents(cap, CountMsg(r))
              = Append(Contents(cap, r), r.slot[SlotOf(cap, r, r.num + 1)])
<1>1. /\ r.num \in Nat /\ r.out \in 0 .. cap - 1 /\ r.in \in 0 .. cap - 1
      /\ r.slot \in [0 .. cap - 1 -> M]
  BY DEF RingOf
<1>2. InIsAfter(cap, r) => Contents(cap, StoreMsg(r, m)) = Contents(cap, r)
  <2> SUFFICES ASSUME InIsAfter(cap, r)
               PROVE  Contents(cap, StoreMsg(r, m)) = Contents(cap, r)
    OBVIOUS
  <2>1. /\ StoreMsg(r, m).num = r.num /\ StoreMsg(r, m).out = r.out
        /\ StoreMsg(r, m).slot = [r.slot EXCEPT ![r.in] = m]
    BY DEF StoreMsg, RingOf
  <2>2. ASSUME NEW i \in 1 .. r.num
        PROVE  /\ SlotOf(cap, StoreMsg(r, m), i) = SlotOf(cap, r, i)
               /\ SlotOf(cap, r, i) \in (0 .. cap - 1) \ {r.in}
    BY <1>1, <2>1 DEF SlotOf, InIsAfter
  <2>3. ASSUME NEW i \in 1 .. r.num
        PROVE  StoreMsg(r, m).slot[SlotOf(cap, StoreMsg(r, m), i)] = r.slot[SlotOf(cap, r, i)]
    BY <1>1, <2>1, <2>2
  <2> QED BY <2>1, <2>3 DEF Contents
<1>3. Contents(cap, AdvanceIn(cap, r)) = Contents(cap, r)
  <2>1. /\ AdvanceIn(cap, r).num = r.num /\ AdvanceIn(cap, r).out = r.out
        /\ AdvanceIn(cap, r).slot = r.slot
    BY DEF AdvanceIn, RingOf
  <2> QED BY <2>1 DEF Contents, SlotOf
<1>4. Contents(cap, CountMsg(r))
        = Append(Contents(cap, r), r.slot[SlotOf(cap, r, r.num + 1)])
  <2> DEFINE e == CountMsg(r)
             a == Append(Contents(cap, r), r.slot[SlotOf(cap, r, r.num + 1)])
  <2>1. e.num = r.num + 1 /\ e.out = r.out /\ e.slot = r.slot
    BY DEF CountMsg, RingOf
  <2>2. SlotOf(cap, r, r.num + 1) \in 0 .. cap - 1
    BY <1>1 DEF SlotOf
  <2>3. Contents(cap, r) \in Seq(M) /\ Len(Contents(cap, r)) = r.num
    BY <1>1, ContentsIsSeq
  <2>4. a \in Seq(M) /\ Len(a) = r.num + 1
    BY <1>1, <2>2, <2>3
  <2>5. Contents(cap, e) = [i \in 1 .. r.num + 1 |-> r.slot[SlotOf(cap, r, i)]]
    BY <2>1 DEF Contents, SlotOf
  <2>6. ASSUME NEW i \in 1 .. r.num + 1
        PROVE  r.slot[SlotOf(cap, r, i)] = a[i]
    <3>1. CASE i = r.num + 1
      BY <3>1, <2>3, <2>2, <1>1
    <3>2. CASE i # r.num + 1
      <4>1. i \in 1 .. r.num
        BY <3>2, <1>1
      <4>2. a[i] = Contents(cap, r)[i]
        BY <4>1, <2>3
      <4> QED BY <4>1, <4>2 DEF Contents
    <3> QED BY <3>1, <3>2
  <2>7. a = [i \in 1 .. r.num + 1 |-> a[i]]
    <3> HIDE DEF a
    <3> QED BY <2>4
  <2>8. Contents(cap, e) = a
    <3> HIDE DEF a
    <3> QED BY <2>5, <2>6, <2>7
  <2> QED BY <2>8
<1> QED BY <1>2, <1>3, <1>4

\* Where sender c stands: until it counts its message the contents are as they
\* were, and the slot after them holds the message once it is written.
SenderInv(c) ==
  /\ \A d \in Context : d # c => pc[d] = "idle"
  /\ pc[c] # "idle" => arg[c] \in Message
  /\ q.num <= Capacity
  /\ pc[c] \in {"disable", "store", "advance", "count"} => q.num < Capacity
  /\ pc[c] # "count" => InIsAfter(Capacity, q)
  /\ pc[c] = "advance" => q.slot[q.in] = arg[c]
  /\ pc[c] = "count" => /\ InIsAfter(Capacity, CountMsg(q))
                        /\ q.slot[SlotOf(Capacity, q, q.num + 1)] = arg[c]

\* With a single sending context the test for room is still good when the
\* message is stored, wherever the scheduler's steps fall: the queue is a
\* bounded FIFO.
THEOREM OneSenderFifo ==
  ASSUME NEW c, Senders = {c}
  PROVE  Spec => QueueIsFifo
<1> USE CapacityAssumption, LevelAssumption
<1> DEFINE Held == Contents(Capacity, q)
<1>1. Init => SenderInv(c) /\ Fifo!Init
  BY EmptyRingHolds
     DEF Init, SenderInv, Fifo!Init, Context, RingConsistent
<1>2. TypeOK /\ SenderInv(c) /\ [Next]_vars => SenderInv(c)' /\ [Fifo!Next]_Held
  <2> SUFFICES ASSUME TypeOK, SenderInv(c), [Next]_vars
               PROVE  SenderInv(c)' /\ [Fifo!Next]_Held
    OBVIOUS
  <2>1. /\ c \in Context /\ Senders = {c}
        /\ pc \in [Context -> Statement] /\ arg \in [Context -> Message \cup {Filler}]
        /\ q \in RingOf(Capacity, Message \cup {Filler}) /\ arg[c] \in Message \cup {Filler}
        /\ q.num \in Nat /\ q.out \in 0 .. Capacity - 1 /\ q.in \in 0 .. Capacity - 1
        /\ q.slot \in [0 .. Capacity - 1 -> Message \cup {Filler}]
    BY DEF TypeOK, Context, RingOf
  <2>2. CASE \/ \E m \in Message : Call(c, m)
             \/ Check(c) \/ Disable(c) \/ Enable(c)
    <3>1. q' = q /\ \A d \in Context : d # c => pc'[d] = pc[d]
      BY <2>1, <2>2 DEF Call, Check, Disable, Enable, Goto
    <3>2. SenderInv(c)'
      <4>1. CASE \E m \in Message : Call(c, m)
        <5>1. pc'[c] = "check" /\ arg'[c] \in Message /\ pc[c] = "idle"
          BY <2>1, <4>1 DEF Call, Goto, At
        <5> QED BY <3>1, <5>1 DEF SenderInv
      <4>2. CASE Check(c)
        <5>1. /\ pc[c] = "check" /\ arg' = arg
              /\ pc'[c] = "idle" \/ (pc'[c] = "disable" /\ q.num < Capacity)
          BY <2>1, <4>2 DEF Check, Goto, At, IsFull
        <5> QED BY <3>1, <5>1 DEF SenderInv
      <4>3. CASE Disable(c)
        <5>1. pc[c] = "disable" /\ arg' = arg /\ pc'[c] = "store"
          BY <2>1, <4>3 DEF Disable, Goto, At
        <5> QED BY <3>1, <5>1 DEF SenderInv
      <4>4. CASE Enable(c)
        <5>1. pc[c] = "enable" /\ arg' = arg /\ pc'[c] = "idle"
          BY <2>1, <4>4 DEF Enable, Goto, At
        <5> QED BY <3>1, <5>1 DEF SenderInv
      <4> QED BY <2>2, <4>1, <4>2, <4>3, <4>4
    <3> QED BY <3>1, <3>2
  <2>3. CASE Store(c)
    <3>1. /\ pc[c] = "store" /\ pc'[c] = "advance" /\ arg' = arg
          /\ \A d \in Context : d # c => pc'[d] = pc[d]
          /\ q' = StoreMsg(q, arg[c])
      BY <2>1, <2>3 DEF Store, Goto, At
    <3>2. /\ q'.num = q.num /\ q'.in = q.in /\ q'.out = q.out
          /\ q'.slot = [q.slot EXCEPT ![q.in] = arg[c]]
      BY <2>1, <3>1 DEF StoreMsg, RingOf
    <3>3. q'.slot[q'.in] = arg[c]
      BY <2>1, <3>2
    <3>4. SenderInv(c)'
      BY <3>1, <3>2, <3>3 DEF SenderInv, InIsAfter
    <3>5. Held' = Held
      <4>1. q.num < Capacity /\ InIsAfter(Capacity, q)
        BY <3>1 DEF SenderInv
      <4>2. ASSUME NEW M, NEW m \in M, q \in RingOf(Capacity, M)
            PROVE  Contents(Capacity, StoreMsg(q, m)) = Contents(Capacity, q)
        BY <4>1, <4>2, PiecewiseEnqueue
      <4>3. Contents(Capacity, StoreMsg(q, arg[c])) = Contents(Capacity, q)
        BY <2>1, <4>2
      <4> QED BY <3>1, <4>3
    <3> QED BY <3>4, <3>5
  <2>4. CASE Advance(c)
    <3>1. /\ pc[c] = "advance" /\ pc'[c] = "count" /\ arg' = arg
          /\ \A d \in Context : d # c => pc'[d] = pc[d]
          /\ q' = AdvanceIn(Capacity, q)
      BY <2>1, <2>4 DEF Advance, Goto, At
    <3>2. /\ q'.num = q.num /\ q'.out = q.out /\ q'.slot = q.slot
          /\ q'.in = NextSlot(Capacity, q.in)
          /\ CountMsg(q').in = q'.in /\ CountMsg(q').out = q.out
          /\ CountMsg(q').num = q.num + 1
      BY <2>1, <3>1 DEF AdvanceIn, CountMsg, RingOf
    <3>3. q.num < Capacity /\ InIsAfter(Capacity, q) /\ q.slot[q.in] = arg[c]
      BY <3>1 DEF SenderInv
    <3>4. SlotOf(Capacity, q', q'.num + 1) = q.in
      BY <2>1, <3>2, <3>3 DEF SlotOf, InIsAfter
    <3>5. InIsAfter(Capacity, CountMsg(q'))
      BY <2>1, <3>2, <3>3 DEF InIsAfter, NextSlot
    <3>6. SenderInv(c)'
      BY <3>1, <3>2, <3>3, <3>4, <3>5 DEF SenderInv
    <3>7. Held' = Held
      BY <2>1, <3>1, <3>3, PiecewiseEnqueue
    <3> QED BY <3>6, <3>7
  <2>5. CASE Count(c)
    <3>1. /\ pc[c] = "count" /\ pc'[c] = "enable" /\ arg' = arg
          /\ \A d \in Context : d # c => pc'[d] = pc[d]
          /\ q' = CountMsg(q)
      BY <2>1, <2>5 DEF Count, Goto, At
    <3>2. /\ q.num < Capacity /\ arg[c] \in Message
          /\ InIsAfter(Capacity, q')
          /\ q.slot[SlotOf(Capacity, q, q.num + 1)] = arg[c]
      BY <3>1 DEF SenderInv
    <3>3. q'.num = q.num + 1
      BY <2>1, <3>1 DEF CountMsg, RingOf
    <3>4. SenderInv(c)'
      BY <2>1, <3>1, <3>2, <3>3 DEF SenderInv
    <3>5. Held' = Append(Held, arg[c])
      BY <2>1, <3>1, <3>2, PiecewiseEnqueue
    <3>6. Len(Held) < Capacity
      <4>1. q.num <= Capacity
        BY <2>1, <3>2
      <4>2. Len(Held) = q.num
        BY <2>1, <4>1, ContentsIsSeq
      <4> QED BY <3>2, <4>2
    <3> QED BY <3>2, <3>4, <3>5, <3>6 DEF Fifo!Next, Fifo!Put
  <2>6. CASE Dispatch
    <3>1. /\ pc' = pc /\ arg' = arg /\ q' = Dequeue(Capacity, q) /\ q.num # 0
          /\ \A d \in Context : pc[d] = "idle"
      BY <2>6 DEF Dispatch, At, HasCpu, Context
    <3>2. RingConsistent(Capacity, q)
      BY <2>1, <3>1 DEF SenderInv, RingConsistent
    <3>3. /\ RingConsistent(Capacity, q') /\ Held # << >> /\ Held' = Tail(Held)
      BY <2>1, <3>1, <3>2, DequeueTakesHead
    <3>4. SenderInv(c)'
      BY <2>1, <3>1, <3>3 DEF SenderInv, RingConsistent
    <3> QED BY <3>3, <3>4 DEF Fifo!Next, Fifo!Get
  <2>7. CASE EndPass \/ UNCHANGED vars
    BY <2>7 DEF EndPass, vars, SenderInv
  <2> QED BY <2>1, <2>2, <2>3, <2>4, <2>5, <2>6, <2>7 DEF Next, SendMsg
<1> QED BY <1>1, <1>2, TypeCorrect, PTL DEF Spec, QueueIsFifo, Fifo!Spec

-----------------------------------------------------------------------------

\* A context that is inside ktos_SendMsg sends a message.
Sending == \A c \in Context : pc[c] # "idle" => arg[c] \in Message

\* When c is about to make a step, no context but c is in the critical section.
LEMMA OnlyTheTop ==
  ASSUME TypeOK, SectionInv, NEW c \in Context, HasCpu(c), c > 0 /\ pc[c] = "idle" => irq
  PROVE  \A e \in Context : pc[e] \in InSection => e = c
<1> SUFFICES ASSUME NEW e \in Context, pc[e] \in InSection, e # c PROVE FALSE
  OBVIOUS
<1>1. ~irq /\ HasCpu(e) /\ pc[e] # "idle"
  BY DEF SectionInv, InSection
<1>2. e < c /\ c > 0
  BY <1>1, LevelAssumption DEF HasCpu, Context
<1> QED BY <1>1, <1>2 DEF HasCpu

\* Then the pending part of the enqueue is that of c.
LEMMA SettledOf ==
  ASSUME NEW c \in Context, \A e \in Context : pc[e] \in InSection => e = c
  PROVE  /\ pc[c] = "advance" => Settled = CountMsg(AdvanceIn(Capacity, q))
         /\ pc[c] = "count" => Settled = CountMsg(q)
         /\ pc[c] \notin {"advance", "count"} => Settled = q
BY DEF Settled, InSection

\* A step of a sender is a step of the abstract queue, or none.
LEMMA SenderImplements ==
  ASSUME TypeOK, SectionInv, Sending, NEW c \in Senders, SendMsg(c)
  PROVE  [Shared!Next]_<<Settled, Promised>>
<1> USE LevelAssumption
<1>1. /\ c \in Context /\ Context \subseteq Int
      /\ pc \in [Context -> Statement] /\ arg \in [Context -> Message \cup {Filler}]
  BY DEF TypeOK, Context
<1>2. /\ HasCpu(c)
      /\ \A e \in Context : e # c => pc'[e] = pc[e] /\ arg'[e] = arg[e]
      /\ c > 0 /\ pc[c] = "idle" => irq
  BY <1>1 DEF SendMsg, Call, Check, Disable, Store, Advance, Count, Enable, Goto, At
<1>3. \A e \in Context : pc[e] \in InSection => e = c
  BY <1>1, <1>2, OnlyTheTop
<1>4. \A e \in Context : pc'[e] \in InSection => e = c
  BY <1>2, <1>3
<1>5. /\ pc[c] = "advance" => Settled = CountMsg(AdvanceIn(Capacity, q))
      /\ pc[c] = "count" => Settled = CountMsg(q)
      /\ pc[c] \notin {"advance", "count"} => Settled = q
  BY <1>1, <1>3, SettledOf
<1>6. /\ pc'[c] = "advance" => Settled' = CountMsg(AdvanceIn(Capacity, q'))
      /\ pc'[c] = "count" => Settled' = CountMsg(q')
      /\ pc'[c] \notin {"advance", "count"} => Settled' = q'
  BY <1>1, <1>4 DEF Settled, InSection
<1>7. \A e \in Context : pc[e] # "idle" => e <= c
  BY <1>1, <1>2 DEF HasCpu
<1>8. CASE \/ \E m \in Message : Call(c, m)
           \/ Check(c) /\ IsFull(Capacity, q)
           \/ Disable(c) \/ Enable(c)
  <2>1. q' = q /\ pc[c] \notin {"advance", "count"} /\ pc'[c] \notin {"advance", "count"}
    BY <1>1, <1>8 DEF Call, Check, Disable, Enable, Goto, At
  <2>2. Promised' = Promised
    <3>1. CASE Disable(c)
      <4>1. pc[c] = "disable" /\ pc'[c] = "store" /\ arg' = arg
        BY <1>1, <3>1 DEF Disable, Goto, At
      <4>2. \A e \in Context : (pc'[e] \in {"disable", "store"}) = (pc[e] \in {"disable", "store"})
        BY <1>2, <4>1
      <4> QED BY <4>1, <4>2 DEF Promised
    <3>2. CASE ~Disable(c)
      <4>1. pc[c] \notin {"disable", "store"} /\ pc'[c] \notin {"disable", "store"}
        BY <1>1, <1>8, <3>2 DEF Call, Check, Enable, Goto, At
      <4> QED BY <1>2, <4>1 DEF Promised
    <3> QED BY <3>1, <3>2
  <2> QED BY <1>5, <1>6, <2>1, <2>2
<1>9. CASE Check(c) /\ ~IsFull(Capacity, q)
  <2>1. /\ pc[c] = "check" /\ pc'[c] = "disable" /\ arg' = arg /\ q' = q
        /\ arg[c] \in Message
    BY <1>1, <1>9 DEF Check, Goto, At, Sending
  <2>2. Promised' = Promised \cup {<<c, arg[c]>>}
    BY <1>1, <1>2, <2>1 DEF Promised
  <2>3. \A p \in Promised : p[1] < c
    <3> SUFFICES ASSUME NEW d \in Context, pc[d] \in {"disable", "store"} PROVE d < c
      BY DEF Promised
    <3> QED BY <1>1, <1>7, <2>1
  <2>4. Settled = q /\ Settled' = q
    BY <1>5, <1>6, <2>1
  <2>5. Shared!Promise(c, arg[c])
    BY <1>9, <2>2, <2>3, <2>4 DEF Shared!Promise, IsFull, Shared!IsFull
  <2> QED BY <2>1, <2>5 DEF Shared!Next
<1>10. CASE Store(c)
  <2>1. /\ pc[c] = "store" /\ pc'[c] = "advance" /\ arg' = arg
        /\ q' = StoreMsg(q, arg[c]) /\ arg[c] \in Message
    BY <1>1, <1>10 DEF Store, Goto, At, Sending
  <2>2. Promised' = Promised \ {<<c, arg[c]>>} /\ <<c, arg[c]>> \in Promised
    BY <1>1, <1>2, <2>1 DEF Promised
  <2>3. \A p \in Promised : p[1] <= c
    <3> SUFFICES ASSUME NEW d \in Context, pc[d] \in {"disable", "store"} PROVE d <= c
      BY DEF Promised
    <3> QED BY <1>7
  <2>4. Settled = q /\ Settled' = Enqueue(Capacity, q, arg[c])
    BY <1>5, <1>6, <2>1 DEF Enqueue
  <2>5. Shared!Insert(c, arg[c])
    BY <2>2, <2>3, <2>4
       DEF Shared!Insert, Enqueue, CountMsg, AdvanceIn, StoreMsg, NextSlot,
           Shared!Enqueue, Shared!CountMsg, Shared!AdvanceIn, Shared!StoreMsg, Shared!NextSlot
  <2> QED BY <2>1, <2>5 DEF Shared!Next
<1>11. CASE Advance(c) \/ Count(c)
  <2>1. /\ pc[c] \notin {"disable", "store"} /\ pc'[c] \notin {"disable", "store"}
        /\ Settled' = Settled
    BY <1>1, <1>5, <1>6, <1>11 DEF Advance, Count, Goto, At
  <2>2. Promised' = Promised
    BY <1>2, <2>1 DEF Promised
  <2> QED BY <2>1, <2>2
<1> QED BY <1>8, <1>9, <1>10, <1>11 DEF SendMsg

\* For any number of nested senders, and whether or not the queue overflows, a send is
\* its test for room and an indivisible insertion of its own message.  So a model of the
\* kernel may make the statements between DisableInterrupts and EnableInterrupts of
\* ktos_SendMsg one step, as long as the test stays a step of its own.
THEOREM SendsImplementShared == Spec => SendsAreAtomic
<1>1. Init => Sending /\ Shared!Init
  <2> SUFFICES ASSUME Init PROVE Sending /\ Shared!Init
    OBVIOUS
  <2>1. \A c \in Context : pc[c] = "idle"
    BY DEF Init
  <2>2. Settled = q /\ Promised = {}
    BY <2>1 DEF Settled, Promised
  <2> QED BY <2>1, <2>2 DEF Init, Sending, Shared!Init, EmptyRing, Shared!EmptyRing
<1>2. TypeOK /\ Sending /\ [Next]_vars => Sending'
  <2> SUFFICES ASSUME TypeOK, Sending, [Next]_vars PROVE Sending'
    OBVIOUS
  <2>1. ASSUME NEW c \in Senders, SendMsg(c) PROVE Sending'
    <3>1. c \in Context /\ pc \in [Context -> Statement] /\ arg \in [Context -> Message \cup {Filler}]
      BY LevelAssumption DEF TypeOK, Context
    <3>2. CASE \E m \in Message : Call(c, m)
      BY <3>1, <3>2 DEF Sending, Call, Goto
    <3>3. CASE Check(c) \/ Disable(c) \/ Store(c) \/ Advance(c) \/ Count(c) \/ Enable(c)
      <4>1. arg' = arg /\ pc[c] # "idle" /\ \A d \in Context : d # c => pc'[d] = pc[d]
        BY <3>1, <3>3 DEF Check, Disable, Store, Advance, Count, Enable, Goto, At
      <4> QED BY <4>1 DEF Sending
    <3> QED BY <2>1, <3>2, <3>3 DEF SendMsg
  <2>2. CASE Dispatch \/ EndPass \/ UNCHANGED vars
    BY <2>2 DEF Sending, Dispatch, EndPass, vars
  <2> QED BY <2>1, <2>2 DEF Next
<1>3. TypeOK /\ SectionInv /\ Sending /\ [Next]_vars => [Shared!Next]_<<Settled, Promised>>
  <2> SUFFICES ASSUME TypeOK, SectionInv, Sending, [Next]_vars
               PROVE  [Shared!Next]_<<Settled, Promised>>
    OBVIOUS
  <2>1. CASE \E c \in Senders : SendMsg(c)
    BY <2>1, SenderImplements
  <2>2. CASE Dispatch \/ EndPass
    <3>1. pc' = pc /\ arg' = arg /\ \A c \in Context : pc[c] = "idle"
      BY <2>2, LevelAssumption DEF Dispatch, EndPass, At, HasCpu, Context
    <3>2. Settled = q /\ Settled' = q' /\ Promised = {} /\ Promised' = {}
      BY <3>1 DEF Settled, Promised
    <3>3. CASE Dispatch
      BY <3>2, <3>3 DEF Dispatch, Shared!Next, Shared!Remove,
                            Dequeue, NextSlot, Shared!Dequeue, Shared!NextSlot
    <3>4. CASE EndPass
      BY <3>2, <3>4 DEF EndPass
    <3> QED BY <2>2, <3>3, <3>4
  <2>3. CASE UNCHANGED vars
    BY <2>3 DEF vars, Settled, Promised
  <2> QED BY <2>1, <2>2, <2>3 DEF Next
<1> QED BY <1>1, <1>2, <1>3, TypeCorrect, SectionHolds, PTL
       DEF Spec, SendsAreAtomic, Shared!Spec, Shared!svars
=============================================================================
