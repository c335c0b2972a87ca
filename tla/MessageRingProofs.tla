-------------------------- MODULE MessageRingProofs --------------------------
(***************************************************************************)
(* What the operations of the circular queue do to the sequence of         *)
(* messages it holds, for every capacity and every set of messages.        *)
(***************************************************************************)
EXTENDS MessageRing, TLAPS

\* The ring operations keep a queue well formed.
LEMMA RingTypes ==
  ASSUME NEW cap \in Nat \ {0}, NEW M, NEW m \in M, NEW q \in RingOf(cap, M)
  PROVE  /\ StoreMsg(q, m) \in RingOf(cap, M)
         /\ AdvanceIn(cap, q) \in RingOf(cap, M)
         /\ CountMsg(q) \in RingOf(cap, M)
         /\ Enqueue(cap, q, m) \in RingOf(cap, M)
         /\ Oldest(q) \in M
         /\ q.num # 0 => Dequeue(cap, q) \in RingOf(cap, M)
<1>1. ASSUME NEW r \in RingOf(cap, M)
      PROVE  /\ StoreMsg(r, m) \in RingOf(cap, M)
             /\ AdvanceIn(cap, r) \in RingOf(cap, M)
             /\ CountMsg(r) \in RingOf(cap, M)
  <2>1. /\ r.in \in 0 .. cap - 1 /\ r.num + 1 \in Nat /\ r.slot \in [0 .. cap - 1 -> M]
        /\ NextSlot(cap, r.in) \in 0 .. cap - 1
    BY DEF RingOf, NextSlot
  <2>2. [r.slot EXCEPT ![r.in] = m] \in [0 .. cap - 1 -> M]
    BY <2>1
  <2>3. StoreMsg(r, m) \in RingOf(cap, M)
    BY <2>2 DEF RingOf, StoreMsg
  <2>4. AdvanceIn(cap, r) \in RingOf(cap, M)
    BY <2>1 DEF RingOf, AdvanceIn
  <2>5. CountMsg(r) \in RingOf(cap, M)
    BY <2>1 DEF RingOf, CountMsg
  <2> QED BY <2>3, <2>4, <2>5
<1>2. Enqueue(cap, q, m) \in RingOf(cap, M)
  BY <1>1 DEF Enqueue
<1>3. Oldest(q) \in M
  BY DEF RingOf, Oldest
<1>4. q.num # 0 => Dequeue(cap, q) \in RingOf(cap, M)
  <2>1. q.out \in 0 .. cap - 1 /\ q.num \in Nat /\ NextSlot(cap, q.out) \in 0 .. cap - 1
    BY DEF RingOf, NextSlot
  <2>2. q.num # 0 => q.num - 1 \in Nat
    BY <2>1
  <2> QED BY <2>1, <2>2 DEF RingOf, Dequeue
<1> QED BY <1>1, <1>2, <1>3, <1>4

\* A fresh queue is well formed, consistent and empty.
LEMMA EmptyRingHolds ==
  ASSUME NEW cap \in Nat \ {0}, NEW M, NEW filler \in M
  PROVE  /\ EmptyRing(cap, filler) \in RingOf(cap, M)
         /\ RingConsistent(cap, EmptyRing(cap, filler))
         /\ Contents(cap, EmptyRing(cap, filler)) = << >>
         /\ EmptyRing(cap, filler).num = 0
<1>1. /\ EmptyRing(cap, filler) \in RingOf(cap, M)
      /\ RingConsistent(cap, EmptyRing(cap, filler))
      /\ EmptyRing(cap, filler).num = 0
  BY DEF EmptyRing, RingOf, RingConsistent, InIsAfter
<1>2. Contents(cap, EmptyRing(cap, filler)) = << >>
  BY <1>1 DEF Contents
<1> QED BY <1>1, <1>2

\* The contents are a sequence of num messages.
LEMMA ContentsIsSeq ==
  ASSUME NEW cap \in Nat \ {0}, NEW M, NEW q \in RingOf(cap, M), q.num <= cap
  PROVE  /\ Contents(cap, q) \in Seq(M)
         /\ Len(Contents(cap, q)) = q.num
         /\ \A i \in 1 .. q.num : SlotOf(cap, q, i) \in 0 .. cap - 1
<1>1. q.num \in Nat /\ q.out \in 0 .. cap - 1 /\ q.slot \in [0 .. cap - 1 -> M]
  BY DEF RingOf
<1>2. \A i \in 1 .. q.num : SlotOf(cap, q, i) \in 0 .. cap - 1
  BY <1>1 DEF SlotOf
<1>3. \A i \in 1 .. q.num : Contents(cap, q)[i] \in M
  BY <1>1, <1>2 DEF Contents
<1>4. Contents(cap, q) = [i \in 1 .. q.num |-> Contents(cap, q)[i]]
  BY DEF Contents
<1>5. /\ Contents(cap, q) \in [1 .. q.num -> M]
      /\ q.num \in Nat
  BY <1>1, <1>3, <1>4
<1>6. Contents(cap, q) \in Seq(M) /\ Len(Contents(cap, q)) = q.num
  BY <1>5
<1> QED BY <1>2, <1>6

\* An enqueue with room appends the message.
LEMMA EnqueueAppends ==
  ASSUME NEW cap \in Nat \ {0}, NEW M, NEW m \in M, NEW q \in RingOf(cap, M),
         RingConsistent(cap, q), q.num < cap
  PROVE  /\ RingConsistent(cap, Enqueue(cap, q, m))
         /\ Enqueue(cap, q, m).num = q.num + 1
         /\ Contents(cap, Enqueue(cap, q, m)) = Append(Contents(cap, q), m)
<1> DEFINE e == Enqueue(cap, q, m)
<1>1. /\ q.num \in Nat /\ q.out \in 0 .. cap - 1 /\ q.in \in 0 .. cap - 1
      /\ q.slot \in [0 .. cap - 1 -> M]
  BY DEF RingOf
<1>2. /\ e.num = q.num + 1 /\ e.out = q.out /\ e.in = NextSlot(cap, q.in)
      /\ e.slot = [q.slot EXCEPT ![q.in] = m]
  BY DEF Enqueue, CountMsg, AdvanceIn, StoreMsg, RingOf
<1>3. RingConsistent(cap, e)
  BY <1>1, <1>2 DEF RingConsistent, InIsAfter, NextSlot
<1>4. SlotOf(cap, e, q.num + 1) = q.in
  BY <1>1, <1>2 DEF SlotOf, RingConsistent, InIsAfter
<1>5. ASSUME NEW i \in 1 .. q.num
      PROVE  /\ SlotOf(cap, e, i) = SlotOf(cap, q, i)
             /\ SlotOf(cap, q, i) \in (0 .. cap - 1) \ {q.in}
  BY <1>1, <1>2 DEF SlotOf, RingConsistent, InIsAfter
<1>6. /\ Contents(cap, q) \in Seq(M) /\ Len(Contents(cap, q)) = q.num
      /\ e \in RingOf(cap, M) /\ e.num <= cap
  BY <1>1, <1>2, ContentsIsSeq, RingTypes
<1>7. Contents(cap, e) \in Seq(M) /\ Len(Contents(cap, e)) = q.num + 1
  <2> HIDE DEF e
  <2> QED BY <1>2, <1>6, ContentsIsSeq
<1>8. ASSUME NEW i \in 1 .. q.num + 1
      PROVE  Contents(cap, e)[i] = Append(Contents(cap, q), m)[i]
  <2>1. CASE i = q.num + 1
    <3>1. Contents(cap, e)[i] = e.slot[q.in]
      BY <2>1, <1>1, <1>2, <1>4 DEF Contents
    <3>2. Append(Contents(cap, q), m)[i] = m
      BY <2>1, <1>6
    <3> QED BY <3>1, <3>2, <1>1, <1>2
  <2>2. CASE i # q.num + 1
    <3>1. i \in 1 .. q.num
      BY <2>2, <1>1
    <3>2. Contents(cap, e)[i] = e.slot[SlotOf(cap, e, i)]
      BY <1>2 DEF Contents
    <3>3. e.slot[SlotOf(cap, e, i)] = q.slot[SlotOf(cap, q, i)]
      BY <3>1, <1>5, <1>1, <1>2
    <3>4. Append(Contents(cap, q), m)[i] = Contents(cap, q)[i]
      BY <3>1, <1>6
    <3>5. Contents(cap, q)[i] = q.slot[SlotOf(cap, q, i)]
      BY <3>1 DEF Contents
    <3> QED BY <3>2, <3>3, <3>4, <3>5
  <2> QED BY <2>1, <2>2
<1>9. Contents(cap, e) = Append(Contents(cap, q), m)
  <2>1. /\ Append(Contents(cap, q), m) \in Seq(M)
        /\ Len(Append(Contents(cap, q), m)) = q.num + 1
    BY <1>6
  <2> HIDE DEF e
  <2> QED BY <2>1, <1>7, <1>8
<1> QED BY <1>2, <1>3, <1>9

\* A dequeue takes the oldest message from the front.
LEMMA DequeueTakesHead ==
  ASSUME NEW cap \in Nat \ {0}, NEW M, NEW q \in RingOf(cap, M),
         RingConsistent(cap, q), q.num # 0
  PROVE  /\ RingConsistent(cap, Dequeue(cap, q))
         /\ Dequeue(cap, q).num = q.num - 1
         /\ Contents(cap, q) # << >>
         /\ Oldest(q) = Head(Contents(cap, q))
         /\ Contents(cap, Dequeue(cap, q)) = Tail(Contents(cap, q))
<1> DEFINE d == Dequeue(cap, q)
<1>1. /\ q.num \in Nat \ {0} /\ q.out \in 0 .. cap - 1 /\ q.in \in 0 .. cap - 1
      /\ q.slot \in [0 .. cap - 1 -> M]
  BY DEF RingOf
<1>2. /\ d.num = q.num - 1 /\ d.in = q.in /\ d.out = NextSlot(cap, q.out)
      /\ d.slot = q.slot
  BY DEF Dequeue, RingOf
<1>3. RingConsistent(cap, d)
  BY <1>1, <1>2 DEF RingConsistent, InIsAfter, NextSlot
<1>4. ASSUME NEW i \in 1 .. q.num - 1
      PROVE  SlotOf(cap, d, i) = SlotOf(cap, q, i + 1)
  BY <1>1, <1>2 DEF SlotOf, NextSlot, RingConsistent, InIsAfter
<1>5. /\ Contents(cap, q) \in Seq(M) /\ Len(Contents(cap, q)) = q.num
      /\ d \in RingOf(cap, M) /\ d.num <= cap
  BY <1>1, <1>2, ContentsIsSeq, RingTypes DEF RingConsistent
<1>6. Contents(cap, q) # << >> /\ Oldest(q) = Head(Contents(cap, q))
  <2>1. Head(Contents(cap, q)) = Contents(cap, q)[1]
    BY <1>1, <1>5
  <2>2. Contents(cap, q)[1] = q.slot[SlotOf(cap, q, 1)]
    BY <1>1 DEF Contents
  <2>3. SlotOf(cap, q, 1) = q.out
    BY <1>1 DEF SlotOf
  <2> QED BY <2>1, <2>2, <2>3, <1>1, <1>5 DEF Oldest
<1>7. Contents(cap, d) \in Seq(M) /\ Len(Contents(cap, d)) = q.num - 1
  <2> HIDE DEF d
  <2> QED BY <1>2, <1>5, ContentsIsSeq
<1>8. ASSUME NEW i \in 1 .. q.num - 1
      PROVE  Contents(cap, d)[i] = Tail(Contents(cap, q))[i]
  <2>1. Contents(cap, d)[i] = q.slot[SlotOf(cap, d, i)]
    BY <1>1, <1>2 DEF Contents
  <2>2. Tail(Contents(cap, q))[i] = Contents(cap, q)[i + 1]
    BY <1>1, <1>5
  <2>3. Contents(cap, q)[i + 1] = q.slot[SlotOf(cap, q, i + 1)]
    BY <1>1 DEF Contents
  <2> QED BY <2>1, <2>2, <2>3, <1>4
<1>9. Contents(cap, d) = Tail(Contents(cap, q))
  <2>1. /\ Tail(Contents(cap, q)) \in Seq(M)
        /\ Len(Tail(Contents(cap, q))) = q.num - 1
    BY <1>1, <1>5
  <2> HIDE DEF d
  <2> QED BY <2>1, <1>7, <1>8
<1> QED BY <1>2, <1>3, <1>6, <1>9

\* The slots that were never written lie at and after the write offset, and
\* only until it wraps for the first time; M are the messages proper, without
\* the filler.
Written(cap, q, M) ==
  \/ \A i \in 0 .. cap - 1 : q.slot[i] \in M
  \/ q.out + q.num = q.in /\ \A i \in 0 .. q.in - 1 : q.slot[i] \in M

\* A message that is dequeued was enqueued: the filler of calloc is never
\* delivered, not even by a queue that has overflowed.
LEMMA WrittenHolds ==
  ASSUME NEW cap \in Nat \ {0}, NEW M, NEW filler, NEW m \in M,
         NEW q \in RingOf(cap, M \cup {filler}), Written(cap, q, M)
  PROVE  /\ Written(cap, Enqueue(cap, q, m), M)
         /\ q.num # 0 => Oldest(q) \in M /\ Written(cap, Dequeue(cap, q), M)
<1>1. /\ q.num \in Nat /\ q.out \in 0 .. cap - 1 /\ q.in \in 0 .. cap - 1
      /\ q.slot \in [0 .. cap - 1 -> M \cup {filler}]
  BY DEF RingOf
<1>2. Written(cap, Enqueue(cap, q, m), M)
  <2> DEFINE e == Enqueue(cap, q, m)
  <2>1. /\ e.num = q.num + 1 /\ e.out = q.out /\ e.in = NextSlot(cap, q.in)
        /\ e.slot = [q.slot EXCEPT ![q.in] = m]
    BY DEF Enqueue, CountMsg, AdvanceIn, StoreMsg, RingOf
  <2>2. \A i \in 0 .. cap - 1 : e.slot[i] = IF i = q.in THEN m ELSE q.slot[i]
    BY <1>1, <2>1
  <2>3. CASE \A i \in 0 .. cap - 1 : q.slot[i] \in M
    BY <2>2, <2>3 DEF Written
  <2>4. CASE q.out + q.num = q.in /\ \A i \in 0 .. q.in - 1 : q.slot[i] \in M
    <3>1. \A i \in 0 .. q.in : i \in 0 .. cap - 1 /\ e.slot[i] \in M
      BY <1>1, <2>2, <2>4
    <3>2. CASE q.in + 1 >= cap
      BY <1>1, <3>1, <3>2 DEF Written
    <3>3. CASE ~(q.in + 1 >= cap)
      <4>1. e.in = q.in + 1 /\ e.out + e.num = e.in
        BY <1>1, <2>1, <2>4, <3>3 DEF NextSlot
      <4>2. \A i \in 0 .. e.in - 1 : e.slot[i] \in M
        BY <1>1, <3>1, <4>1
      <4> QED BY <4>1, <4>2 DEF Written
    <3> QED BY <3>2, <3>3
  <2> QED BY <2>3, <2>4 DEF Written
<1>3. ASSUME q.num # 0
      PROVE  Oldest(q) \in M /\ Written(cap, Dequeue(cap, q), M)
  <2>1. /\ Dequeue(cap, q).num = q.num - 1 /\ Dequeue(cap, q).in = q.in
        /\ Dequeue(cap, q).out = NextSlot(cap, q.out) /\ Dequeue(cap, q).slot = q.slot
    BY DEF Dequeue, RingOf
  <2>2. CASE \A i \in 0 .. cap - 1 : q.slot[i] \in M
    BY <1>1, <2>1, <2>2 DEF Written, Oldest
  <2>3. CASE q.out + q.num = q.in /\ \A i \in 0 .. q.in - 1 : q.slot[i] \in M
    <3>1. q.out < q.in /\ NextSlot(cap, q.out) = q.out + 1
      BY <1>1, <1>3, <2>3 DEF NextSlot
    <3> QED BY <1>1, <1>3, <2>1, <2>3, <3>1 DEF Written, Oldest
  <2> QED BY <2>2, <2>3 DEF Written
<1> QED BY <1>2, <1>3
=============================================================================
