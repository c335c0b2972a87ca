----------------------------- MODULE RosProofs -----------------------------
(***************************************************************************)
(* Both ends of the ROS 2 bridge.  The node leaks no port, for any number  *)
(* of Serial objects.  The firmware's lines, its state and its STATUS are  *)
(* as stated, for any sizes of line buffer and queue.                      *)
(***************************************************************************)
EXTENDS RosNode, RosFirmware, TLAPS

(***************************************************************************)
(* The node.                                                               *)
(***************************************************************************)

\* NoLeakedPort is not inductive: when the reader stores a port it must not replace one.
\* So no port may be shared while the reader is outside its inner loop, although the
\* spinning thread writes the handle as well.
NothingShared == reader \in {"loop", "connect", "opened", "pause", "done"} => _serial = Closed

Inv == NodeTypeOK /\ NoLeakedPort /\ NothingShared

LEMMA InitEstablishes == NodeInit => Inv
BY DEF NodeInit, Inv, NodeTypeOK, NoLeakedPort, NothingShared, ReaderAt, SpinAt

\* The steps of the reader, which keep the other thread's state.
LEMMA ReaderPreserves == Inv /\ Reader => Inv'
<1> SUFFICES ASSUME Inv, Reader PROVE Inv'
  OBVIOUS
<1> USE ClosedAssumption DEF Inv, NodeTypeOK, NoLeakedPort, NothingShared, ReaderStep, device,
                             ReaderAt
<1>1. CASE OuterLoop
  BY <1>1 DEF OuterLoop
<1>2. CASE OpenPort
  <2> PICK p \in Port \ (live \cup {_serial, cser}) :
        rser' = p /\ live' = live \cup {p} /\ broken' = broken \ {p}
    BY <1>2 DEF OpenPort
  <2>1. live = {}
    BY <1>2 DEF OpenPort
  <2>2. live' = {rser'} /\ reader' = "opened" /\ _serial' = Closed
    BY <1>2, <2>1 DEF OpenPort
  <2> QED
    BY <1>2, <2>2 DEF OpenPort
<1>3. CASE OpenFails
  BY <1>3 DEF OpenFails
<1>4. CASE StorePort
  BY <1>4 DEF StorePort
<1>5. CASE InnerLoop
  BY <1>5 DEF InnerLoop
<1>6. CASE FetchPort
  BY <1>6 DEF FetchPort
<1>7. CASE CheckPort
  BY <1>7 DEF CheckPort
<1>8. CASE ReadLine
  BY <1>8 DEF ReadLine
<1>9. CASE Finally
  BY <1>9 DEF Finally, Disconnect
<1>10. CASE Pause
  BY <1>10 DEF Pause
<1> QED
  BY <1>1, <1>2, <1>3, <1>4, <1>5, <1>6, <1>7, <1>8, <1>9, <1>10 DEF Reader

\* The steps of the spinning thread, which keep the reader's, and of the device.
LEMMA OthersPreserve ==
  Inv /\ (Commands \/ Interrupt \/ Destroy \/ ProcessExits \/ Unplug \/ Plug
                            \/ UNCHANGED nodeVars) => Inv'
<1> SUFFICES ASSUME Inv, Commands \/ Interrupt \/ Destroy \/ ProcessExits \/ Unplug \/ Plug
                            \/ UNCHANGED nodeVars
             PROVE Inv'
  OBVIOUS
<1> USE ClosedAssumption DEF Inv, NodeTypeOK, NoLeakedPort, NothingShared, SpinStep, device, SpinAt
<1>1. CASE Commands
  BY <1>1 DEF Commands, Cmd, FetchForCmd, WriteOrDrop, WriteRaises
<1>2. CASE Interrupt
  BY <1>2 DEF Interrupt
<1>3. CASE StopRunning
  BY <1>3 DEF StopRunning
<1>4. CASE DestroyDisconnects
  BY <1>4 DEF DestroyDisconnects, Disconnect
<1>5. CASE Unplug
  BY <1>5 DEF Unplug
<1>6. CASE Plug
  BY <1>6 DEF Plug
<1>7. CASE UNCHANGED nodeVars
  BY <1>7 DEF nodeVars
<1>8. CASE ProcessExits
  BY <1>8 DEF ProcessExits
<1> QED
  BY <1>1, <1>2, <1>3, <1>4, <1>5, <1>6, <1>7, <1>8 DEF Destroy

LEMMA Invariance == NodeInit /\ [][NodeNext]_nodeVars => []Inv
<1>1. Inv /\ [NodeNext]_nodeVars => Inv'
  BY ReaderPreserves, OthersPreserve DEF NodeNext, Done
<1> QED
  BY InitEstablishes, <1>1, PTL

\* Every open port is reachable for the next _disconnect, there is never a second one, and
\* none is left when the reader ends, whatever the interleaving of the two threads and
\* the device (serial_bridge_node.py:78-141, :204-207).
THEOREM NoPortLeaks == NodeInit /\ [][NodeNext]_nodeVars => []NoLeakedPort
BY Invariance, PTL DEF Inv

\* The two threads' steps keep the types.
THEOREM TypeCorrect == NodeInit /\ [][NodeNext]_nodeVars => []NodeTypeOK
BY Invariance, PTL DEF Inv

(***************************************************************************)
(* The firmware: the five tasks' kernel.                                   *)
(***************************************************************************)
Five == {"H", "N", "T", "R", "C"}
RosRing == <<"H", "N", "T", "R", "C">>
RosMessages == ({"led"} \X {0, 1}) \cup ({"motor"} \X {AsShort(n) : n \in Speeds})
RosKernels == [ring : {RosRing}, last : Five, fresh : SUBSET Five, armed : SUBSET Five,
               due : SUBSET Five, mail : [Five -> Seq(RosMessages)]]

\* Nobody posts to another task than C.
RosShape == rosOs \in RosKernels /\ \A t \in Five \ {"C"} : rosOs.mail[t] = << >>

\* Mail of C's taken in a turn of t.
Rest(k, t) == IF t = "C" /\ t \notin k.fresh /\ k.mail[t] # << >> THEN Tail(k.mail["C"])
              ELSE k.mail["C"]

\* Begin and end of a turn, as far as the proofs look at the record.
LEMMA RosTaken ==
  ASSUME RosShape, NEW t \in Five
  PROVE  LET k == Taken(rosOs, t) IN
         /\ k \in RosKernels /\ \A u \in Five \ {"C"} : k.mail[u] = << >>
         /\ k.last = t /\ k.fresh = rosOs.fresh \ {t} /\ k.mail["C"] = Rest(rosOs, t)
<1> DEFINE box == IF t \notin rosOs.fresh /\ rosOs.mail[t] # << >>
                    THEN Tail(rosOs.mail[t]) ELSE rosOs.mail[t]
           f == rosOs.fresh \ {t}
           m == [rosOs.mail EXCEPT ![t] = box]
<1>1. rosOs \in RosKernels /\ rosOs.mail \in [Five -> Seq(RosMessages)]
  BY DEF RosShape, RosKernels
<1>2. box \in Seq(RosMessages)
  BY <1>1
<1>3. m \in [Five -> Seq(RosMessages)] /\ m[t] = box /\ \A u \in Five \ {t} : m[u] = rosOs.mail[u]
  BY <1>1, <1>2
<1>4. f \in SUBSET Five
  BY <1>1 DEF RosKernels
<1>5. Taken(rosOs, t) = [rosOs EXCEPT !.last = t, !.fresh = f, !.mail = m]
  BY <1>1 DEF Taken, RosKernels
<1>6. t # "C" => box = << >>
  BY DEF RosShape
<1>7. box = IF t = "C" THEN Rest(rosOs, t) ELSE << >>
  BY <1>6 DEF Rest
<1> HIDE DEF box, f, m
<1>8. Taken(rosOs, t) \in RosKernels
  BY <1>1, <1>3, <1>4, <1>5 DEF RosKernels
<1>9. /\ Taken(rosOs, t).last = t /\ Taken(rosOs, t).fresh = f /\ Taken(rosOs, t).mail = m
  BY <1>1, <1>5 DEF RosKernels
<1>10. \A u \in Five \ {"C"} : m[u] = << >>
  BY <1>3, <1>7 DEF RosShape
<1>11. m["C"] = Rest(rosOs, t)
  BY <1>3, <1>7 DEF Rest, Five
<1> QED BY <1>8, <1>9, <1>10, <1>11 DEF f

LEMMA RosReturned ==
  ASSUME NEW k \in RosKernels, NEW t \in Five, NEW delay
  PROVE  /\ Returned(k, t, delay) \in RosKernels /\ Expired(k, t) \in RosKernels
         /\ \A r \in {Returned(k, t, delay), Expired(k, t)} :
              r.mail = k.mail /\ r.last = k.last /\ r.fresh = k.fresh
BY DEF RosKernels, Returned, Expired, AllExpired

LEMMA RosPosted ==
  ASSUME RosShape, NEW msg \in RosMessages
  PROVE  LET k == Posted(rosOs, "C", msg, RosQueue) IN
         /\ k \in RosKernels /\ \A u \in Five \ {"C"} : k.mail[u] = << >>
         /\ k.last = rosOs.last /\ k.fresh = rosOs.fresh
         /\ \/ k = rosOs
            \/ k # rosOs /\ k.mail["C"] = Append(rosOs.mail["C"], msg)
<1> DEFINE box == Append(rosOs.mail["C"], msg)
           m == [rosOs.mail EXCEPT !["C"] = box]
<1>1. rosOs \in RosKernels /\ rosOs.mail \in [Five -> Seq(RosMessages)] /\ "C" \in Five
  BY DEF RosShape, RosKernels, Five
<1>2. CASE Len(rosOs.mail["C"]) < RosQueue
  <2>1. box \in Seq(RosMessages) /\ box # rosOs.mail["C"]
    <3>1. rosOs.mail["C"] \in Seq(RosMessages)
      BY <1>1
    <3>2. Len(box) = Len(rosOs.mail["C"]) + 1 /\ Len(rosOs.mail["C"]) \in Nat
      BY <3>1
    <3> QED BY <3>1, <3>2
  <2>2. m \in [Five -> Seq(RosMessages)] /\ m["C"] = box
        /\ \A u \in Five \ {"C"} : m[u] = rosOs.mail[u]
    BY <1>1, <2>1
  <2>3. Posted(rosOs, "C", msg, RosQueue) = [rosOs EXCEPT !.mail = m]
    BY <1>1, <1>2 DEF Posted, RosKernels
  <2> HIDE DEF box, m
  <2>4. /\ Posted(rosOs, "C", msg, RosQueue) \in RosKernels
        /\ Posted(rosOs, "C", msg, RosQueue).mail = m
        /\ Posted(rosOs, "C", msg, RosQueue).last = rosOs.last
        /\ Posted(rosOs, "C", msg, RosQueue).fresh = rosOs.fresh
    BY <1>1, <2>2, <2>3 DEF RosKernels
  <2>5. Posted(rosOs, "C", msg, RosQueue) # rosOs
    BY <2>1, <2>2, <2>4
  <2>6. \A u \in Five \ {"C"} : m[u] = << >>
    BY <2>2 DEF RosShape
  <2> QED BY <2>2, <2>4, <2>5, <2>6 DEF box
<1>3. CASE ~(Len(rosOs.mail["C"]) < RosQueue)
  BY <1>1, <1>3 DEF Posted, RosShape
<1> QED BY <1>2, <1>3

\* The loop visits some task next; the task behind R in the ring is C.
LEMMA RosVisits ==
  ASSUME RosShape
  PROVE  /\ TasksOf(rosOs) = Five /\ Visited(rosOs) \in Five
         /\ rosOs.last = "R" =>
              /\ Visits(rosOs, "C") = 0
              /\ \A t \in Five \ {"C"} : Visits(rosOs, t) \in 1..4
<1> DEFINE place(u) == CHOOSE i \in DOMAIN rosOs.ring : rosOs.ring[i] = u
           last == rosOs.last
<1>1. /\ rosOs.ring = RosRing /\ DOMAIN RosRing = 1..5 /\ Len(RosRing) = 5
      /\ RosRing[1] = "H" /\ RosRing[2] = "N" /\ RosRing[3] = "T" /\ RosRing[4] = "R"
      /\ RosRing[5] = "C" /\ last \in Five
  BY DEF RosShape, RosKernels, RosRing
<1>2. \A t \in Five : place(t) \in 1..5 /\ RosRing[place(t)] = t
  BY <1>1 DEF Five
<1>3. \A i, j \in 1..5 : RosRing[i] = RosRing[j] => i = j
  BY <1>1
<1>4. \A i \in 1..5 : RosRing[i] \in Five /\ place(RosRing[i]) = i
  BY <1>1, <1>3 DEF Five
<1>5. \A t : Visits(rosOs, t) = (place(t) - place(last) - 1) % 5
  BY <1>1, Zenon DEF Visits
<1> HIDE DEF place, last
<1>6. TasksOf(rosOs) = Five
  BY <1>1 DEF TasksOf, Five
<1>7. \E t \in Five : Visits(rosOs, t) = 0
  <2> DEFINE p == place(last)
             n == (p % 5) + 1
  <2>1. p \in 1..5
    BY <1>1, <1>2
  <2> HIDE DEF p
  <2>2. n \in 1..5 /\ (n - p - 1) % 5 = 0
    BY <2>1
  <2> HIDE DEF n
  <2>3. RosRing[n] \in Five /\ place(RosRing[n]) = n
    BY <1>4, <2>2
  <2>4. Visits(rosOs, RosRing[n]) = (n - p - 1) % 5
    BY <1>5, <2>3 DEF p
  <2> QED BY <2>2, <2>3, <2>4
<1>8. Visited(rosOs) \in Five
  BY <1>6, <1>7 DEF Visited
<1>9. ASSUME last = "R"
      PROVE  /\ Visits(rosOs, "C") = 0
             /\ \A t \in Five \ {"C"} : Visits(rosOs, t) \in 1..4
  <2>1. place("R") = 4 /\ place("C") = 5
    BY <1>1, <1>4
  <2>2. Visits(rosOs, "C") = 0
    <3>1. (5 - 4 - 1) % 5 = 0
      OBVIOUS
    <3> QED BY <1>5, <1>9, <2>1, <3>1
  <2>3. ASSUME NEW t \in Five \ {"C"} PROVE Visits(rosOs, t) \in 1..4
    <3>1. place(t) \in 1..4
      BY <1>1, <1>2
    <3>2. \A i \in 1..4 : (i - 4 - 1) % 5 = i
      OBVIOUS
    <3> QED BY <1>5, <1>9, <2>1, <3>1, <3>2
  <2> QED BY <2>2, <2>3
<1> QED BY <1>6, <1>8, <1>9 DEF last

\* After R's turn nobody comes before C,
LEMMA CommandIsNext ==
  ASSUME RosShape, rosOs.last = "R", IsReady(rosOs, "C"), NEW t \in Five, HasTurn(rosOs, t)
  PROVE  t = "C"
<1>1. Visits(rosOs, "C") = 0 /\ "C" \in TasksOf(rosOs) /\ (t # "C" => Visits(rosOs, t) \in 1..4)
  BY RosVisits DEF Five
<1>2. Visits(rosOs, t) <= 0
  BY <1>1 DEF HasTurn
<1> QED BY <1>1, <1>2

\* and the loop does not pass it by.
LEMMA RosPassed ==
  ASSUME RosShape, CanPass(rosOs)
  PROVE  LET k == PassedBy(rosOs) IN
         /\ k \in RosKernels /\ k.mail = rosOs.mail /\ k.fresh = rosOs.fresh
         /\ rosOs.last = "R" => ~IsReady(rosOs, "C")
<1>1. Visited(rosOs) \in Five /\ (rosOs.last = "R" => Visited(rosOs) = "C")
  <2>1. TasksOf(rosOs) = Five /\ Visited(rosOs) \in Five
    BY RosVisits
  <2>2. ASSUME rosOs.last = "R" PROVE Visited(rosOs) = "C"
    <3>1. Visits(rosOs, "C") = 0 /\ \A t \in Five : Visits(rosOs, t) = 0 => t = "C"
      <4>1. \A t \in Five \ {"C"} : Visits(rosOs, t) # 0
        BY <2>2, RosVisits
      <4> QED BY <2>2, <4>1, RosVisits
    <3> QED BY <2>1, <3>1 DEF Visited, Five
  <2> QED BY <2>1, <2>2
<1>2. rosOs \in RosKernels
  BY DEF RosShape
<1> QED BY <1>1, <1>2 DEF RosKernels, PassedBy, CanPass

(***************************************************************************)
(* The line: the buffer is as long as the characters since the newline     *)
(* modulo LineMax, and holds the last of them.                             *)
(***************************************************************************)
LineTypes == line_buf \in Seq(Character) /\ tail \in Seq(Character) /\ count \in Nat

LineInv ==
  /\ LineTypes
  /\ count = Len(line_buf) /\ count <= Len(tail) /\ Len(tail) <= LineMax - 1
  /\ LineIsTail
  /\ "R" \in rosOs.fresh => count = 0 /\ ~polling

LEMMA SmallRemainder ==
  ASSUME NEW N \in Nat \ {0}, NEW a \in 0..N - 1
  PROVE  a % N = a /\ N % N = 0
BY SMTT(30)

LEMMA SameSeq ==
  ASSUME NEW s \in Seq(Character), NEW u \in Seq(Character), Len(s) = Len(u),
         \A i \in 1..Len(s) : s[i] = u[i]
  PROVE  s = u
OBVIOUS

\* The last characters of a sequence, and what appending one makes of them.
LEMMA LastOnes ==
  ASSUME NEW s \in Seq(Character), NEW n \in 0..Len(s), NEW c \in Character
  PROVE  LET last == SubSeq(s, Len(s) - n + 1, Len(s)) IN
         /\ last \in Seq(Character) /\ Len(last) = n
         /\ Append(last, c) = SubSeq(Append(s, c), Len(s) - n + 1, Len(s) + 1)
         /\ s # << >> /\ n < Len(s)
              => Append(last, c) = SubSeq(Append(Tail(s), c), Len(s) - n, Len(s))
<1> DEFINE last == SubSeq(s, Len(s) - n + 1, Len(s))
           more == SubSeq(Append(s, c), Len(s) - n + 1, Len(s) + 1)
           moved == SubSeq(Append(Tail(s), c), Len(s) - n, Len(s))
<1>1. Len(s) \in Nat /\ n \in Nat /\ n <= Len(s)
  OBVIOUS
<1>2. last \in Seq(Character) /\ Len(last) = n /\ \A i \in 1..n : last[i] = s[Len(s) - n + i]
  <2>1. \A i \in Len(s) - n + 1 .. Len(s) : s[i] \in Character
    BY <1>1
  <2> QED BY <1>1, <2>1
<1>3. /\ Append(s, c) \in Seq(Character) /\ Len(Append(s, c)) = Len(s) + 1
      /\ \A i \in 1..Len(s) : Append(s, c)[i] = s[i]
      /\ Append(s, c)[Len(s) + 1] = c
  OBVIOUS
<1>4. /\ Append(last, c) \in Seq(Character) /\ Len(Append(last, c)) = n + 1
      /\ \A i \in 1..n : Append(last, c)[i] = last[i]
      /\ Append(last, c)[n + 1] = c
  BY <1>2
<1>5. Append(last, c) = more
  <2>1. more \in Seq(Character) /\ Len(more) = n + 1
        /\ \A i \in 1..n + 1 : more[i] = Append(s, c)[Len(s) - n + i]
    BY <1>1, <1>3
  <2>2. \A i \in 1..n + 1 : Append(last, c)[i] = more[i]
    BY <1>1, <1>2, <1>3, <1>4, <2>1
  <2> QED BY <1>1, <1>4, <2>1, <2>2
<1>6. CASE s # << >> /\ n < Len(s)
  <2> DEFINE r == Append(Tail(s), c)
  <2>1. /\ Tail(s) \in Seq(Character) /\ Len(Tail(s)) = Len(s) - 1
        /\ \A i \in 1..Len(s) - 1 : Tail(s)[i] = s[i + 1]
    BY <1>6
  <2>2. /\ r \in Seq(Character) /\ Len(r) = Len(s)
        /\ \A i \in 1..Len(s) - 1 : r[i] = s[i + 1]
        /\ r[Len(s)] = c
    BY <1>1, <2>1
  <2> HIDE DEF r
  <2>3. SubSeq(r, Len(s) - n, Len(s)) \in Seq(Character)
        /\ Len(SubSeq(r, Len(s) - n, Len(s))) = n + 1
        /\ \A i \in 1..n + 1 : SubSeq(r, Len(s) - n, Len(s))[i] = r[Len(s) - n + i - 1]
    BY <1>1, <1>6, <2>2
  <2>4. \A i \in 1..n + 1 : Append(last, c)[i] = SubSeq(r, Len(s) - n, Len(s))[i]
    BY <1>1, <1>2, <1>4, <1>6, <2>2, <2>3
  <2>5. Append(last, c) = SubSeq(r, Len(s) - n, Len(s))
    <3> DEFINE w == SubSeq(r, Len(s) - n, Len(s))
    <3> HIDE DEF w
    <3>1. w \in Seq(Character) /\ Len(w) = n + 1 /\ \A i \in 1..n + 1 : Append(last, c)[i] = w[i]
      BY <2>3, <2>4 DEF w
    <3> HIDE DEF last
    <3>2. Append(last, c) = w
      BY <1>4, <3>1, SameSeq
    <3> QED BY <3>2 DEF w
  <2> QED BY <1>2, <1>5, <1>6, <2>5 DEF r
<1> QED BY <1>2, <1>5, <1>6

\* One more character of a line.
LEMMA CharKeepsLine ==
  ASSUME LineInv, RosShape, NEW c \in Character, PollChar(c)
  PROVE  LineInv'
<1> USE DEF history, applied
<1>1. LineMax \in Nat \ {0, 1} /\ LineTypes /\ Len(line_buf) \in Nat /\ Len(tail) \in Nat
  BY LineMaxAssumption DEF LineInv, LineTypes
<1>2. /\ polling' = polling /\ rosOs' = rosOs /\ polling
      /\ line_buf' = Stored(c) /\ count' = (count + 1) % LineMax
      /\ tail' = IF Len(tail) < LineMax - 1 THEN Append(tail, c) ELSE Append(Tail(tail), c)
  BY DEF PollChar
<1>3. count \in 0..Len(tail) /\ line_buf = SubSeq(tail, Len(tail) - count + 1, Len(tail))
  <2>1. count \in Nat /\ count <= Len(tail)
    BY DEF LineInv, LineTypes
  <2>2. line_buf = SubSeq(tail, Len(tail) - count + 1, Len(tail))
    BY DEF LineInv, LineIsTail
  <2> QED BY <1>1, <2>1, <2>2
<1>4. tail' \in Seq(Character)
      /\ Len(tail') = IF Len(tail) < LineMax - 1 THEN Len(tail) + 1 ELSE Len(tail)
  <2>1. CASE Len(tail) < LineMax - 1
    BY <1>1, <1>2, <2>1 DEF LineTypes
  <2>2. CASE ~(Len(tail) < LineMax - 1)
    <3>1. tail # << >>
      BY <1>1, <2>2
    <3>2. Tail(tail) \in Seq(Character) /\ Len(Tail(tail)) = Len(tail) - 1
      BY <1>1, <3>1 DEF LineTypes
    <3> QED BY <1>1, <1>2, <2>2, <3>2
  <2> QED BY <2>1, <2>2
<1>5. CASE count < LineMax - 1
  <2>1. count' = count + 1 /\ line_buf' = Append(line_buf, c)
    <3>1. count + 1 \in 0..LineMax - 1
      BY <1>1, <1>3, <1>5
    <3>2. (count + 1) % LineMax = count + 1
      BY <1>1, <3>1, SmallRemainder
    <3> QED BY <1>2, <1>5, <3>2 DEF Stored, LineInv
  <2>2. line_buf' = SubSeq(tail', Len(tail') - count' + 1, Len(tail'))
    <3>1. CASE Len(tail) < LineMax - 1
      <4>1. Len(tail') = Len(tail) + 1 /\ tail' = Append(tail, c)
        BY <1>2, <1>4, <3>1
      <4>2. line_buf' = SubSeq(Append(tail, c), Len(tail) - count + 1, Len(tail) + 1)
        BY <1>1, <1>3, <2>1, LastOnes DEF LineTypes
      <4>3. Len(tail') - count' + 1 = Len(tail) - count + 1
        BY <1>1, <1>3, <2>1, <4>1
      <4> QED BY <4>1, <4>2, <4>3
    <3>2. CASE ~(Len(tail) < LineMax - 1)
      <4>1. Len(tail') = Len(tail) /\ tail' = Append(Tail(tail), c) /\ tail # << >>
            /\ count < Len(tail)
        <5>1. Len(tail') = Len(tail) /\ tail' = Append(Tail(tail), c)
          BY <1>2, <1>4, <3>2
        <5>2. Len(tail) >= LineMax - 1
          BY <1>1, <3>2
        <5>3. Len(tail) > 0 /\ count < Len(tail)
          BY <1>1, <1>3, <1>5, <5>2
        <5> QED BY <5>1, <5>3
      <4>2. line_buf' = SubSeq(Append(Tail(tail), c), Len(tail) - count, Len(tail))
        BY <1>1, <1>3, <2>1, <4>1, LastOnes DEF LineTypes
      <4>3. Len(tail') - count' + 1 = Len(tail) - count
        BY <1>1, <1>3, <2>1, <4>1
      <4> QED BY <4>1, <4>2, <4>3
    <3> QED BY <3>1, <3>2
  <2>3. line_buf' \in Seq(Character) /\ Len(line_buf') = count'
    BY <1>1, <2>1 DEF LineInv, LineTypes
  <2>4. count' \in Nat /\ count' <= Len(tail') /\ Len(tail') <= LineMax - 1
    <3>1. count \in Nat /\ count <= Len(tail) /\ Len(tail) <= LineMax - 1
      BY DEF LineInv, LineTypes
    <3> QED BY <1>1, <1>4, <1>5, <2>1, <3>1
  <2>5. "R" \in rosOs'.fresh => count' = 0 /\ ~polling'
    BY <1>2 DEF LineInv
  <2> QED BY <1>4, <2>2, <2>3, <2>4, <2>5 DEF LineInv, LineTypes, LineIsTail
<1>6. CASE ~(count < LineMax - 1)
  <2>1. count = LineMax - 1
    BY <1>1, <1>6 DEF LineInv, LineTypes
  <2>2. count' = 0 /\ line_buf' = << >>
    <3>1. count + 1 = LineMax /\ LineMax \in Nat \ {0} /\ 0 \in 0..LineMax - 1
      BY <1>1, <2>1
    <3>2. LineMax % LineMax = 0
      BY <3>1, SmallRemainder
    <3>3. Len(line_buf) = LineMax - 1
      BY <2>1 DEF LineInv
    <3>4. line_buf' = << >>
      BY <1>1, <1>2, <3>3 DEF Stored
    <3> QED BY <1>2, <3>1, <3>2, <3>4
  <2>3. SubSeq(tail', Len(tail') + 1, Len(tail')) = << >>
    BY <1>4
  <2>4. LineIsTail'
    <3>1. Len(tail') - 0 + 1 = Len(tail') + 1
      BY <1>1, <1>4
    <3> QED BY <2>2, <2>3, <3>1 DEF LineIsTail
  <2>5. LineTypes' /\ Len(line_buf') = 0 /\ count' <= Len(tail')
    BY <1>1, <1>4, <2>2 DEF LineTypes
  <2>6. Len(tail') <= LineMax - 1
    BY <1>1, <1>4 DEF LineInv
  <2>7. "R" \in rosOs'.fresh => count' = 0 /\ ~polling'
    BY <1>2 DEF LineInv
  <2> QED BY <2>2, <2>4, <2>5, <2>6, <2>7 DEF LineInv
<1> QED BY <1>5, <1>6

LEMMA LineKept == RosShape /\ LineInv /\ [RosNext]_rosVars => LineInv'
<1> SUFFICES ASSUME RosShape, LineInv, [RosNext]_rosVars PROVE LineInv'
  OBVIOUS
<1> USE DEF line, applied, history
<1>1. rosOs \in RosKernels /\ LineMax \in Nat \ {0, 1}
  BY LineMaxAssumption DEF RosShape
<1>2. ASSUME NEW t \in Five, NEW delay, rosOs' = Returned(Taken(rosOs, t), t, delay),
             UNCHANGED <<polling, line>>
      PROVE  LineInv'
  <2>1. rosOs'.fresh = rosOs.fresh \ {t}
    BY <1>2, RosTaken, RosReturned
  <2> QED BY <1>2, <2>1 DEF LineInv, LineTypes, LineIsTail
<1>3. CASE PollBegins
  <2>1. "R" \in Five
    BY DEF Five
  <2>2. rosOs'.fresh = rosOs.fresh \ {"R"}
    BY <1>3, <2>1, RosTaken DEF PollBegins
  <2> QED BY <1>3, <2>2 DEF PollBegins, LineInv, LineTypes, LineIsTail
<1>4. CASE PollEnds
  <2>1. rosOs'.fresh = rosOs.fresh
    BY <1>1, <1>4, RosReturned DEF PollEnds, RosEnd, Five
  <2> QED BY <1>4, <2>1 DEF PollEnds, LineInv, LineTypes, LineIsTail
<1>5. CASE \E c \in Character : PollChar(c)
  BY <1>5, CharKeepsLine
<1>6. CASE \E speed \in Speeds : PollNewline(speed)
  <2>1. line_buf' = << >> /\ count' = 0 /\ tail' = << >> /\ polling' = polling /\ polling
    BY <1>6 DEF PollNewline
  <2>2. rosOs'.fresh = rosOs.fresh
    <3>1. rosOs' = rosOs \/ \E msg : rosOs' = Posted(rosOs, "C", msg, RosQueue)
      BY <1>6 DEF PollNewline, Post
    <3> QED BY <1>1, <3>1 DEF Posted, RosKernels
  <2>3. SubSeq(<< >>, 1, 0) = << >>
    OBVIOUS
  <2> QED BY <1>1, <2>1, <2>2, <2>3 DEF LineInv, LineTypes, LineIsTail
<1>7. CASE SerialInit
  <2>1. "R" \in rosOs.fresh
    <3>1. EventOf(rosOs, "R")[1] = "init" /\ rosOs.mail["R"] = << >>
      BY <1>7 DEF SerialInit, RosTurn, RosShape, Five
    <3> QED BY <3>1 DEF EventOf, TIMER
  <2>2. line_buf = << >> /\ line_buf' = line_buf /\ UNCHANGED <<polling, line>>
    BY <1>7, <2>1 DEF SerialInit, LineInv, LineTypes
  <2> QED BY <1>2, <1>7, <2>2 DEF SerialInit, RosEnd, Five
<1>8. CASE Apply
  BY <1>2, <1>8 DEF Apply, RosEnd, Five
<1>9. CASE \E t \in {"H", "N", "T"} : Report(t)
  BY <1>2, <1>9 DEF Report, RosEnd, Five
<1>10. CASE \E t \in {"H", "N", "T", "R"} : RosExpire(t)
  <2>1. rosOs'.fresh = rosOs.fresh
    BY <1>1, <1>10, RosReturned DEF RosExpire, Five
  <2> QED BY <1>10, <2>1 DEF RosExpire, LineInv, LineTypes, LineIsTail
<1>11. CASE RosPass
  <2>1. rosOs'.fresh = rosOs.fresh
    BY <1>11, RosPassed DEF RosPass
  <2> QED BY <1>11, <2>1 DEF RosPass, LineInv, LineTypes, LineIsTail
<1>12. CASE UNCHANGED rosVars
  BY <1>12 DEF rosVars, LineInv, LineTypes, LineIsTail
<1> QED BY <1>3, <1>4, <1>5, <1>6, <1>7, <1>8, <1>9, <1>10, <1>11, <1>12 DEF RosNext

(***************************************************************************)
(* The commands in the queue.  What the last one of a kind asks for is     *)
(* wanted, and so is what has been applied where there is none.            *)
(***************************************************************************)
Settles(mail, kind, now, value) ==
  \/ now = value /\ \A i \in DOMAIN mail : mail[i][1] # kind
  \/ \E i \in DOMAIN mail : /\ mail[i] = <<kind, value>>
                            /\ \A j \in DOMAIN mail : j > i => mail[j][1] # kind

StateInv ==
  /\ wanted = <<wanted[1], wanted[2]>>
  /\ Settles(rosOs.mail["C"], "led", g_led_state, wanted[1])
  /\ Settles(rosOs.mail["C"], "motor", g_motor_speed, wanted[2])

\* While C has one command, and no more, it is next.
StatusInv ==
  /\ polling => "R" \notin rosOs.fresh /\ "C" \notin rosOs.fresh /\ rosOs.last = "R"
  /\ "C" \in rosOs.fresh =>
       rosOs.mail["C"] = << >> /\ ~burst /\ ("R" \in rosOs.fresh \/ rosOs.last = "R")
  /\ ~burst /\ rosOs.mail["C"] # << >> => rosOs.last = "R" /\ Len(rosOs.mail["C"]) = 1

LEMMA SettlesAppended ==
  ASSUME NEW mail \in Seq(RosMessages), NEW msg \in RosMessages,
         NEW kind, NEW now, NEW value, Settles(mail, kind, now, value)
  PROVE  Settles(Append(mail, msg), kind, now, IF msg[1] = kind THEN msg[2] ELSE value)
<1> DEFINE more == Append(mail, msg)
<1>1. /\ DOMAIN mail = 1..Len(mail) /\ Len(mail) \in Nat
      /\ DOMAIN more = 1..Len(mail) + 1 /\ more[Len(mail) + 1] = msg
      /\ \A i \in 1..Len(mail) : more[i] = mail[i]
      /\ msg = <<msg[1], msg[2]>>
  BY DEF RosMessages
<1> HIDE DEF more
<1>2. CASE msg[1] = kind
  <2>1. Len(mail) + 1 \in DOMAIN more /\ more[Len(mail) + 1] = <<kind, msg[2]>>
        /\ \A j \in DOMAIN more : ~(j > Len(mail) + 1)
    BY <1>1, <1>2
  <2> QED BY <1>2, <2>1 DEF Settles, more
<1>3. CASE msg[1] # kind
  <2>1. CASE now = value /\ \A i \in DOMAIN mail : mail[i][1] # kind
    BY <1>1, <1>3, <2>1 DEF Settles, more
  <2>2. CASE \E i \in DOMAIN mail : /\ mail[i] = <<kind, value>>
                                    /\ \A j \in DOMAIN mail : j > i => mail[j][1] # kind
    <3>1. PICK i \in DOMAIN mail : /\ mail[i] = <<kind, value>>
                                   /\ \A j \in DOMAIN mail : j > i => mail[j][1] # kind
      BY <2>2
    <3>2. i \in DOMAIN more /\ more[i] = <<kind, value>>
          /\ \A j \in DOMAIN more : j > i => more[j][1] # kind
      BY <1>1, <1>3, <3>1
    <3> QED BY <1>3, <3>2 DEF Settles, more
  <2> QED BY <2>1, <2>2 DEF Settles
<1> QED BY <1>2, <1>3

LEMMA SettlesTaken ==
  ASSUME NEW mail \in Seq(RosMessages), mail # << >>,
         NEW kind, NEW now, NEW value, Settles(mail, kind, now, value)
  PROVE  LET msg == Head(mail) IN
         Settles(Tail(mail), kind, IF msg[1] = kind THEN msg[2] ELSE now, value)
<1> DEFINE rest == Tail(mail)
           msg == Head(mail)
<1>1. /\ DOMAIN mail = 1..Len(mail) /\ Len(mail) \in Nat /\ Len(mail) # 0
      /\ DOMAIN rest = 1..Len(mail) - 1 /\ msg = mail[1]
      /\ \A i \in 1..Len(mail) - 1 : rest[i] = mail[i + 1]
  OBVIOUS
<1> HIDE DEF rest, msg
<1>2. CASE now = value /\ \A i \in DOMAIN mail : mail[i][1] # kind
  <2>1. msg[1] # kind /\ \A i \in DOMAIN rest : rest[i][1] # kind
    BY <1>1, <1>2
  <2> QED BY <1>2, <2>1 DEF Settles, rest, msg
<1>3. CASE \E i \in DOMAIN mail : /\ mail[i] = <<kind, value>>
                                  /\ \A j \in DOMAIN mail : j > i => mail[j][1] # kind
  <2>1. PICK i \in DOMAIN mail : /\ mail[i] = <<kind, value>>
                                 /\ \A j \in DOMAIN mail : j > i => mail[j][1] # kind
    BY <1>3
  <2>2. CASE i = 1
    <3>1. msg = <<kind, value>> /\ \A j \in DOMAIN rest : rest[j][1] # kind
      BY <1>1, <2>1, <2>2
    <3> QED BY <3>1 DEF Settles, rest, msg
  <2>3. CASE i # 1
    <3>1. i - 1 \in DOMAIN rest /\ rest[i - 1] = <<kind, value>>
      BY <1>1, <2>1, <2>3
    <3>2. \A j \in DOMAIN rest : j > i - 1 => rest[j][1] # kind
      BY <1>1, <2>1
    <3> QED BY <3>1, <3>2 DEF Settles, rest, msg
  <2> QED BY <2>2, <2>3
<1> QED BY <1>2, <1>3 DEF Settles

\* A line asks for a message at most, of one of the two kinds.
LEMMA LineAsksFor ==
  ASSUME NEW speed \in Speeds, NEW msg \in MessagesFor(speed) PROVE msg \in RosMessages
BY DEF MessagesFor, RosMessages

\* A step that leaves the mail alone, and the turn of a task other than C.
LEMMA MailUntouched ==
  ASSUME StateInv, rosOs'.mail["C"] = rosOs.mail["C"], UNCHANGED <<applied, wanted>>
  PROVE  StateInv'
BY DEF StateInv, applied

LEMMA StatusOfTurn ==
  ASSUME RosShape, StatusInv, NEW t \in Five \ {"C"}, HasTurn(rosOs, t), NEW delay,
         ~polling, ~polling', burst' = burst, rosOs' = Returned(Taken(rosOs, t), t, delay)
  PROVE  /\ StatusInv' /\ RosShape' /\ rosOs'.mail["C"] = rosOs.mail["C"]
<1>1. t \in Five /\ t # "C"
  OBVIOUS
<1>2. /\ rosOs' \in RosKernels /\ \A u \in Five \ {"C"} : rosOs'.mail[u] = << >>
      /\ rosOs'.last = t /\ rosOs'.fresh = rosOs.fresh \ {t}
      /\ rosOs'.mail["C"] = rosOs.mail["C"]
  BY <1>1, RosTaken, RosReturned DEF Rest
<1>3. ~(rosOs.last = "R" /\ IsReady(rosOs, "C"))
  BY <1>1, CommandIsNext
<1>4. "C" \in rosOs.fresh \/ rosOs.mail["C"] # << >> => rosOs.last # "R"
  BY <1>3 DEF IsReady
<1> QED BY <1>1, <1>2, <1>4 DEF StatusInv, RosShape

\* The queue takes the message or drops it; then nothing has changed.
LEMMA PostKeeps ==
  ASSUME RosShape, StateInv, StatusInv, polling, polling', UNCHANGED applied,
         NEW msg \in RosMessages, Post(msg)
  PROVE  RosShape' /\ StateInv' /\ StatusInv'
<1> DEFINE mail == rosOs.mail["C"]
<1>1. mail \in Seq(RosMessages)
  BY DEF RosShape, RosKernels, Five
<1>2. /\ rosOs' = Posted(rosOs, "C", msg, RosQueue)
      /\ wanted' = IF rosOs' = rosOs THEN wanted ELSE Effect(wanted, msg)
      /\ burst' = (burst \/ mail # << >>)
  BY DEF Post
<1>3. /\ rosOs' \in RosKernels /\ \A u \in Five \ {"C"} : rosOs'.mail[u] = << >>
      /\ rosOs'.last = rosOs.last /\ rosOs'.fresh = rosOs.fresh
      /\ \/ rosOs' = rosOs
         \/ rosOs' # rosOs /\ rosOs'.mail["C"] = Append(mail, msg)
  BY <1>2, RosPosted
<1>4. RosShape'
  BY <1>3 DEF RosShape
<1>5. CASE rosOs' = rosOs
  <2>1. wanted' = wanted
    BY <1>2, <1>5
  <2>2. StateInv'
    BY <1>5, <2>1, MailUntouched
  <2>3. StatusInv'
    BY <1>2, <1>5 DEF StatusInv
  <2> QED BY <1>4, <2>2, <2>3
<1>6. CASE rosOs' # rosOs /\ rosOs'.mail["C"] = Append(mail, msg)
  <2>1. wanted' = Effect(wanted, msg)
    BY <1>2, <1>6
  <2>2. msg[1] \in {"led", "motor"}
    BY DEF RosMessages
  <2>3. /\ wanted' = <<wanted'[1], wanted'[2]>>
        /\ wanted'[1] = IF msg[1] = "led" THEN msg[2] ELSE wanted[1]
        /\ wanted'[2] = IF msg[1] = "motor" THEN msg[2] ELSE wanted[2]
    BY <2>1, <2>2 DEF Effect
  <2>4. /\ Settles(Append(mail, msg), "led", g_led_state, wanted'[1])
        /\ Settles(Append(mail, msg), "motor", g_motor_speed, wanted'[2])
    BY <1>1, <2>3, SettlesAppended DEF StateInv
  <2>5. StateInv'
    BY <1>6, <2>3, <2>4 DEF StateInv, applied
  <2>6. ~burst' => ~burst /\ mail = << >>
    BY <1>2
  <2>7. mail = << >> => Len(Append(mail, msg)) = 1
    OBVIOUS
  <2>8. StatusInv'
    BY <1>3, <1>6, <2>6, <2>7 DEF StatusInv
  <2> QED BY <1>4, <2>5, <2>8
<1> QED BY <1>3, <1>5, <1>6

LEMMA NoneLeft == ASSUME NEW s \in Seq(RosMessages), Len(s) = 0 PROVE s = << >>
OBVIOUS

\* task_command takes the oldest command and applies it.
LEMMA ApplyKeeps ==
  ASSUME RosShape, StateInv, StatusInv, Apply
  PROVE  RosShape' /\ StateInv' /\ StatusInv'
<1> DEFINE k == Taken(rosOs, "C")
           mail == rosOs.mail["C"]
           e == EventOf(rosOs, "C")
           s == IF e = INIT THEN applied ELSE Effect(applied, e)
<1>1. /\ ~polling /\ e[1] \in {"init", "led", "motor"}
      /\ g_led_state' = s[1] /\ g_motor_speed' = s[2]
      /\ burst' = (burst /\ k.mail["C"] # << >>)
      /\ rosOs' = Returned(k, "C", Forever)
      /\ polling' = polling /\ wanted' = wanted
  BY DEF Apply, RosTurn, RosEnd
<1>2. mail \in Seq(RosMessages) /\ "C" \in Five
  BY DEF RosShape, RosKernels, Five
<1>3. /\ k \in RosKernels /\ \A u \in Five \ {"C"} : k.mail[u] = << >>
      /\ k.fresh = rosOs.fresh \ {"C"} /\ k.mail["C"] = Rest(rosOs, "C")
  BY <1>2, RosTaken
<1>4. e = IF "C" \in rosOs.fresh THEN INIT ELSE IF mail # << >> THEN Head(mail) ELSE TIMER
  BY DEF EventOf
<1> HIDE DEF k, e, s
<1>5. /\ rosOs' \in RosKernels /\ rosOs'.mail = k.mail /\ rosOs'.fresh = k.fresh
  BY <1>1, <1>2, <1>3, RosReturned
<1>6. RosShape'
  BY <1>3, <1>5 DEF RosShape
<1>7. CASE "C" \in rosOs.fresh
  <2>1. mail = << >> /\ ~burst /\ k.mail["C"] = << >>
    BY <1>3, <1>7 DEF StatusInv, Rest
  <2>2. UNCHANGED applied
    BY <1>1, <1>4, <1>7 DEF s, applied
  <2>3. StateInv'
    BY <1>1, <1>5, <2>1, <2>2, MailUntouched
  <2>4. StatusInv'
    BY <1>1, <1>3, <1>5, <2>1 DEF StatusInv
  <2> QED BY <1>6, <2>3, <2>4
<1>8. CASE "C" \notin rosOs.fresh
  <2>1. mail # << >> /\ e = Head(mail)
    BY <1>1, <1>4, <1>8 DEF TIMER
  <2>2. e \in RosMessages
    BY <1>2, <2>1
  <2>3. e # INIT /\ e[1] \in {"led", "motor"}
    BY <2>2 DEF INIT, RosMessages
  <2>4. /\ g_led_state' = IF e[1] = "led" THEN e[2] ELSE g_led_state
        /\ g_motor_speed' = IF e[1] = "motor" THEN e[2] ELSE g_motor_speed
    BY <1>1, <2>3 DEF s, applied, Effect
  <2>5. k.mail["C"] = Tail(mail)
    BY <1>3, <1>8, <2>1 DEF Rest
  <2>6. /\ Settles(Tail(mail), "led", g_led_state', wanted[1])
        /\ Settles(Tail(mail), "motor", g_motor_speed', wanted[2])
    BY <1>2, <2>1, <2>4, SettlesTaken DEF StateInv
  <2>7. StateInv'
    BY <1>1, <1>5, <2>5, <2>6 DEF StateInv
  <2>8. Len(mail) = 1 => Tail(mail) = << >>
    <3> SUFFICES ASSUME Len(mail) = 1 PROVE Tail(mail) = << >>
      OBVIOUS
    <3>1. Tail(mail) \in Seq(RosMessages) /\ Len(Tail(mail)) = 0
      BY <1>2, <2>1
    <3> QED BY <3>1, NoneLeft
  <2>9. StatusInv'
    BY <1>1, <1>3, <1>5, <1>8, <2>1, <2>5, <2>8 DEF StatusInv
  <2> QED BY <1>6, <2>7, <2>9
<1> QED BY <1>7, <1>8

FirmwareInv == RosShape /\ LineInv /\ StateInv /\ StatusInv

LEMMA FirmwareStarts == RosInit => FirmwareInv
<1> SUFFICES ASSUME RosInit PROVE FirmwareInv
  OBVIOUS
<1>1. rosOs = [ring |-> RosRing, last |-> "C", fresh |-> Five, armed |-> {}, due |-> Five,
               mail |-> [t \in Five |-> << >>]]
  <2>1. /\ DOMAIN RosRing = 1..5 /\ Len(RosRing) = 5 /\ RosRing[5] = "C"
        /\ RosRing[1] = "H" /\ RosRing[2] = "N" /\ RosRing[3] = "T" /\ RosRing[4] = "R"
    BY DEF RosRing
  <2>2. {RosRing[i] : i \in DOMAIN RosRing} = Five
    BY <2>1 DEF Five
  <2>3. rosOs = Booted(RosRing)
    BY DEF RosInit, RosRing
  <2> QED BY <2>1, <2>2, <2>3 DEF Booted
<1>2. [t \in Five |-> << >>] \in [Five -> Seq(RosMessages)]
  OBVIOUS
<1>3. RosShape /\ rosOs.mail["C"] = << >>
  BY <1>1, <1>2 DEF RosShape, RosKernels, Five
<1>4. LineInv
  <2>1. SubSeq(<< >>, 1, 0) = << >>
    OBVIOUS
  <2> QED BY <2>1, LineMaxAssumption DEF RosInit, LineInv, LineTypes, LineIsTail
<1>5. StateInv
  BY <1>3 DEF RosInit, StateInv, Settles
<1>6. StatusInv
  BY <1>1, <1>3 DEF RosInit, StatusInv, Five
<1> QED BY <1>3, <1>4, <1>5, <1>6 DEF FirmwareInv

LEMMA FirmwareKept == FirmwareInv /\ [RosNext]_rosVars => FirmwareInv'
<1> SUFFICES ASSUME RosShape, LineInv, StateInv, StatusInv, [RosNext]_rosVars
             PROVE  RosShape' /\ StateInv' /\ StatusInv'
  BY LineKept DEF FirmwareInv
<1> USE DEF line, history
<1>1. rosOs \in RosKernels /\ {"H", "N", "T", "R"} = Five \ {"C"} /\ "R" \in Five
  BY DEF RosShape, Five
<1>2. CASE PollBegins
  <2>1. /\ HasTurn(rosOs, "R") /\ EventOf(rosOs, "R")[1] = "timer"
        /\ rosOs' = Taken(rosOs, "R") /\ UNCHANGED <<applied, wanted, burst>>
    BY <1>2 DEF PollBegins, RosTurn
  <2>2. /\ rosOs' \in RosKernels /\ \A u \in Five \ {"C"} : rosOs'.mail[u] = << >>
        /\ rosOs'.last = "R" /\ rosOs'.fresh = rosOs.fresh \ {"R"}
        /\ rosOs'.mail["C"] = rosOs.mail["C"]
    BY <1>1, <2>1, RosTaken DEF Rest
  <2>3. ~(rosOs.last = "R" /\ IsReady(rosOs, "C"))
    BY <1>1, <2>1, CommandIsNext
  <2>4. "R" \notin rosOs.fresh
    BY <2>1 DEF EventOf, INIT
  <2>5. "C" \notin rosOs.fresh /\ (burst \/ rosOs.mail["C"] = << >>)
    BY <2>3, <2>4 DEF StatusInv, IsReady
  <2>6. StatusInv'
    BY <2>1, <2>2, <2>5 DEF StatusInv
  <2> QED BY <2>1, <2>2, <2>6, MailUntouched DEF RosShape
<1>3. CASE PollEnds
  <2>1. /\ rosOs' = Returned(rosOs, "R", Later) /\ ~polling' /\ UNCHANGED <<applied, wanted, burst>>
    BY <1>3 DEF PollEnds, RosEnd
  <2>2. /\ rosOs' \in RosKernels /\ rosOs'.mail = rosOs.mail /\ rosOs'.last = rosOs.last
        /\ rosOs'.fresh = rosOs.fresh
    BY <1>1, <2>1, RosReturned
  <2>3. StatusInv' /\ RosShape'
    BY <2>1, <2>2 DEF StatusInv, RosShape
  <2> QED BY <2>1, <2>2, <2>3, MailUntouched
<1>4. CASE (\E c \in Character : PollChar(c)) \/ UNCHANGED rosVars
  <2>1. UNCHANGED <<rosOs, polling, applied, wanted, burst>>
    BY <1>4 DEF PollChar, rosVars, applied
  <2> QED BY <2>1, MailUntouched DEF RosShape, StatusInv
<1>5. CASE \E speed \in Speeds : PollNewline(speed)
  <2>1. PICK speed \in Speeds : PollNewline(speed)
    BY <1>5
  <2>2. polling /\ polling' /\ UNCHANGED applied
    BY <2>1 DEF PollNewline
  <2>3. CASE UNCHANGED <<rosOs, history>>
    BY <2>2, <2>3, MailUntouched DEF RosShape, StatusInv
  <2>4. CASE \E msg \in MessagesFor(speed) : Post(msg)
    BY <2>2, <2>4, LineAsksFor, PostKeeps
  <2> QED BY <2>1, <2>3, <2>4 DEF PollNewline
<1>6. CASE SerialInit
  <2>1. /\ HasTurn(rosOs, "R") /\ ~polling /\ ~polling'
        /\ rosOs' = Returned(Taken(rosOs, "R"), "R", Later) /\ UNCHANGED <<applied, wanted, burst>>
    BY <1>6 DEF SerialInit, RosTurn, RosEnd
  <2> QED BY <1>1, <2>1, StatusOfTurn, MailUntouched
<1>7. CASE Apply
  BY <1>7, ApplyKeeps
<1>8. CASE \E t \in {"H", "N", "T"} : Report(t)
  <2>1. PICK t \in {"H", "N", "T"} : Report(t)
    BY <1>8
  <2>2. /\ HasTurn(rosOs, t) /\ ~polling /\ ~polling' /\ t \in Five \ {"C"}
        /\ rosOs' = Returned(Taken(rosOs, t), t, Later) /\ UNCHANGED <<applied, wanted, burst>>
    BY <1>1, <2>1 DEF Report, RosTurn, RosEnd
  <2> QED BY <2>2, StatusOfTurn, MailUntouched
<1>9. CASE \E t \in {"H", "N", "T", "R"} : RosExpire(t)
  <2>1. PICK t \in Five : rosOs' = Expired(rosOs, t) /\ UNCHANGED <<polling, applied, wanted, burst>>
    BY <1>1, <1>9 DEF RosExpire
  <2>2. /\ rosOs' \in RosKernels /\ rosOs'.mail = rosOs.mail /\ rosOs'.last = rosOs.last
        /\ rosOs'.fresh = rosOs.fresh
    BY <1>1, <2>1, RosReturned
  <2>3. StatusInv' /\ RosShape'
    BY <2>1, <2>2 DEF StatusInv, RosShape
  <2> QED BY <2>1, <2>2, <2>3, MailUntouched
<1>10. CASE RosPass
  <2>1. /\ ~polling /\ ~polling' /\ CanPass(rosOs) /\ rosOs' = PassedBy(rosOs)
        /\ UNCHANGED <<applied, wanted, burst>>
    BY <1>10 DEF RosPass
  <2>2. /\ rosOs' \in RosKernels /\ rosOs'.mail = rosOs.mail /\ rosOs'.fresh = rosOs.fresh
        /\ rosOs.last = "R" => "C" \notin rosOs.fresh /\ rosOs.mail["C"] = << >>
    BY <2>1, RosPassed DEF IsReady
  <2>3. StatusInv' /\ RosShape'
    BY <2>1, <2>2 DEF StatusInv, RosShape
  <2> QED BY <2>1, <2>2, <2>3, MailUntouched
<1> QED BY <1>2, <1>3, <1>4, <1>5, <1>6, <1>7, <1>8, <1>9, <1>10 DEF RosNext

LEMMA FirmwareInvariance == RosInit /\ [][RosNext]_rosVars => []FirmwareInv
BY FirmwareStarts, FirmwareKept, PTL

\* However long a line is, what the newline makes a command of is what is left of it after
\* pieces of LineMax characters.
THEOREM OverlongLineLeavesTail == RosInit /\ [][RosNext]_rosVars => []LineIsTail
<1>1. FirmwareInv => LineIsTail
  BY DEF FirmwareInv, LineInv
<1> QED BY <1>1, FirmwareInvariance, PTL

\* With a queue of any size, and commands dropped when it is full, the applied state is
\* in the end that of the accepted ones.
THEOREM AcceptedIsApplied == RosInit /\ [][RosNext]_rosVars => []StateIsLastAccepted
<1>1. FirmwareInv => StateIsLastAccepted
  <2> SUFFICES ASSUME StateInv, rosOs.mail["C"] = << >> PROVE applied = wanted
    BY DEF FirmwareInv, StateIsLastAccepted
  <2>1. g_led_state = wanted[1] /\ g_motor_speed = wanted[2]
    BY DEF StateInv, Settles
  <2> QED BY <2>1 DEF StateInv, applied
<1> QED BY <1>1, FirmwareInvariance, PTL

\* A STATUS shows every command accepted before it, unless commands piled up: C comes
\* between R and T in the ring.
THEOREM StatusFollowsCommands == RosInit /\ [][RosNext]_rosVars => []StatusIsCurrent
<1>1. FirmwareInv => StatusIsCurrent
  <2> SUFFICES ASSUME RosShape, StateInv, StatusInv, HasTurn(rosOs, "T"), ~burst
               PROVE  applied = wanted
    BY DEF FirmwareInv, StatusIsCurrent, RosTurn
  <2>1. "T" \in Five /\ "T" # "C"
    BY DEF Five
  <2>2. ~(rosOs.last = "R" /\ IsReady(rosOs, "C"))
    BY <2>1, CommandIsNext
  <2>3. rosOs.mail["C"] = << >>
    BY <2>2 DEF StatusInv, IsReady
  <2>4. g_led_state = wanted[1] /\ g_motor_speed = wanted[2]
    BY <2>3 DEF StateInv, Settles
  <2> QED BY <2>4 DEF StateInv, applied
<1> QED BY <1>1, FirmwareInvariance, PTL
=============================================================================
