----------------------------- MODULE TlsProofs -----------------------------
(***************************************************************************)
(* The safety of the TLS connection, for every size of the receive ring,   *)
(* of the segments, of the response and of the server's flights.           *)
(***************************************************************************)
EXTENDS TlsConnection, TLAPS

(***************************************************************************)
(* The ring's arithmetic.                                                  *)
(***************************************************************************)
LEMMA AddWraps ==
  ASSUME NEW N \in Nat \ {0}, NEW a \in 0..N - 1, NEW k \in 0..N
  PROVE  (a + k) % N = IF a + k < N THEN a + k ELSE a + k - N
BY SMTT(30)

LEMMA Small == ASSUME NEW N \in Nat \ {0}, NEW a \in 0..N - 1 PROVE a % N = a
BY SMTT(30)

LEMMA AddTwice ==
  ASSUME NEW N \in Nat \ {0}, NEW a \in 0..N - 1, NEW i \in 0..N, NEW j \in 0..N - i
  PROVE  (((a + i) % N) + j) % N = (a + (i + j)) % N
<1>1. j \in 0..N /\ i + j \in 0..N
  OBVIOUS
<1>2. (a + i) % N = IF a + i < N THEN a + i ELSE a + i - N
  BY AddWraps
<1>3. (a + (i + j)) % N = IF a + (i + j) < N THEN a + (i + j) ELSE a + (i + j) - N
  BY <1>1, AddWraps
<1>4. (a + i) % N \in 0..N - 1
  BY <1>2
<1>5. (((a + i) % N) + j) % N = IF ((a + i) % N) + j < N THEN ((a + i) % N) + j ELSE ((a + i) % N) + j - N
  BY <1>1, <1>4, AddWraps
<1> QED
  BY <1>1, <1>2, <1>3, <1>5

LEMMA SubWraps ==
  ASSUME NEW N \in Nat \ {0}, NEW a \in 0..N - 1, NEW k \in 0..N - 1
  PROVE  (a - k) % N = IF a >= k THEN a - k ELSE a - k + N
BY SMTT(30)

(***************************************************************************)
(* The inductive invariant, in parts.                                      *)
(***************************************************************************)
\* While the pump can still run, a record is with espconn exactly when the flag says so.
Sending ==
  /\ ctl \in {"idle", "drive"} => g_sending = (inflight # "none")
  /\ inflight # "none" => g_sending /\ out = 1
  /\ conn # "up" => inflight = "none" /\ ctl # "drive"

\* Unless a piece was dropped, the ring holds the pieces that follow those read.
Stream ==
  /\ dropped = 0 => served = got + g_rxlen
  /\ g_rxtail = (g_rxhead + g_rxlen) % BearRxbufSize
  /\ conn # "up" => g_rxlen = 0
  /\ InOrderUntilDrop

\* What the engine's state says of the pieces it has read.
Progress ==
  /\ engine = "handshake" => got < HandshakeEnd
  /\ engine = "open" => got >= HandshakeEnd
  /\ engine \in {"closing", "closed"} => got = CloseNotify
  /\ got > HandshakeEnd => g_request_sent
  /\ app = 1 => got > HandshakeEnd
  /\ g_resp_len > 0 => got > HandshakeEnd
  /\ conn # "up" => got = 0

\* Where the error code and the outcome come from.
Outcome ==
  /\ ctl \in {"idle", "drive"} => g_resp_err = 0
  /\ printed # "nothing" => ctl = "done"
  /\ dns /\ conn # "none" => spoiled
  /\ conn = "up" /\ errcb = "tcp" => spoiled
  /\ g_resp_len > 0 /\ g_resp_err # 0 => spoiled
  /\ ctl \in {"exit", "done"} /\ g_resp_len = 0 /\ g_resp_err = 0 => got = CloseNotify

Inv == TypeOK /\ Sending /\ NothingLeftBehind /\ Stream /\ Progress /\ Outcome /\ ReportIsTrue

LEMMA Sizes ==
  /\ HandshakeEnd \in Nat \ {0} /\ CloseNotify \in Nat /\ CloseNotify > HandshakeEnd
  /\ BearRxbufSize \in Nat \ {0} /\ 0 \in Slots
BY FlightsAssumption, SizesAssumption DEF CloseNotify, Slots

LEMMA InitEstablishes == Init => Inv
<1> SUFFICES ASSUME Init PROVE Inv
  OBVIOUS
<1> USE Sizes DEF Init
<1>1. TypeOK
  <2>1. g_rxbuf \in [Slots -> 0..CloseNotify] /\ served \in 0..CloseNotify
    BY DEF Slots
  <2>2. g_rxhead \in Slots /\ g_rxtail \in Slots /\ g_rxlen \in 0..BearRxbufSize
    OBVIOUS
  <2>3. g_resp_err \in 0..2
    OBVIOUS
  <2> QED BY <2>1, <2>2, <2>3 DEF TypeOK
<1>2. Sending /\ NothingLeftBehind
  BY DEF Sending, NothingLeftBehind, Pump
<1>3. Progress /\ Outcome /\ ReportIsTrue
  BY DEF Progress, Outcome, ReportIsTrue
<1>4. Stream
  <2>1. (0 + 0) % BearRxbufSize = 0
    BY AddWraps
  <2> QED BY <2>1 DEF Stream, InOrderUntilDrop
<1> QED
  BY <1>1, <1>2, <1>3, <1>4 DEF Inv

(***************************************************************************)
(* Each part is kept by every step.                                        *)
(***************************************************************************)
LEMMA SendingKept == Inv /\ [Next]_vars => Sending'
<1> SUFFICES ASSUME Sending, g_sending \in BOOLEAN, [Next]_vars PROVE Sending'
  BY DEF Inv, TypeOK
<1> USE DEF Sending, network, ring, eng, server, flags, result, ExitWith
<1>1. CASE GotIp \/ DnsFails \/ DnsDone \/ ConnectionError \/ OnDiscon
  BY <1>1 DEF GotIp, DnsFails, DnsDone, ConnectionError, OnDiscon
<1>2. CASE Connected
  BY <1>2 DEF Connected
<1>3. ASSUME NEW n \in 1..Segment, OnRecv(n) PROVE Sending'
  BY <1>3 DEF OnRecv, AfterRecv
<1>4. CASE ServerGets \/ OnSent
  BY <1>4 DEF ServerGets, OnSent, AckRecord
<1>5. CASE DriveClosed \/ DriveInject \/ DriveCopy \/ DriveWait
  BY <1>5 DEF DriveClosed, DriveInject, CanInject, DriveCopy, DriveWait, Free
<1>6. CASE DriveSend
  BY <1>6 DEF DriveSend, SendFails
<1>7. CASE DriveFeed
  BY <1>7 DEF DriveFeed, Free
<1>8. CASE PrintOutcome \/ Done \/ UNCHANGED vars
  BY <1>8 DEF PrintOutcome, Done, vars
<1> QED
  BY <1>1, <1>2, <1>3, <1>4, <1>5, <1>6, <1>7, <1>8 DEF Next, Drive, Recv

LEMMA PumpKept == Inv /\ [Next]_vars => NothingLeftBehind'
<1> SUFFICES ASSUME NothingLeftBehind, g_sending \in BOOLEAN, [Next]_vars
             PROVE  NothingLeftBehind'
  BY DEF Inv, TypeOK
<1> USE DEF NothingLeftBehind, Pump, Closed, network, ring, eng, server, flags, result, ExitWith
<1>1. CASE GotIp \/ DnsFails \/ DnsDone \/ ConnectionError \/ OnDiscon
  BY <1>1 DEF GotIp, DnsFails, DnsDone, ConnectionError, OnDiscon
<1>2. CASE Connected
  BY <1>2 DEF Connected
<1>3. ASSUME NEW n \in 1..Segment, OnRecv(n) PROVE NothingLeftBehind'
  BY <1>3 DEF OnRecv, AfterRecv
<1>4. CASE ServerGets \/ OnSent
  BY <1>4 DEF ServerGets, OnSent
<1>5. CASE DriveClosed \/ DriveInject \/ DriveCopy
  BY <1>5 DEF DriveClosed, DriveInject, CanInject, DriveCopy, Free
<1>6. CASE DriveWait
  BY <1>6 DEF DriveWait, CanInject, Free
<1>7. CASE DriveSend
  BY <1>7 DEF DriveSend, SendFails
<1>8. CASE DriveFeed
  BY <1>8 DEF DriveFeed, Free
<1>9. CASE PrintOutcome \/ Done \/ UNCHANGED vars
  BY <1>9 DEF PrintOutcome, Done, vars
<1> QED
  BY <1>1, <1>2, <1>3, <1>4, <1>5, <1>6, <1>7, <1>8, <1>9 DEF Next, Drive, Recv

LEMMA OutcomeKept == Inv /\ [Next]_vars => Outcome'
<1> SUFFICES ASSUME Outcome, Progress, Sending, g_resp_len \in Nat, [Next]_vars
             PROVE  Outcome'
  BY DEF Inv, TypeOK
<1> USE Sizes DEF Outcome, network, ring, eng, server, flags, result, ExitWith
<1>1. CASE GotIp \/ DnsDone
  BY <1>1 DEF GotIp, DnsDone
<1>2. CASE DnsFails
  BY <1>2 DEF DnsFails, Progress
<1>3. CASE Connected
  BY <1>3 DEF Connected, Progress
<1>4. CASE ConnectionError
  BY <1>4 DEF ConnectionError, Progress
<1>5. CASE OnDiscon
  BY <1>5 DEF OnDiscon, DisconError, Progress
<1>6. ASSUME NEW n \in 1..Segment, OnRecv(n) PROVE Outcome'
  BY <1>6 DEF OnRecv, AfterRecv
<1>7. CASE ServerGets \/ OnSent
  BY <1>7 DEF ServerGets, OnSent
<1>8. CASE DriveClosed
  BY <1>8 DEF DriveClosed, Closed, Progress
<1>9. CASE DriveSend
  BY <1>9 DEF DriveSend, SendFails
<1>10. CASE DriveInject \/ DriveWait
  BY <1>10 DEF DriveInject, DriveWait, CanInject, Free
<1>11. CASE DriveFeed
  BY <1>11 DEF DriveFeed, Free
<1>12. CASE DriveCopy
  BY <1>12 DEF DriveCopy
<1>13. CASE PrintOutcome
  <2>1. ctl = "exit" /\ ctl' = "done" /\ UNCHANGED <<network, eng, result, spoiled>>
    BY <1>13 DEF PrintOutcome
  <2> QED BY <2>1
<1>14. CASE Done \/ UNCHANGED vars
  BY <1>14 DEF Done, vars
<1> QED
  BY <1>1, <1>2, <1>3, <1>4, <1>5, <1>6, <1>7, <1>8, <1>9, <1>10, <1>11, <1>12, <1>13,
     <1>14      DEF Next, Drive, Recv

LEMMA ReportKept == Inv /\ [Next]_vars => ReportIsTrue'
<1> SUFFICES ASSUME ReportIsTrue, Outcome, Progress, Sending, g_resp_len \in Nat,
                    g_resp_err \in 0..2, [Next]_vars
             PROVE  ReportIsTrue'
  BY DEF Inv, TypeOK
<1> USE Sizes DEF ReportIsTrue, network, ring, eng, server, flags, result, ExitWith
<1>1. CASE PrintOutcome
  <2>1. /\ printed' \in {"nameless", "failed"} => g_resp_err # 0
        /\ printed' = "response" => g_resp_err = 0 /\ g_resp_len # 0
        /\ printed' = "empty" => g_resp_err = 0 /\ g_resp_len = 0
    BY <1>1 DEF PrintOutcome
  <2>2. /\ ctl = "exit" /\ g_request_sent' = g_request_sent /\ got' = got
        /\ g_resp_len' = g_resp_len /\ spoiled' = spoiled
    BY <1>1 DEF PrintOutcome
  <2>3. printed' \in {"nameless", "failed"} /\ g_resp_len > 0 => spoiled
    BY <2>1 DEF Outcome
  <2>4. printed' = "response" => g_request_sent /\ got > HandshakeEnd
    <3>1. g_resp_len # 0 => g_resp_len > 0
      OBVIOUS
    <3> QED BY <2>1, <3>1 DEF Progress
  <2>5. printed' = "empty" => got = CloseNotify
    BY <2>1, <2>2 DEF Outcome
  <2> QED BY <2>2, <2>3, <2>4, <2>5
<1>2. ASSUME ctl \in {"idle", "drive"}, printed' = printed PROVE ReportIsTrue'
  BY <1>2 DEF Outcome
<1>3. CASE GotIp \/ DnsFails \/ DnsDone \/ Connected \/ ConnectionError \/ OnDiscon
  BY <1>2, <1>3 DEF GotIp, DnsFails, DnsDone, Connected, ConnectionError, OnDiscon
<1>4. CASE Recv \/ ServerGets \/ OnSent
  BY <1>2, <1>4 DEF Recv, OnRecv, ServerGets, OnSent
<1>5. CASE Drive
  BY <1>2, <1>5 DEF Drive, DriveClosed, DriveInject, DriveCopy, DriveWait, DriveSend, DriveFeed,
                    CanInject, Free
<1>6. CASE Done \/ UNCHANGED vars
  BY <1>6 DEF Done, vars
<1> QED
  BY <1>1, <1>3, <1>4, <1>5, <1>6 DEF Next

LEMMA ProgressKept == Inv /\ [Next]_vars => Progress'
<1> SUFFICES ASSUME Progress, Sending, TypeOK, [Next]_vars PROVE Progress'
  BY DEF Inv
<1>0. got \in Nat /\ g_resp_len \in Nat /\ out \in {0, 1} /\ app \in {0, 1}
  BY DEF TypeOK
<1> USE Sizes, <1>0 DEF Progress, network, ring, eng, server, flags, result, ExitWith
<1>1. CASE GotIp \/ DnsFails \/ DnsDone
  BY <1>1 DEF GotIp, DnsFails, DnsDone
<1>2. CASE Connected
  BY <1>2 DEF Connected
<1>3. CASE ConnectionError \/ OnDiscon
  BY <1>3 DEF ConnectionError, OnDiscon
<1>4. ASSUME NEW n \in 1..Segment, OnRecv(n) PROVE Progress'
  BY <1>4 DEF OnRecv
<1>5. CASE ServerGets
  BY <1>5 DEF ServerGets
<1>6. CASE OnSent
  BY <1>6 DEF OnSent, AckRecord
<1>7. CASE DriveClosed \/ DriveWait \/ DriveSend
  BY <1>7 DEF DriveClosed, DriveWait, DriveSend
<1>8. CASE DriveInject
  BY <1>8 DEF DriveInject, CanInject, Free
<1>9. CASE DriveCopy
  BY <1>9 DEF DriveCopy
<1>10. CASE DriveFeed
  <2> DEFINE p == g_rxbuf[g_rxhead]
  <2>1. p \in 0..CloseNotify
    BY DEF TypeOK
  <2>2. /\ Read(p) /\ conn' = conn /\ g_request_sent' = g_request_sent
        /\ g_resp_len' = g_resp_len
        /\ ctl = "drive" /\ ~Closed /\ out = 0 /\ app = 0
        /\ engine = "open" => g_request_sent
    BY <1>10 DEF DriveFeed, CanInject, Free
  <2>3. CASE p # got + 1
    BY <2>2, <2>3 DEF Read
  <2>4. CASE p = got + 1
    <3>1. /\ got' = p /\ p <= CloseNotify /\ conn = "up"
          /\ app' = IF p > HandshakeEnd /\ p < CloseNotify THEN 1 ELSE 0
          /\ engine' = CASE p = HandshakeEnd -> "open"
                         [] p = CloseNotify  -> "closing"
                         [] OTHER            -> engine
      BY <2>1, <2>2, <2>4 DEF Read, Sending
    <3>2. engine \in {"handshake", "open"}
      <4>1. engine \in {"handshake", "open", "closing"}
        BY <2>2 DEF TypeOK, Closed
      <4>2. engine # "closing"
        BY <2>1, <2>4
      <4> QED BY <4>1, <4>2
    <3>3. CASE p < HandshakeEnd
      BY <2>2, <2>4, <3>1, <3>2, <3>3
    <3>4. CASE p = HandshakeEnd
      BY <2>2, <2>4, <3>1, <3>2, <3>4
    <3>5. CASE p > HandshakeEnd /\ p < CloseNotify
      BY <2>2, <2>4, <3>1, <3>2, <3>5
    <3>6. CASE p = CloseNotify
      BY <2>2, <2>4, <3>1, <3>2, <3>6
    <3> QED BY <2>1, <3>3, <3>4, <3>5, <3>6
  <2> QED BY <2>3, <2>4
<1>11. CASE PrintOutcome \/ Done \/ UNCHANGED vars
  BY <1>11 DEF PrintOutcome, Done, vars
<1> QED
  BY <1>1, <1>2, <1>3, <1>4, <1>5, <1>6, <1>7, <1>8, <1>9, <1>10, <1>11 DEF Next, Drive, Recv

\* How far a slot lies behind the write pointer tells what it holds.
LEMMA Distance ==
  ASSUME NEW N \in Nat \ {0}, NEW h \in 0..N - 1, NEW len \in 0..N, NEW m \in 0..N - len,
         NEW k \in 0..len + m - 1
  PROVE  LET d == (((h + k) % N) - ((h + len) % N)) % N
         IN  IF k < len THEN d = N - len + k ELSE d = k - len
<1>1. k \in 0..N - 1 /\ k \in 0..N
  OBVIOUS
<1>2. (h + k) % N = IF h + k < N THEN h + k ELSE h + k - N
  BY <1>1, AddWraps
<1>3. (h + len) % N = IF h + len < N THEN h + len ELSE h + len - N
  BY AddWraps
<1>4. (h + k) % N \in 0..N - 1 /\ (h + len) % N \in 0..N - 1
  BY <1>1, <1>2, <1>3
<1> DEFINE a == (h + k) % N
           b == (h + len) % N
<1>5. (a - b) % N = IF a >= b THEN a - b ELSE a - b + N
  <2> HIDE DEF a, b
  <2> SUFFICES ASSUME a \in 0..N - 1, b \in 0..N - 1
               PROVE  (a - b) % N = IF a >= b THEN a - b ELSE a - b + N
    BY <1>4 DEF a, b
  <2> QED BY SubWraps
<1> QED
  BY <1>1, <1>2, <1>3, <1>5

LEMMA StreamKept == Inv /\ [Next]_vars => Stream'
<1> SUFFICES ASSUME Stream, TypeOK, [Next]_vars PROVE Stream'
  BY DEF Inv
<1>0. /\ got \in Nat /\ served \in Nat /\ dropped \in Nat
      /\ g_rxlen \in 0..BearRxbufSize
      /\ g_rxhead \in 0..BearRxbufSize - 1 /\ g_rxtail \in 0..BearRxbufSize - 1
      /\ g_rxbuf \in [0..BearRxbufSize - 1 -> 0..CloseNotify]
  BY Sizes DEF TypeOK, Slots
<1>10. g_rxtail = (g_rxhead + g_rxlen) % BearRxbufSize
  BY DEF Stream
<1>11. dropped = 0 => served = got + g_rxlen
  BY DEF Stream
<1>1. ASSUME UNCHANGED <<got, served, dropped, ring>>, conn = "up" => conn' = "up",
             engine' = "failed" => engine = "failed"
      PROVE  Stream'
  BY <1>1 DEF Stream, InOrderUntilDrop, ring
<1> USE DEF network, eng, server, flags, result, ExitWith
<1>2. CASE GotIp \/ DnsFails \/ DnsDone \/ ConnectionError \/ OnDiscon
  BY <1>1, <1>2 DEF GotIp, DnsFails, DnsDone, ConnectionError, OnDiscon
<1>3. CASE ServerGets \/ OnSent \/ PrintOutcome \/ Done \/ UNCHANGED vars
  BY <1>1, <1>3 DEF ServerGets, OnSent, AckRecord, PrintOutcome, Done, vars
<1>4. CASE DriveClosed \/ DriveSend \/ DriveInject \/ DriveCopy \/ DriveWait
  BY <1>1, <1>4 DEF DriveClosed, DriveSend, DriveInject, DriveCopy, DriveWait
<1>5. CASE Connected
  <2>1. /\ conn # "up" /\ conn' = "up"
        /\ g_rxhead' = 0 /\ g_rxtail' = 0 /\ g_rxlen' = 0
        /\ got' = got /\ served' = served /\ dropped' = dropped /\ engine' = engine
    BY <1>5 DEF Connected
  <2>2. (0 + 0) % BearRxbufSize = 0
    BY Sizes, AddWraps
  <2> QED BY <1>0, <2>1, <2>2 DEF Stream, InOrderUntilDrop
<1>6. ASSUME NEW n \in 1..Segment, OnRecv(n) PROVE Stream'
  <2> DEFINE m == RoomFor(n)
  <2>1. n \in Nat /\ m \in 0..BearRxbufSize - g_rxlen /\ m <= n
    BY <1>0, Sizes, SizesAssumption DEF RoomFor
  <2>2. /\ Push(m) /\ served' = served + n /\ dropped' = dropped + (n - m)
        /\ conn = "up" /\ conn' = conn /\ got' = got /\ engine' = engine
    BY <1>6 DEF OnRecv
  <2>3. g_rxlen' = g_rxlen + m /\ g_rxhead' = g_rxhead
        /\ g_rxtail' = (g_rxtail + m) % BearRxbufSize
    BY <2>2 DEF Push
  <2>4. g_rxtail' = (g_rxhead' + g_rxlen') % BearRxbufSize
    <3>1. m \in 0..BearRxbufSize - g_rxlen
      BY <2>1
    <3>2. (((g_rxhead + g_rxlen) % BearRxbufSize) + m) % BearRxbufSize
            = (g_rxhead + (g_rxlen + m)) % BearRxbufSize
      BY <1>0, <3>1, Sizes, AddTwice
    <3> QED BY <1>10, <2>3, <3>2, Zenon
  <2>5. dropped' = 0 => dropped = 0 /\ m = n
    BY <1>0, <2>1, <2>2
  <2>6. ASSUME dropped' = 0, NEW k \in 0..g_rxlen' - 1
        PROVE  g_rxbuf'[(g_rxhead' + k) % BearRxbufSize] = got' + 1 + k
    <3> DEFINE i == (g_rxhead + k) % BearRxbufSize
               d == (i - g_rxtail) % BearRxbufSize
    <3>1. k \in 0..g_rxlen + m - 1 /\ k \in 0..BearRxbufSize
      <4>1. k \in 0..g_rxlen + m - 1
        BY <1>0, <2>1, <2>3, <2>6
      <4>2. g_rxlen + m <= BearRxbufSize
        BY <1>0, <2>1, Sizes
      <4> QED BY <1>0, <2>1, <4>1, <4>2, Sizes
    <3>2. i \in Slots
      BY <1>0, <3>1, <2>1, Sizes, AddWraps DEF Slots
    <3>3. g_rxbuf'[i] = IF d < m THEN served + 1 + d ELSE g_rxbuf[i]
      BY <2>2, <3>2 DEF Push
    <3>4. IF k < g_rxlen THEN d = BearRxbufSize - g_rxlen + k ELSE d = k - g_rxlen
      <4>1. m \in 0..BearRxbufSize - g_rxlen
        BY <2>1
      <4>2. LET e == (((g_rxhead + k) % BearRxbufSize)
                       - ((g_rxhead + g_rxlen) % BearRxbufSize)) % BearRxbufSize
            IN  IF k < g_rxlen THEN e = BearRxbufSize - g_rxlen + k ELSE e = k - g_rxlen
        BY <1>0, <3>1, <4>1, Sizes, Distance
      <4>3. d = (((g_rxhead + k) % BearRxbufSize)
                  - ((g_rxhead + g_rxlen) % BearRxbufSize)) % BearRxbufSize
        BY <1>10
      <4> QED BY <4>2, <4>3, Zenon
    <3>5. served = got + g_rxlen
      BY <2>5, <2>6 DEF Stream
    <3>6. CASE k < g_rxlen
      <4>1. ~(d < m)
        BY <1>0, <2>1, <3>1, <3>4, <3>6, Sizes
      <4>2. g_rxbuf[i] = got + 1 + k
        BY <1>0, <2>5, <2>6, <3>1, <3>6 DEF Stream, InOrderUntilDrop
      <4> QED BY <2>2, <2>3, <3>3, <4>1, <4>2
    <3>7. CASE ~(k < g_rxlen)
      <4>1. d = k - g_rxlen /\ d < m
        BY <1>0, <2>1, <3>1, <3>4, <3>7
      <4>2. g_rxbuf'[i] = served + 1 + d
        BY <3>3, <4>1
      <4> HIDE DEF d
      <4> QED BY <1>0, <2>2, <2>3, <3>1, <3>5, <4>1, <4>2
    <3> QED BY <3>6, <3>7
  <2>7. dropped' = 0 => served' = got' + g_rxlen'
    <3>1. dropped' = 0 => m = n /\ served = got + g_rxlen
      BY <1>11, <2>5
    <3>2. served' = served + n /\ got' = got
      BY <2>2
    <3> QED BY <1>0, <2>1, <2>3, <3>1, <3>2
  <2>8. engine' = "failed" => dropped' > 0
    BY <1>0, <2>1, <2>2 DEF Stream, InOrderUntilDrop
  <2> QED BY <2>2, <2>4, <2>6, <2>7, <2>8 DEF Stream, InOrderUntilDrop
<1>7. CASE DriveFeed
  <2> DEFINE p == g_rxbuf[g_rxhead]
  <2>1. /\ Read(p) /\ g_rxlen > 0
        /\ g_rxhead' = (g_rxhead + 1) % BearRxbufSize /\ g_rxlen' = g_rxlen - 1
        /\ g_rxbuf' = g_rxbuf /\ g_rxtail' = g_rxtail
        /\ 0 \in 0..BearRxbufSize /\ 1 \in 0..BearRxbufSize
        /\ conn' = conn /\ served' = served /\ dropped' = dropped
    BY <1>7, Sizes DEF DriveFeed, Free
  <2>2. dropped = 0 => p = got + 1
    <3>1. (g_rxhead + 0) % BearRxbufSize = g_rxhead
      <4>1. g_rxhead + 0 = g_rxhead
        BY <1>0
      <4>2. g_rxhead % BearRxbufSize = g_rxhead
        BY <1>0, Sizes, Small
      <4> QED BY <4>1, <4>2, Zenon
    <3>2. 0 \in 0..g_rxlen - 1
      BY <1>0, <2>1, Sizes
    <3>3. dropped = 0 => p = got + 1 + 0
      BY <3>1, <3>2, Zenon DEF Stream, InOrderUntilDrop
    <3> QED BY <1>0, <3>3
  <2>3. dropped = 0 => got' = got + 1
    BY <2>1, <2>2 DEF Read
  <2>4. engine' = "failed" => dropped' > 0
    <3>1. CASE p = got + 1
      BY <2>1, <3>1 DEF Read, Stream, InOrderUntilDrop
    <3>2. CASE p # got + 1
      BY <1>0, <2>1, <2>2, <3>2
    <3> QED BY <3>1, <3>2
  <2>5. g_rxtail' = (g_rxhead' + g_rxlen') % BearRxbufSize
    <3>1. g_rxlen - 1 \in 0..BearRxbufSize - 1 /\ 1 + (g_rxlen - 1) = g_rxlen
      BY <1>0, <2>1, Sizes
    <3>2. (((g_rxhead + 1) % BearRxbufSize) + (g_rxlen - 1)) % BearRxbufSize
            = (g_rxhead + (1 + (g_rxlen - 1))) % BearRxbufSize
      BY <1>0, <2>1, <3>1, Sizes, AddTwice
    <3> QED BY <1>10, <2>1, <3>1, <3>2, Zenon
  <2>6. ASSUME dropped' = 0, NEW k \in 0..g_rxlen' - 1
        PROVE  g_rxbuf'[(g_rxhead' + k) % BearRxbufSize] = got' + 1 + k
    <3>1. k + 1 \in 0..g_rxlen - 1 /\ k \in 0..BearRxbufSize
      <4>1. k \in 0..(g_rxlen - 1) - 1
        BY <2>1, <2>6
      <4> QED BY <1>0, <2>1, <4>1, Sizes
    <3>2. g_rxbuf[(g_rxhead + (k + 1)) % BearRxbufSize] = got + 1 + (k + 1)
      BY <2>1, <2>6, <3>1 DEF Stream, InOrderUntilDrop
    <3>3. (g_rxhead' + k) % BearRxbufSize = (g_rxhead + (k + 1)) % BearRxbufSize
      <4>1. k \in 0..BearRxbufSize - 1 /\ 1 + k = k + 1
        BY <1>0, <2>1, <3>1, Sizes
      <4>2. (((g_rxhead + 1) % BearRxbufSize) + k) % BearRxbufSize
              = (g_rxhead + (1 + k)) % BearRxbufSize
        BY <1>0, <2>1, <4>1, Sizes, AddTwice
      <4> QED BY <2>1, <4>1, <4>2, Zenon
    <3> QED BY <1>0, <2>1, <2>3, <2>6, <3>1, <3>2, <3>3
  <2>7. dropped' = 0 => served' = got' + g_rxlen'
    BY <1>0, <1>11, <2>1, <2>3
  <2> QED BY <1>0, <2>1, <2>4, <2>5, <2>6, <2>7 DEF Stream, InOrderUntilDrop
<1> QED
  BY <1>2, <1>3, <1>4, <1>5, <1>6, <1>7 DEF Next, Drive, Recv
LEMMA TypesKept == Inv /\ [Next]_vars => TypeOK'
<1> SUFFICES ASSUME TypeOK, [Next]_vars PROVE TypeOK'
  BY DEF Inv
<1> USE Sizes DEF network, ring, eng, server, flags, result, ExitWith
<1> DEFINE TNet == /\ dns \in BOOLEAN /\ conn \in {"none", "opening", "up"}
                   /\ errcb \in {"none", "tcp", "bear"}
           TRing == /\ g_rxbuf \in [Slots -> 0..CloseNotify] /\ g_rxhead \in Slots
                    /\ g_rxtail \in Slots /\ g_rxlen \in 0..BearRxbufSize
           TFlags == g_sending \in BOOLEAN /\ g_request_sent \in BOOLEAN
           TEng == /\ out \in {0, 1} /\ app \in {0, 1} /\ got \in Nat
                   /\ engine \in {"handshake", "open", "closing", "closed", "failed"}
           TServer == /\ inflight \in {"none", "sent", "received"} /\ records \in Nat
                      /\ served \in 0..CloseNotify /\ dropped \in Nat
           TResult == g_resp_len \in Nat /\ g_resp_err \in 0..2
           TRest == /\ ctl \in {"idle", "drive", "exit", "done"} /\ spoiled \in BOOLEAN
                    /\ printed \in {"nothing", "nameless", "failed", "empty", "response"}
<1>a. TNet /\ TRing /\ TFlags /\ TEng /\ TServer /\ TResult /\ TRest
  BY DEF TypeOK
<1>b. TNet' /\ TRing' /\ TFlags' /\ TEng' /\ TServer' /\ TResult' /\ TRest' => TypeOK'
  BY Zenon DEF TypeOK
<1>c. /\ UNCHANGED network => TNet'
      /\ UNCHANGED ring => TRing'
      /\ UNCHANGED flags => TFlags'
      /\ UNCHANGED eng => TEng'
      /\ UNCHANGED server => TServer'
      /\ UNCHANGED result => TResult'
      /\ UNCHANGED <<ctl, spoiled, printed>> => TRest'
  <2>1. UNCHANGED network => TNet'
    BY <1>a
  <2>2. UNCHANGED ring => TRing'
    BY <1>a
  <2>3. UNCHANGED flags => TFlags'
    BY <1>a
  <2>4. UNCHANGED eng => TEng'
    BY <1>a
  <2>5. UNCHANGED server => TServer'
    BY <1>a
  <2>6. UNCHANGED result => TResult'
    BY <1>a
  <2>7. UNCHANGED <<ctl, spoiled, printed>> => TRest'
    BY <1>a
  <2> QED BY <2>1, <2>2, <2>3, <2>4, <2>5, <2>6, <2>7
<1>10. CASE GotIp
  <2>1. UNCHANGED <<ring, flags, eng, server, result>>
    BY <1>10 DEF GotIp
  <2>2. TNet'
    BY <1>a, <1>10 DEF GotIp
  <2>3. TRest'
    BY <1>a, <1>10 DEF GotIp
  <2> QED BY <1>b, <1>c, <2>1, <2>2, <2>3
<1>11. CASE DnsFails
  <2>1. UNCHANGED <<ring, flags, eng, server>>
    BY <1>11 DEF DnsFails
  <2>2. TNet'
    BY <1>a, <1>11 DEF DnsFails
  <2>3. TResult'
    BY <1>a, <1>11 DEF DnsFails
  <2>4. TRest'
    BY <1>a, <1>11 DEF DnsFails
  <2> QED BY <1>b, <1>c, <2>1, <2>2, <2>3, <2>4
<1>12. CASE DnsDone
  <2>1. UNCHANGED <<ring, flags, eng, server, result, ctl, spoiled, printed>>
    BY <1>12 DEF DnsDone
  <2>2. TNet'
    BY <1>a, <1>12 DEF DnsDone
  <2> QED BY <1>b, <1>c, <2>1, <2>2
<1>13. CASE ConnectionError
  <2>1. UNCHANGED <<network, ring, flags, eng, server>>
    BY <1>13 DEF ConnectionError
  <2>2. TResult'
    BY <1>a, <1>13 DEF ConnectionError
  <2>3. TRest'
    BY <1>a, <1>13 DEF ConnectionError
  <2> QED BY <1>b, <1>c, <2>1, <2>2, <2>3
<1>14. CASE OnDiscon
  <2>1. UNCHANGED <<network, ring, flags, eng, server>>
    BY <1>14 DEF OnDiscon, DisconError
  <2>2. TResult'
    BY <1>a, <1>14 DEF OnDiscon, DisconError
  <2>3. TRest'
    BY <1>a, <1>14 DEF OnDiscon, DisconError
  <2> QED BY <1>b, <1>c, <2>1, <2>2, <2>3
<1>2. CASE Connected
  <2>1. UNCHANGED <<server>>
    BY <1>2 DEF Connected
  <2>2. TNet'
    BY <1>a, <1>2 DEF Connected
  <2>3. TRing'
    BY <1>a, <1>2 DEF Connected
  <2>4. TFlags'
    BY <1>a, <1>2 DEF Connected
  <2>5. TEng'
    BY <1>a, <1>2 DEF Connected
  <2>6. TResult'
    BY <1>a, <1>2 DEF Connected
  <2>7. TRest'
    BY <1>a, <1>2 DEF Connected
  <2> QED BY <1>b, <1>c, <2>1, <2>2, <2>3, <2>4, <2>5, <2>6, <2>7
<1>3. ASSUME NEW n \in 1..Segment, OnRecv(n) PROVE TypeOK'
  <2> DEFINE m == RoomFor(n)
  <2>1. /\ n \in Nat /\ m \in 0..BearRxbufSize - g_rxlen /\ m <= n
        /\ n - m \in Nat /\ g_rxlen \in 0..BearRxbufSize
    BY <1>a, SizesAssumption DEF RoomFor
  <2>2. /\ Push(m) /\ served' = served + n /\ served + n <= CloseNotify
        /\ dropped' = dropped + (n - m) /\ ctl' \in {"idle", "drive"}
        /\ UNCHANGED <<network, flags, eng, inflight, records, result, spoiled, printed>>
    BY <1>3 DEF OnRecv, AfterRecv
  <2>3. g_rxbuf' \in [Slots -> 0..CloseNotify]
    <3> SUFFICES ASSUME NEW i \in Slots
                 PROVE  (IF (i - g_rxtail) % BearRxbufSize < m
                           THEN served + 1 + ((i - g_rxtail) % BearRxbufSize) ELSE g_rxbuf[i])
                          \in 0..CloseNotify
      BY <2>2 DEF Push
    <3>1. i \in 0..BearRxbufSize - 1 /\ g_rxtail \in 0..BearRxbufSize - 1
      BY <1>a DEF Slots
    <3>2. (i - g_rxtail) % BearRxbufSize = IF i >= g_rxtail THEN i - g_rxtail
                                           ELSE i - g_rxtail + BearRxbufSize
      BY <3>1, SubWraps
    <3>3. (i - g_rxtail) % BearRxbufSize \in Nat
      BY <3>1, <3>2
    <3> DEFINE d == (i - g_rxtail) % BearRxbufSize
    <3> HIDE DEF d
    <3>4. d \in Nat
      BY <3>3 DEF d
    <3>5. g_rxbuf[i] \in 0..CloseNotify /\ served \in Nat
      BY <1>a
    <3>6. d < m => served + 1 + d \in 0..CloseNotify
      BY <2>1, <2>2, <3>4, <3>5
    <3> QED BY <3>5, <3>6 DEF d
  <2>4. g_rxhead' \in Slots /\ g_rxtail' \in Slots /\ g_rxlen' \in 0..BearRxbufSize
    <3>1. /\ g_rxlen' = g_rxlen + m /\ g_rxhead' = g_rxhead
          /\ g_rxtail' = (g_rxtail + m) % BearRxbufSize
      BY <2>2 DEF Push
    <3>2. m \in 0..BearRxbufSize /\ g_rxtail \in 0..BearRxbufSize - 1
      BY <1>a, <2>1 DEF Slots
    <3>3. (g_rxtail + m) % BearRxbufSize \in 0..BearRxbufSize - 1
      <4>1. (g_rxtail + m) % BearRxbufSize = IF g_rxtail + m < BearRxbufSize THEN g_rxtail + m
                                             ELSE g_rxtail + m - BearRxbufSize
        BY <3>2, AddWraps
      <4> QED BY <3>2, <4>1
    <3> QED BY <1>a, <2>1, <3>1, <3>3 DEF Slots
  <2>5. served' \in 0..CloseNotify /\ dropped' \in Nat
    BY <1>a, <2>1, <2>2
  <2>6. TRing'
    BY <2>3, <2>4
  <2>7. TServer'
    BY <1>a, <2>2, <2>5
  <2>8. TRest'
    BY <1>a, <2>2
  <2>9. UNCHANGED <<network, flags, eng, result>>
    BY <2>2
  <2> QED BY <1>b, <1>c, <2>6, <2>7, <2>8, <2>9
<1>4. CASE ServerGets
  <2>1. UNCHANGED <<network, ring, flags, eng, result, ctl, spoiled, printed>>
    BY <1>4 DEF ServerGets
  <2>2. TServer'
    BY <1>a, <1>4 DEF ServerGets
  <2> QED BY <1>b, <1>c, <2>1, <2>2
<1>18. CASE OnSent
  <2>1. UNCHANGED <<network, ring, result>>
    BY <1>18 DEF OnSent, AckRecord
  <2>2. TFlags'
    BY <1>a, <1>18 DEF OnSent, AckRecord
  <2>3. TEng'
    BY <1>a, <1>18 DEF OnSent, AckRecord
  <2>4. TServer'
    BY <1>a, <1>18 DEF OnSent, AckRecord
  <2>5. TRest'
    BY <1>a, <1>18 DEF OnSent, AckRecord
  <2> QED BY <1>b, <1>c, <2>1, <2>2, <2>3, <2>4, <2>5
<1>5. CASE DriveClosed
  <2>1. UNCHANGED <<network, ring, flags, eng, server>>
    BY <1>5 DEF DriveClosed
  <2>2. TResult'
    BY <1>a, <1>5 DEF DriveClosed
  <2>3. TRest'
    BY <1>a, <1>5 DEF DriveClosed
  <2> QED BY <1>b, <1>c, <2>1, <2>2, <2>3
<1>6. CASE DriveInject
  <2>1. UNCHANGED <<network, ring, server, result, ctl, spoiled, printed>>
    BY <1>6 DEF DriveInject
  <2>2. TFlags'
    BY <1>a, <1>6 DEF DriveInject
  <2>3. TEng'
    BY <1>a, <1>6 DEF DriveInject
  <2> QED BY <1>b, <1>c, <2>1, <2>2, <2>3
<1>15. CASE DriveCopy
  <2>1. UNCHANGED <<network, ring, flags, server, ctl, spoiled, printed>>
    BY <1>15 DEF DriveCopy
  <2>2. TEng'
    BY <1>a, <1>15 DEF DriveCopy
  <2>3. TResult'
    BY <1>a, <1>15 DEF DriveCopy
  <2> QED BY <1>b, <1>c, <2>1, <2>2, <2>3
<1>16. CASE DriveSend
  <2>1. UNCHANGED <<network, ring, eng>>
    BY <1>16 DEF DriveSend, SendFails
  <2>2. TFlags'
    BY <1>a, <1>16 DEF DriveSend, SendFails
  <2>3. TServer'
    BY <1>a, <1>16 DEF DriveSend, SendFails
  <2>4. TResult'
    BY <1>a, <1>16 DEF DriveSend, SendFails
  <2>5. TRest'
    BY <1>a, <1>16 DEF DriveSend, SendFails
  <2> QED BY <1>b, <1>c, <2>1, <2>2, <2>3, <2>4, <2>5
<1>17. CASE DriveWait
  <2>1. UNCHANGED <<network, ring, flags, eng, server, result>>
    BY <1>17 DEF DriveWait
  <2>2. TRest'
    BY <1>a, <1>17 DEF DriveWait
  <2> QED BY <1>b, <1>c, <2>1, <2>2
<1>7. CASE DriveFeed
  <2> DEFINE p == g_rxbuf[g_rxhead]
  <2>1. /\ Read(p) /\ g_rxlen > 0 /\ g_rxlen' = g_rxlen - 1
        /\ g_rxhead' = (g_rxhead + 1) % BearRxbufSize
        /\ UNCHANGED <<ctl, network, g_rxbuf, g_rxtail, flags, server, result, spoiled, printed>>
    BY <1>7 DEF DriveFeed, Free
  <2>2. p \in Nat
    BY <1>a
  <2>3. got' \in Nat /\ out' \in {0, 1} /\ app' \in {0, 1}
        /\ engine' \in {"handshake", "open", "closing", "closed", "failed"}
    <3>1. CASE p = got + 1
      BY <1>a, <2>1, <2>2, <3>1 DEF Read
    <3>2. CASE p # got + 1
      BY <1>a, <2>1, <3>2 DEF Read
    <3> QED BY <3>1, <3>2
  <2>4. g_rxhead' \in Slots
    <3>1. g_rxhead \in 0..BearRxbufSize - 1 /\ 1 \in 0..BearRxbufSize
      BY <1>a DEF Slots
    <3>2. (g_rxhead + 1) % BearRxbufSize \in 0..BearRxbufSize - 1
      <4>1. (g_rxhead + 1) % BearRxbufSize = IF g_rxhead + 1 < BearRxbufSize THEN g_rxhead + 1
                                             ELSE g_rxhead + 1 - BearRxbufSize
        BY <3>1, AddWraps
      <4> QED BY <3>1, <4>1
    <3> QED BY <2>1, <3>2 DEF Slots
  <2>5. TRing'
    BY <1>a, <2>1, <2>4
  <2>6. UNCHANGED <<network, flags, server, result, ctl, spoiled, printed>>
    BY <2>1
  <2>7. TEng'
    BY <2>3
  <2> QED BY <1>b, <1>c, <2>5, <2>6, <2>7
<1>8. CASE PrintOutcome
  <2>1. UNCHANGED <<network, ring, flags, eng, server, result>>
    BY <1>8 DEF PrintOutcome
  <2>2. TRest'
    BY <1>a, <1>8 DEF PrintOutcome
  <2> QED BY <1>b, <1>c, <2>1, <2>2
<1>9. CASE Done \/ UNCHANGED vars
  BY <1>b, <1>c, <1>9 DEF Done, vars
<1> HIDE DEF network, ring, eng, server, flags, result, TNet, TRing, TFlags, TEng, TServer, TResult,
             TRest
<1> QED
  BY <1>2, <1>3, <1>4, <1>5, <1>6, <1>7, <1>8, <1>9, <1>10, <1>11, <1>12, <1>13, <1>14, <1>15,
     <1>16, <1>17, <1>18 DEF Next, Drive, Recv

LEMMA Invariance == Spec => []Inv
<1>1. Inv /\ [Next]_vars => Inv'
  BY TypesKept, SendingKept, PumpKept, StreamKept, ProgressKept, OutcomeKept, ReportKept DEF Inv
<1> QED
  BY InitEstablishes, <1>1, PTL DEF Spec

(***************************************************************************)
(* The theorems.                                                           *)
(***************************************************************************)
\* bear_drive leaves nothing undone, whatever the order of callbacks and the sizes
\* (bearssl_conn.c:102-202).
THEOREM PumpRunsDry == Spec => []NothingLeftBehind
BY Invariance, PTL DEF Inv

\* The engine is told of a record exactly when espconn has sent it (bearssl_conn.c:120-137,
\* :270-283).
THEOREM AcksFollowSends == Spec => []AckOnlyWhatWasSent
<1>1. Inv => AckOnlyWhatWasSent
  BY DEF Inv, Sending, AckOnlyWhatWasSent, Pump
<1> QED
  BY Invariance, <1>1, PTL

\* Until a piece is dropped the ring hands the stream on in order (bearssl_conn.c:59-84).
THEOREM StreamInOrder == Spec => []InOrderUntilDrop
<1>1. Inv => InOrderUntilDrop
  BY DEF Inv, Stream
<1> QED
  BY Invariance, <1>1, PTL

\* What https_task prints is true of the connection (main.c:136-197).
THEOREM ReportsAreTrue == Spec => []ReportIsTrue
BY Invariance, PTL DEF Inv

\* bearssl_on_recv drops pieces only while a record is in flight, or of a segment that is
\* larger than the ring (bearssl_conn.c:254-268): otherwise the ring is empty.
THEOREM DropsNeedARecordInFlight == Spec => DropsOnlyUnderWay
<1>1. Inv /\ [Next]_vars =>
        [dropped' # dropped => g_sending \/ served' - served > BearRxbufSize]_vars
  <2> SUFFICES ASSUME Inv, Next, dropped' # dropped, ~g_sending
               PROVE  served' - served > BearRxbufSize
    OBVIOUS
  <2>1. g_rxlen \in 0..BearRxbufSize /\ dropped \in Nat /\ served \in Nat
    BY DEF Inv, TypeOK
  <2>2. PICK n \in 1..Segment : OnRecv(n)
    <3> USE DEF network, ring, eng, server, flags, result, ExitWith
    <3>1. ~(GotIp \/ DnsFails \/ DnsDone \/ Connected \/ ConnectionError \/ OnDiscon)
      BY DEF GotIp, DnsFails, DnsDone, Connected, ConnectionError, OnDiscon
    <3>2. ~(ServerGets \/ OnSent \/ PrintOutcome \/ Done)
      BY DEF ServerGets, OnSent, PrintOutcome, Done, vars
    <3>3. ~Drive
      BY DEF Drive, DriveClosed, DriveSend, DriveInject, DriveFeed, DriveCopy, DriveWait
    <3> QED BY <3>1, <3>2, <3>3 DEF Next, Recv
  <2>3. g_rxlen = 0
    BY <2>2 DEF Inv, NothingLeftBehind, Pump, OnRecv
  <2>4. served' = served + n /\ dropped' = dropped + (n - RoomFor(n))
    BY <2>2 DEF OnRecv
  <2>5. n > BearRxbufSize
    BY <2>1, <2>3, <2>4, Sizes, SizesAssumption DEF RoomFor
  <2> QED BY <2>1, <2>4, <2>5, Sizes, SizesAssumption
<1> QED
  BY Invariance, <1>1, PTL DEF Spec, DropsOnlyUnderWay
=============================================================================
