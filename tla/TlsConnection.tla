--------------------------- MODULE TlsConnection ---------------------------
(***************************************************************************)
(* The HTTPS example on the ESP8266: name lookup and connection in         *)
(* startup.c, the TLS pump of bearssl_conn.c, and the task of main.c that  *)
(* prints the outcome.  The SDK runs one callback at a time; bear_drive,   *)
(* which most of them end in, is a step per turn of its loop.              *)
(*                                                                         *)
(* External: the BearSSL engine with its one buffer for both directions,   *)
(* espconn, and the server.  TLS bytes come in pieces 1, 2, ... and the    *)
(* engine fails when one is missing.  The client's records are ClientHello *)
(* (1), the rest of its handshake (2), the GET (3) and close_notify (4).   *)
(***************************************************************************)
EXTENDS Integers, Sequences

CONSTANTS
  HelloEnd, HandshakeEnd, ResponseEnd, \* last piece of the server's flights; close_notify follows
  BearRxbufSize,                       \* BEAR_RXBUF_SIZE, in pieces
  HttpRespBuf,                         \* HTTP_RESP_BUF - 1, in pieces
  Segment                              \* pieces one receive callback may bring, at most
ASSUME FlightsAssumption ==
  /\ {HelloEnd, HandshakeEnd, ResponseEnd} \subseteq Nat
  /\ 0 < HelloEnd /\ HelloEnd < HandshakeEnd /\ HandshakeEnd <= ResponseEnd
ASSUME SizesAssumption == {BearRxbufSize, HttpRespBuf, Segment} \subseteq Nat \ {0}

CloseNotify == ResponseEnd + 1
Piece == 1..CloseNotify
Slots == 0..BearRxbufSize - 1

VARIABLES
  ctl,        \* "idle": the SDK waits, "drive": in bear_drive, "exit": do_exit, "done"
  dns, conn,  \* a name lookup is under way; the TCP connection: "none", "opening", "up"
  errcb,      \* the reconnect callback registered: "tcp" or "bear"
  g_rxbuf, g_rxhead, g_rxtail, g_rxlen,
  g_sending, g_request_sent,
  out, app, got, engine, \* engine: record to send, data to read, pieces read, state
  inflight,   \* espconn's record: "none", "sent" to the server, or "received", to be called back
  records,    \* records the server has got
  served,     \* pieces it has sent
  dropped,    \* pieces that found no room in g_rxbuf
  g_resp_len, g_resp_err,
  spoiled,    \* history: espconn_sent has failed, or the name was looked up again
  printed     \* what https_task prints
ring    == <<g_rxbuf, g_rxhead, g_rxtail, g_rxlen>>
eng     == <<out, app, got, engine>>
network == <<dns, conn, errcb>>
server  == <<inflight, records, served, dropped>>
flags   == <<g_sending, g_request_sent>>
result  == <<g_resp_len, g_resp_err>>
vars == <<ctl, network, ring, flags, eng, server, result, spoiled, printed>>

TypeOK ==
  /\ ctl \in {"idle", "drive", "exit", "done"}
  /\ dns \in BOOLEAN /\ conn \in {"none", "opening", "up"} /\ errcb \in {"none", "tcp", "bear"}
  /\ g_rxbuf \in [Slots -> 0..CloseNotify] /\ g_rxhead \in Slots /\ g_rxtail \in Slots
  /\ g_rxlen \in 0..BearRxbufSize
  /\ g_sending \in BOOLEAN /\ g_request_sent \in BOOLEAN
  /\ out \in {0, 1} /\ app \in {0, 1}
  /\ engine \in {"handshake", "open", "closing", "closed", "failed"}
  /\ inflight \in {"none", "sent", "received"}
  /\ got \in Nat /\ records \in Nat /\ served \in 0..CloseNotify /\ dropped \in Nat
  /\ g_resp_len \in Nat
  /\ g_resp_err \in 0..2 /\ spoiled \in BOOLEAN
  /\ printed \in {"nothing", "nameless", "failed", "empty", "response"}

Init ==
  /\ ctl = "idle" /\ dns = FALSE /\ conn = "none" /\ errcb = "none"
  /\ g_rxbuf = [i \in Slots |-> 0] /\ g_rxhead = 0 /\ g_rxtail = 0 /\ g_rxlen = 0
  /\ g_sending = FALSE /\ g_request_sent = FALSE
  /\ out = 0 /\ app = 0 /\ got = 0 /\ engine = "handshake"
  /\ inflight = "none" /\ records = 0 /\ served = 0 /\ dropped = 0
  /\ g_resp_len = 0 /\ g_resp_err = 0 /\ spoiled = FALSE /\ printed = "nothing"

ExitWith(err) == ctl' = "exit" /\ g_resp_err' = err

(***************************************************************************)
(* startup.c.  The station may get an address again at any time, and the   *)
(* name is then looked up again.                                           *)
(***************************************************************************)
GotIp ==
  /\ ctl = "idle" /\ ~dns /\ dns' = TRUE
  /\ spoiled' = (spoiled \/ conn # "none")
  /\ UNCHANGED <<ctl, conn, errcb, ring, flags, eng, server, result, printed>>

DnsFails ==
  /\ ctl = "idle" /\ dns /\ dns' = FALSE
  /\ ExitWith(1)
  /\ UNCHANGED <<conn, errcb, ring, flags, eng, server, g_resp_len, spoiled, printed>>

\* espconn_connect is refused for a connection that exists, which nobody looks at.
DnsDone ==
  /\ ctl = "idle" /\ dns /\ dns' = FALSE
  /\ conn' = IF conn = "none" THEN "opening" ELSE conn
  /\ errcb' = "tcp"
  /\ UNCHANGED <<ctl, ring, flags, eng, server, result, spoiled, printed>>

\* tcp_connect_cb and bearssl_init, which gives up when there is no memory.
Connected ==
  /\ ctl = "idle" /\ conn = "opening" /\ conn' = "up"
  /\ errcb' = "bear"
  /\ \/ ctl' = "drive" /\ out' = 1 /\ UNCHANGED result
     \/ ExitWith(2) /\ UNCHANGED <<out, g_resp_len>>
  /\ g_rxhead' = 0 /\ g_rxtail' = 0 /\ g_rxlen' = 0
  /\ g_sending' = FALSE /\ g_request_sent' = FALSE
  /\ UNCHANGED <<dns, g_rxbuf, app, got, engine, server, spoiled, printed>>

\* tcp_error_cb or bearssl_on_error, whichever is registered.
ConnectionError ==
  /\ ctl = "idle" /\ conn # "none"
  /\ ExitWith(IF errcb = "tcp" \/ g_resp_len = 0 THEN 2 ELSE g_resp_err)
  /\ UNCHANGED <<network, ring, flags, eng, server, g_resp_len, spoiled, printed>>

\* Mutant: a disconnect is an error, whatever has come in.
MutDisconError == 2
DisconError == IF g_resp_len = 0 THEN 2 ELSE g_resp_err
\* bearssl_on_discon: the connection is cut,
OnDiscon ==
  /\ ctl = "idle" /\ conn = "up"
  /\ ExitWith(DisconError)
  /\ UNCHANGED <<network, ring, flags, eng, server, g_resp_len, spoiled, printed>>
\* or the server, having sent all, closes it.
ServerCloses == served = CloseNotify /\ OnDiscon

(***************************************************************************)
(* The callbacks of bearssl_conn.c.                                        *)
(***************************************************************************)
\* What the server must have got before it sends piece p.
Prompted(p) == records >= (IF p <= HelloEnd THEN 1 ELSE IF p <= HandshakeEnd THEN 2 ELSE 3)

\* Mutant: the length of the segment is not cut to the room there is.
MutRoomFor(n) == n
RoomFor(n) == IF n <= BearRxbufSize - g_rxlen THEN n ELSE BearRxbufSize - g_rxlen
\* Mutant: the callback only stores what came in.
MutAfterRecv == "idle"
AfterRecv == IF g_sending THEN "idle" ELSE "drive"

\* rxbuf_push of n pieces.
Push(n) ==
  /\ g_rxbuf' = [i \in Slots |->
                   LET k == (i - g_rxtail) % BearRxbufSize IN
                   IF k < n THEN served + 1 + k ELSE g_rxbuf[i]]
  /\ g_rxtail' = (g_rxtail + n) % BearRxbufSize
  /\ g_rxlen' = g_rxlen + n
  /\ UNCHANGED g_rxhead

OnRecv(n) ==
  /\ ctl = "idle" /\ conn = "up"
  /\ served + n <= CloseNotify /\ \A p \in served + 1..served + n : Prompted(p)
  /\ served' = served + n
  /\ Push(RoomFor(n))
  /\ dropped' = dropped + (n - RoomFor(n))
  /\ ctl' = AfterRecv
  /\ UNCHANGED <<network, flags, eng, inflight, records, result, spoiled, printed>>

\* sendrec_ack: having sent its close_notify, the engine is closed.
AckRecord == out' = 0 /\ engine' = IF engine = "closing" THEN "closed" ELSE engine

\* The server may answer a record before the callback for it comes.
ServerGets ==
  /\ ctl = "idle" /\ inflight = "sent" /\ inflight' = "received"
  /\ records' = records + 1
  /\ UNCHANGED <<ctl, network, ring, flags, eng, served, dropped, result, spoiled, printed>>

OnSent ==
  /\ ctl = "idle" /\ inflight = "received" /\ inflight' = "none"
  /\ IF g_sending THEN AckRecord ELSE UNCHANGED <<out, engine>>
  /\ g_sending' = FALSE
  /\ ctl' = "drive"
  /\ UNCHANGED <<network, ring, g_request_sent, app, got, records, served, dropped, result, spoiled,
                 printed>>

(***************************************************************************)
(* bear_drive: the first of these whose guard holds.                       *)
(***************************************************************************)
Closed == engine \in {"closed", "failed"}

DriveClosed ==
  /\ ctl = "drive" /\ Closed
  /\ ExitWith(IF engine = "failed" /\ g_resp_len = 0 THEN 2 ELSE g_resp_err)
  /\ UNCHANGED <<network, ring, flags, eng, server, g_resp_len, spoiled, printed>>

\* Mutant: the result of espconn_sent is not looked at.
MutSendFails == ctl' = "idle" /\ spoiled' = TRUE /\ UNCHANGED g_resp_err
SendFails == ExitWith(2) /\ spoiled' = TRUE

\* One record at a time; the loop goes on in bearssl_on_sent.
DriveSend ==
  /\ ctl = "drive" /\ ~Closed /\ out = 1 /\ ~g_sending
  /\ g_sending' = TRUE
  /\ \/ inflight' = "sent" /\ ctl' = "idle" /\ UNCHANGED <<g_resp_err, spoiled>>
     \/ SendFails /\ UNCHANGED inflight
  /\ UNCHANGED <<network, ring, g_request_sent, eng, records, served, dropped, g_resp_len, printed>>

\* What the engine offers besides SENDREC: its one buffer is free.
Free == ctl = "drive" /\ ~Closed /\ out = 0 /\ app = 0
\* Mutant: the receive ring is looked at first, and an empty one ends the loop.
MutCanInject == Free /\ engine = "open" /\ ~g_request_sent /\ g_rxlen > 0
CanInject == Free /\ engine = "open" /\ ~g_request_sent

DriveInject ==
  /\ CanInject
  /\ g_request_sent' = TRUE /\ out' = 1
  /\ UNCHANGED <<ctl, network, ring, g_sending, app, got, engine, server, result, spoiled, printed>>

\* recvrec_ack of one piece: what the engine makes of it.
Read(p) ==
  IF p # got + 1
    THEN engine' = "failed" /\ UNCHANGED <<out, app, got>>
    ELSE /\ got' = p
         /\ out' = IF p \in {HelloEnd, CloseNotify} THEN 1 ELSE 0
         /\ app' = IF p > HandshakeEnd /\ p < CloseNotify THEN 1 ELSE 0
         /\ engine' = CASE p = HandshakeEnd -> "open"
                        [] p = CloseNotify  -> "closing"
                        [] OTHER            -> engine

DriveFeed ==
  /\ Free /\ ~CanInject /\ g_rxlen > 0
  /\ Read(g_rxbuf[g_rxhead])
  /\ g_rxhead' = (g_rxhead + 1) % BearRxbufSize
  /\ g_rxlen' = g_rxlen - 1
  /\ UNCHANGED <<ctl, network, g_rxbuf, g_rxtail, flags, server, result, spoiled, printed>>

\* The response is cut to the buffer, the engine always told that all was read.
DriveCopy ==
  /\ ctl = "drive" /\ ~Closed /\ out = 0 /\ app = 1
  /\ app' = 0
  /\ g_resp_len' = IF g_resp_len < HttpRespBuf THEN g_resp_len + 1 ELSE g_resp_len
  /\ UNCHANGED <<ctl, network, ring, flags, out, got, engine, server, g_resp_err, spoiled, printed>>

\* Nothing to do until the next callback.
DriveWait ==
  /\ \/ Free /\ ~CanInject /\ g_rxlen = 0
     \/ ctl = "drive" /\ ~Closed /\ out = 1 /\ g_sending
  /\ ctl' = "idle"
  /\ UNCHANGED <<network, ring, flags, eng, server, result, spoiled, printed>>

Drive == DriveClosed \/ DriveSend \/ DriveInject \/ DriveFeed \/ DriveCopy \/ DriveWait

\* do_exit starts the kernel, and https_task gets MSG_HTTPS_DONE.
PrintOutcome ==
  /\ ctl = "exit" /\ ctl' = "done"
  /\ \/ g_resp_err = 1 /\ printed' = "nameless"
     \/ g_resp_err = 2 /\ printed' = "failed"
     \/ g_resp_err = 0 /\ printed' = IF g_resp_len = 0 THEN "empty" ELSE "response"
  /\ UNCHANGED <<network, ring, flags, eng, server, result, spoiled>>
Done == ctl = "done" /\ UNCHANGED vars

Recv == \E n \in 1..Segment : OnRecv(n)
Next == GotIp \/ DnsFails \/ DnsDone \/ Connected \/ ConnectionError \/ OnDiscon
        \/ Recv \/ ServerGets \/ OnSent \/ Drive \/ PrintOutcome \/ Done

\* The processor runs on, espconn calls back, and the server answers and closes in the end.
Spec == /\ Init /\ [][Next]_vars
        /\ WF_vars(Drive) /\ WF_vars(PrintOutcome) /\ WF_vars(ServerGets) /\ WF_vars(OnSent)
        /\ WF_vars(Recv) /\ WF_vars(ServerCloses)

(***************************************************************************)
(* Properties.                                                             *)
(***************************************************************************)
Pump == conn = "up" /\ ctl = "idle"

\* bear_drive never returns with work it could do: while no record is in flight the ring
\* is empty, nothing decrypted waits, and the request is out once the handshake is done.
\* Otherwise only another callback, which may never come, would get it moving.
NothingLeftBehind ==
  (Pump /\ ~g_sending) => /\ g_rxlen = 0 /\ out = 0 /\ app = 0 /\ ~Closed
                          /\ engine = "open" => g_request_sent

\* The engine is told that a record is sent exactly when espconn has sent it: it never
\* reuses the buffer espconn reads from, and never waits for a callback that came already.
AckOnlyWhatWasSent ==
  /\ Pump => g_sending = (inflight # "none")
  /\ inflight # "none" => g_sending /\ out = 1

\* The engine sees the stream in order, and fails only if a piece was dropped.
InOrderUntilDrop ==
  /\ \A k \in 0..g_rxlen - 1 :
       dropped = 0 => g_rxbuf[(g_rxhead + k) % BearRxbufSize] = got + 1 + k
  /\ engine = "failed" => dropped > 0

\* Pieces are dropped only while a record is in flight, or when one segment is larger
\* than the whole ring.
DropsOnlyUnderWay ==
  [][dropped' # dropped => g_sending \/ served' - served > BearRxbufSize]_vars

\* An error is printed over a response that has begun to come in only after
\* espconn_sent failed or the name was looked up again; "response" may mean a part of it.
ReportIsTrue ==
  /\ (printed \in {"nameless", "failed"} /\ g_resp_len > 0) => spoiled
  /\ printed = "response" => g_request_sent /\ got > HandshakeEnd
  /\ printed = "empty" => got = CloseNotify

\* Once connected, something is printed in the end, unless pieces of the server's
\* handshake were dropped: both sides then wait, and the code has no timeout.
EventuallyPrints ==
  (conn = "up") ~> (printed # "nothing" \/ (engine = "handshake" /\ dropped > 0))
=============================================================================
