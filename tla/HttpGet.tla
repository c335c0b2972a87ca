------------------------------ MODULE HttpGet ------------------------------
(***************************************************************************)
(* The HTTPS GET example on the ESP8266 with CA verification and clock     *)
(* synchronisation (startup.c): after each address the clock is polled by  *)
(* a repeating timer, then the name is looked up and the server asked; the *)
(* kernel only starts when all is over.  The SDK runs one callback at a    *)
(* time.  Its SNTP client, DNS, the connection and the server are external;*)
(* starting or stopping the client may lose the time it had.               *)
(***************************************************************************)
EXTENDS Integers

CONSTANTS MaxPolls,    \* SNTP_MAX_POLLS: 75
          RespRoom,    \* HTTP_RESP_BUF - 1
          HttpSegment  \* what one receive callback may bring, at most
ASSUME PollsAssumption == MaxPolls \in Nat \ {0}
ASSUME RespAssumption == RespRoom \in Nat /\ HttpSegment \in Nat \ {0}

VARIABLES
  inSdk,        \* do_exit has not been called
  client,       \* the SNTP client runs: between sntp_init and sntp_stop
  clock,        \* sntp_get_current_timestamp() # 0
  sntpArmed, g_sntp_polls,
  resolving,    \* a lookup whose callback is to come
  link,         \* the connection: "none", "opening", "up"
  g_resp_len, g_resp_err,
  waited,       \* history: polls without a time since the last address
  sought        \* history: the last address has led to a lookup
hgVars == <<inSdk, client, clock, sntpArmed, g_sntp_polls, resolving, link,
            g_resp_len, g_resp_err, waited, sought>>
sntp == <<client, sntpArmed, g_sntp_polls, waited, sought>>

HgInit ==
  /\ inSdk = TRUE /\ client = FALSE /\ clock = FALSE
  /\ sntpArmed = FALSE /\ g_sntp_polls = 0 /\ waited = 0 /\ sought = FALSE
  /\ resolving = FALSE /\ link = "none"
  /\ g_resp_len = 0 /\ g_resp_err = 0

Exit(err) == inSdk' = FALSE /\ g_resp_err' = err

\* The station gets an address, the first time or again: the client is started, or
\* started again, and the timer with it.
Address ==
  /\ inSdk /\ client' = TRUE /\ clock' \in {FALSE, clock}
  /\ g_sntp_polls' = 0 /\ sntpArmed' = TRUE
  /\ waited' = 0 /\ sought' = FALSE
  /\ UNCHANGED <<inSdk, resolving, link, g_resp_len, g_resp_err>>

\* An SNTP answer reaches the client.
ClockSet == /\ inSdk /\ client /\ ~clock /\ clock' = TRUE
            /\ UNCHANGED <<inSdk, sntp, resolving, link, g_resp_len, g_resp_err>>

\* Mutant: the repeating timer is left running once there is a time.
MutDisarmed == sntpArmed
Disarmed == FALSE

\* Mutant: the timer is armed for one poll only.
MutRearmed == FALSE
Rearmed == TRUE

\* sntp_check_cb: no time yet,
PollAgain ==
  /\ inSdk /\ sntpArmed /\ ~clock /\ g_sntp_polls + 1 < MaxPolls
  /\ g_sntp_polls' = g_sntp_polls + 1 /\ waited' = waited + 1
  /\ sntpArmed' = Rearmed
  /\ UNCHANGED <<inSdk, client, clock, sought, resolving, link, g_resp_len, g_resp_err>>
\* no time for too long,
PollTimesOut ==
  /\ inSdk /\ sntpArmed /\ ~clock /\ g_sntp_polls + 1 >= MaxPolls
  /\ g_sntp_polls' = g_sntp_polls + 1 /\ waited' = waited + 1
  /\ sntpArmed' = FALSE /\ client' = FALSE /\ Exit(3)
  /\ UNCHANGED <<clock, sought, resolving, link, g_resp_len>>
\* or time to look the name up.  A name looked up before may be known: then
\* espconn_gethostbyname returns without a callback, which nobody looks at.
PollFinds ==
  /\ inSdk /\ sntpArmed /\ clock
  /\ sntpArmed' = Disarmed
  /\ client' = FALSE /\ clock' \in {FALSE, clock}
  /\ resolving' = TRUE \/ (link # "none" /\ UNCHANGED resolving)
  /\ sought' = TRUE
  /\ UNCHANGED <<inSdk, g_sntp_polls, waited, link, g_resp_len, g_resp_err>>
Poll == PollAgain \/ PollTimesOut \/ PollFinds

\* dns_done_cb; a connection that exists is not opened again.
NoName ==
  /\ inSdk /\ resolving /\ resolving' = FALSE /\ Exit(1)
  /\ UNCHANGED <<clock, sntp, link, g_resp_len>>
Name ==
  /\ inSdk /\ resolving /\ resolving' = FALSE
  /\ link' = IF link = "none" THEN "opening" ELSE link
  /\ UNCHANGED <<inSdk, clock, sntp, g_resp_len, g_resp_err>>

\* http_connect_cb sends the request, without looking at the result.
LinkUp == /\ inSdk /\ link = "opening" /\ link' = "up"
          /\ UNCHANGED <<inSdk, clock, sntp, resolving, g_resp_len, g_resp_err>>

\* http_error_cb, whatever has come in,
LinkError == /\ inSdk /\ link # "none" /\ Exit(2)
             /\ UNCHANGED <<clock, sntp, resolving, link, g_resp_len>>

\* http_recv_cb: what the buffer has no room for is lost,
Response(n) ==
  /\ inSdk /\ link = "up"
  /\ LET space == RespRoom - g_resp_len IN
     g_resp_len' = g_resp_len + (IF n > space THEN space ELSE n)
  /\ UNCHANGED <<inSdk, clock, sntp, resolving, link, g_resp_err>>

\* and http_discon_cb: "Connection: close" was asked for.
LinkClosed == /\ inSdk /\ link = "up" /\ Exit(g_resp_err)
              /\ UNCHANGED <<clock, sntp, resolving, link, g_resp_len>>

\* From then on the SDK's loop is gone; what http_task prints is not modelled.
Printed == ~inSdk /\ UNCHANGED hgVars

LinkEvent == LinkUp \/ LinkError \/ LinkClosed
HgNext == Address \/ ClockSet \/ Poll \/ NoName \/ Name \/ LinkEvent \/ Printed
          \/ \E n \in 1..HttpSegment : Response(n)

\* "SNTP time sync timed out" (error 3) is reported only after a whole SNTP_MAX_POLLS of
\* polls since the last address, and never once that address has led to a lookup: the
\* timer cannot end the request it has started, even though the time may read 0 again
\* as soon as sntp_stop is called.
TimeoutIsHonest == g_resp_err = 3 => waited = MaxPolls /\ ~sought

\* Once there is an address, and no further ones come, the program gets to its report,
\* if lookups are answered and the server closes as it was asked to: polling ends by its
\* timeout, and no callback leaves the program with nothing to wait for.
UnderWay == sntpArmed \/ resolving \/ link # "none"
ReportComes == <>[][~Address]_hgVars => (UnderWay ~> ~inSdk)
=============================================================================
