---------------------------- MODULE LedControl ----------------------------
(***************************************************************************)
(* The LED example (Arduino Nano): uart_task parses lines and posts        *)
(* MSG_SET_MODE; led_task owns the LED and blinks by its own timer.        *)
(***************************************************************************)
EXTENDS HandlerTasks

CONSTANTS LedQueue,  \* queue size of led_task: 4
          LedBurst   \* mode commands one activation of uart_task may find, at most
ASSUME LedAssumption == LedQueue \in Nat \ {0} /\ LedBurst \in Nat

Mode == {"off", "on", "blink"}

VARIABLES
  ledOs,                    \* the kernel
  g_led_mode, g_led_level,
  lit,                      \* the port
  accepted                  \* history: the mode of the last command that found room
ledVars == <<ledOs, g_led_mode, g_led_level, lit, accepted>>
led == <<g_led_mode, g_led_level, lit>>

LedInit ==
  /\ ledOs = Booted(<<"led", "uart">>)
  /\ g_led_mode = "blink" /\ g_led_level = FALSE /\ lit = FALSE
  /\ accepted = "blink"

ToLed(kind) == HasTurn(ledOs, "led") /\ EventOf(ledOs, "led")[1] = kind
LedEnd(delay) == ledOs' = Returned(Taken(ledOs, "led"), "led", delay)

LedBoot ==
  /\ ToLed("init")
  /\ lit' = FALSE /\ g_led_mode' = "blink"
  /\ LedEnd(Later)
  /\ UNCHANGED <<g_led_level, accepted>>

Blink ==
  /\ ToLed("timer")
  /\ IF g_led_mode = "blink"
       THEN g_led_level' = ~g_led_level /\ lit' = ~g_led_level /\ LedEnd(Later)
       ELSE UNCHANGED <<g_led_level, lit>> /\ LedEnd(Forever)
  /\ UNCHANGED <<g_led_mode, accepted>>

\* MSG_SET_MODE.  BLINK leaves the level and starts the timer, as INIT does.
\* Mutant: every mode keeps the blink timer.
MutModeDelay(m) == Later
\* Mutant: BLINK sets the mode, but no timer.
MutModeNoTimer(m) == Forever
ModeDelay(m) == IF m = "blink" THEN Later ELSE Forever
SetMode ==
  /\ ToLed("mode")
  /\ LET m == EventOf(ledOs, "led")[2] IN
     /\ g_led_mode' = m
     /\ g_led_level' = IF m = "blink" THEN g_led_level ELSE m = "on"
     /\ lit' = IF m = "blink" THEN lit ELSE m = "on"
     /\ LedEnd(ModeDelay(m))
  /\ UNCHANGED accepted

\* uart_task's loop: dispatch_line posts each command it knows.
Dispatched(k, cmd) ==
  LET f[i \in 0..Len(cmd)] ==
        IF i = 0 THEN k ELSE Posted(f[i - 1], "led", <<"mode", cmd[i]>>, LedQueue)
  IN f[Len(cmd)]
\* uart_task: INIT, or the lines that came in; a full queue drops a command unseen.
UartTurn ==
  /\ HasTurn(ledOs, "uart")
  /\ \E n \in 0..(IF EventOf(ledOs, "uart") = INIT THEN 0 ELSE LedBurst) :
     \E cmd \in [1..n -> Mode] :
       LET room == LedQueue - Len(ledOs.mail["led"])
           last == IF n < room THEN n ELSE room
       IN /\ ledOs' = Returned(Dispatched(Taken(ledOs, "uart"), cmd), "uart", Later)
          /\ accepted' = IF last = 0 THEN accepted ELSE cmd[last]
  /\ UNCHANGED led

LedExpire(t) == /\ t \in ledOs.armed /\ ledOs' = Expired(ledOs, t)
                /\ UNCHANGED <<led, accepted>>

LedPass == CanPass(ledOs) /\ ledOs' = PassedBy(ledOs) /\ UNCHANGED <<led, accepted>>

LedTurn == LedBoot \/ Blink \/ SetMode
LedNext == LedTurn \/ UartTurn \/ LedPass \/ \E t \in {"led", "uart"} : LedExpire(t)

\* Once its queue is empty led_task shows what the last accepted command asked for,
\* and a steady light stays steady: no timer of an earlier BLINK is left to toggle it.
LastModeWins ==
  ("led" \notin ledOs.fresh /\ ledOs.mail["led"] = << >>) =>
    /\ g_led_mode = accepted
    /\ accepted # "blink" => lit = (accepted = "on") /\ "led" \notin ledOs.due \cup ledOs.armed

\* In mode BLINK the LED goes on and off for ever, once commands stop coming: each
\* further BLINK starts the 500 ms again.
BlinksForever ==
  <>[](g_led_mode = "blink" /\ ledOs.mail["led"] = << >>) => ([]<>lit /\ []<>~lit)
=============================================================================
