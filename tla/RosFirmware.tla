---------------------------- MODULE RosFirmware ----------------------------
(***************************************************************************)
(* The firmware of the ROS 2 bridge: five tasks, of which R (task_serial_  *)
(* rx) assembles lines and turns them into messages for C (task_command),  *)
(* and T (task_status) reports the state that C has applied.               *)
(***************************************************************************)
EXTENDS HandlerTasks

CONSTANTS LineMax,    \* KTOS_SERIAL_LINE_MAX: 64
          RosQueue,   \* queue of task_command: 8
          WordBits,   \* bits of a WORD: 16
          Speeds      \* what may stand behind "MOTOR,"
ASSUME LineMaxAssumption == LineMax \in Nat \ {0, 1}
ASSUME RosAssumption == /\ RosQueue \in Nat \ {0} /\ WordBits \in Nat \ {0} /\ Speeds \subseteq Int

\* Characters: one that is a whole command by itself stands for each command line.
Character == {"on", "off", "motor", "other", "newline"}

VARIABLES
  rosOs,                    \* the kernel
  polling,                  \* R is inside ktos_serial_poll
  line_buf,                 \* g_line_buf up to g_line_len
  g_led_state, g_motor_speed,
  count, tail,              \* history: length, modulo LineMax, and last characters of the line
  wanted,                   \* history: the state the accepted commands ask for
  burst                     \* history: a poll posted a second command before C was through
rosVars == <<rosOs, polling, line_buf, g_led_state, g_motor_speed, count, tail, wanted, burst>>
applied == <<g_led_state, g_motor_speed>>
line == <<line_buf, count, tail>>
history == <<wanted, burst>>

RosInit ==
  /\ rosOs = Booted(<<"H", "N", "T", "R", "C">>)
  /\ polling = FALSE
  /\ line_buf = << >> /\ g_led_state = 0 /\ g_motor_speed = 0
  /\ wanted = <<0, 0>>
  /\ count = 0 /\ tail = << >> /\ burst = FALSE

RosTurn(t, kinds) == ~polling /\ HasTurn(rosOs, t) /\ EventOf(rosOs, t)[1] \in kinds
RosEnd(t, k, delay) == rosOs' = Returned(k, t, delay)

\* (WORD)(short)speed, taken back as (int)(short)Param1.
AsShort(n) == LET half == 2^(WordBits - 1) IN ((n + half) % (2 * half)) - half

(***************************************************************************)
(* ktos_serial_poll and on_serial_line, one character at a time.           *)
(***************************************************************************)
PollBegins ==
  /\ RosTurn("R", {"timer"})
  /\ rosOs' = Taken(rosOs, "R") /\ polling' = TRUE
  /\ UNCHANGED <<line, applied, history>>

PollEnds ==
  /\ polling /\ polling' = FALSE
  /\ RosEnd("R", rosOs, Later)
  /\ UNCHANGED <<line, applied, history>>

\* Mutant: the character that overflows the buffer begins the next piece.
MutStored(c) == IF Len(line_buf) < LineMax - 1 THEN Append(line_buf, c) ELSE <<c>>
Stored(c) == IF Len(line_buf) < LineMax - 1 THEN Append(line_buf, c) ELSE << >>

PollChar(c) ==
  /\ polling /\ c # "newline"
  /\ line_buf' = Stored(c)
  /\ count' = (count + 1) % LineMax
  /\ tail' = IF Len(tail) < LineMax - 1 THEN Append(tail, c) ELSE Append(Tail(tail), c)
  /\ UNCHANGED <<rosOs, polling, applied, history>>

\* The message a line asks for; PING and what is unknown are answered at once.
MessagesFor(speed) ==
  CASE line_buf = <<"on">>    -> {<<"led", 1>>}
    [] line_buf = <<"off">>   -> {<<"led", 0>>}
    [] line_buf = <<"motor">> -> {<<"motor", AsShort(speed)>>}
    [] OTHER                  -> {}

Effect(state, msg) == IF msg[1] = "led" THEN <<msg[2], state[2]>> ELSE <<state[1], msg[2]>>

\* The result of ktos_SendMsg is ignored.
Post(msg) ==
  /\ rosOs' = Posted(rosOs, "C", msg, RosQueue)
  /\ wanted' = IF rosOs' = rosOs THEN wanted ELSE Effect(wanted, msg)
  /\ burst' = (burst \/ rosOs.mail["C"] # << >>)

PollNewline(speed) ==
  /\ polling
  /\ \/ MessagesFor(speed) = {} /\ UNCHANGED <<rosOs, history>>
     \/ \E msg \in MessagesFor(speed) : Post(msg)
  /\ line_buf' = << >> /\ count' = 0 /\ tail' = << >>
  /\ UNCHANGED <<polling, applied>>

\* ktos_serial_init.
SerialInit ==
  /\ RosTurn("R", {"init"}) /\ line_buf' = << >>
  /\ RosEnd("R", Taken(rosOs, "R"), Later)
  /\ UNCHANGED <<polling, count, tail, applied, history>>

\* task_command.
Apply ==
  /\ RosTurn("C", {"init", "led", "motor"})
  /\ LET e == EventOf(rosOs, "C")
         k == Taken(rosOs, "C")
         s == IF e = INIT THEN applied ELSE Effect(applied, e)
     IN /\ g_led_state' = s[1] /\ g_motor_speed' = s[2]
        /\ burst' = (burst /\ k.mail["C"] # << >>)
        /\ RosEnd("C", k, Forever)
  /\ UNCHANGED <<polling, line, wanted>>

\* task_status sends the state; task_heartbeat and task_sensor concern no one else.
Report(t) ==
  /\ RosTurn(t, {"init", "timer"}) /\ RosEnd(t, Taken(rosOs, t), Later)
  /\ UNCHANGED <<polling, line, applied, history>>

RosExpire(t) ==
  /\ t \in rosOs.armed /\ rosOs' = Expired(rosOs, t)
  /\ UNCHANGED <<polling, line, applied, history>>

RosPass ==
  /\ ~polling /\ CanPass(rosOs) /\ rosOs' = PassedBy(rosOs)
  /\ UNCHANGED <<polling, line, applied, history>>

RosNext == \/ PollBegins \/ PollEnds \/ SerialInit \/ Apply \/ RosPass
           \/ \E c \in Character : PollChar(c)
           \/ \E speed \in Speeds : PollNewline(speed)
           \/ \E t \in {"H", "N", "T"} : Report(t)
           \/ \E t \in {"H", "N", "T", "R"} : RosExpire(t)

\* An overlong line is cut into pieces of LineMax characters, and what the newline makes
\* a line of is the rest: the last characters, as many as the length modulo LineMax.
LineIsTail == line_buf = SubSeq(tail, Len(tail) - count + 1, Len(tail))

\* When no command waits, the LED and the motor are as the accepted ones left them.
StateIsLastAccepted == rosOs.mail["C"] = << >> => applied = wanted

\* A STATUS shows every command accepted before it, unless one poll found several or
\* found one while others waited: C is visited between R and T, but handles one message
\* at a time (ktos_serial_protocol.md:29, "on next cycle").
StatusIsCurrent == (RosTurn("T", {"timer"}) /\ ~burst) => applied = wanted
=============================================================================
