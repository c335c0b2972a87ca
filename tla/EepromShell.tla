---------------------------- MODULE EepromShell ----------------------------
(***************************************************************************)
(* The EEPROM example (Arduino Uno): counter_task counts boots in two      *)
(* EEPROM cells and executes command lines; rx_task posts them.  Power may *)
(* fail at any moment, also while a cell is being programmed.  Which       *)
(* command a line holds is left open: rx_task shares its buffer.           *)
(***************************************************************************)
EXTENDS HandlerTasks

CONSTANTS Base,       \* values of a cell: 256 on the chip
          EepromLines \* lines one activation of rx_task may post, at most
ASSUME BaseAssumption == Base \in Nat \ {0, 1}
ASSUME LinesAssumption == EepromLines \in Nat

VARIABLES
  eeOs,     \* the kernel
  on,       \* power
  cell,     \* the EEPROM cells 0 (low) and 1 (high) of the counter
  writing,  \* << >>, or the cell being programmed and its new value
  doing,    \* where counter_task is: "idle", or before its low or high write
  cnt,      \* its local
  g_boot_count,
  due,      \* history: what the next boot is to show
  spoilt    \* history: a WRITE or a power failure has spoilt the stored number
eeVars == <<eeOs, on, cell, writing, doing, cnt, g_boot_count, due, spoilt>>

Byte == 0..Base - 1
Top  == Base * Base - 1   \* 0xFFFF, what blank cells hold

\* The number after n, as it should be.
Succ(n) == IF n = Top THEN 1 ELSE n + 1

EeBooted == Booted(<<"counter", "rx">>)

EeInit ==
  /\ eeOs = EeBooted /\ on = TRUE
  /\ cell = [a \in 0..1 |-> Base - 1]
  /\ writing = << >> /\ doing = "idle" /\ cnt = 0 /\ g_boot_count = 0
  /\ due = 1 /\ spoilt = FALSE

EeTurn(t) == on /\ doing = "idle" /\ HasTurn(eeOs, t)
ToCounter(e) == EeTurn("counter") /\ EventOf(eeOs, "counter") = e
EeEnd(t, k) == eeOs' = Returned(k, t, Later)

NextCount(n) == IF n = Top THEN 1 ELSE n + 1

\* INIT reads the cells,
ReadCount ==
  /\ ToCounter(INIT) /\ writing = << >>
  /\ cnt' = NextCount(cell[0] + Base * cell[1])
  /\ doing' = "low"
  /\ UNCHANGED <<eeOs, on, cell, writing, g_boot_count, due, spoilt>>

\* Mutant: eeprom_write does not wait.
MutProgram(a, v) == writing' = <<a, v>>
\* eeprom_write waits for the cell in progress and starts the next one.
Program(a, v) == writing = << >> /\ writing' = <<a, v>>

WriteLow ==
  /\ on /\ doing = "low" /\ Program(0, cnt % Base)
  /\ doing' = "high"
  /\ UNCHANGED <<eeOs, on, cell, cnt, g_boot_count, due, spoilt>>

\* and when the second write has been started, shows the number.
WriteHigh ==
  /\ on /\ doing = "high" /\ Program(1, cnt \div Base)
  /\ doing' = "idle"
  /\ g_boot_count' = cnt /\ due' = Succ(cnt) /\ spoilt' = FALSE
  /\ EeEnd("counter", Taken(eeOs, "counter"))
  /\ UNCHANGED <<on, cell, cnt>>

\* The EEPROM finishes a cell: 3.4 ms later.
CellDone ==
  /\ on /\ writing # << >>
  /\ cell' = [cell EXCEPT ![writing[1]] = writing[2]]
  /\ writing' = << >>
  /\ UNCHANGED <<eeOs, on, doing, cnt, g_boot_count, due, spoilt>>

Heartbeat ==
  /\ ToCounter(TIMER)
  /\ EeEnd("counter", Taken(eeOs, "counter"))
  /\ UNCHANGED <<on, cell, writing, doing, cnt, g_boot_count, due, spoilt>>

\* A line that changes nothing, or WRITE with one of the counter's addresses.
LineCommand ==
  /\ ToCounter(<<"line">>)
  /\ EeEnd("counter", Taken(eeOs, "counter"))
  /\ \/ UNCHANGED <<writing, spoilt>>
     \/ \E a \in 0..1, v \in Byte : Program(a, v) /\ spoilt' = TRUE
  /\ UNCHANGED <<on, cell, doing, cnt, g_boot_count, due>>

\* rx_task: INIT, or as many complete lines as have come in.
RxTurn ==
  /\ EeTurn("rx")
  /\ \E n \in 0..(IF EventOf(eeOs, "rx") = INIT THEN 0 ELSE EepromLines) :
       LET f[i \in 0..n] == IF i = 0 THEN Taken(eeOs, "rx")
                            ELSE Posted(f[i - 1], "counter", <<"line">>, 4)
       IN EeEnd("rx", f[n])
  /\ UNCHANGED <<on, cell, writing, doing, cnt, g_boot_count, due, spoilt>>

EeExpire(t) ==
  /\ on /\ t \in eeOs.armed /\ eeOs' = Expired(eeOs, t)
  /\ UNCHANGED <<on, cell, writing, doing, cnt, g_boot_count, due, spoilt>>

EePass ==
  /\ on /\ doing = "idle" /\ CanPass(eeOs) /\ eeOs' = PassedBy(eeOs)
  /\ UNCHANGED <<on, cell, writing, doing, cnt, g_boot_count, due, spoilt>>

\* What a power failure that leaves the cells as left does to the count.  A boot counts
\* from when its low byte is stored, though it may never show its number.  The number
\* is spoilt by a cell that is neither as before nor as it was to become, and by a
\* failure between the two bytes if the high one was to change.
CountAfter(left) ==
  LET done  == writing = << >> \/ left[writing[1]] = writing[2]
      carry == cnt \div Base # cell[1]
  IN /\ due' = IF doing = "high" /\ done /\ ~carry THEN Succ(due) ELSE due
     /\ spoilt' = (\/ spoilt
                   \/ doing = "idle" /\ ~done
                   \/ doing = "high" /\ (IF done THEN carry ELSE left # cell))

\* Power fails: the cell in progress is left old, erased or new.
PowerLoss ==
  /\ on /\ on' = FALSE
  /\ IF writing = << >> THEN UNCHANGED cell
     ELSE \E v \in {cell[writing[1]], Base - 1, writing[2]} :
            cell' = [cell EXCEPT ![writing[1]] = v]
  /\ CountAfter(cell')
  /\ writing' = << >> /\ doing' = "idle" /\ cnt' = 0 /\ g_boot_count' = 0
  /\ eeOs' = EeBooted
PowerOn == ~on /\ on' = TRUE
           /\ UNCHANGED <<eeOs, cell, writing, doing, cnt, g_boot_count, due, spoilt>>

EeNext == \/ ReadCount \/ WriteLow \/ WriteHigh \/ CellDone \/ Heartbeat \/ LineCommand
          \/ RxTurn \/ EePass \/ PowerLoss \/ PowerOn
          \/ \E t \in {"counter", "rx"} : EeExpire(t)

\* The counter "increments every reset" (README.md:6 of the example): what a boot shows
\* is one more than the boots before it that stored their low byte, from 1 to 65535 and
\* to 1 again, however often power fails, also while the cells are programmed.
\* Excepted is the first boot to get so far after the stored number was spoilt.
BootCountRises ==
  [][(doing = "high" /\ doing' = "idle" /\ on' /\ ~spoilt) => g_boot_count' = due]_eeVars
=============================================================================
