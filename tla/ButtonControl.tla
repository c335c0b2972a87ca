--------------------------- MODULE ButtonControl ---------------------------
(***************************************************************************)
(* The button example (Arduino Nano): button_task samples the input every  *)
(* 5 ms, debounces it and posts confirmed edges; ui_task prints them.      *)
(***************************************************************************)
EXTENDS HandlerTasks

CONSTANT Needed   \* DEBOUNCE_MS / POLL_PERIOD_MS: 6
ASSUME NeededAssumption == Needed \in Nat \ {0}

VARIABLES
  buOs,             \* the kernel
  raw_high,         \* the input line
  g_stable_pressed, g_last_raw_high, g_debounce_count,
  printed,          \* history: what ui_task printed last, at first the state at INIT
  same              \* history: length of the current row of equal samples
buVars == <<buOs, raw_high, g_stable_pressed, g_last_raw_high, g_debounce_count, printed, same>>
sampler == <<g_stable_pressed, g_last_raw_high, g_debounce_count>>

BuInit ==
  /\ buOs = Booted(<<"ui", "button">>)
  /\ raw_high \in BOOLEAN
  /\ g_stable_pressed = FALSE /\ g_last_raw_high = TRUE /\ g_debounce_count = 0
  /\ printed = FALSE /\ same = 0

\* The line bounces as it likes.
Bounce == raw_high' = ~raw_high /\ UNCHANGED <<buOs, sampler, printed, same>>

ButtonInit ==
  /\ HasTurn(buOs, "button") /\ EventOf(buOs, "button") = INIT
  /\ g_last_raw_high' = raw_high /\ g_stable_pressed' = ~raw_high /\ g_debounce_count' = 0
  /\ buOs' = Returned(Taken(buOs, "button"), "button", Later)
  /\ printed' = ~raw_high /\ same' = 1
  /\ UNCHANGED raw_high

SampleTurn == HasTurn(buOs, "button") /\ EventOf(buOs, "button") # INIT
\* Mutant: the counter stops one short of the window.
MutCount(n) == IF n < Needed - 1 THEN n + 1 ELSE n
Count(n) == IF n < Needed THEN n + 1 ELSE n

\* Mutant: a changed sample does not restart the window.
MutSampleChanged ==
  /\ SampleTurn /\ raw_high # g_last_raw_high
  /\ g_last_raw_high' = raw_high
  /\ buOs' = Returned(Taken(buOs, "button"), "button", Later)
  /\ same' = 1
  /\ UNCHANGED <<raw_high, g_stable_pressed, g_debounce_count, printed>>
SampleChanged ==
  /\ SampleTurn /\ raw_high # g_last_raw_high
  /\ g_last_raw_high' = raw_high /\ g_debounce_count' = 0
  /\ buOs' = Returned(Taken(buOs, "button"), "button", Later)
  /\ same' = 1
  /\ UNCHANGED <<raw_high, g_stable_pressed, printed>>

\* The sample that completes a window of equal ones may be an edge.
Edge == /\ g_debounce_count < Needed /\ Count(g_debounce_count) = Needed
        /\ (~raw_high) # g_stable_pressed
\* Mutant: the message carries the level before the edge.
MutSampleEqual ==
  /\ SampleTurn /\ raw_high = g_last_raw_high
  /\ g_debounce_count' = Count(g_debounce_count)
  /\ g_stable_pressed' = IF Edge THEN ~raw_high ELSE g_stable_pressed
  /\ LET k == Taken(buOs, "button") IN
     buOs' = Returned(IF Edge THEN Posted(k, "ui", <<"button", g_stable_pressed>>, 4) ELSE k,
                      "button", Later)
  /\ same' = IF same <= Needed THEN same + 1 ELSE same
  /\ UNCHANGED <<raw_high, g_last_raw_high, printed>>
SampleEqual ==
  /\ SampleTurn /\ raw_high = g_last_raw_high
  /\ g_debounce_count' = Count(g_debounce_count)
  /\ g_stable_pressed' = IF Edge THEN ~raw_high ELSE g_stable_pressed
  /\ LET k == Taken(buOs, "button") IN
     buOs' = Returned(IF Edge THEN Posted(k, "ui", <<"button", ~raw_high>>, 4) ELSE k,
                      "button", Later)
  /\ same' = IF same <= Needed THEN same + 1 ELSE same
  /\ UNCHANGED <<raw_high, g_last_raw_high, printed>>

UiTurn ==
  /\ HasTurn(buOs, "ui")
  /\ buOs' = Returned(Taken(buOs, "ui"), "ui", Forever)
  /\ printed' = IF EventOf(buOs, "ui")[1] = "button" THEN EventOf(buOs, "ui")[2] ELSE printed
  /\ UNCHANGED <<raw_high, sampler, same>>

BuExpire == /\ "button" \in buOs.armed /\ buOs' = Expired(buOs, "button")
            /\ UNCHANGED <<raw_high, sampler, printed, same>>

BuPass == /\ CanPass(buOs) /\ buOs' = PassedBy(buOs)
          /\ UNCHANGED <<raw_high, sampler, printed, same>>

\* What runs on by itself: the turns that are due, and the tick.
BuSystem == ButtonInit \/ SampleChanged \/ SampleEqual \/ UiTurn \/ BuExpire
BuNext == BuSystem \/ BuPass \/ Bounce

\* ui_task never lags by more than one edge and misses none, although nobody looks at
\* the result of ktos_SendMsg: what it printed last, or is about to print, is the
\* debounced state.
UiSeesEveryEdge ==
  "button" \in buOs.fresh \/
  LET mail == buOs.mail["ui"] IN
  IF mail = << >> THEN printed = g_stable_pressed
  ELSE mail = <<<<"button", g_stable_pressed>>>> /\ printed = ~g_stable_pressed

\* An edge is printed only when a whole window of samples agreed.
EdgesAreDebounced ==
  [][g_stable_pressed' # g_stable_pressed =>
       "button" \in buOs.fresh \/ same >= Needed]_buVars

\* When the line stays at one level, that level is printed in the end.
LevelReported ==
  \A level \in BOOLEAN : <>[](raw_high = level) => <>[](printed = ~level)
=============================================================================
