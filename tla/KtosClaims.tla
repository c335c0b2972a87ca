----------------------------- MODULE KtosClaims -----------------------------
(***************************************************************************)
(* What the comments of core/ktos.h say of the kernel and its code does    *)
(* not do, in the smallest system that refutes it.                         *)
(***************************************************************************)
EXTENDS KtosHandlers

\* ktos_Sleep: "Execution resumes here after 200 ms".  (ktos_SwitchTask clears
\* the ISRTimer of an expired sleeper before it tests ISRTimer, so a sleeper
\* without a queued message is made awake and then never entered.)
SleepEnds ==
  \A t \in Task : pc = "loop" /\ TaskSleeping[t] ~> Runs(t)

\* TaskTypeWakeUp: "Value passed by the most recent ktos_WakeUp() call".  (The
\* first call wins: another one, for a task that is woken and still asleep, does
\* nothing.)
LatestWakeWins ==
  [][\A t \in Task, v \in WakeValues :
       TaskSleeping[t] /\ TaskTypeWakeUp[t] # 0 /\ WakeUp(t, v) => TaskTypeWakeUp'[t] = v]_vars
=============================================================================
