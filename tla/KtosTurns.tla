------------------------------ MODULE KtosTurns ------------------------------
(***************************************************************************)
(* The kernel with a history variable that watches the order of turns:     *)
(* passed[t] is the set of tasks that were given the processor since t     *)
(* became ready and has not run.                                           *)
(***************************************************************************)
EXTENDS Ktos

VARIABLE passed

tvars == <<vars, passed>>

TInit == Init /\ passed = [t \in Task |-> {}]

Waits(t) == t \in Created /\ Ready(t) /\ ~Runs(t)

\* A dispatch is a step from the loop into a task.
Dispatches == pc = "loop" /\ pc' = "task"

Watch ==
  passed' = [t \in Task |->
    IF ~Waits(t)' \/ ~Waits(t) THEN {}
    ELSE IF Dispatches THEN passed[t] \cup {TaskCurrent'}
    ELSE passed[t]]

TNext == Next /\ Watch

TSpec == TInit /\ [][TNext]_tvars

\* Round robin: between the moment a task is ready and its own turn, no other
\* task gets a second turn.
OneTurnEach ==
  [][Dispatches =>
       \A t \in Task \ {TaskCurrent'} : Waits(t) => TaskCurrent' \notin passed[t]]_tvars
=============================================================================
