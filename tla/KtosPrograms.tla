---------------------------- MODULE KtosPrograms ----------------------------
(***************************************************************************)
(* The kernel implements HandlerMachine, so that what is shown of a        *)
(* program over HandlerTasks holds of the program on Ktos.  order is a     *)
(* history variable, the tasks in the order of their ktos_InitTask calls.  *)
(***************************************************************************)
EXTENDS KtosHandlers

VARIABLE order

pvars == <<vars, order>>

PInit == Init /\ order = << >>

\* A task that enters the ring is the last in the order.
Note == order' = IF Created' = Created THEN order ELSE Append(order, TaskCurrent')

PNext == Next /\ Note

PSpec == PInit /\ [][PNext]_pvars

Armed == {t \in Created : Alarms[t] > 0}
Due   == {t \in Created : Alarms[t] = 0}
Mail  == [t \in Created |-> Mailboxes[t]]

\* The kernel's state as the record of HandlerTasks.
View == [ring |-> order, last |-> TaskCurrent, fresh |-> FreshTasks, armed |-> Armed,
         due |-> Due, mail |-> Mail]

Programs == INSTANCE HandlerMachine
  WITH Capacity <- QCapacity, Nobody <- NULL, Idle <- NoCall,
       k <- View, job <- JobUnderWay, started <- timerOn

\* The kernel's turns are those of HandlerTasks: the loop visits the tasks in the order
\* of their creation, from wherever it is when one becomes ready, and gives the first
\* ready one the event HandlerTasks says.
ProgramsSeeHandlers == Programs!Spec
=============================================================================
