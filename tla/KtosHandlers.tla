---------------------------- MODULE KtosHandlers ----------------------------
(***************************************************************************)
(* The kernel implements KtosActors when its tasks only return: no         *)
(* ktos_Sleep, no ktos_SendMsg from interrupt handlers, and a HAL that     *)
(* keeps the interrupt flag in the stack frames.                           *)
(***************************************************************************)
EXTENDS Ktos

JobUnderWay ==
  IF pc = "task" THEN <<TaskCurrent, StackPointer[TaskCurrent]>> ELSE NoCall

\* A task has not run yet while its stack holds the frame ktos_InitTask made.
FreshTasks == {t \in Created : StackPointer[t] \in Event /\ ~Runs(t)}

\* The two fields of the block as one alarm.
AlarmOf(countdown, fired) ==
  IF fired THEN 0 ELSE IF countdown # 0 THEN countdown ELSE -1

\* A function that has just returned has set its alarm: the scheduler stores
\* the returned value before anything else can happen.
Alarms ==
  [t \in Task |->
     IF pc = "back" /\ t = TaskCurrent
       THEN IF g_LastTaskReturnValue = Forever THEN -1 ELSE g_LastTaskReturnValue
       ELSE AlarmOf(CountdownTimer[t], ISRTimer[t])]

Mailboxes == [t \in Task |-> Contents(QCapacity[t], MsgQueue[t])]

Actors == INSTANCE KtosActors
  WITH Capacity <- QCapacity,
       Delays   <- ReturnDelays,
       Idle     <- NoCall,
       created  <- Created,
       fresh    <- FreshTasks,
       mailbox  <- Mailboxes,
       alarm    <- Alarms,
       job      <- JobUnderWay

\* The kernel's steps are steps of the actors: INIT comes first and once,
\* messages in order, TIMER only when no message waits and never before the
\* returned number of ticks, one job at a time.  ktos_WakeUp changes nothing.
HandlersAreActors == Actors!Spec
=============================================================================
