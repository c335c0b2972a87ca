-------------------------------- MODULE Ktos --------------------------------
(***************************************************************************)
(* The KTOS kernel (core/ktos.c): task creation, the round-robin scheduler *)
(* loop, the ways a task gives up the processor, the messages, the 1 ms    *)
(* tick and the other interrupt handlers that call the kernel, and the     *)
(* start and exit of the system.                                           *)
(*                                                                         *)
(* There is one processor.  pc says which code owns it; interrupt handlers *)
(* take it for one atomic action, and only while irq, the processor's      *)
(* interrupt-enable flag, is set.  Code that runs with interrupts disabled *)
(* is therefore a single action; where the code may be interrupted, it is  *)
(* cut into the steps between which a handler can run.                     *)
(*                                                                         *)
(* What applications do is a parameter: the delays tasks return or pass to *)
(* ktos_Sleep, the wake-up values, the messages, and from where each call  *)
(* is made.  A body of a task is any finite sequence of those calls.       *)
(***************************************************************************)
EXTENDS MessageRing, FiniteSets

CONSTANTS
  Task,          \* the task control blocks
  NULL,          \* the null pointer
  QCapacity,     \* QCapacity[t]: the QueueSize given to ktos_InitTask
  Message,       \* messages applications send
  Filler,        \* the all-zero message of a calloc-ed slot
  ReturnDelays,  \* what task functions return
  SleepDelays,   \* what tasks pass to ktos_Sleep ({} if none calls it)
  SwitchModes,   \* the TaskAllowSwitch arguments of ktos_Sleep
  WakeValues,    \* the TaskTypeWakeUp arguments of ktos_WakeUp
  IsrMessages,   \* messages interrupt handlers send ({} if none sends)
  IsrExits,      \* may an interrupt handler call ktos_ExitOS?
  TaskExits,     \* may a task call ktos_ExitOS?
  SavesIrq       \* does the HAL keep the interrupt flag in the stack frame?

\* KTOS_MSG_SLEEP_INDEFINITLY, the largest WORD.
Forever == 65535

Word == 0 .. Forever

\* KTOS_MSG_TYPE_INIT and KTOS_MSG_TYPE_TIMER, as the kernel generates them.
INIT  == <<"init">>
TIMER == <<"timer">>

\* What a task function can be called with.
Event == Message \cup {INIT, TIMER}

\* What a saved stack pointer leads to: a frame made by ktos_hal_InitTaskStack
\* that calls the task function with an event, a context switch inside
\* ktos_Sleep, or the context switch of a function that has already returned.
SleepFrame == <<"in ktos_Sleep">>
ExitFrame  == <<"in ktos_DefaultTaskExitHandler">>
Frame      == Event \cup {SleepFrame, ExitFrame}

ASSUME TaskAssumption ==
  /\ NULL \notin Task
  /\ QCapacity \in [Task -> Nat \ {0}]

ASSUME MessageAssumption ==
  /\ {SleepFrame, ExitFrame} \cap Message = {}
  /\ IsrMessages \subseteq Message

ASSUME ApplicationAssumption ==
  /\ ReturnDelays \subseteq Word
  /\ SleepDelays \subseteq Word
  /\ SwitchModes \subseteq BOOLEAN
  /\ WakeValues \subseteq Int
  /\ IsrExits \in BOOLEAN /\ TaskExits \in BOOLEAN

ASSUME HalAssumption == SavesIrq \in BOOLEAN

VARIABLES
  TaskCurrent, AllowTaskSwitch, ktos_exit_requested, g_LastTaskReturnValue,
  TaskNext, MsgQueue, CountdownTimer, ISRTimer, TaskSleeping,
  ScheduleReinit, TaskTypeWakeUp, StackPointer,
  irq,        \* are interrupts enabled?
  timerOn,    \* has ktos_hal_InitSystemTimer been called?
  pc,         \* who owns the processor
  outgoing    \* the ktos_SendMsg call between its test and its enqueue

\* The fields of a task control block, and the statics, in groups.
timers == <<CountdownTimer, ISRTimer>>
sleep  == <<TaskSleeping, TaskTypeWakeUp>>
stacks == <<ScheduleReinit, StackPointer>>
tcb    == <<TaskNext, MsgQueue, timers, sleep, stacks>>
flags  == <<AllowTaskSwitch, ktos_exit_requested, g_LastTaskReturnValue>>

vars == <<TaskCurrent, flags, tcb, irq, timerOn, pc, outgoing>>

-----------------------------------------------------------------------------

\* pc: "main" is the code around ktos_RunOS, "loop" the top of the scheduler's
\* loop, "task" the body of TaskCurrent, "back" the scheduler after a task
\* switched back to it, and "half" the point between its two timer stores.
Owner == {"main", "loop", "task", "back", "half"}

NoCall == <<NULL, NULL>>

TypeOK ==
  /\ TaskCurrent \in Task \cup {NULL}
  /\ AllowTaskSwitch \in BOOLEAN
  /\ ktos_exit_requested \in BOOLEAN
  /\ g_LastTaskReturnValue \in Word
  /\ TaskNext \in [Task -> Task \cup {NULL}]
  /\ DOMAIN MsgQueue = Task
  /\ \A t \in Task : MsgQueue[t] \in RingOf(QCapacity[t], Message \cup {Filler})
  /\ CountdownTimer \in [Task -> Word]
  /\ ISRTimer \in [Task -> BOOLEAN]
  /\ TaskSleeping \in [Task -> BOOLEAN]
  /\ ScheduleReinit \in [Task -> BOOLEAN]
  /\ TaskTypeWakeUp \in [Task -> Int]
  /\ StackPointer \in [Task -> Frame]
  /\ irq \in BOOLEAN
  /\ timerOn \in BOOLEAN
  /\ pc \in Owner
  /\ outgoing \in (Task \X Message) \cup {NoCall}

\* The tasks in the ring.
Created == {t \in Task : TaskNext[t] # NULL}

Num(t) == MsgQueue[t].num

\* Statics are zero-initialised; the interrupt flag after reset depends on
\* the processor.  The fields of a block that was not created yet are whatever.
Init ==
  /\ TaskCurrent = NULL
  /\ AllowTaskSwitch = TRUE
  /\ ktos_exit_requested = FALSE
  /\ g_LastTaskReturnValue = 0
  /\ TaskNext = [t \in Task |-> NULL]
  /\ MsgQueue = [t \in Task |-> EmptyRing(QCapacity[t], Filler)]
  /\ CountdownTimer = [t \in Task |-> 0]
  /\ ISRTimer = [t \in Task |-> FALSE]
  /\ TaskSleeping = [t \in Task |-> FALSE]
  /\ ScheduleReinit = [t \in Task |-> FALSE]
  /\ TaskTypeWakeUp = [t \in Task |-> 0]
  /\ StackPointer = [t \in Task |-> INIT]
  /\ irq \in BOOLEAN
  /\ timerOn = FALSE
  /\ pc = "main"
  /\ outgoing = NoCall

-----------------------------------------------------------------------------
(* main, before and after ktos_RunOS                                        *)

\* Mutant: TaskCurrent is linked to the new block before its successor is read.
MutLinkSwapped(t) ==
  [TaskNext EXCEPT ![t] = t, ![IF TaskCurrent = NULL THEN t ELSE TaskCurrent] = t]

\* The new block goes into the ring behind TaskCurrent, or is the ring.
Link(t) ==
  IF TaskCurrent = NULL
    THEN [TaskNext EXCEPT ![t] = t]
    ELSE [TaskNext EXCEPT ![t] = TaskNext[TaskCurrent], ![TaskCurrent] = t]

\* ktos_InitTask: the block is made ready for its INIT dispatch, enters the ring
\* and becomes TaskCurrent.  Every call comes before the first ktos_RunOS.
InitTask(t) ==
  /\ pc = "main" /\ outgoing = NoCall /\ ~timerOn
  /\ t \notin Created
  /\ ScheduleReinit' = [ScheduleReinit EXCEPT ![t] = FALSE]
  /\ StackPointer' = [StackPointer EXCEPT ![t] = INIT]
  /\ MsgQueue' = [MsgQueue EXCEPT ![t] = EmptyRing(QCapacity[t], Filler)]
  /\ CountdownTimer' = [CountdownTimer EXCEPT ![t] = 0]
  /\ ISRTimer' = [ISRTimer EXCEPT ![t] = TRUE]
  /\ TaskSleeping' = [TaskSleeping EXCEPT ![t] = FALSE]
  /\ TaskNext' = Link(t)
  /\ TaskCurrent' = t
  /\ UNCHANGED <<flags, TaskTypeWakeUp, irq, timerOn, pc, outgoing>>

\* ktos_RunOS: start the tick, forget an earlier request to exit, enter the
\* scheduler.  Without a task it halts in ktos_Emergency instead.
RunOS ==
  /\ pc = "main" /\ outgoing = NoCall
  /\ TaskCurrent # NULL
  /\ timerOn' = TRUE
  /\ ktos_exit_requested' = FALSE
  /\ pc' = "loop"
  /\ UNCHANGED <<TaskCurrent, AllowTaskSwitch, g_LastTaskReturnValue, tcb, irq,
                 outgoing>>

-----------------------------------------------------------------------------
(* Calls made by a task body, or by main                                    *)

CanCall == pc \in {"main", "task"} /\ outgoing = NoCall

\* ktos_SendMsg up to and including its test.  A full queue refuses the message
\* and the call returns without any effect.
SendCheck(t, m) ==
  /\ CanCall
  /\ t \in Created
  /\ ~IsFull(QCapacity[t], MsgQueue[t])
  /\ outgoing' = <<t, m>>
  /\ UNCHANGED <<TaskCurrent, flags, tcb, irq, timerOn, pc>>

Deliver(t, m) ==
  MsgQueue' = [MsgQueue EXCEPT ![t] = Enqueue(QCapacity[t], MsgQueue[t], m)]

\* The rest of ktos_SendMsg, from DisableInterrupts to EnableInterrupts.
SendEnqueue ==
  /\ outgoing # NoCall
  /\ Deliver(outgoing[1], outgoing[2])
  /\ irq' = TRUE
  /\ outgoing' = NoCall
  /\ UNCHANGED <<TaskCurrent, flags, TaskNext, timers, sleep, stacks, timerOn, pc>>

\* Mutant: the test of ISRTimer is missing.
MutWakeable(t) == TaskSleeping[t]

\* Only a task inside ktos_Sleep whose timer has not fired can be woken.
Wakeable(t) == TaskSleeping[t] /\ ~ISRTimer[t]

\* What ktos_WakeUp does to the block.
Wake(t, v) ==
  IF Wakeable(t)
    THEN /\ ISRTimer' = [ISRTimer EXCEPT ![t] = TRUE]
         /\ TaskTypeWakeUp' = [TaskTypeWakeUp EXCEPT ![t] = v]
    ELSE UNCHANGED <<ISRTimer, TaskTypeWakeUp>>

WakeUp(t, v) ==
  /\ CanCall
  /\ t \in Created
  /\ Wake(t, v)
  /\ irq' = TRUE
  /\ UNCHANGED <<TaskCurrent, flags, TaskNext, MsgQueue, CountdownTimer,
                 TaskSleeping, stacks, timerOn, pc, outgoing>>

\* ktos_ExitOS from a task, "just before returning", or from main.
ExitOS ==
  /\ CanCall
  /\ TaskExits
  /\ ktos_exit_requested' = TRUE
  /\ UNCHANGED <<TaskCurrent, AllowTaskSwitch, g_LastTaskReturnValue, tcb, irq,
                 timerOn, pc, outgoing>>

-----------------------------------------------------------------------------
(* Giving the processor back                                                *)

\* ktos_Sleep up to its context switch.  A delay other than 0 leaves ISRTimer
\* as it is.
SleepCall(delay, allow) ==
  /\ pc = "task" /\ outgoing = NoCall
  /\ TaskSleeping' = [TaskSleeping EXCEPT ![TaskCurrent] = TRUE]
  /\ TaskTypeWakeUp' = [TaskTypeWakeUp EXCEPT ![TaskCurrent] = 0]
  /\ ISRTimer' = [ISRTimer EXCEPT ![TaskCurrent] = (delay = 0) \/ @]
  /\ CountdownTimer' = [CountdownTimer EXCEPT
       ![TaskCurrent] = IF delay = Forever THEN 0 ELSE delay]
  /\ AllowTaskSwitch' = allow
  /\ StackPointer' = [StackPointer EXCEPT ![TaskCurrent] = SleepFrame]
  /\ irq' = FALSE
  /\ pc' = "back"
  /\ UNCHANGED <<TaskCurrent, ktos_exit_requested, g_LastTaskReturnValue,
                 TaskNext, MsgQueue, ScheduleReinit, timerOn, outgoing>>

\* Mutant: the exit handler does not mark the task.
MutMarkMissing == ScheduleReinit

\* The exit handler marks the task for re-initialisation.
MarkReturned == [ScheduleReinit EXCEPT ![TaskCurrent] = TRUE]

\* The interrupt flag after a switch to the scheduler's context, which the
\* scheduler left with interrupts disabled: a HAL that saves the flag restores
\* it, another one leaves the flag as the task has it.
SchedulerFlag == ~SavesIrq /\ irq

\* The task function returns delay into ktos_DefaultTaskExitHandler.
TaskReturn(delay) ==
  /\ pc = "task" /\ outgoing = NoCall
  /\ g_LastTaskReturnValue' = delay
  /\ ScheduleReinit' = MarkReturned
  /\ StackPointer' = [StackPointer EXCEPT ![TaskCurrent] = ExitFrame]
  /\ irq' = SchedulerFlag
  /\ pc' = "back"
  /\ UNCHANGED <<TaskCurrent, AllowTaskSwitch, ktos_exit_requested, TaskNext,
                 MsgQueue, timers, sleep, timerOn, outgoing>>

-----------------------------------------------------------------------------
(* ktos_SwitchTask: one pass of its loop, from DisableInterrupts on         *)

\* "if (ktos_exit_requested) { EnableInterrupts; return; }"
LeaveRunOS ==
  /\ pc = "loop"
  /\ ktos_exit_requested
  /\ irq' = TRUE
  /\ pc' = "main"
  /\ UNCHANGED <<TaskCurrent, flags, tcb, timerOn, outgoing>>

\* Mutant: the ring is advanced whether or not switching is allowed.
MutCandidateAlways == TaskNext[TaskCurrent]

\* Mutant: a task that is ready again keeps the processor.
MutCandidateSticky ==
  IF AllowTaskSwitch /\ ~ISRTimer[TaskCurrent]
    THEN TaskNext[TaskCurrent] ELSE TaskCurrent

\* The task this pass looks at.
Candidate == IF AllowTaskSwitch THEN TaskNext[TaskCurrent] ELSE TaskCurrent

\* A sleeping task whose ISRTimer is set stops sleeping, and loses ISRTimer.
Expired(t) == TaskSleeping[t] /\ ISRTimer[t]

\* Mutant: messages do not make a task ready.
MutReadyTimerOnly(t) == ~TaskSleeping[t] /\ ISRTimer[t]

\* The condition for entering the task, after the above.
Ready(t) ==
  /\ TaskSleeping[t] => Expired(t)
  /\ Num(t) # 0 \/ (ISRTimer[t] /\ ~Expired(t))

\* Mutant: the rest of the countdown is kept.
MutCountdownKept(t) == CountdownTimer

StopCountdown(t) == [CountdownTimer EXCEPT ![t] = 0]

\* The pass makes the candidate current and, if it has expired, awake.
Visit(t) ==
  /\ pc = "loop" /\ ~ktos_exit_requested
  /\ TaskCurrent' = t
  /\ IF Expired(t)
       THEN /\ CountdownTimer' = StopCountdown(t)
            /\ ISRTimer' = [ISRTimer EXCEPT ![t] = FALSE]
            /\ TaskSleeping' = [TaskSleeping EXCEPT ![t] = FALSE]
       ELSE UNCHANGED <<timers, TaskSleeping>>

\* The pass finds the task not ready and goes round.
PassBy ==
  /\ Visit(Candidate)
  /\ ~Ready(Candidate)
  /\ irq' = TRUE
  /\ UNCHANGED <<flags, TaskNext, MsgQueue, TaskTypeWakeUp, stacks, timerOn, pc,
                 outgoing>>

\* The pass finds the task ready and switches to its stack.
Select(t) ==
  /\ Visit(t)
  /\ Ready(t)
  /\ pc' = "task"
  /\ UNCHANGED <<ktos_exit_requested, g_LastTaskReturnValue, TaskNext,
                 TaskTypeWakeUp, timerOn, outgoing>>

\* A frame made by ktos_hal_InitTaskStack is entered with interrupts enabled by
\* a HAL whose frames hold the flag, and disabled, as the scheduler has them,
\* by another one.
EntryFlag == SavesIrq

\* Mutant: an empty queue is not noticed.
MutHasMail(t) == TRUE

HasMail(t) == Num(t) # 0

\* Handler model: the function has returned, so it is called afresh, with the
\* oldest message if there is one and with TIMER otherwise.
DispatchHandler ==
  LET t == Candidate IN
  /\ Select(t)
  /\ ScheduleReinit[t]
  /\ IF HasMail(t)
       THEN /\ StackPointer' = [StackPointer EXCEPT ![t] = Oldest(MsgQueue[t])]
            /\ MsgQueue' = [MsgQueue EXCEPT
                 ![t] = Dequeue(QCapacity[t], MsgQueue[t])]
       ELSE /\ StackPointer' = [StackPointer EXCEPT ![t] = TIMER]
            /\ UNCHANGED MsgQueue
  /\ ScheduleReinit' = [ScheduleReinit EXCEPT ![t] = FALSE]
  /\ irq' = EntryFlag
  /\ UNCHANGED AllowTaskSwitch

\* First run: the frame ktos_InitTask made, which calls the function with INIT.
DispatchFirst ==
  /\ Select(Candidate)
  /\ ~ScheduleReinit[Candidate]
  /\ StackPointer[Candidate] # SleepFrame
  /\ irq' = EntryFlag
  /\ UNCHANGED <<AllowTaskSwitch, MsgQueue, stacks>>

\* Coroutine model: the task goes on after the context switch in ktos_Sleep,
\* which returns TaskTypeWakeUp.  No message is taken from the queue.
ResumeSleeper ==
  /\ Select(Candidate)
  /\ ~ScheduleReinit[Candidate]
  /\ StackPointer[Candidate] = SleepFrame
  /\ AllowTaskSwitch' = TRUE
  /\ irq' = TRUE
  /\ UNCHANGED <<MsgQueue, stacks>>

\* After the task has switched back, g_LastTaskReturnValue sets its timer with
\* two stores.  With interrupts disabled they are one step; otherwise a handler
\* may run between them.
StoreCountdown(delay) ==
  CountdownTimer' = [CountdownTimer EXCEPT
    ![TaskCurrent] = IF delay = Forever THEN 0 ELSE delay]

\* Mutant: a timer event that came in while the task ran is not cleared.
MutStoreISRTimerKeeps(delay) ==
  ISRTimer' = [ISRTimer EXCEPT ![TaskCurrent] = @ \/ (delay = 0)]

StoreISRTimer(delay) ==
  ISRTimer' = [ISRTimer EXCEPT ![TaskCurrent] = (delay = 0)]

SetTimer ==
  /\ pc = "back" /\ ~irq
  /\ StoreCountdown(g_LastTaskReturnValue)
  /\ StoreISRTimer(g_LastTaskReturnValue)
  /\ irq' = TRUE
  /\ pc' = "loop"
  /\ UNCHANGED <<TaskCurrent, flags, TaskNext, MsgQueue, sleep, stacks, timerOn,
                 outgoing>>

\* A delay of 0 stores ISRTimer first, the other delays CountdownTimer.
SetTimerFirst ==
  /\ pc = "back" /\ irq
  /\ IF g_LastTaskReturnValue = 0
       THEN StoreISRTimer(0) /\ UNCHANGED CountdownTimer
       ELSE StoreCountdown(g_LastTaskReturnValue) /\ UNCHANGED ISRTimer
  /\ pc' = "half"
  /\ UNCHANGED <<TaskCurrent, flags, TaskNext, MsgQueue, sleep, stacks, irq,
                 timerOn, outgoing>>

SetTimerSecond ==
  /\ pc = "half"
  /\ IF g_LastTaskReturnValue = 0
       THEN StoreCountdown(0) /\ UNCHANGED ISRTimer
       ELSE StoreISRTimer(g_LastTaskReturnValue) /\ UNCHANGED CountdownTimer
  /\ irq' = TRUE
  /\ pc' = "loop"
  /\ UNCHANGED <<TaskCurrent, flags, TaskNext, MsgQueue, sleep, stacks, timerOn,
                 outgoing>>

-----------------------------------------------------------------------------
(* Interrupt handlers: each runs whole, between two steps of the owner.     *)

\* The tasks that lie on the ring as it is walked from TaskCurrent.
Reached ==
  {t \in Task : \A S \in SUBSET Task :
     TaskCurrent \in S /\ (\A u \in S : TaskNext[u] \in S) => t \in S}

\* Mutant: a loop that stops at TaskCurrent before visiting it.
MutWalked == Reached \ {TaskCurrent}

\* The tasks the tick handler's loop visits, each once.
Walked == Reached

\* ktos_timer_irq_handler
Tick ==
  /\ irq /\ timerOn
  /\ CountdownTimer' = [t \in Task |->
       IF t \in Walked /\ CountdownTimer[t] # 0
         THEN CountdownTimer[t] - 1 ELSE CountdownTimer[t]]
  /\ ISRTimer' = [t \in Task |->
       ISRTimer[t] \/ (t \in Walked /\ CountdownTimer[t] = 1)]
  /\ UNCHANGED <<TaskCurrent, flags, TaskNext, MsgQueue, sleep, stacks, irq,
                 timerOn, pc, outgoing>>

\* A handler calls ktos_SendMsg and finds room.
IsrSend(t, m) ==
  /\ irq
  /\ t \in Created
  /\ ~IsFull(QCapacity[t], MsgQueue[t])
  /\ Deliver(t, m)
  /\ UNCHANGED <<TaskCurrent, flags, TaskNext, timers, sleep, stacks, irq,
                 timerOn, pc, outgoing>>

\* A handler calls ktos_WakeUp.
IsrWakeUp(t, v) ==
  /\ irq
  /\ t \in Created
  /\ Wake(t, v)
  /\ UNCHANGED <<TaskCurrent, flags, TaskNext, MsgQueue, CountdownTimer,
                 TaskSleeping, stacks, irq, timerOn, pc, outgoing>>

\* A handler calls ktos_ExitOS.
IsrExitOS ==
  /\ irq
  /\ IsrExits
  /\ ktos_exit_requested' = TRUE
  /\ UNCHANGED <<TaskCurrent, AllowTaskSwitch, g_LastTaskReturnValue, tcb, irq,
                 timerOn, pc, outgoing>>

-----------------------------------------------------------------------------

Boot == RunOS \/ \E t \in Task : InitTask(t)

Call ==
  \/ \E t \in Task, m \in Message : SendCheck(t, m)
  \/ SendEnqueue
  \/ \E t \in Task, v \in WakeValues : WakeUp(t, v)
  \/ ExitOS

Yield ==
  \/ \E d \in ReturnDelays : TaskReturn(d)
  \/ \E d \in SleepDelays, allow \in SwitchModes : SleepCall(d, allow)

Scheduler ==
  \/ LeaveRunOS \/ PassBy
  \/ DispatchHandler \/ DispatchFirst \/ ResumeSleeper
  \/ SetTimer \/ SetTimerFirst \/ SetTimerSecond

Interrupt ==
  \/ Tick
  \/ \E t \in Task, m \in IsrMessages : IsrSend(t, m)
  \/ \E t \in Task, v \in WakeValues : IsrWakeUp(t, v)
  \/ IsrExitOS

Next == Boot \/ Call \/ Yield \/ Scheduler \/ Interrupt

Spec == Init /\ [][Next]_vars

\* What runs without being asked: main reaches ktos_RunOS, a call that was
\* begun is finished, the scheduler's loop turns, and the timer hardware keeps
\* raising the tick, which is taken as soon as interrupts are enabled (strong
\* fairness: the request stays latched while they are disabled).  A cooperative
\* task makes finitely many calls and then returns or sleeps; since it may be
\* inside a call each time one looks, that too is strong fairness.
Fairness ==
  /\ WF_vars(RunOS)
  /\ WF_vars(SendEnqueue)
  /\ WF_vars(Scheduler)
  /\ SF_vars(Tick)
  /\ SF_vars(Yield)

FairSpec == Spec /\ Fairness

-----------------------------------------------------------------------------
(* Safety                                                                   *)

\* ktos_InitTask links the blocks into one ring: the successor of a task is a
\* task, and a set of tasks that is closed under "next" is the whole ring.  The
\* scheduler's TaskNext and the tick handler's do-while loop rely on it to reach
\* every task, wherever they start.
RingIsOneCycle ==
  /\ \A t \in Created : TaskNext[t] \in Created
  /\ \A S \in SUBSET Created :
       S # {} /\ (\A t \in S : TaskNext[t] \in S) => S = Created

Runs(t) == pc = "task" /\ TaskCurrent = t

\* A stack whose function has returned is never entered again: such a task is
\* always marked for re-initialisation, and only such a task is, so a sleeper's
\* or a fresh stack is never thrown away.
ReinitIffReturned ==
  \A t \in Task : ScheduleReinit[t] <=> StackPointer[t] = ExitFrame

\* While switching is off the current task is the sleeper that turned it off,
\* and nobody runs.
HaltedBySleeper ==
  ~AllowTaskSwitch =>
    /\ pc # "task"
    /\ TaskCurrent # NULL
    /\ StackPointer[TaskCurrent] = SleepFrame

\* HALT_TASK_SWITCH "freezes" the scheduler: as long as switching is off no
\* other task becomes current, and only the sleeper's own resumption turns
\* switching on again.
HaltFreezesOthers ==
  [][~AllowTaskSwitch =>
       TaskCurrent' = TaskCurrent /\ (AllowTaskSwitch' => pc' = "task")]_vars

\* ktos_Sleep goes on only for a task that has a message in its queue: neither
\* the end of its delay nor ktos_WakeUp alone gets a sleeper dispatched, because
\* the pass that notices them clears ISRTimer before testing it.
ResumptionNeedsMail == [][ResumeSleeper => Num(TaskCurrent') # 0]_vars

\* Is it settled why t will leave ktos_Sleep: has its delay, a timer event left
\* over from before or a ktos_WakeUp ended it, and t has not gone on yet?
Ended(t) ==
  /\ StackPointer[t] = SleepFrame /\ ~Runs(t)
  /\ ~(pc = "back" /\ TaskCurrent = t)
  /\ ~TaskSleeping[t] \/ ISRTimer[t]

\* ktos_Sleep returns the value of the ktos_WakeUp "that woke this task, or 0 if
\* woken by the timer" (ktos.h:304-305).  Of a tick and several ktos_WakeUp calls
\* that race for a sleeper, the first settles it: neither the others nor the
\* scheduler's visits change the value or undo the end of the sleep before the
\* task goes on, and a value is set only by what ends the sleep.
FirstEventWins ==
  [][\A t \in Task :
       /\ Ended(t) => /\ TaskTypeWakeUp'[t] = TaskTypeWakeUp[t]
                      /\ Ended(t)' \/ Runs(t)'
       /\ TaskTypeWakeUp'[t] # TaskTypeWakeUp[t] /\ TaskTypeWakeUp'[t] # 0
            => ~Ended(t) /\ Ended(t)']_vars

\* Between its test and its enqueue a ktos_SendMsg call still has the room it
\* saw.
PendingHasRoom ==
  outgoing # NoCall => Num(outgoing[1]) < QCapacity[outgoing[1]]

\* Every queue's counter fits its array and agrees with its two pointers.
QueuesConsistent ==
  \A t \in Task : RingConsistent(QCapacity[t], MsgQueue[t])

\* Every queue is a bounded FIFO of its own: sends to one task, dispatches of
\* another and re-initialisations do not lose, duplicate or reorder messages.
Mailbox(t) == INSTANCE BoundedFifo
                WITH Capacity <- QCapacity[t],
                     fifo <- Contents(QCapacity[t], MsgQueue[t])

MailboxesAreFifo ==
  /\ \A t \in Task : Mailbox(t)!Init
  /\ [][\A t \in Task : [Mailbox(t)!Next]_(Contents(QCapacity[t], MsgQueue[t]))]_vars

-----------------------------------------------------------------------------
(* Liveness, for systems whose tasks only return (handler model)            *)

\* A message accepted for a task is eventually given to its function, however
\* busy the other tasks are.
MailDelivered ==
  \A t \in Task : Num(t) # 0 ~> Runs(t) /\ StackPointer[t] \in Message

\* A task that returned a delay is called again: "delivered when the task's
\* sleep timer expires".
TimerFires ==
  \A t \in Task :
    (/\ pc = "back" /\ TaskCurrent = t /\ StackPointer[t] = ExitFrame
     /\ g_LastTaskReturnValue # Forever) ~> Runs(t)
=============================================================================
