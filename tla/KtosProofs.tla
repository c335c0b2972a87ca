----------------------------- MODULE KtosProofs -----------------------------
(***************************************************************************)
(* Theorems about the kernel, for every set of tasks, queue sizes,         *)
(* messages and applications.                                              *)
(***************************************************************************)
EXTENDS KtosTurns, MessageRingProofs

\* The constants as the proofs use them.
LEMMA ConstantFacts ==
  /\ NULL \notin Task
  /\ \A t \in Task : QCapacity[t] \in Nat \ {0}
  /\ ReturnDelays \subseteq Word /\ SleepDelays \subseteq Word
  /\ SwitchModes \subseteq BOOLEAN /\ WakeValues \subseteq Int
  /\ IsrMessages \subseteq Message /\ SavesIrq \in BOOLEAN
  /\ Message \subseteq Frame /\ {INIT, TIMER, SleepFrame, ExitFrame} \subseteq Frame
BY TaskAssumption, MessageAssumption, ApplicationAssumption, HalAssumption
   DEF Frame, Event

\* 16-bit arithmetic as the timers use it.
LEMMA WordFacts ==
  /\ 0 \in Word /\ 0 # Forever
  /\ \A d \in Word : d # 0 => d - 1 \in Word
  /\ \A d \in Word : (IF d = Forever THEN 0 ELSE d) \in Word
<1>1. Forever \in Nat \ {0}
  BY DEF Forever
<1>2. 0 \in Word /\ 0 # Forever
  BY <1>1 DEF Word
<1>3. \A d \in Word : d # 0 => d - 1 \in Word
  BY <1>1 DEF Word
<1> QED BY <1>2, <1>3

\* What keeps TypeOK inductive.  TaskCurrent is in the ring from the first
\* ktos_InitTask on, and following TaskNext stays there, so the scheduler never
\* follows a null pointer; a call under way is to a created task; and no queue
\* gives out a slot that was never written, so a task is entered with an event.
Shape ==
  /\ TaskCurrent = NULL => Created = {} /\ pc = "main"
  /\ TaskCurrent # NULL => TaskCurrent \in Created
  /\ \A t \in Created : TaskNext[t] \in Created
  /\ outgoing # NoCall =>
       /\ outgoing \in Task \X Message
       /\ outgoing[1] \in Created
       /\ pc \in {"main", "task"}
  /\ \A t \in Task : Written(QCapacity[t], MsgQueue[t], Message)

\* The owner of the processor other than main has a current task.
LEMMA CurrentInRing ==
  ASSUME TypeOK, Shape, pc # "main"
  PROVE  TaskCurrent \in Task /\ TaskCurrent \in Created
BY DEF TypeOK, Shape

\* The scheduler's candidate is a task of the ring.
LEMMA CandidateInRing ==
  ASSUME TypeOK, Shape, pc # "main"
  PROVE  Candidate \in Task /\ Candidate \in Created
BY CurrentInRing DEF TypeOK, Shape, Candidate, Created

LEMMA InitShape == Init => TypeOK /\ Shape
<1> SUFFICES ASSUME Init PROVE TypeOK /\ Shape
  OBVIOUS
<1> USE ConstantFacts
<1>1. \A t \in Task :
        /\ MsgQueue[t] \in RingOf(QCapacity[t], Message \cup {Filler})
        /\ Written(QCapacity[t], MsgQueue[t], Message)
  <2> TAKE t \in Task
  <2>1. MsgQueue[t] = EmptyRing(QCapacity[t], Filler)
    BY DEF Init
  <2>2. MsgQueue[t] \in RingOf(QCapacity[t], Message \cup {Filler})
    BY <2>1, EmptyRingHolds
  <2>3. Written(QCapacity[t], MsgQueue[t], Message)
    BY <2>1 DEF EmptyRing, Written
  <2> QED BY <2>2, <2>3
<1>2. TypeOK
  <2>1. DOMAIN MsgQueue = Task
    BY DEF Init
  <2>2. 0 \in Word /\ INIT \in Frame
    BY DEF Word, Forever
  <2>3. /\ outgoing \in (Task \X Message) \cup {NoCall}
        /\ pc \in Owner
    BY DEF Init, Owner
  <2>4. /\ CountdownTimer \in [Task -> Word] /\ StackPointer \in [Task -> Frame]
        /\ g_LastTaskReturnValue \in Word
    BY <2>2 DEF Init
  <2>5. /\ ISRTimer \in [Task -> BOOLEAN] /\ TaskSleeping \in [Task -> BOOLEAN]
        /\ ScheduleReinit \in [Task -> BOOLEAN] /\ TaskTypeWakeUp \in [Task -> Int]
        /\ TaskNext \in [Task -> Task \cup {NULL}]
    BY DEF Init
  <2>6. /\ AllowTaskSwitch \in BOOLEAN /\ ktos_exit_requested \in BOOLEAN
        /\ irq \in BOOLEAN /\ timerOn \in BOOLEAN /\ TaskCurrent \in Task \cup {NULL}
    BY DEF Init
  <2> QED BY <1>1, <2>1, <2>3, <2>4, <2>5, <2>6 DEF TypeOK
<1>3. Shape
  BY <1>1 DEF Init, Shape, Created, NoCall
<1> QED BY <1>2, <1>3

\* Every queue is well formed, and its filler slots are never given out.
QueuesTyped ==
  /\ DOMAIN MsgQueue = Task
  /\ \A t \in Task :
       /\ MsgQueue[t] \in RingOf(QCapacity[t], Message \cup {Filler})
       /\ Written(QCapacity[t], MsgQueue[t], Message)

\* Replacing one queue by a well-formed one keeps all of them so.
LEMMA OneQueueChanges ==
  ASSUME QueuesTyped, NEW t \in Task, NEW r,
         r \in RingOf(QCapacity[t], Message \cup {Filler}),
         Written(QCapacity[t], r, Message),
         MsgQueue' = [MsgQueue EXCEPT ![t] = r]
  PROVE  QueuesTyped'
BY DEF QueuesTyped

LEMMA DeliverTyped ==
  ASSUME QueuesTyped, NEW t \in Task, NEW m \in Message, Deliver(t, m)
  PROVE  QueuesTyped'
<1>1. MsgQueue[t] \in RingOf(QCapacity[t], Message \cup {Filler})
  BY DEF QueuesTyped
<1>2. Enqueue(QCapacity[t], MsgQueue[t], m) \in RingOf(QCapacity[t], Message \cup {Filler})
  BY <1>1, ConstantFacts, RingTypes
<1>3. Written(QCapacity[t], Enqueue(QCapacity[t], MsgQueue[t], m), Message)
  BY <1>1, ConstantFacts, WrittenHolds DEF QueuesTyped
<1> QED BY <1>2, <1>3, OneQueueChanges DEF Deliver

LEMMA DequeueTyped ==
  ASSUME QueuesTyped, NEW t \in Task, HasMail(t)
  PROVE  /\ Oldest(MsgQueue[t]) \in Message
         /\ MsgQueue' = [MsgQueue EXCEPT ![t] = Dequeue(QCapacity[t], MsgQueue[t])]
              => QueuesTyped'
<1> DEFINE d == Dequeue(QCapacity[t], MsgQueue[t])
<1>1. MsgQueue[t] \in RingOf(QCapacity[t], Message \cup {Filler}) /\ MsgQueue[t].num # 0
  BY DEF QueuesTyped, HasMail, Num
<1>2. CASE Message = {}
  <2>1. FALSE
    BY <1>1, <1>2, ConstantFacts DEF QueuesTyped, Written, RingOf
  <2> QED BY <2>1
<1>3. CASE Message # {}
  <2>1. PICK m \in Message : TRUE
    BY <1>3
  <2>2. Oldest(MsgQueue[t]) \in Message /\ Written(QCapacity[t], d, Message)
    BY <1>1, <2>1, ConstantFacts, WrittenHolds DEF QueuesTyped
  <2>3. d \in RingOf(QCapacity[t], Message \cup {Filler})
    BY <1>1, <2>1, ConstantFacts, RingTypes
  <2> QED BY <2>2, <2>3, OneQueueChanges
<1> QED BY <1>2, <1>3

\* A queue that ktos_InitTask has made.
LEMMA FreshTyped ==
  ASSUME QueuesTyped, NEW t \in Task,
         MsgQueue' = [MsgQueue EXCEPT ![t] = EmptyRing(QCapacity[t], Filler)]
  PROVE  QueuesTyped'
<1>1. EmptyRing(QCapacity[t], Filler) \in RingOf(QCapacity[t], Message \cup {Filler})
  BY ConstantFacts, EmptyRingHolds
<1>2. Written(QCapacity[t], EmptyRing(QCapacity[t], Filler), Message)
  BY DEF EmptyRing, Written
<1> QED BY <1>1, <1>2, OneQueueChanges

-----------------------------------------------------------------------------

\* TypeOK and Shape, cut by what the actions change together: the owner and
\* the statics, the blocks, the queues and the ring.
StaticsTyped ==
  /\ TaskCurrent \in Task \cup {NULL}
  /\ AllowTaskSwitch \in BOOLEAN /\ ktos_exit_requested \in BOOLEAN
  /\ g_LastTaskReturnValue \in Word
  /\ irq \in BOOLEAN /\ timerOn \in BOOLEAN
  /\ pc \in Owner

BlocksTyped ==
  /\ CountdownTimer \in [Task -> Word] /\ ISRTimer \in [Task -> BOOLEAN]
  /\ TaskSleeping \in [Task -> BOOLEAN] /\ TaskTypeWakeUp \in [Task -> Int]
  /\ ScheduleReinit \in [Task -> BOOLEAN] /\ StackPointer \in [Task -> Frame]

CallTyped ==
  outgoing # NoCall =>
    outgoing \in Task \X Message /\ outgoing[1] \in Created /\ pc \in {"main", "task"}

RingTyped ==
  /\ TaskNext \in [Task -> Task \cup {NULL}]
  /\ TaskCurrent = NULL => Created = {} /\ pc = "main"
  /\ TaskCurrent # NULL => TaskCurrent \in Created
  /\ \A t \in Created : TaskNext[t] \in Created

LEMMA Parts ==
  TypeOK /\ Shape <=> StaticsTyped /\ BlocksTyped /\ CallTyped /\ QueuesTyped /\ RingTyped
BY DEF TypeOK, Shape, StaticsTyped, BlocksTyped, CallTyped, QueuesTyped, RingTyped

\* The statics and the owner keep their types.
LEMMA StaticsStep ==
  ASSUME TypeOK, Shape, [Next]_vars
  PROVE  StaticsTyped'
<1> USE ConstantFacts DEF StaticsTyped, Owner
<1>1. StaticsTyped
  BY Parts
<1>2. CASE Boot
  BY <1>1, <1>2 DEF Boot, RunOS, InitTask, flags
<1>3. CASE Call
  BY <1>1, <1>3 DEF Call, SendCheck, SendEnqueue, WakeUp, ExitOS, flags
<1>4. CASE Yield
  BY <1>1, <1>4 DEF Yield, TaskReturn, SleepCall, SchedulerFlag
<1>5. CASE Scheduler
  <2>1. pc # "main" => Candidate \in Task
    BY CandidateInRing
  <2>2. CASE LeaveRunOS \/ PassBy
    BY <1>1, <2>1, <2>2 DEF LeaveRunOS, PassBy, Visit, flags
  <2>3. CASE DispatchHandler \/ DispatchFirst \/ ResumeSleeper
    BY <1>1, <2>1, <2>3
       DEF DispatchHandler, DispatchFirst, ResumeSleeper, Select, Visit, EntryFlag, flags
  <2>4. CASE SetTimer \/ SetTimerFirst \/ SetTimerSecond
    BY <1>1, <2>4 DEF SetTimer, SetTimerFirst, SetTimerSecond, flags
  <2> QED BY <1>5, <2>2, <2>3, <2>4 DEF Scheduler
<1>6. CASE Interrupt
  BY <1>1, <1>6 DEF Interrupt, Tick, IsrSend, IsrWakeUp, IsrExitOS, flags
<1>7. CASE UNCHANGED vars
  BY <1>1, <1>7 DEF vars, flags
<1> QED BY <1>2, <1>3, <1>4, <1>5, <1>6, <1>7 DEF Next

\* The fields of the blocks that are not queues or links keep their types: no
\* countdown underflows, and every stack leads to an event or a known switch.
LEMMA BlocksStep ==
  ASSUME TypeOK, Shape, [Next]_vars
  PROVE  BlocksTyped'
<1> USE ConstantFacts DEF BlocksTyped, timers, sleep, stacks, tcb
<1>1. BlocksTyped /\ StaticsTyped
  BY Parts
<1>2. CASE Boot
  <2>1. CASE \E t \in Task : InitTask(t)
    <3>1. PICK t \in Task : InitTask(t)
      BY <2>1
    <3>2. /\ CountdownTimer' \in [Task -> Word] /\ ISRTimer' \in [Task -> BOOLEAN]
          /\ TaskSleeping' \in [Task -> BOOLEAN]
      BY <1>1, <3>1, WordFacts DEF InitTask
    <3>3. ScheduleReinit' \in [Task -> BOOLEAN] /\ StackPointer' \in [Task -> Frame]
      BY <1>1, <3>1 DEF InitTask
    <3> QED BY <1>1, <3>1, <3>2, <3>3 DEF InitTask
  <2>2. CASE RunOS
    BY <1>1, <2>2 DEF RunOS
  <2> QED BY <1>2, <2>1, <2>2 DEF Boot
<1>3. CASE Call
  <2>1. CASE \E t \in Task, v \in WakeValues : WakeUp(t, v)
    <3>1. PICK t \in Task, v \in WakeValues : WakeUp(t, v)
      BY <2>1
    <3>2. ISRTimer' \in [Task -> BOOLEAN] /\ TaskTypeWakeUp' \in [Task -> Int]
      BY <1>1, <3>1 DEF WakeUp, Wake
    <3> QED BY <1>1, <3>1, <3>2 DEF WakeUp
  <2>2. CASE SendEnqueue \/ ExitOS \/ \E t \in Task, m \in Message : SendCheck(t, m)
    BY <1>1, <2>2 DEF SendCheck, SendEnqueue, ExitOS
  <2> QED BY <1>3, <2>1, <2>2 DEF Call
<1>4. CASE Yield
  <2>1. CASE \E d \in ReturnDelays : TaskReturn(d)
    BY <1>1, <2>1 DEF TaskReturn, MarkReturned
  <2>2. CASE \E d \in SleepDelays, allow \in SwitchModes : SleepCall(d, allow)
    <3>1. PICK d \in SleepDelays, allow \in SwitchModes : SleepCall(d, allow)
      BY <2>2
    <3>2. (IF d = Forever THEN 0 ELSE d) \in Word
      BY WordFacts
    <3>3. ((d = 0) \/ ISRTimer[TaskCurrent]) \in BOOLEAN
      OBVIOUS
    <3>4. CountdownTimer' \in [Task -> Word] /\ TaskSleeping' \in [Task -> BOOLEAN]
      BY <1>1, <3>1, <3>2 DEF SleepCall
    <3>5. ISRTimer' \in [Task -> BOOLEAN]
      BY <1>1, <3>1, <3>3 DEF SleepCall
    <3> QED BY <1>1, <3>1, <3>4, <3>5 DEF SleepCall
  <2> QED BY <1>4, <2>1, <2>2 DEF Yield
<1>5. CASE Scheduler
  <2>1. pc # "main" => Candidate \in Task
    BY CandidateInRing
  <2>2. 0 \in Word /\ (g_LastTaskReturnValue = 0) \in BOOLEAN
    BY DEF Word, Forever
  <2>3. CASE LeaveRunOS \/ PassBy \/ DispatchFirst \/ ResumeSleeper
    BY <1>1, <2>1, <2>2, <2>3
       DEF LeaveRunOS, PassBy, DispatchFirst, ResumeSleeper, Select, Visit, StopCountdown
  <2>4. CASE DispatchHandler
    <3>1. Candidate \in Task
      BY <2>1, <2>4 DEF DispatchHandler, Select, Visit
    <3>2. StackPointer' \in [Task -> Frame] /\ ScheduleReinit' \in [Task -> BOOLEAN]
      <4>1. HasMail(Candidate) => Oldest(MsgQueue[Candidate]) \in Frame
        BY <3>1, DequeueTyped, Parts
      <4> QED BY <1>1, <2>4, <3>1, <4>1 DEF DispatchHandler
    <3>3. /\ CountdownTimer' \in [Task -> Word] /\ ISRTimer' \in [Task -> BOOLEAN]
          /\ TaskSleeping' \in [Task -> BOOLEAN] /\ TaskTypeWakeUp' \in [Task -> Int]
      BY <1>1, <2>2, <2>4, <3>1 DEF DispatchHandler, Select, Visit, StopCountdown
    <3> QED BY <3>2, <3>3
  <2>5. CASE SetTimer \/ SetTimerFirst \/ SetTimerSecond
    <3>1. (IF g_LastTaskReturnValue = Forever THEN 0 ELSE g_LastTaskReturnValue) \in Word
      BY <1>1, <2>2 DEF StaticsTyped
    <3>2. 0 # Forever /\ (0 = 0) \in BOOLEAN
      BY DEF Forever
    <3> QED BY <1>1, <2>2, <2>5, <3>1, <3>2
            DEF SetTimer, SetTimerFirst, SetTimerSecond, StoreCountdown, StoreISRTimer
  <2> QED BY <1>5, <2>3, <2>4, <2>5 DEF Scheduler
<1>6. CASE Interrupt
  <2>1. CASE Tick
    <3>1. \A t \in Task : CountdownTimer[t] # 0 => CountdownTimer[t] - 1 \in Word
      BY <1>1, WordFacts
    <3>2. CountdownTimer' \in [Task -> Word]
      BY <1>1, <2>1, <3>1 DEF Tick
    <3>3. ISRTimer' \in [Task -> BOOLEAN]
      BY <1>1, <2>1 DEF Tick
    <3> QED BY <1>1, <2>1, <3>2, <3>3 DEF Tick
  <2>2. CASE \/ \E t \in Task, m \in IsrMessages : IsrSend(t, m)
             \/ \E t \in Task, v \in WakeValues : IsrWakeUp(t, v)
             \/ IsrExitOS
    BY <1>1, <2>2 DEF IsrSend, IsrWakeUp, Wake, IsrExitOS
  <2> QED BY <1>6, <2>1, <2>2 DEF Interrupt
<1>7. CASE UNCHANGED vars
  BY <1>1, <1>7 DEF vars
<1> QED BY <1>2, <1>3, <1>4, <1>5, <1>6, <1>7 DEF Next

\* Every queue keeps its shape.
LEMMA QueuesStep ==
  ASSUME TypeOK, Shape, [Next]_vars
  PROVE  QueuesTyped'
<1> USE DEF tcb
<1>1. QueuesTyped /\ CallTyped
  BY Parts
<1>2. CASE Boot
  <2>1. CASE \E t \in Task : InitTask(t)
    <3>1. PICK t \in Task : InitTask(t)
      BY <2>1
    <3> QED BY <1>1, <3>1, FreshTyped DEF InitTask
  <2>2. CASE RunOS
    BY <1>1, <2>2 DEF RunOS, QueuesTyped
  <2> QED BY <1>2, <2>1, <2>2 DEF Boot
<1>3. CASE Call
  <2>1. CASE SendEnqueue
    <3>1. outgoing[1] \in Task /\ outgoing[2] \in Message
      BY <1>1, <2>1 DEF SendEnqueue, CallTyped
    <3> QED BY <1>1, <2>1, <3>1, DeliverTyped DEF SendEnqueue
  <2>2. MsgQueue' = MsgQueue \/ SendEnqueue
    BY <1>3 DEF Call, SendCheck, WakeUp, ExitOS
  <2> QED BY <1>1, <2>1, <2>2 DEF QueuesTyped
<1>4. CASE Yield
  BY <1>1, <1>4 DEF Yield, TaskReturn, SleepCall, QueuesTyped
<1>5. CASE Scheduler
  <2>1. CASE DispatchHandler
    <3>1. Candidate \in Task
      BY <2>1, CandidateInRing DEF DispatchHandler, Select, Visit
    <3>2. CASE HasMail(Candidate)
      BY <1>1, <2>1, <3>1, <3>2, DequeueTyped DEF DispatchHandler
    <3>3. CASE ~HasMail(Candidate)
      BY <1>1, <2>1, <3>3 DEF DispatchHandler, QueuesTyped
    <3> QED BY <3>2, <3>3
  <2>2. MsgQueue' = MsgQueue \/ DispatchHandler
    BY <1>5 DEF Scheduler, LeaveRunOS, PassBy, DispatchFirst, ResumeSleeper, SetTimer,
                SetTimerFirst, SetTimerSecond
  <2> QED BY <1>1, <2>1, <2>2 DEF QueuesTyped
<1>6. CASE Interrupt
  <2>1. CASE \E t \in Task, m \in IsrMessages : IsrSend(t, m)
    BY <1>1, <2>1, DeliverTyped, ConstantFacts DEF IsrSend
  <2>2. MsgQueue' = MsgQueue \/ \E t \in Task, m \in IsrMessages : IsrSend(t, m)
    BY <1>6 DEF Interrupt, Tick, IsrWakeUp, IsrExitOS
  <2> QED BY <1>1, <2>1, <2>2 DEF QueuesTyped
<1>7. CASE UNCHANGED vars
  BY <1>1, <1>7 DEF vars, QueuesTyped
<1> QED BY <1>2, <1>3, <1>4, <1>5, <1>6, <1>7 DEF Next

\* TaskNext changes only in ktos_InitTask, and TaskCurrent only there and in the
\* scheduler.
LEMMA RingMoves ==
  ASSUME TypeOK, Shape, [Next]_vars
  PROVE  \/ \E t \in Task : InitTask(t)
         \/ /\ TaskNext' = TaskNext
            /\ TaskCurrent' \in {TaskCurrent, Candidate}
            /\ TaskCurrent' # TaskCurrent => pc # "main"
            /\ TaskCurrent = NULL => pc' = "main"
<1> USE DEF tcb
<1>1. TaskCurrent = NULL => pc = "main"
  BY DEF Shape
<1>2. CASE Boot
  BY <1>2 DEF Boot, RunOS
<1>3. CASE Call
  BY <1>1, <1>3 DEF Call, SendCheck, SendEnqueue, WakeUp, ExitOS
<1>4. CASE Yield
  BY <1>1, <1>4 DEF Yield, TaskReturn, SleepCall
<1>5. CASE Scheduler
  BY <1>1, <1>5
     DEF Scheduler, LeaveRunOS, PassBy, DispatchHandler, DispatchFirst, ResumeSleeper,
         Select, Visit, SetTimer, SetTimerFirst, SetTimerSecond
<1>6. CASE Interrupt
  BY <1>1, <1>6 DEF Interrupt, Tick, IsrSend, IsrWakeUp, IsrExitOS
<1>7. CASE UNCHANGED vars
  BY <1>1, <1>7 DEF vars
<1> QED BY <1>2, <1>3, <1>4, <1>5, <1>6, <1>7 DEF Next

\* The new block is the only one that joins, and its successor is in the ring.
LEMMA LinkGrows ==
  ASSUME TypeOK, Shape, NEW t \in Task, InitTask(t)
  PROVE  /\ TaskNext' \in [Task -> Task \cup {NULL}]
         /\ Created' = Created \cup {t}
         /\ \A u \in Created' : TaskNext'[u] \in Created'
<1> USE ConstantFacts DEF InitTask, Link, Created
<1>1. CASE TaskCurrent = NULL
  BY <1>1 DEF TypeOK, Shape
<1>2. CASE TaskCurrent # NULL
  <2>1. TaskCurrent \in Task /\ TaskNext[TaskCurrent] \in Created
    BY <1>2 DEF TypeOK, Shape
  <2>2. /\ TaskNext' \in [Task -> Task \cup {NULL}]
        /\ \A u \in Task : TaskNext'[u] =
             IF u = TaskCurrent THEN t
             ELSE IF u = t THEN TaskNext[TaskCurrent] ELSE TaskNext[u]
    BY <1>2, <2>1 DEF TypeOK
  <2>3. Created' = Created \cup {t}
    BY <1>2, <2>1, <2>2
  <2>4. \A u \in Created' : TaskNext'[u] \in Created'
    BY <2>1, <2>2, <2>3 DEF Shape
  <2> QED BY <2>2, <2>3, <2>4
<1> QED BY <1>1, <1>2

LEMMA RingStep ==
  ASSUME TypeOK, Shape, [Next]_vars
  PROVE  RingTyped'
<1>1. CASE \E t \in Task : InitTask(t)
  <2>1. PICK t \in Task : InitTask(t)
    BY <1>1
  <2>2. TaskCurrent' = t /\ t # NULL
    BY <2>1, ConstantFacts DEF InitTask
  <2> QED BY <2>1, <2>2, LinkGrows DEF RingTyped
<1>2. CASE /\ TaskNext' = TaskNext
           /\ TaskCurrent' \in {TaskCurrent, Candidate}
           /\ TaskCurrent' # TaskCurrent => pc # "main"
           /\ TaskCurrent = NULL => pc' = "main"
  <2>1. Created' = Created
    BY <1>2 DEF Created
  <2>2. pc # "main" => Candidate \in Created /\ Candidate \in Task
    BY CandidateInRing
  <2> QED BY <1>2, <2>1, <2>2, ConstantFacts DEF RingTyped, TypeOK, Shape
<1> QED BY <1>1, <1>2, RingMoves

\* A call under way stays well formed until its enqueue.
LEMMA CallStep ==
  ASSUME TypeOK, Shape, [Next]_vars
  PROVE  CallTyped'
<1> USE DEF tcb
<1>1. CallTyped
  BY Parts
<1>2. Created \subseteq Created'
  BY RingMoves, LinkGrows DEF Created
<1>3. CASE outgoing' = NoCall
  BY <1>3 DEF CallTyped, NoCall
<1>4. CASE outgoing' = outgoing /\ pc' = pc
  BY <1>1, <1>2, <1>4 DEF CallTyped, NoCall
<1>5. CASE \E t \in Task, m \in Message : SendCheck(t, m)
  BY <1>2, <1>5 DEF CallTyped, SendCheck, CanCall, NoCall
<1>6. CASE Boot \/ Call
  BY <1>3, <1>4, <1>5, <1>6
     DEF Boot, RunOS, InitTask, Call, SendEnqueue, WakeUp, ExitOS, NoCall
<1>7. CASE Yield
  BY <1>3, <1>7 DEF Yield, TaskReturn, SleepCall, NoCall
<1>8. CASE Scheduler
  <2>1. outgoing' = outgoing /\ pc \notin {"main", "task"}
    BY <1>8 DEF Scheduler, LeaveRunOS, PassBy, DispatchHandler, DispatchFirst,
                ResumeSleeper, Select, Visit, SetTimer, SetTimerFirst, SetTimerSecond
  <2> QED BY <1>1, <1>3, <2>1 DEF CallTyped
<1>9. CASE Interrupt \/ UNCHANGED vars
  BY <1>4, <1>9 DEF Interrupt, Tick, IsrSend, IsrWakeUp, IsrExitOS, vars
<1> QED BY <1>6, <1>7, <1>8, <1>9 DEF Next

\* Types are kept and the scheduler never follows a null pointer, whatever the
\* tasks and the interrupt handlers do.
THEOREM TypeCorrect == Spec => [](TypeOK /\ Shape)
<1>1. Init => TypeOK /\ Shape
  BY InitShape
<1>2. (TypeOK /\ Shape) /\ [Next]_vars => (TypeOK /\ Shape)'
  <2> SUFFICES ASSUME TypeOK, Shape, [Next]_vars PROVE TypeOK' /\ Shape'
    OBVIOUS
  <2>1. StaticsTyped' /\ BlocksTyped' /\ CallTyped' /\ QueuesTyped' /\ RingTyped'
    BY StaticsStep, BlocksStep, CallStep, QueuesStep, RingStep
  <2>2. outgoing' \in (Task \X Message) \cup {NoCall}
    BY <2>1 DEF CallTyped
  <2> QED BY <2>1, <2>2
          DEF TypeOK, Shape, StaticsTyped, BlocksTyped, CallTyped, QueuesTyped, RingTyped
<1> QED BY <1>1, <1>2, PTL DEF Spec

-----------------------------------------------------------------------------

\* A set of tasks that following "next" does not leave.
Closed(S) == \A t \in S : TaskNext[t] \in S

\* Linking a block behind TaskCurrent makes a longer ring of the ring.
LEMMA LinkKeepsCycle ==
  ASSUME TypeOK, Shape, RingIsOneCycle, NEW n \in Task, InitTask(n),
         NEW S \in SUBSET Created', S # {}, Closed(S)'
  PROVE  S = Created'
<1>1. Created' = Created \cup {n} /\ n \notin Created
  BY LinkGrows DEF InitTask
<1>2. CASE TaskCurrent = NULL
  BY <1>1, <1>2 DEF Shape
<1>3. CASE TaskCurrent # NULL
  <2>1. /\ TaskCurrent \in Created /\ TaskCurrent # n
        /\ TaskNext[TaskCurrent] \in Created
        /\ \A u \in Created : TaskNext[u] \in Created
    BY <1>1, <1>3 DEF Shape
  <2>2. /\ TaskNext'[TaskCurrent] = n /\ TaskNext'[n] = TaskNext[TaskCurrent]
        /\ \A u \in Created : u # TaskCurrent => TaskNext'[u] = TaskNext[u]
    BY <1>1, <1>3, <2>1 DEF InitTask, Link, TypeOK, Created
  <2>3. CASE n \in S
    <3>1. TaskNext[TaskCurrent] \in S \ {n}
      BY <1>1, <2>1, <2>2, <2>3 DEF Closed
    <3>2. Closed(S \ {n})
      BY <1>1, <2>1, <2>2, <3>1 DEF Closed
    <3>3. S \ {n} = Created
      BY <1>1, <3>1, <3>2 DEF RingIsOneCycle, Closed
    <3> QED BY <1>1, <2>3, <3>3
  <2>4. CASE n \notin S
    <3>1. TaskCurrent \notin S
      BY <2>2, <2>4 DEF Closed
    <3>2. S \in SUBSET Created /\ Closed(S)
      BY <1>1, <2>2, <2>4, <3>1 DEF Closed
    <3>3. S = Created
      BY <3>2 DEF RingIsOneCycle, Closed
    <3> QED BY <2>1, <3>1, <3>3
  <2> QED BY <2>3, <2>4
<1> QED BY <1>2, <1>3

\* However many tasks are created, their blocks form one ring.
THEOREM OneRing == Spec => []RingIsOneCycle
<1>1. Init => RingIsOneCycle
  BY ConstantFacts DEF Init, RingIsOneCycle, Created
<1>2. (TypeOK /\ Shape) /\ RingIsOneCycle /\ [Next]_vars => RingIsOneCycle'
  <2> SUFFICES ASSUME TypeOK, Shape, RingIsOneCycle, [Next]_vars PROVE RingIsOneCycle'
    OBVIOUS
  <2>1. CASE \E t \in Task : InitTask(t)
    <3>1. \A t \in Created' : TaskNext'[t] \in Created'
      BY <2>1, LinkGrows
    <3>2. \A S \in SUBSET Created' : S # {} /\ Closed(S)' => S = Created'
      BY <2>1, LinkKeepsCycle
    <3> QED BY <3>1, <3>2 DEF RingIsOneCycle, Closed
  <2>2. CASE TaskNext' = TaskNext
    BY <2>2 DEF RingIsOneCycle, Created
  <2> QED BY <2>1, <2>2, RingMoves
<1> QED BY <1>1, <1>2, TypeCorrect, PTL DEF Spec

\* The tick handler's walk, which starts at TaskCurrent, wherever the scheduler
\* has left it, visits every task that was created and nothing else.
THEOREM TickReachesAll == Spec => [](TaskCurrent # NULL => Walked = Created)
<1>1. (TypeOK /\ Shape) /\ RingIsOneCycle => (TaskCurrent # NULL => Walked = Created)
  <2> SUFFICES ASSUME TypeOK, Shape, RingIsOneCycle, TaskCurrent # NULL
               PROVE  Walked = Created
    OBVIOUS
  <2>1. Created \in SUBSET Task /\ TaskCurrent \in Created /\ Closed(Created)
    BY DEF Created, Shape, Closed
  <2>2. Walked \subseteq Created
    BY <2>1 DEF Walked, Reached, Closed
  <2>3. ASSUME NEW S \in SUBSET Task, TaskCurrent \in S, Closed(S)
        PROVE  Created \subseteq S
    <3>1. Closed(S \cap Created) /\ S \cap Created # {}
      BY <2>1, <2>3 DEF Closed
    <3>2. S \cap Created = Created
      BY <3>1 DEF RingIsOneCycle, Closed
    <3> QED BY <3>2
  <2>4. Created \subseteq Walked
    BY <2>1, <2>3 DEF Walked, Reached, Closed
  <2> QED BY <2>2, <2>4
<1> QED BY <1>1, TypeCorrect, OneRing, PTL

-----------------------------------------------------------------------------

\* The frames a stack can lead to are told apart.
LEMMA FramesDiffer ==
  /\ SleepFrame # ExitFrame
  /\ INIT # ExitFrame /\ INIT # SleepFrame
  /\ \A e \in Event : e # ExitFrame /\ e # SleepFrame
<1>1. /\ INIT[1] = "init" /\ TIMER[1] = "timer" /\ SleepFrame[1] = "in ktos_Sleep"
      /\ ExitFrame[1] = "in ktos_DefaultTaskExitHandler"
  BY DEF INIT, TIMER, SleepFrame, ExitFrame
<1>2. SleepFrame \notin {INIT, TIMER, ExitFrame} /\ ExitFrame \notin {INIT, TIMER}
  BY <1>1
<1> QED BY <1>2, MessageAssumption DEF Event

\* The strengthening of ReinitIffReturned and HaltedBySleeper: the task that
\* runs is not marked as returned, and switching is on until the first
\* ktos_RunOS, so that no task is created while a sleeper halts the system.
Marks ==
  /\ ReinitIffReturned
  /\ pc = "task" => ~ScheduleReinit[TaskCurrent]

Halts ==
  /\ HaltedBySleeper
  /\ ~timerOn => pc = "main" /\ AllowTaskSwitch

\* ScheduleReinit follows the frames.
LEMMA MarksStep ==
  ASSUME TypeOK, Shape, Marks, [Next]_vars
  PROVE  Marks'
<1> USE FramesDiffer DEF Marks, ReinitIffReturned, tcb, stacks
<1>1. BlocksTyped
  BY Parts
<1>2. pc # "main" => TaskCurrent \in Task /\ Candidate \in Task
  BY CurrentInRing, CandidateInRing
<1>3. CASE Boot
  BY <1>1, <1>3 DEF Boot, RunOS, InitTask, BlocksTyped
<1>4. CASE Call
  BY <1>4 DEF Call, SendCheck, SendEnqueue, WakeUp, ExitOS
<1>5. CASE Yield
  BY <1>1, <1>2, <1>5 DEF Yield, TaskReturn, SleepCall, MarkReturned, BlocksTyped
<1>6. CASE Scheduler
  <2>1. CASE DispatchHandler
    <3>1. Candidate \in Task
      BY <1>2, <2>1 DEF DispatchHandler, Select, Visit
    <3>2. \E e \in Event : StackPointer' = [StackPointer EXCEPT ![Candidate] = e]
      <4>1. HasMail(Candidate) => Oldest(MsgQueue[Candidate]) \in Event
        BY <3>1, DequeueTyped, Parts DEF Event
      <4>2. TIMER \in Event
        BY DEF Event
      <4> QED BY <2>1, <4>1, <4>2 DEF DispatchHandler
    <3>3. /\ ScheduleReinit' = [ScheduleReinit EXCEPT ![Candidate] = FALSE]
          /\ TaskCurrent' = Candidate
      BY <2>1 DEF DispatchHandler, Select, Visit
    <3> QED BY <1>1, <3>1, <3>2, <3>3 DEF BlocksTyped
  <2>2. CASE DispatchFirst \/ ResumeSleeper
    BY <1>2, <2>2 DEF DispatchFirst, ResumeSleeper, Select, Visit
  <2>3. CASE LeaveRunOS \/ PassBy \/ SetTimer \/ SetTimerFirst \/ SetTimerSecond
    BY <2>3 DEF LeaveRunOS, PassBy, Visit, SetTimer, SetTimerFirst, SetTimerSecond
  <2> QED BY <1>6, <2>1, <2>2, <2>3 DEF Scheduler
<1>7. CASE Interrupt \/ UNCHANGED vars
  BY <1>7 DEF Interrupt, Tick, IsrSend, IsrWakeUp, IsrExitOS, vars
<1> QED BY <1>3, <1>4, <1>5, <1>6, <1>7 DEF Next

\* Only ktos_Sleep switches off the switching, and only the sleeper switches it
\* on again.
LEMMA HaltsStep ==
  ASSUME TypeOK, Shape, Marks, Halts, [Next]_vars
  PROVE  Halts'
<1> USE DEF Halts, HaltedBySleeper, tcb, stacks, flags
<1>1. BlocksTyped /\ StaticsTyped
  BY Parts
<1>2. pc # "main" => TaskCurrent \in Task /\ TaskCurrent # NULL /\ Candidate \in Task
  BY CurrentInRing, CandidateInRing, ConstantFacts
<1>3. CASE Boot
  BY <1>3 DEF Boot, RunOS, InitTask
<1>4. CASE Call
  BY <1>4 DEF Call, SendCheck, SendEnqueue, WakeUp, ExitOS
<1>5. CASE Yield
  BY <1>1, <1>2, <1>5 DEF Yield, TaskReturn, SleepCall, BlocksTyped
<1>6. CASE Scheduler
  <2>1. ~AllowTaskSwitch => Candidate = TaskCurrent
    BY DEF Candidate
  <2>2. CASE DispatchHandler
    <3>1. StackPointer[Candidate] = ExitFrame /\ Candidate \in Task
      BY <1>2, <2>2 DEF DispatchHandler, Select, Visit, Marks, ReinitIffReturned
    <3>2. AllowTaskSwitch
      BY <2>1, <3>1, FramesDiffer
    <3> QED BY <2>2, <3>2 DEF DispatchHandler, Select, Visit
  <2>3. CASE DispatchFirst
    <3>1. AllowTaskSwitch
      BY <2>1, <2>3 DEF DispatchFirst
    <3> QED BY <2>3, <3>1 DEF DispatchFirst, Select, Visit
  <2>4. CASE ResumeSleeper
    BY <2>4 DEF ResumeSleeper, Select, Visit
  <2>5. CASE LeaveRunOS \/ PassBy \/ SetTimer \/ SetTimerFirst \/ SetTimerSecond
    BY <1>2, <2>1, <2>5 DEF LeaveRunOS, PassBy, Visit, SetTimer, SetTimerFirst, SetTimerSecond
  <2> QED BY <1>6, <2>2, <2>3, <2>4, <2>5 DEF Scheduler
<1>7. CASE Interrupt \/ UNCHANGED vars
  BY <1>7 DEF Interrupt, Tick, IsrSend, IsrWakeUp, IsrExitOS, vars
<1> QED BY <1>3, <1>4, <1>5, <1>6, <1>7 DEF Next

LEMMA ControlInvariant == Spec => [](Marks /\ Halts)
<1>1. Init => Marks /\ Halts
  BY FramesDiffer DEF Init, Marks, Halts, ReinitIffReturned, HaltedBySleeper
<1>2. (TypeOK /\ Shape) /\ (Marks /\ Halts) /\ [Next]_vars => (Marks /\ Halts)'
  BY MarksStep, HaltsStep
<1> QED BY <1>1, <1>2, TypeCorrect, PTL DEF Spec

\* A stack is re-initialised exactly when its function has returned: the
\* scheduler neither re-enters a dead frame nor throws away a sleeper's.
THEOREM ReinitExactlyReturned == Spec => []ReinitIffReturned
BY ControlInvariant, PTL DEF Marks

\* HALT_TASK_SWITCH belongs to one sleeper, which stays current.
THEOREM HaltHasOwner == Spec => []HaltedBySleeper
BY ControlInvariant, PTL DEF Halts

\* While switching is off every step keeps the current task, and the only one
\* that turns switching on enters it.
THEOREM HaltFreezes == Spec => HaltFreezesOthers
<1> DEFINE Kept == TaskCurrent' = TaskCurrent
           KeptOrEntered == AllowTaskSwitch' = AllowTaskSwitch \/ pc' = "task"
<1>1. (TypeOK /\ Shape) /\ (Marks /\ Halts) /\ [Next]_vars
      => (~AllowTaskSwitch => Kept /\ (AllowTaskSwitch' => pc' = "task"))
  <2> SUFFICES ASSUME TypeOK, Shape, Marks, Halts, [Next]_vars, ~AllowTaskSwitch
               PROVE  Kept /\ KeptOrEntered
    <3>1. ~AllowTaskSwitch /\ KeptOrEntered => (AllowTaskSwitch' => pc' = "task")
      OBVIOUS
    <3> QED BY <3>1
  <2> USE DEF flags
  <2>1. Candidate = TaskCurrent /\ timerOn /\ pc # "task"
    BY DEF Candidate, Halts, HaltedBySleeper
  <2>2. CASE Boot \/ Call
    BY <2>1, <2>2 DEF Boot, RunOS, InitTask, Call, SendCheck, SendEnqueue, WakeUp, ExitOS
  <2>3. CASE Yield
    BY <2>1, <2>3 DEF Yield, TaskReturn, SleepCall
  <2>4. CASE Scheduler
    BY <2>1, <2>4
       DEF Scheduler, LeaveRunOS, PassBy, DispatchHandler, DispatchFirst, ResumeSleeper,
           Select, Visit, SetTimer, SetTimerFirst, SetTimerSecond
  <2>5. CASE Interrupt \/ UNCHANGED vars
    BY <2>5 DEF Interrupt, Tick, IsrSend, IsrWakeUp, IsrExitOS, vars
  <2> QED BY <2>2, <2>3, <2>4, <2>5 DEF Next
<1> QED BY <1>1, TypeCorrect, ControlInvariant, PTL DEF Spec, HaltFreezesOthers

-----------------------------------------------------------------------------

\* A sleeper that is not running: once awake it has neither a timer event nor a
\* countdown left, and while asleep a wake-up value means that its timer event
\* is set.  When it has just switched away, interrupts are off and it has not
\* been woken.  Only a task inside ktos_Sleep is marked asleep, and none is there
\* before ktos_RunOS has started the tick.
Sleepers ==
  /\ \A t \in Task : TaskSleeping[t] => StackPointer[t] = SleepFrame /\ ~Runs(t)
  /\ pc # "main" => timerOn
  /\ \A t \in Task : StackPointer[t] = SleepFrame => timerOn
  /\ \A t \in Task : StackPointer[t] = SleepFrame /\ ~Runs(t) =>
       /\ ~TaskSleeping[t] => ~ISRTimer[t] /\ CountdownTimer[t] = 0
       /\ TaskSleeping[t] /\ TaskTypeWakeUp[t] # 0 => ISRTimer[t]
  /\ pc \in {"back", "half"} /\ StackPointer[TaskCurrent] = SleepFrame =>
       /\ pc = "back" /\ ~irq
       /\ TaskSleeping[TaskCurrent] /\ TaskTypeWakeUp[TaskCurrent] = 0

\* The task a pass enters is awake and runs; the others are left alone.
LEMMA SelectWakes ==
  ASSUME BlocksTyped, NEW c \in Task, Select(c)
  PROVE  /\ pc' = "task" /\ TaskCurrent' = c /\ ~TaskSleeping'[c]
         /\ \A u \in Task \ {c} : /\ TaskSleeping'[u] = TaskSleeping[u]
                                  /\ ISRTimer'[u] = ISRTimer[u]
                                  /\ CountdownTimer'[u] = CountdownTimer[u]
         /\ UNCHANGED <<TaskTypeWakeUp, timerOn>>
BY DEF Select, Visit, Ready, Expired, StopCountdown, BlocksTyped, timers

LEMMA SleepersStep ==
  ASSUME TypeOK, Shape, Sleepers, [Next]_vars
  PROVE  Sleepers'
<1> USE FramesDiffer DEF Sleepers, Runs, tcb, stacks, sleep, timers
<1>1. BlocksTyped
  BY Parts
<1>2. pc # "main" => TaskCurrent \in Task /\ Candidate \in Task
  BY CurrentInRing, CandidateInRing
<1>3. CASE Boot
  <2>1. CASE \E t \in Task : InitTask(t)
    BY <1>1, <2>1 DEF InitTask, BlocksTyped
  <2>2. CASE RunOS
    BY <2>2 DEF RunOS
  <2> QED BY <1>3, <2>1, <2>2 DEF Boot
<1>4. CASE Call
  <2>1. CASE \E t \in Task, v \in WakeValues : WakeUp(t, v)
    BY <1>1, <2>1 DEF WakeUp, Wake, Wakeable, CanCall, BlocksTyped
  <2>2. CASE SendEnqueue
    BY <2>2 DEF SendEnqueue, Shape
  <2>3. CASE ExitOS \/ \E t \in Task, m \in Message : SendCheck(t, m)
    BY <2>3 DEF SendCheck, ExitOS
  <2> QED BY <1>4, <2>1, <2>2, <2>3 DEF Call
<1>5. CASE Yield
  <2>1. CASE \E d \in ReturnDelays : TaskReturn(d)
    BY <1>1, <1>2, <2>1 DEF TaskReturn, BlocksTyped
  <2>2. CASE \E d \in SleepDelays, allow \in SwitchModes : SleepCall(d, allow)
    BY <1>1, <1>2, <2>2 DEF SleepCall, BlocksTyped
  <2> QED BY <1>5, <2>1, <2>2 DEF Yield
<1>6. CASE Scheduler
  <2>1. CASE LeaveRunOS
    BY <2>1 DEF LeaveRunOS
  <2>2. CASE PassBy
    BY <1>1, <1>2, <2>2 DEF PassBy, Visit, Expired, StopCountdown, BlocksTyped
  <2>3. CASE DispatchHandler
    <3>1. Candidate \in Task /\ pc = "loop" /\ Select(Candidate)
      BY <1>2, <2>3 DEF DispatchHandler, Select, Visit
    <3>2. \A u \in Task \ {Candidate} : StackPointer'[u] = StackPointer[u]
      BY <1>1, <2>3 DEF DispatchHandler, BlocksTyped
    <3> QED BY <1>1, <3>1, <3>2, SelectWakes
  <2>4. CASE DispatchFirst \/ ResumeSleeper
    <3>1. Candidate \in Task /\ pc = "loop" /\ Select(Candidate)
      BY <1>2, <2>4 DEF DispatchFirst, ResumeSleeper, Select, Visit
    <3>2. UNCHANGED StackPointer
      BY <2>4 DEF DispatchFirst, ResumeSleeper
    <3> QED BY <1>1, <3>1, <3>2, SelectWakes
  <2>5. CASE SetTimer
    BY <1>1, <1>2, <2>5 DEF SetTimer, StoreCountdown, StoreISRTimer, BlocksTyped
  <2>6. CASE SetTimerFirst \/ SetTimerSecond
    BY <1>1, <1>2, <2>6
       DEF SetTimerFirst, SetTimerSecond, StoreCountdown, StoreISRTimer, BlocksTyped
  <2> QED BY <1>6, <2>1, <2>2, <2>3, <2>4, <2>5, <2>6 DEF Scheduler
<1>7. CASE Interrupt
  <2>1. CASE Tick
    BY <1>1, <2>1, WordFacts DEF Tick, BlocksTyped
  <2>2. CASE \E t \in Task, v \in WakeValues : IsrWakeUp(t, v)
    BY <1>1, <2>2 DEF IsrWakeUp, Wake, Wakeable, BlocksTyped
  <2>3. CASE IsrExitOS \/ \E t \in Task, m \in IsrMessages : IsrSend(t, m)
    BY <2>3 DEF IsrSend, IsrExitOS
  <2> QED BY <1>7, <2>1, <2>2, <2>3 DEF Interrupt
<1>8. CASE UNCHANGED vars
  BY <1>8 DEF vars
<1> QED BY <1>3, <1>4, <1>5, <1>6, <1>7, <1>8 DEF Next

LEMMA SleepersInvariant == Spec => []Sleepers
<1>1. Init => Sleepers
  BY FramesDiffer DEF Init, Sleepers
<1>2. (TypeOK /\ Shape) /\ Sleepers /\ [Next]_vars => Sleepers'
  BY SleepersStep
<1> QED BY <1>1, <1>2, TypeCorrect, PTL DEF Spec

\* ktos_Sleep never returns because of its delay or of ktos_WakeUp alone, in any
\* application: the sleeper has a message when the scheduler switches to it.
THEOREM ResumptionTakesMail == Spec => ResumptionNeedsMail
<1>1. (TypeOK /\ Shape) /\ Sleepers => (ResumeSleeper => Num(TaskCurrent') # 0)
  <2> SUFFICES ASSUME TypeOK, Shape, Sleepers, ResumeSleeper PROVE Num(Candidate) # 0
    BY DEF ResumeSleeper, Select, Visit
  <2>1. /\ pc = "loop" /\ Ready(Candidate)
        /\ StackPointer[Candidate] = SleepFrame
        /\ Candidate \in Task
    BY CandidateInRing DEF ResumeSleeper, Select, Visit
  <2>2. CASE TaskSleeping[Candidate]
    BY <2>1, <2>2 DEF Ready
  <2>3. CASE ~TaskSleeping[Candidate]
    BY <2>1, <2>3 DEF Ready, Sleepers, Runs
  <2> QED BY <2>2, <2>3
<1> QED BY <1>1, TypeCorrect, SleepersInvariant, PTL DEF ResumptionNeedsMail

\* A wake-up value comes with the end of the sleep, for any number of tasks and calls.
LEMMA ValueEndsSleep ==
  ASSUME TypeOK, Shape, Sleepers, [Next]_vars, NEW t \in Task,
         TaskTypeWakeUp'[t] # TaskTypeWakeUp[t], TaskTypeWakeUp'[t] # 0
  PROVE  ~Ended(t) /\ Ended(t)'
<1> USE DEF tcb, sleep, stacks
<1>1. BlocksTyped /\ TaskTypeWakeUp \in [Task -> Int]
  BY Parts DEF TypeOK
<1>2. CASE \E u \in Task, v \in WakeValues : WakeUp(u, v) \/ IsrWakeUp(u, v)
  <2>1. PICK u \in Task, v \in WakeValues : WakeUp(u, v) \/ IsrWakeUp(u, v)
    BY <1>2
  <2>2. u = t /\ Wakeable(t) /\ ISRTimer' = [ISRTimer EXCEPT ![t] = TRUE]
    BY <1>1, <2>1 DEF WakeUp, IsrWakeUp, Wake
  <2>3. UNCHANGED <<StackPointer, TaskSleeping, pc, TaskCurrent>>
    BY <2>1 DEF WakeUp, IsrWakeUp
  <2>4. StackPointer[t] = SleepFrame /\ ~Runs(t) /\ ~(pc = "back" /\ TaskCurrent = t)
    BY <2>1, <2>2 DEF Sleepers, Wakeable, WakeUp, IsrWakeUp, CanCall
  <2>5. ISRTimer'[t]
    BY <1>1, <2>2 DEF BlocksTyped
  <2> QED BY <2>2, <2>3, <2>4, <2>5 DEF Ended, Runs, Wakeable
<1>3. CASE \E d \in SleepDelays, allow \in SwitchModes : SleepCall(d, allow)
  BY <1>1, <1>3 DEF SleepCall
<1>4. CASE \/ Boot \/ Scheduler
           \/ SendEnqueue \/ ExitOS
           \/ \E u \in Task, m \in Message : SendCheck(u, m)
           \/ \E d \in ReturnDelays : TaskReturn(d)
  BY <1>4
     DEF Boot, RunOS, InitTask, SendEnqueue, ExitOS, SendCheck, TaskReturn,
         Scheduler, LeaveRunOS, PassBy, DispatchHandler, DispatchFirst, ResumeSleeper,
         Select, Visit, SetTimer, SetTimerFirst, SetTimerSecond
<1>5. CASE \/ Tick \/ IsrExitOS \/ UNCHANGED vars
           \/ \E u \in Task, m \in IsrMessages : IsrSend(u, m)
  BY <1>5 DEF Tick, IsrExitOS, IsrSend, vars
<1> QED BY <1>2, <1>3, <1>4, <1>5 DEF Next, Call, Yield, Interrupt

\* The end of a sleep, and the value with it, stay until the task goes on.
LEMMA EndIsKept ==
  ASSUME TypeOK, Shape, Sleepers, [Next]_vars, NEW t \in Task, Ended(t)
  PROVE  TaskTypeWakeUp'[t] = TaskTypeWakeUp[t] /\ (Ended(t)' \/ Runs(t)')
<1> USE FramesDiffer DEF tcb, sleep, stacks, timers, Ended, Runs
<1>1. BlocksTyped /\ TaskTypeWakeUp \in [Task -> Int] /\ ~Wakeable(t) /\ timerOn
  BY Parts DEF TypeOK, Wakeable, Sleepers
<1>2. pc # "main" => TaskCurrent \in Task /\ Candidate \in Task
  BY CurrentInRing, CandidateInRing
<1>3. CASE Boot
  BY <1>1, <1>3 DEF Boot, InitTask, RunOS
<1>4. CASE \E u \in Task, v \in WakeValues : WakeUp(u, v) \/ IsrWakeUp(u, v)
  BY <1>1, <1>4 DEF WakeUp, IsrWakeUp, Wake, BlocksTyped
<1>5. CASE Yield
  <2>1. CASE \E d \in ReturnDelays : TaskReturn(d)
    BY <1>1, <1>2, <2>1 DEF TaskReturn, BlocksTyped
  <2>2. CASE \E d \in SleepDelays, allow \in SwitchModes : SleepCall(d, allow)
    BY <1>1, <1>2, <2>2 DEF SleepCall, BlocksTyped
  <2> QED BY <1>5, <2>1, <2>2 DEF Yield
<1>6. CASE Scheduler
  <2>1. CASE LeaveRunOS
    BY <2>1 DEF LeaveRunOS
  <2>2. CASE PassBy
    BY <1>1, <1>2, <2>2 DEF PassBy, Visit, Expired, StopCountdown, BlocksTyped
  <2>3. CASE DispatchHandler
    <3>1. Candidate \in Task
      BY <1>2, <2>3 DEF DispatchHandler, Select, Visit
    <3>2. \E e : StackPointer' = [StackPointer EXCEPT ![Candidate] = e]
      BY <2>3 DEF DispatchHandler
    <3> QED BY <1>1, <2>3, <3>1, <3>2
            DEF DispatchHandler, Select, Visit, Expired, StopCountdown, BlocksTyped
  <2>4. CASE DispatchFirst \/ ResumeSleeper
    BY <1>1, <1>2, <2>4
       DEF DispatchFirst, ResumeSleeper, Select, Visit, Expired, StopCountdown, BlocksTyped
  <2>5. CASE SetTimer
    BY <1>1, <1>2, <2>5 DEF SetTimer, StoreCountdown, StoreISRTimer, BlocksTyped
  <2>6. CASE SetTimerFirst \/ SetTimerSecond
    BY <1>1, <1>2, <2>6
       DEF SetTimerFirst, SetTimerSecond, StoreCountdown, StoreISRTimer, BlocksTyped, Sleepers
  <2> QED BY <1>6, <2>1, <2>2, <2>3, <2>4, <2>5, <2>6 DEF Scheduler
<1>7. CASE Tick
  BY <1>1, <1>7 DEF Tick, BlocksTyped
<1>8. CASE \/ SendEnqueue \/ ExitOS \/ IsrExitOS \/ UNCHANGED vars
           \/ \E u \in Task, m \in Message : SendCheck(u, m)
           \/ \E u \in Task, m \in IsrMessages : IsrSend(u, m)
  BY <1>8 DEF SendEnqueue, ExitOS, IsrExitOS, SendCheck, IsrSend, vars
<1> QED BY <1>3, <1>4, <1>5, <1>6, <1>7, <1>8 DEF Next, Call, Interrupt

\* Of the events that race for a sleeper the first decides what ktos_Sleep returns: a
\* wake-up value is set by what ends the sleep, and after its end ktos_WakeUp, the tick
\* and the scheduler leave value and end alone until the task goes on.
THEOREM FirstEventDecides == Spec => FirstEventWins
<1>1. TypeOK /\ Shape /\ Sleepers /\ [Next]_vars
      => \A t \in Task :
           /\ Ended(t) => /\ TaskTypeWakeUp'[t] = TaskTypeWakeUp[t]
                          /\ Ended(t)' \/ Runs(t)'
           /\ TaskTypeWakeUp'[t] # TaskTypeWakeUp[t] /\ TaskTypeWakeUp'[t] # 0
                => ~Ended(t) /\ Ended(t)'
  <2> SUFFICES ASSUME TypeOK, Shape, Sleepers, [Next]_vars, NEW t \in Task
               PROVE  /\ Ended(t) => /\ TaskTypeWakeUp'[t] = TaskTypeWakeUp[t]
                                     /\ Ended(t)' \/ Runs(t)'
                      /\ TaskTypeWakeUp'[t] # TaskTypeWakeUp[t] /\ TaskTypeWakeUp'[t] # 0
                           => ~Ended(t) /\ Ended(t)'
    OBVIOUS
  <2> QED BY EndIsKept, ValueEndsSleep
<1> QED BY <1>1, TypeCorrect, SleepersInvariant, PTL DEF Spec, FirstEventWins

-----------------------------------------------------------------------------

\* Of a ring C with successor function next: a part of it that leads from the successor of
\* cur up to t and does not come back to cur before.
Arc(C, next, cur, t, U) ==
  /\ U \subseteq C /\ t \in U /\ next[cur] \in U
  /\ \A u \in U \ {t} : next[u] \in U
  /\ cur \in U => cur = t

\* Following a ring from any task one comes to any other one, without passing the first.
LEMMA ArcExists ==
  ASSUME NEW C, NEW next, NEW cur \in C, NEW t \in C,
         \A u \in C : next[u] \in C,
         \A S \in SUBSET C : S # {} /\ (\A u \in S : next[u] \in S) => S = C
  PROVE  \E U : Arc(C, next, cur, t, U)
<1>1. CASE cur = t
  <2>1. Arc(C, next, cur, t, C)
    BY <1>1 DEF Arc
  <2> QED BY <2>1
<1>2. CASE cur # t
  \* Behind holds the tasks from which cur is reached without passing t.
  <2> DEFINE Back(S) == cur \in S /\ \A v \in C : next[v] \in S /\ v # t => v \in S
             Behind == {u \in C : \A S \in SUBSET C : Back(S) => u \in S}
             U == C \ Behind
  <2>1. Back(Behind)
    OBVIOUS
  <2>2. t \notin Behind
    <3>1. Back(C \ {t}) /\ C \ {t} \in SUBSET C
      BY <1>2
    <3> QED BY <3>1
  <2>3. \A b \in Behind \ {cur} : next[b] \in Behind
    <3> SUFFICES ASSUME NEW b \in Behind, b # cur, next[b] \notin Behind PROVE FALSE
      OBVIOUS
    <3>1. Back(Behind \ {b}) /\ Behind \ {b} \in SUBSET C
      BY <2>1
    <3> QED BY <3>1
  <2>4. next[cur] \notin Behind
    <3> SUFFICES ASSUME next[cur] \in Behind PROVE FALSE
      OBVIOUS
    <3>1. \A u \in Behind : next[u] \in Behind
      BY <2>3
    <3>2. Behind = C
      BY <2>1, <3>1
    <3> QED BY <2>2, <3>2
  <2>5. Arc(C, next, cur, t, U)
    BY <2>1, <2>2, <2>4 DEF Arc
  <2> QED BY <2>5
<1> QED BY <1>1, <1>2

\* One step along the ring leaves the rest of the arc.
LEMMA ArcShrinks ==
  ASSUME NEW C, NEW next, NEW cur \in C, NEW t, NEW U, Arc(C, next, cur, t, U),
         \A S \in SUBSET C : S # {} /\ (\A u \in S : next[u] \in S) => S = C,
         \A u, v \in C : next[u] = next[v] => u = v,
         next[cur] # t
  PROVE  next[cur] \in U /\ Arc(C, next, next[cur], t, U \ {next[cur]})
<1> DEFINE c == next[cur]
<1>1. c \in U /\ c \in C /\ next[c] \in U /\ t \in C
  BY DEF Arc
<1>2. next[c] # c
  <2> SUFFICES ASSUME next[c] = c PROVE FALSE
    OBVIOUS
  <2>1. {c} \in SUBSET C /\ {c} # {} /\ \A u \in {c} : next[u] \in {c}
    BY <1>1
  <2>2. {c} = C
    BY <2>1
  <2> QED BY <1>1, <2>2
<1>3. \A u \in U \ {c, t} : next[u] \in U \ {c}
  BY DEF Arc
<1> QED BY <1>1, <1>2, <1>3 DEF Arc

\* Two tasks of the ring have different successors.
Injective == \A u, v \in Created : TaskNext[u] = TaskNext[v] => u = v

\* The inductive form of OneTurnEach.  The tasks that had a turn while t has been waiting
\* are not on the way from TaskCurrent to t.
TurnInv ==
  /\ passed \in [Task -> SUBSET Task]
  /\ AllowTaskSwitch
  /\ ~timerOn => pc = "main" /\ \A t \in Task : passed[t] = {}
  /\ Injective
  /\ \A t \in Task : passed[t] # {} =>
       /\ Waits(t)
       /\ \E U : Arc(Created, TaskNext, TaskCurrent, t, U) /\ passed[t] \cap U = {}

\* What the scheduler's walk rests on.
RingFacts == TypeOK /\ Shape /\ RingIsOneCycle

\* A new block gets a predecessor of its own.
LEMMA InjectiveStep ==
  ASSUME RingFacts, Injective, [Next]_vars
  PROVE  Injective'
<1> USE DEF RingFacts
<1>1. CASE \E n \in Task : InitTask(n)
  <2>1. PICK n \in Task : InitTask(n)
    BY <1>1
  <2>2. Created' = Created \cup {n} /\ n \notin Created
    BY <2>1, LinkGrows DEF InitTask
  <2>3. CASE TaskCurrent = NULL
    BY <2>2, <2>3 DEF Shape, Injective
  <2>4. CASE TaskCurrent # NULL
    <3>1. /\ TaskCurrent \in Created
          /\ \A u \in Created : TaskNext[u] \in Created
      BY <2>4 DEF Shape
    <3>2. /\ TaskNext'[TaskCurrent] = n /\ TaskNext'[n] = TaskNext[TaskCurrent]
          /\ \A u \in Created : u # TaskCurrent => TaskNext'[u] = TaskNext[u]
      BY <2>1, <2>2, <2>4, <3>1 DEF InitTask, Link, TypeOK, Created
    <3> QED BY <2>2, <3>1, <3>2 DEF Injective
  <2> QED BY <2>3, <2>4
<1>2. CASE TaskNext' = TaskNext
  BY <1>2 DEF Injective, Created
<1> QED BY <1>1, <1>2, RingMoves

\* How TaskCurrent and the statics that matter here move.
LEMMA TurnMoves ==
  ASSUME RingFacts, TurnInv, SwitchModes \subseteq {TRUE}, [Next]_vars
  PROVE  /\ AllowTaskSwitch'
         /\ timerOn => timerOn'
         /\ ~timerOn' => pc' = "main" /\ ~Dispatches
         /\ timerOn => TaskNext' = TaskNext /\ Created' = Created
         /\ timerOn => \/ TaskCurrent' = TaskCurrent /\ ~Dispatches
                       \/ PassBy /\ TaskCurrent' = TaskNext[TaskCurrent] /\ ~Dispatches
                       \/ Dispatches /\ TaskCurrent' = TaskNext[TaskCurrent]
<1> USE DEF Dispatches, flags, tcb, Created
<1>1. AllowTaskSwitch /\ (~timerOn => pc = "main") /\ Candidate = TaskNext[TaskCurrent]
  BY DEF TurnInv, Candidate
<1>2. CASE \E t \in Task : InitTask(t)
  BY <1>1, <1>2 DEF InitTask
<1>3. CASE RunOS
  BY <1>1, <1>3 DEF RunOS
<1>4. CASE Call
  <2>1. UNCHANGED <<TaskCurrent, AllowTaskSwitch, TaskNext, timerOn, pc>>
    BY <1>4 DEF Call, SendCheck, SendEnqueue, WakeUp, ExitOS
  <2> QED BY <1>1, <2>1
<1>5. CASE Yield
  <2>1. /\ UNCHANGED <<TaskCurrent, TaskNext, timerOn>> /\ pc = "task" /\ pc' = "back"
        /\ AllowTaskSwitch' \in {AllowTaskSwitch} \cup SwitchModes
    BY <1>5 DEF Yield, TaskReturn, SleepCall
  <2> QED BY <1>1, <2>1
<1>6. CASE LeaveRunOS \/ SetTimer \/ SetTimerFirst \/ SetTimerSecond
  BY <1>1, <1>6 DEF LeaveRunOS, SetTimer, SetTimerFirst, SetTimerSecond
<1>7. CASE PassBy
  BY <1>1, <1>7 DEF PassBy, Visit
<1>8. CASE DispatchHandler \/ DispatchFirst \/ ResumeSleeper
  BY <1>1, <1>8 DEF DispatchHandler, DispatchFirst, ResumeSleeper, Select, Visit
<1>9. CASE Interrupt \/ UNCHANGED vars
  <2>1. UNCHANGED <<TaskCurrent, AllowTaskSwitch, TaskNext, timerOn, pc>>
    BY <1>9 DEF Interrupt, Tick, IsrSend, IsrWakeUp, IsrExitOS, vars
  <2> QED BY <1>1, <2>1
<1> QED BY <1>2, <1>3, <1>4, <1>5, <1>6, <1>7, <1>8, <1>9 DEF Next, Boot, Scheduler

\* A pass or a dispatch takes one task from the way to t, and the tasks that had their
\* turn stay behind.
LEMMA TurnStep ==
  ASSUME RingFacts, TurnInv, SwitchModes \subseteq {TRUE}, [TNext]_tvars
  PROVE  TurnInv'
<1>1. CASE UNCHANGED tvars
  <2>1. UNCHANGED <<vars, passed>> /\ UNCHANGED vars
    BY <1>1 DEF tvars, vars
  <2>2. Created' = Created /\ \A t \in Task : Waits(t)' = Waits(t)
    BY <2>1 DEF vars, tcb, timers, sleep, flags, Created, Waits, Ready, Runs, Expired, Num
  <2> QED BY <2>1, <2>2 DEF TurnInv, Injective, vars, tcb, flags
<1>2. CASE TNext
  <2>1. [Next]_vars /\ Watch
    BY <1>2 DEF TNext
  <2>2. passed' = [t \in Task |->
          IF ~Waits(t)' \/ ~Waits(t) THEN {}
          ELSE IF Dispatches THEN passed[t] \cup {TaskCurrent'} ELSE passed[t]]
    BY <2>1 DEF Watch
  <2>3. Injective'
    BY <2>1, InjectiveStep DEF TurnInv
  <2>4. /\ AllowTaskSwitch'
        /\ timerOn => timerOn'
        /\ ~timerOn' => pc' = "main" /\ ~Dispatches
        /\ timerOn => TaskNext' = TaskNext /\ Created' = Created
        /\ timerOn => \/ TaskCurrent' = TaskCurrent /\ ~Dispatches
                      \/ PassBy /\ TaskCurrent' = TaskNext[TaskCurrent] /\ ~Dispatches
                      \/ Dispatches /\ TaskCurrent' = TaskNext[TaskCurrent]
    BY <2>1, TurnMoves
  <2>5. ASSUME NEW t \in Task, passed'[t] # {}
        PROVE  /\ Waits(t)' /\ timerOn
               /\ \E U : Arc(Created', TaskNext', TaskCurrent', t, U) /\ passed'[t] \cap U = {}
    <3>1. Waits(t) /\ Waits(t)'
      BY <2>2, <2>5
    <3>2. passed'[t] = IF Dispatches THEN passed[t] \cup {TaskCurrent'} ELSE passed[t]
      BY <2>2, <3>1
    <3>3. timerOn
      <4>1. Dispatches => timerOn
        BY DEF Dispatches, TurnInv
      <4> QED BY <2>5, <3>2, <4>1 DEF TurnInv
    <3>4. /\ t \in Created /\ TaskCurrent \in Created
          /\ TaskNext' = TaskNext /\ Created' = Created
          /\ \A u \in Created : TaskNext[u] \in Created
          /\ \A S \in SUBSET Created : S # {} /\ (\A u \in S : TaskNext[u] \in S) => S = Created
          /\ \A u, v \in Created : TaskNext[u] = TaskNext[v] => u = v
      BY <2>4, <3>1, <3>3 DEF Waits, RingFacts, RingIsOneCycle, TurnInv, Injective, Shape
    <3>5. PICK U : Arc(Created, TaskNext, TaskCurrent, t, U) /\ passed[t] \cap U = {}
      <4>1. CASE passed[t] = {}
        BY <3>4, <4>1, ArcExists
      <4>2. CASE passed[t] # {}
        BY <4>2 DEF TurnInv
      <4> QED BY <4>1, <4>2
    <3>6. CASE TaskCurrent' = TaskCurrent /\ ~Dispatches
      BY <3>1, <3>2, <3>3, <3>4, <3>5, <3>6
    <3>7. CASE /\ TaskCurrent' = TaskNext[TaskCurrent]
               /\ (PassBy /\ ~Dispatches) \/ Dispatches
      <4>1. TaskNext[TaskCurrent] # t
        <5>1. CASE PassBy
          <6>1. ~Ready(TaskNext[TaskCurrent])
            BY <5>1 DEF PassBy, Candidate, TurnInv
          <6> QED BY <3>1, <6>1 DEF Waits
        <5>2. CASE Dispatches
          BY <3>1, <3>7, <5>2 DEF Waits, Runs, Dispatches
        <5> QED BY <3>7, <5>1, <5>2
      <4> DEFINE c == TaskNext[TaskCurrent]
      <4>2. c \in U /\ Arc(Created, TaskNext, c, t, U \ {c})
        BY <3>4, <3>5, <4>1, ArcShrinks
      <4>3. passed'[t] \cap (U \ {c}) = {}
        BY <3>2, <3>5, <3>7
      <4>4. Arc(Created', TaskNext', TaskCurrent', t, U \ {c})
        BY <3>4, <3>7, <4>2
      <4> QED BY <3>1, <3>3, <4>3, <4>4
    <3> QED BY <2>4, <3>3, <3>6, <3>7
  <2>6. passed' \in [Task -> SUBSET Task]
    <3>1. Dispatches => TaskCurrent' \in Task
      <4>1. Dispatches => timerOn
        BY DEF Dispatches, TurnInv
      <4>2. pc = "loop" => TaskNext[TaskCurrent] \in Task
        BY DEF RingFacts, TypeOK, Shape, Created
      <4> QED BY <2>4, <4>1, <4>2 DEF Dispatches
    <3>2. \A t \in Task : (IF ~Waits(t)' \/ ~Waits(t) THEN {}
             ELSE IF Dispatches THEN passed[t] \cup {TaskCurrent'} ELSE passed[t]) \in SUBSET Task
      BY <3>1 DEF TurnInv
    <3> QED BY <2>2, <3>2
  <2>7. ~timerOn' => \A t \in Task : passed'[t] = {}
    BY <2>4, <2>5
  <2> QED BY <2>3, <2>4, <2>5, <2>6, <2>7 DEF TurnInv
<1> QED BY <1>1, <1>2 DEF TNext

\* Round robin: between the moment a task is ready and its turn nobody has two turns,
\* whatever the tasks and the interrupt handlers do, as long as no task calls ktos_Sleep
\* with HALT_TASK_SWITCH: then the sleeper is the next one to run, and may have run before.
THEOREM RoundRobin ==
  ASSUME SwitchModes \subseteq {TRUE}
  PROVE  TSpec => OneTurnEach
<1>1. TSpec => Spec
  <2>1. TInit => Init
    BY DEF TInit
  <2>2. [TNext]_tvars => [Next]_vars
    BY DEF TNext, tvars
  <2> QED BY <2>1, <2>2, PTL DEF TSpec, Spec
<1>2. TSpec => []RingFacts
  BY <1>1, TypeCorrect, OneRing, PTL DEF RingFacts
<1>3. TInit => TurnInv
  BY ConstantFacts DEF TInit, Init, TurnInv, Injective, Created
<1>4. RingFacts /\ TurnInv /\ [TNext]_tvars => TurnInv'
  BY TurnStep
<1>5. TSpec => []TurnInv
  BY <1>2, <1>3, <1>4, PTL DEF TSpec
<1>6. RingFacts /\ TurnInv /\ [TNext]_tvars =>
        (Dispatches =>
           \A t \in Task \ {TaskCurrent'} : Waits(t) => TaskCurrent' \notin passed[t])
  <2> SUFFICES ASSUME RingFacts, TurnInv, [TNext]_tvars, Dispatches,
                      NEW t \in Task, passed[t] # {}
               PROVE  TaskCurrent' \notin passed[t]
    OBVIOUS
  <2>1. TaskCurrent' = TaskNext[TaskCurrent]
    <3>1. timerOn /\ pc = "loop" /\ pc' = "task"
      BY DEF Dispatches, TurnInv
    <3>2. [Next]_vars
      BY <3>1 DEF TNext, tvars, vars
    <3> QED BY <3>1, <3>2, TurnMoves
  <2>2. PICK U : Arc(Created, TaskNext, TaskCurrent, t, U) /\ passed[t] \cap U = {}
    BY DEF TurnInv
  <2> QED BY <2>1, <2>2 DEF Arc
<1> QED BY <1>2, <1>5, <1>6, PTL DEF TSpec, OneTurnEach
=============================================================================
