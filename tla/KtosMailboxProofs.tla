------------------------- MODULE KtosMailboxProofs -------------------------
(***************************************************************************)
(* Systems whose interrupt handlers send no messages: every queue is a     *)
(* bounded FIFO, whatever the tasks do, and if the tasks only return, the  *)
(* whole kernel implements KtosActors, and the kernel of HandlerTasks that *)
(* the example programs are written against.  (With senders in handlers a  *)
(* queue is no FIFO: see KtosQueue.)                                       *)
(***************************************************************************)
EXTENDS KtosProofs, KtosPrograms

\* What keeps QueuesConsistent and PendingHasRoom inductive: a block that
\* ktos_InitTask has not prepared yet has no messages to lose.
MailKept ==
  /\ QueuesConsistent
  /\ PendingHasRoom
  /\ \A t \in Task \ Created : Num(t) = 0

\* One mailbox's step, seen from outside.
MailboxStep(t) ==
  LET old == Contents(QCapacity[t], MsgQueue[t])
      new == Contents(QCapacity[t], MsgQueue'[t])
  IN \/ new = old
     \/ \E m \in Message : Len(old) < QCapacity[t] /\ new = Append(old, m)
     \/ old # << >> /\ new = Tail(old)

LEMMA QueueFacts ==
  ASSUME TypeOK, NEW t \in Task
  PROVE  /\ QCapacity[t] \in Nat \ {0}
         /\ MsgQueue[t] \in RingOf(QCapacity[t], Message \cup {Filler})
         /\ Num(t) \in Nat
BY ConstantFacts DEF TypeOK, Num, RingOf

\* Where no handler sends, these are the steps that touch a queue.
LEMMA QueueChanges ==
  ASSUME TypeOK, Shape, IsrMessages = {}, [Next]_vars
  PROVE  \/ MsgQueue' = MsgQueue
         \/ \E t \in Task : InitTask(t)
         \/ SendEnqueue
         \/ DispatchHandler /\ HasMail(Candidate)
<1> USE DEF tcb
<1>1. CASE Boot \/ Call
  BY <1>1 DEF Boot, RunOS, Call, SendCheck, WakeUp, ExitOS
<1>2. CASE Yield
  BY <1>2 DEF Yield, TaskReturn, SleepCall
<1>3. CASE Scheduler
  BY <1>3
     DEF Scheduler, LeaveRunOS, PassBy, DispatchHandler, DispatchFirst, ResumeSleeper,
         SetTimer, SetTimerFirst, SetTimerSecond
<1>4. CASE Interrupt \/ UNCHANGED vars
  BY <1>4 DEF Interrupt, Tick, IsrSend, IsrWakeUp, IsrExitOS, vars
<1> QED BY <1>1, <1>2, <1>3, <1>4 DEF Next

\* The room a pending call saw is still there: only its own enqueue, made with
\* the processor to itself, could take it.
LEMMA PendingStep ==
  ASSUME TypeOK, Shape, MailKept, IsrMessages = {}, [Next]_vars
  PROVE  PendingHasRoom'
<1> USE DEF tcb, PendingHasRoom, Num
<1>1. PendingHasRoom /\ CallTyped
  BY Parts DEF MailKept
<1>2. CASE \E t \in Task, m \in Message : SendCheck(t, m)
  <2>1. PICK t \in Task, m \in Message : SendCheck(t, m)
    BY <1>2
  <2>2. outgoing' = <<t, m>> /\ MsgQueue' = MsgQueue /\ MsgQueue[t].num < QCapacity[t]
    BY <2>1, QueueFacts DEF SendCheck, IsFull
  <2> QED BY <2>2
<1>3. CASE outgoing' = NoCall
  BY <1>3
<1>4. CASE outgoing' = outgoing /\ MsgQueue' = MsgQueue
  BY <1>1, <1>4
<1>5. CASE Boot \/ Call
  BY <1>2, <1>3, <1>4, <1>5 DEF Boot, RunOS, InitTask, Call, SendEnqueue, WakeUp, ExitOS
<1>6. CASE Yield
  BY <1>3, <1>6 DEF Yield, TaskReturn, SleepCall
<1>7. CASE Scheduler
  <2>1. outgoing' = outgoing /\ pc \notin {"main", "task"}
    BY <1>7 DEF Scheduler, LeaveRunOS, PassBy, DispatchHandler, DispatchFirst,
                ResumeSleeper, Select, Visit, SetTimer, SetTimerFirst, SetTimerSecond
  <2>2. CASE LeaveRunOS
    BY <1>4, <2>2 DEF LeaveRunOS
  <2> QED BY <1>1, <1>3, <2>1 DEF CallTyped
<1>8. CASE Interrupt \/ UNCHANGED vars
  BY <1>4, <1>8 DEF Interrupt, Tick, IsrSend, IsrWakeUp, IsrExitOS, vars
<1> QED BY <1>5, <1>6, <1>7, <1>8 DEF Next

\* A delivery into a queue that has room.
LEMMA DeliveryAppends ==
  ASSUME TypeOK, NEW t \in Task, NEW m \in Message,
         RingConsistent(QCapacity[t], MsgQueue[t]), MsgQueue[t].num < QCapacity[t]
  PROVE  LET e   == Enqueue(QCapacity[t], MsgQueue[t], m)
             old == Contents(QCapacity[t], MsgQueue[t])
         IN /\ RingConsistent(QCapacity[t], e)
            /\ Contents(QCapacity[t], e) = Append(old, m)
            /\ Len(old) < QCapacity[t]
<1>1. /\ QCapacity[t] \in Nat \ {0} /\ m \in Message \cup {Filler}
      /\ MsgQueue[t] \in RingOf(QCapacity[t], Message \cup {Filler})
      /\ MsgQueue[t].num \in Nat
  BY QueueFacts DEF Num
<1>2. Len(Contents(QCapacity[t], MsgQueue[t])) = MsgQueue[t].num
  BY <1>1, ContentsIsSeq
<1> QED BY <1>1, <1>2, EnqueueAppends

\* A step changes one queue at most, by one message at most.
LEMMA MailboxesStep ==
  ASSUME TypeOK, Shape, MailKept, IsrMessages = {}, [Next]_vars
  PROVE  MailKept' /\ \A t \in Task : MailboxStep(t)
<1> USE DEF MailboxStep
<1>1. Created \subseteq Created'
  BY RingMoves, LinkGrows DEF Created
<1>2. DOMAIN MsgQueue = Task
  BY DEF TypeOK
<1>3. \A t \in Task : RingConsistent(QCapacity[t], MsgQueue[t])
  BY DEF MailKept, QueuesConsistent
<1>4. SUFFICES /\ \A t \in Task : RingConsistent(QCapacity[t], MsgQueue'[t])
               /\ \A t \in Task \ Created' : MsgQueue'[t].num = 0
               /\ \A t \in Task : MailboxStep(t)
  BY PendingStep DEF MailKept, QueuesConsistent, Num
<1>5. CASE MsgQueue' = MsgQueue
  BY <1>1, <1>3, <1>5 DEF MailKept, Num
<1>6. ASSUME NEW u \in Task, NEW r, u \in Created',
             MsgQueue' = [MsgQueue EXCEPT ![u] = r],
             RingConsistent(QCapacity[u], r),
             LET old == Contents(QCapacity[u], MsgQueue[u])
                 new == Contents(QCapacity[u], r)
             IN \/ new = old
                \/ \E m \in Message : Len(old) < QCapacity[u] /\ new = Append(old, m)
                \/ old # << >> /\ new = Tail(old)
      PROVE  /\ \A t \in Task : RingConsistent(QCapacity[t], MsgQueue'[t])
             /\ \A t \in Task \ Created' : MsgQueue'[t].num = 0
             /\ \A t \in Task : MailboxStep(t)
  <2>1. MsgQueue'[u] = r /\ \A t \in Task : t # u => MsgQueue'[t] = MsgQueue[t]
    BY <1>2, <1>6
  <2> QED BY <1>1, <1>3, <1>6, <2>1 DEF MailKept, Num
<1>7. CASE \E t \in Task : InitTask(t)
  <2>1. PICK t \in Task : InitTask(t)
    BY <1>7
  <2> DEFINE e == EmptyRing(QCapacity[t], Filler)
  <2>2. t \in Created' /\ MsgQueue' = [MsgQueue EXCEPT ![t] = e] /\ MsgQueue[t].num = 0
    BY <2>1, LinkGrows DEF InitTask, MailKept, Num
  <2>3. RingConsistent(QCapacity[t], e) /\ Contents(QCapacity[t], e) = << >>
    BY QueueFacts, EmptyRingHolds
  <2>4. Contents(QCapacity[t], MsgQueue[t]) = << >>
    BY <1>3, <2>2, QueueFacts, ContentsIsSeq DEF RingConsistent
  <2> QED BY <1>6, <2>2, <2>3, <2>4
<1>8. CASE SendEnqueue
  <2> DEFINE t == outgoing[1]
             m == outgoing[2]
             e == Enqueue(QCapacity[t], MsgQueue[t], m)
  <2>1. t \in Task /\ m \in Message /\ t \in Created
    BY <1>8 DEF SendEnqueue, Shape
  <2>2. MsgQueue' = [MsgQueue EXCEPT ![t] = e]
    BY <1>8 DEF SendEnqueue, Deliver
  <2>3. MsgQueue[t].num < QCapacity[t]
    BY <1>8 DEF SendEnqueue, MailKept, PendingHasRoom, Num
  <2>4. /\ RingConsistent(QCapacity[t], e)
        /\ Contents(QCapacity[t], e) = Append(Contents(QCapacity[t], MsgQueue[t]), m)
        /\ Len(Contents(QCapacity[t], MsgQueue[t])) < QCapacity[t]
    BY <1>3, <2>1, <2>3, DeliveryAppends
  <2> QED BY <1>1, <1>6, <2>1, <2>2, <2>4
<1>9. CASE DispatchHandler /\ HasMail(Candidate)
  <2>1. Candidate \in Task /\ Candidate \in Created
    BY <1>9, CandidateInRing DEF DispatchHandler, Select, Visit
  <2> DEFINE d == Dequeue(QCapacity[Candidate], MsgQueue[Candidate])
  <2>2. MsgQueue' = [MsgQueue EXCEPT ![Candidate] = d] /\ MsgQueue[Candidate].num # 0
    BY <1>9 DEF DispatchHandler, HasMail, Num
  <2>3. /\ RingConsistent(QCapacity[Candidate], d)
        /\ Contents(QCapacity[Candidate], MsgQueue[Candidate]) # << >>
        /\ Contents(QCapacity[Candidate], d)
             = Tail(Contents(QCapacity[Candidate], MsgQueue[Candidate]))
    BY <1>3, <2>1, <2>2, QueueFacts, DequeueTakesHead
  <2> QED BY <1>1, <1>6, <2>1, <2>2, <2>3
<1> QED BY <1>5, <1>7, <1>8, <1>9, QueueChanges

LEMMA MailboxesInvariant ==
  ASSUME IsrMessages = {}
  PROVE  Spec => []MailKept
<1>1. Init => MailKept
  <2> SUFFICES ASSUME Init PROVE MailKept
    OBVIOUS
  <2>1. \A t \in Task : /\ MsgQueue[t] = EmptyRing(QCapacity[t], Filler)
                        /\ QCapacity[t] \in Nat \ {0}
    BY ConstantFacts DEF Init
  <2>2. \A t \in Task : RingConsistent(QCapacity[t], MsgQueue[t]) /\ MsgQueue[t].num = 0
    BY <2>1, EmptyRingHolds
  <2> QED BY <2>2 DEF Init, MailKept, QueuesConsistent, PendingHasRoom, Num
<1>2. (TypeOK /\ Shape) /\ MailKept /\ [Next]_vars => MailKept'
  BY MailboxesStep
<1> QED BY <1>1, <1>2, TypeCorrect, PTL DEF Spec

\* Between the test of ktos_SendMsg and its enqueue nobody else fills the queue.
THEOREM PendingKeepsRoom ==
  ASSUME IsrMessages = {}
  PROVE  Spec => []PendingHasRoom
BY MailboxesInvariant, PTL DEF MailKept

\* The counter of every queue agrees with its two pointers and its array.
THEOREM QueuesStayConsistent ==
  ASSUME IsrMessages = {}
  PROVE  Spec => []QueuesConsistent
BY MailboxesInvariant, PTL DEF MailKept

\* Every queue of the kernel implements the bounded FIFO.
THEOREM MailboxRefinement ==
  ASSUME IsrMessages = {}
  PROVE  Spec => MailboxesAreFifo
<1>1. Init => \A t \in Task : Mailbox(t)!Init
  <2> SUFFICES ASSUME Init, NEW t \in Task PROVE Mailbox(t)!Init
    OBVIOUS
  <2>1. MsgQueue[t] = EmptyRing(QCapacity[t], Filler) /\ QCapacity[t] \in Nat \ {0}
    BY ConstantFacts DEF Init
  <2>2. Contents(QCapacity[t], EmptyRing(QCapacity[t], Filler)) = << >>
    BY <2>1, EmptyRingHolds
  <2> QED BY <2>1, <2>2 DEF Mailbox!Init
<1>2. (TypeOK /\ Shape) /\ MailKept /\ [Next]_vars
      => \A t \in Task : [Mailbox(t)!Next]_(Contents(QCapacity[t], MsgQueue[t]))
  BY MailboxesStep DEF MailboxStep, Mailbox!Next, Mailbox!Put, Mailbox!Get
<1> QED BY <1>1, <1>2, TypeCorrect, MailboxesInvariant, PTL DEF Spec, MailboxesAreFifo

-----------------------------------------------------------------------------
(* The kernel implements KtosActors: no ktos_Sleep, no sends from handlers,  *)
(* and a HAL that keeps the interrupt flag in its frames.                    *)

\* What the step simulation needs beyond the invariants above.  Nobody sleeps;
\* the scheduler's two timer stores are one; a stack that has not run yet holds
\* INIT and nothing else; and a block outside the ring, which the tick does not
\* reach, has nothing to count down.
HandlerModel ==
  /\ pc # "half" /\ (pc = "back" => ~irq)
  /\ \A t \in Task : ~TaskSleeping[t] /\ StackPointer[t] # SleepFrame
  /\ \A t \in Task : StackPointer[t] \in Event /\ ~Runs(t) => StackPointer[t] = INIT
  /\ \A t \in Task \ Created : CountdownTimer[t] = 0 /\ ~ISRTimer[t]

LEMMA HandlerModelStep ==
  ASSUME SavesIrq, SleepDelays = {},
         TypeOK, Shape, RingIsOneCycle, Marks, HandlerModel, [Next]_vars
  PROVE  HandlerModel'
<1> USE FramesDiffer DEF HandlerModel, Runs, tcb, stacks, sleep, timers
<1>1. BlocksTyped
  BY Parts
<1>2. pc # "main" => /\ TaskCurrent \in Task /\ TaskCurrent \in Created
                     /\ Candidate \in Task /\ Candidate \in Created
  BY CurrentInRing, CandidateInRing
<1>3. Created \subseteq Created'
  BY RingMoves, LinkGrows DEF Created
<1>4. CASE \E t \in Task : InitTask(t)
  <2>1. PICK t \in Task : InitTask(t)
    BY <1>4
  <2>2. Created' = Created \cup {t}
    BY <2>1, LinkGrows
  <2> QED BY <1>1, <2>1, <2>2 DEF InitTask, BlocksTyped
<1>5. CASE RunOS \/ Call
  BY <1>3, <1>5, <1>1
     DEF RunOS, Call, SendCheck, SendEnqueue, WakeUp, Wake, Wakeable, ExitOS, CanCall,
         BlocksTyped, Shape
<1>6. CASE \E d \in ReturnDelays : TaskReturn(d)
  BY <1>1, <1>2, <1>3, <1>6 DEF TaskReturn, SchedulerFlag, BlocksTyped
<1>7. CASE LeaveRunOS \/ PassBy
  BY <1>2, <1>3, <1>7 DEF LeaveRunOS, PassBy, Visit, Expired
<1>8. CASE DispatchHandler
  <2>1. Candidate \in Task /\ pc = "loop" /\ pc' = "task" /\ TaskCurrent' = Candidate
    BY <1>2, <1>8 DEF DispatchHandler, Select, Visit
  <2>2. \E e \in Event : StackPointer' = [StackPointer EXCEPT ![Candidate] = e]
    <3>1. HasMail(Candidate) => Oldest(MsgQueue[Candidate]) \in Event
      BY <2>1, DequeueTyped, Parts DEF Event
    <3>2. TIMER \in Event
      BY DEF Event
    <3> QED BY <1>8, <3>1, <3>2 DEF DispatchHandler
  <2>3. UNCHANGED <<timers, TaskSleeping>>
    BY <1>8, <2>1 DEF DispatchHandler, Select, Visit, Expired
  <2> QED BY <1>1, <1>3, <2>1, <2>2, <2>3 DEF BlocksTyped
<1>9. CASE DispatchFirst
  BY <1>2, <1>3, <1>9 DEF DispatchFirst, Select, Visit, Expired
<1>10. CASE SetTimer
  <2>1. StackPointer[TaskCurrent] \in Event => StackPointer[TaskCurrent] = INIT
    BY <1>2, <1>10 DEF SetTimer
  <2> QED BY <1>1, <1>2, <1>3, <1>10, <2>1
          DEF SetTimer, StoreCountdown, StoreISRTimer, BlocksTyped
<1>11. CASE Tick
  BY <1>1, <1>3, <1>11 DEF Tick, BlocksTyped
<1>12. CASE \/ \E t \in Task, m \in IsrMessages : IsrSend(t, m)
            \/ \E t \in Task, v \in WakeValues : IsrWakeUp(t, v)
            \/ IsrExitOS
  BY <1>3, <1>12 DEF IsrSend, IsrWakeUp, Wake, Wakeable, IsrExitOS
<1>13. CASE UNCHANGED vars
  BY <1>3, <1>13 DEF vars
<1>14. ~(ResumeSleeper \/ SetTimerFirst \/ SetTimerSecond)
  BY <1>2 DEF ResumeSleeper, Select, Visit, SetTimerFirst, SetTimerSecond
<1>15. ~\E d \in SleepDelays, allow \in SwitchModes : SleepCall(d, allow)
  OBVIOUS
<1> QED BY <1>4, <1>5, <1>6, <1>7, <1>8, <1>9, <1>10, <1>11, <1>12, <1>13, <1>14, <1>15
        DEF Next, Boot, Yield, Scheduler, Interrupt

LEMMA HandlerModelInvariant ==
  ASSUME SavesIrq, SleepDelays = {}
  PROVE  Spec => []HandlerModel
<1>1. Init => HandlerModel
  BY FramesDiffer DEF Init, HandlerModel
<1>2. (TypeOK /\ Shape) /\ RingIsOneCycle /\ (Marks /\ Halts) /\ HandlerModel /\ [Next]_vars
      => HandlerModel'
  BY HandlerModelStep
<1> QED BY <1>1, <1>2, TypeCorrect, OneRing, ControlInvariant, PTL DEF Spec

\* Steps that the actors do not see as far as the jobs are concerned: no stack
\* changes, and nobody starts or ends to run.
LEMMA SameJobs ==
  ASSUME TaskNext' = TaskNext, StackPointer' = StackPointer,
         pc' = "task" <=> pc = "task", pc = "task" => TaskCurrent' = TaskCurrent
  PROVE  Created' = Created /\ FreshTasks' = FreshTasks /\ JobUnderWay' = JobUnderWay
BY DEF Created, FreshTasks, Runs, JobUnderWay

\* The same for the alarms.
LEMMA SameAlarms ==
  ASSUME UNCHANGED timers, pc # "back", pc' # "back"
  PROVE  Alarms' = Alarms
BY DEF Alarms, timers

LEMMA SameMailboxes == MsgQueue' = MsgQueue => Mailboxes' = Mailboxes
BY DEF Mailboxes

\* A change to one queue is a change to one mailbox.
LEMMA OneMailboxChanges ==
  ASSUME TypeOK, NEW t \in Task, NEW r, MsgQueue' = [MsgQueue EXCEPT ![t] = r]
  PROVE  Mailboxes' = [Mailboxes EXCEPT ![t] = Contents(QCapacity[t], r)]
<1>1. DOMAIN MsgQueue = Task
  BY DEF TypeOK
<1>2. \A u \in Task : MsgQueue'[u] = IF u = t THEN r ELSE MsgQueue[u]
  BY <1>1
<1>3. \A u \in Task : Mailboxes'[u] =
        IF u = t THEN Contents(QCapacity[t], r) ELSE Mailboxes[u]
  BY <1>2 DEF Mailboxes
<1> QED BY <1>3, Zenon DEF Mailboxes

\* ktos_InitTask creates an actor that had no job, whose alarm has run out.
LEMMA InitTaskCreates ==
  ASSUME TypeOK, Shape, MailKept, HandlerModel, NEW t \in Task, InitTask(t)
  PROVE  Actors!Create(t)
<1>1. BlocksTyped /\ pc = "main" /\ pc' = "main"
  BY Parts DEF InitTask
<1>2. t \notin Created /\ Created' = Created \cup {t}
  BY LinkGrows DEF InitTask
<1>3. JobUnderWay = NoCall /\ JobUnderWay' = JobUnderWay
  BY <1>1 DEF JobUnderWay
<1>4. FreshTasks' = FreshTasks \cup {t}
  BY <1>1, <1>2 DEF FreshTasks, Runs, InitTask, BlocksTyped, Event
<1>5. Alarms' = [Alarms EXCEPT ![t] = 0]
  <2>1. \A u \in Task : Alarms'[u] = IF u = t THEN 0 ELSE Alarms[u]
    BY <1>1 DEF Alarms, AlarmOf, InitTask, BlocksTyped
  <2> QED BY <2>1 DEF Alarms
<1>6. Mailboxes' = Mailboxes
  <2>1. MsgQueue[t].num = 0 /\ RingConsistent(QCapacity[t], MsgQueue[t])
    BY <1>2 DEF MailKept, QueuesConsistent, Num
  <2>2. Contents(QCapacity[t], MsgQueue[t]) = << >>
    BY <2>1, QueueFacts, ContentsIsSeq DEF RingConsistent
  <2>3. Contents(QCapacity[t], EmptyRing(QCapacity[t], Filler)) = << >>
    BY QueueFacts, EmptyRingHolds
  <2> QED BY <2>2, <2>3, OneMailboxChanges DEF InitTask, Mailboxes
<1> QED BY <1>2, <1>3, <1>4, <1>5, <1>6 DEF Actors!Create

\* The enqueue puts the message at the end of the mailbox.
LEMMA EnqueuePosts ==
  ASSUME TypeOK, Shape, MailKept, HandlerModel, SendEnqueue
  PROVE  Actors!Post(outgoing[1], outgoing[2]) /\ outgoing \in Task \X Message
<1> DEFINE t == outgoing[1]
           m == outgoing[2]
<1>1. /\ t \in Task /\ m \in Message /\ t \in Created /\ outgoing \in Task \X Message
      /\ pc \in {"main", "task"}
  BY DEF SendEnqueue, Shape
<1>2. /\ RingConsistent(QCapacity[t], MsgQueue[t]) /\ MsgQueue[t].num < QCapacity[t]
  BY <1>1 DEF SendEnqueue, MailKept, QueuesConsistent, PendingHasRoom, Num
<1>3. /\ Contents(QCapacity[t], Enqueue(QCapacity[t], MsgQueue[t], m))
           = Append(Contents(QCapacity[t], MsgQueue[t]), m)
      /\ Len(Contents(QCapacity[t], MsgQueue[t])) < QCapacity[t]
  BY <1>1, <1>2, DeliveryAppends
<1>4. /\ Mailboxes' = [Mailboxes EXCEPT ![t] = Append(Mailboxes[t], m)]
      /\ Len(Mailboxes[t]) < QCapacity[t]
  <2>1. MsgQueue' = [MsgQueue EXCEPT ![t] = Enqueue(QCapacity[t], MsgQueue[t], m)]
    BY DEF SendEnqueue, Deliver
  <2>2. Mailboxes[t] = Contents(QCapacity[t], MsgQueue[t])
    BY <1>1 DEF Mailboxes
  <2>3. Mailboxes' = [Mailboxes EXCEPT
               ![t] = Contents(QCapacity[t], Enqueue(QCapacity[t], MsgQueue[t], m))]
    BY <1>1, <2>1, OneMailboxChanges
  <2> QED BY <1>3, <2>2, <2>3
<1>5. UNCHANGED <<Created, FreshTasks, Alarms, JobUnderWay>>
  BY <1>1, SameJobs, SameAlarms DEF SendEnqueue, stacks
<1> QED BY <1>1, <1>4, <1>5 DEF Actors!Post

\* The tick counts down every alarm that is set, and no other.
LEMMA TickTicks ==
  ASSUME TypeOK, Shape, HandlerModel, TaskCurrent # NULL => Walked = Created, Tick
  PROVE  Actors!Tick \/ UNCHANGED Actors!avars
<1>1. BlocksTyped /\ pc # "back" /\ pc' = pc /\ TaskCurrent' = TaskCurrent
  BY Parts DEF Tick, HandlerModel
<1>2. Mailboxes' = Mailboxes
  BY SameMailboxes DEF Tick
<1>3. UNCHANGED <<Created, FreshTasks, JobUnderWay>>
  BY <1>1, SameJobs DEF Tick, stacks
<1>4. \A t \in Task : t \in Walked \/ (CountdownTimer[t] = 0 /\ ~ISRTimer[t])
  BY DEF HandlerModel, Shape
<1>5. ASSUME NEW t \in Task
      PROVE  Alarms'[t] = IF Alarms[t] > 0 THEN Alarms[t] - 1 ELSE Alarms[t]
  <2>1. CountdownTimer[t] \in Nat /\ ISRTimer[t] \in BOOLEAN
    <3>1. CountdownTimer[t] \in Word /\ ISRTimer[t] \in BOOLEAN
      BY <1>1 DEF BlocksTyped
    <3> QED BY <3>1 DEF Word
  <2>2. /\ Alarms[t] = AlarmOf(CountdownTimer[t], ISRTimer[t])
        /\ Alarms'[t] = AlarmOf(CountdownTimer'[t], ISRTimer'[t])
    BY <1>1 DEF Alarms
  <2>3. /\ CountdownTimer'[t] = IF CountdownTimer[t] # 0 THEN CountdownTimer[t] - 1 ELSE 0
        /\ ISRTimer'[t] <=> ISRTimer[t] \/ CountdownTimer[t] = 1
    <3>1. CountdownTimer'[t] = IF t \in Walked /\ CountdownTimer[t] # 0
                                 THEN CountdownTimer[t] - 1 ELSE CountdownTimer[t]
      BY DEF Tick
    <3>2. ISRTimer'[t] <=> ISRTimer[t] \/ (t \in Walked /\ CountdownTimer[t] = 1)
      BY Zenon DEF Tick
    <3>3. t \notin Walked => CountdownTimer[t] = 0
      BY <1>4
    <3> QED BY <2>1, <3>1, <3>2, <3>3
  <2>4. CASE ISRTimer[t]
    BY <2>2, <2>3, <2>4 DEF AlarmOf
  <2>5. CASE ~ISRTimer[t]
    BY <2>1, <2>2, <2>3, <2>5 DEF AlarmOf
  <2> QED BY <2>4, <2>5
<1>6. Alarms' = [t \in Task |-> IF Alarms[t] > 0 THEN Alarms[t] - 1 ELSE Alarms[t]]
  BY <1>5 DEF Alarms
<1> QED BY <1>2, <1>3, <1>6 DEF Actors!Tick

\* A pass that enters a task leaves its alarm alone.
LEMMA SelectKeeps ==
  ASSUME TypeOK, Shape, HandlerModel, NEW t \in Task, Select(t)
  PROVE  /\ Created' = Created /\ Alarms' = Alarms /\ JobUnderWay = NoCall
         /\ JobUnderWay' = <<t, StackPointer'[t]>>
         /\ Num(t) # 0 \/ Alarms[t] = 0
<1>1. pc = "loop" /\ pc' = "task" /\ TaskCurrent' = t /\ TaskNext' = TaskNext
  BY DEF Select, Visit
<1>2. UNCHANGED timers /\ Ready(t) /\ ~Expired(t)
  BY DEF Select, Visit, Expired, HandlerModel
<1>3. Alarms' = Alarms
  BY <1>1, <1>2, SameAlarms
<1>4. Num(t) # 0 \/ Alarms[t] = 0
  BY <1>1, <1>2 DEF Ready, Alarms, AlarmOf
<1> QED BY <1>1, <1>3, <1>4 DEF Created, JobUnderWay

LEMMA FirstStarts ==
  ASSUME TypeOK, Shape, Marks, HandlerModel, DispatchFirst
  PROVE  Actors!StartFirst(Candidate) /\ Candidate \in Task
<1>1. Candidate \in Task /\ Candidate \in Created /\ pc = "loop" /\ pc' = "task"
  BY CandidateInRing DEF DispatchFirst, Select, Visit
<1>2. TaskCurrent' = Candidate /\ StackPointer' = StackPointer /\ MsgQueue' = MsgQueue
  BY DEF DispatchFirst, Select, Visit, stacks
<1>3. StackPointer[Candidate] \in Event
  BY <1>1, Parts DEF DispatchFirst, Marks, ReinitIffReturned, BlocksTyped, Frame
<1>4. StackPointer[Candidate] = INIT /\ Candidate \in FreshTasks
  BY <1>1, <1>3 DEF HandlerModel, Runs, FreshTasks
<1>5. /\ Created' = Created /\ Alarms' = Alarms /\ JobUnderWay = NoCall
      /\ JobUnderWay' = <<Candidate, StackPointer'[Candidate]>>
  BY <1>1, SelectKeeps DEF DispatchFirst
<1>6. FreshTasks' = FreshTasks \ {Candidate}
  BY <1>1, <1>2, <1>5 DEF FreshTasks, Runs
<1>7. Mailboxes' = Mailboxes
  BY <1>2, SameMailboxes
<1> QED BY <1>1, <1>2, <1>4, <1>5, <1>6, <1>7 DEF Actors!StartFirst

\* A function that has returned is called with the head of its mailbox, or with
\* TIMER when there is none and the alarm has run out.
LEMMA HandlerStarts ==
  ASSUME TypeOK, Shape, Marks, MailKept, HandlerModel, DispatchHandler
  PROVE  /\ Actors!StartMessage(Candidate) \/ Actors!StartTimer(Candidate)
         /\ Candidate \in Task
<1> DEFINE t == Candidate
<1> USE FramesDiffer
<1>1. BlocksTyped /\ t \in Task /\ t \in Created /\ pc = "loop" /\ pc' = "task"
  BY Parts, CandidateInRing DEF DispatchHandler, Select, Visit
<1>2. TaskCurrent' = t /\ StackPointer[t] = ExitFrame
  BY <1>1 DEF DispatchHandler, Select, Visit, Marks, ReinitIffReturned
<1>3. /\ Created' = Created /\ Alarms' = Alarms /\ JobUnderWay = NoCall
      /\ JobUnderWay' = <<t, StackPointer'[t]>>
      /\ Num(t) # 0 \/ Alarms[t] = 0
  BY <1>1, SelectKeeps DEF DispatchHandler
<1>4. t \notin FreshTasks /\ FreshTasks' = FreshTasks
  <2>1. \E e : StackPointer' = [StackPointer EXCEPT ![t] = e]
    BY DEF DispatchHandler
  <2>2. \A u \in Task : u # t => StackPointer'[u] = StackPointer[u]
    BY <1>1, <2>1 DEF BlocksTyped
  <2> QED BY <1>1, <1>2, <1>3, <2>2 DEF FreshTasks, Runs, Created
<1>5. RingConsistent(QCapacity[t], MsgQueue[t]) /\ Mailboxes[t] = Contents(QCapacity[t], MsgQueue[t])
  BY <1>1 DEF MailKept, QueuesConsistent, Mailboxes
<1>6. CASE HasMail(t)
  <2>1. /\ Mailboxes[t] # << >> /\ Oldest(MsgQueue[t]) = Head(Mailboxes[t])
        /\ Contents(QCapacity[t], Dequeue(QCapacity[t], MsgQueue[t])) = Tail(Mailboxes[t])
    BY <1>1, <1>5, <1>6, QueueFacts, DequeueTakesHead DEF HasMail, Num
  <2>2. /\ StackPointer'[t] = Oldest(MsgQueue[t])
        /\ MsgQueue' = [MsgQueue EXCEPT ![t] = Dequeue(QCapacity[t], MsgQueue[t])]
    BY <1>1, <1>6 DEF DispatchHandler, BlocksTyped
  <2>3. Mailboxes' = [Mailboxes EXCEPT ![t] = Tail(Mailboxes[t])]
    BY <1>1, <2>1, <2>2, OneMailboxChanges
  <2> QED BY <1>1, <1>3, <1>4, <2>1, <2>2, <2>3 DEF Actors!StartMessage
<1>7. CASE ~HasMail(t)
  <2>1. Mailboxes[t] = << >>
    BY <1>1, <1>5, <1>7, QueueFacts, ContentsIsSeq DEF HasMail, Num, RingConsistent
  <2>2. StackPointer'[t] = TIMER /\ Mailboxes' = Mailboxes
    BY <1>1, <1>7, SameMailboxes DEF DispatchHandler, BlocksTyped
  <2> QED BY <1>1, <1>3, <1>4, <1>7, <2>1, <2>2 DEF Actors!StartTimer, HasMail
<1> QED BY <1>1, <1>6, <1>7

\* The value a function returns is its alarm at once, although the scheduler
\* stores it a step later.
LEMMA ReturnFinishes ==
  ASSUME TypeOK, Shape, HandlerModel, NEW d \in ReturnDelays, TaskReturn(d)
  PROVE  Actors!Finish(d)
<1> USE FramesDiffer
<1>1. /\ BlocksTyped /\ TaskCurrent \in Task /\ TaskCurrent # NULL
      /\ pc = "task" /\ pc' = "back" /\ TaskCurrent' = TaskCurrent
      /\ g_LastTaskReturnValue' = d /\ UNCHANGED timers /\ MsgQueue' = MsgQueue
      /\ TaskNext' = TaskNext
  BY Parts, CurrentInRing, ConstantFacts DEF TaskReturn
<1>2. /\ JobUnderWay = <<TaskCurrent, StackPointer[TaskCurrent]>> /\ JobUnderWay # NoCall
      /\ JobUnderWay' = NoCall
  BY <1>1 DEF JobUnderWay, NoCall
<1>3. Created' = Created /\ Mailboxes' = Mailboxes
  BY <1>1, SameMailboxes DEF Created
<1>4. FreshTasks' = FreshTasks
  BY <1>1, <1>3 DEF TaskReturn, FreshTasks, Runs, BlocksTyped, Created
<1>5. Alarms' = [Alarms EXCEPT ![TaskCurrent] = IF d = Forever THEN -1 ELSE d]
  <2>1. \A t \in Task : Alarms'[t] = IF t = TaskCurrent
                                       THEN IF d = Forever THEN -1 ELSE d ELSE Alarms[t]
    BY <1>1 DEF Alarms, timers
  <2> QED BY <2>1 DEF Alarms
<1> QED BY <1>2, <1>3, <1>4, <1>5 DEF Actors!Finish, Actors!Off

\* Storing the value changes no alarm.
LEMMA SetTimerStutters ==
  ASSUME TypeOK, Shape, HandlerModel, SetTimer
  PROVE  UNCHANGED Actors!avars
<1> DEFINE d == g_LastTaskReturnValue
<1>1. /\ BlocksTyped /\ StaticsTyped /\ TaskCurrent \in Task
      /\ pc = "back" /\ pc' = "loop" /\ TaskCurrent' = TaskCurrent
  BY Parts, CurrentInRing DEF SetTimer
<1>2. UNCHANGED <<Created, FreshTasks, JobUnderWay, Mailboxes>>
  BY <1>1, SameJobs, SameMailboxes DEF SetTimer, stacks
<1>3. /\ CountdownTimer' = [CountdownTimer EXCEPT
           ![TaskCurrent] = IF d = Forever THEN 0 ELSE d]
      /\ ISRTimer' = [ISRTimer EXCEPT ![TaskCurrent] = (d = 0)]
  BY DEF SetTimer, StoreCountdown, StoreISRTimer
<1>4. d \in Word /\ 0 # Forever
  BY <1>1, WordFacts DEF StaticsTyped
<1>5. ASSUME NEW t \in Task PROVE Alarms'[t] = Alarms[t]
  <2>1. Alarms'[t] = AlarmOf(CountdownTimer'[t], ISRTimer'[t])
    BY <1>1 DEF Alarms
  <2>2. CASE t # TaskCurrent
    BY <1>1, <1>3, <2>1, <2>2 DEF Alarms, BlocksTyped
  <2>3. CASE t = TaskCurrent
    <3>1. CountdownTimer'[t] = (IF d = Forever THEN 0 ELSE d) /\ ISRTimer'[t] = (d = 0)
      BY <1>1, <1>3, <2>3 DEF BlocksTyped
    <3>2. Alarms[t] = IF d = Forever THEN -1 ELSE d
      BY <1>1, <2>3 DEF Alarms
    <3> QED BY <1>4, <2>1, <3>1, <3>2 DEF AlarmOf
  <2> QED BY <2>2, <2>3
<1>6. Alarms' = Alarms
  BY <1>5 DEF Alarms
<1> QED BY <1>2, <1>6 DEF Actors!avars

\* Every other step is invisible to the actors.
LEMMA OthersStutter ==
  ASSUME TypeOK, Shape, HandlerModel,
         \/ RunOS \/ LeaveRunOS \/ PassBy \/ ExitOS \/ IsrExitOS \/ UNCHANGED vars
         \/ \E t \in Task, m \in Message : SendCheck(t, m)
         \/ \E t \in Task, v \in WakeValues : WakeUp(t, v) \/ IsrWakeUp(t, v)
  PROVE  UNCHANGED Actors!avars
<1> USE DEF tcb, timers, stacks, flags
<1>1. /\ TaskNext' = TaskNext /\ StackPointer' = StackPointer /\ MsgQueue' = MsgQueue
      /\ UNCHANGED timers
  <2>1. CASE PassBy
    <3>1. ~Expired(Candidate)
      BY <2>1, CandidateInRing DEF PassBy, Visit, Expired, HandlerModel
    <3> QED BY <2>1, <3>1 DEF PassBy, Visit
  <2>2. CASE \E t \in Task, v \in WakeValues : WakeUp(t, v) \/ IsrWakeUp(t, v)
    BY <2>2 DEF WakeUp, IsrWakeUp, Wake, Wakeable, HandlerModel
  <2>3. CASE \/ RunOS \/ LeaveRunOS \/ ExitOS \/ IsrExitOS \/ UNCHANGED vars
             \/ \E t \in Task, m \in Message : SendCheck(t, m)
    BY <2>3 DEF RunOS, LeaveRunOS, ExitOS, IsrExitOS, vars, SendCheck
  <2> QED BY <2>1, <2>2, <2>3
<1>2. \/ pc' = pc /\ TaskCurrent' = TaskCurrent
         /\ g_LastTaskReturnValue' = g_LastTaskReturnValue
      \/ pc \notin {"task", "back"} /\ pc' \notin {"task", "back"}
  BY DEF RunOS, LeaveRunOS, PassBy, Visit, ExitOS, IsrExitOS, vars, SendCheck, WakeUp,
         IsrWakeUp
<1>3. UNCHANGED <<Created, FreshTasks, JobUnderWay, Mailboxes>>
  BY <1>1, <1>2, SameJobs, SameMailboxes
<1>4. Alarms' = Alarms
  BY <1>1, <1>2 DEF Alarms
<1> QED BY <1>3, <1>4 DEF Actors!avars

LEMMA HandlersStep ==
  ASSUME SavesIrq, SleepDelays = {}, IsrMessages = {},
         TypeOK, Shape, Marks, MailKept, HandlerModel,
         TaskCurrent # NULL => Walked = Created, [Next]_vars
  PROVE  [Actors!Next]_(Actors!avars)
<1>1. CASE \E t \in Task : InitTask(t)
  BY <1>1, InitTaskCreates DEF Actors!Next
<1>2. CASE SendEnqueue
  <2>1. outgoing[1] \in Task /\ outgoing[2] \in Message
    BY <1>2, EnqueuePosts
  <2> QED BY <1>2, <2>1, EnqueuePosts DEF Actors!Next
<1>3. CASE \E d \in ReturnDelays : TaskReturn(d)
  BY <1>3, ReturnFinishes DEF Actors!Next
<1>4. CASE DispatchHandler \/ DispatchFirst
  BY <1>4, HandlerStarts, FirstStarts DEF Actors!Next
<1>5. CASE SetTimer
  BY <1>5, SetTimerStutters
<1>6. CASE Tick
  BY <1>6, TickTicks DEF Actors!Next
<1>7. CASE \/ RunOS \/ LeaveRunOS \/ PassBy \/ ExitOS \/ IsrExitOS \/ UNCHANGED vars
           \/ \E t \in Task, m \in Message : SendCheck(t, m)
           \/ \E t \in Task, v \in WakeValues : WakeUp(t, v) \/ IsrWakeUp(t, v)
  BY <1>7, OthersStutter
<1>8. ~(ResumeSleeper \/ SetTimerFirst \/ SetTimerSecond)
  BY CandidateInRing DEF ResumeSleeper, Select, Visit, SetTimerFirst, SetTimerSecond,
                         HandlerModel
<1> QED BY <1>1, <1>2, <1>3, <1>4, <1>5, <1>6, <1>7, <1>8
        DEF Next, Boot, Call, Yield, Scheduler, Interrupt

\* The kernel implements the actors: INIT first and once, then messages in
\* order and TIMER on time, one job at a time, for any tasks that only return.
THEOREM HandlersImplementActors ==
  ASSUME SavesIrq, SleepDelays = {}, IsrMessages = {}
  PROVE  Spec => HandlersAreActors
<1>1. Init => Actors!Init
  <2> SUFFICES ASSUME Init PROVE Actors!Init
    OBVIOUS
  <2>1. Created = {} /\ FreshTasks = {} /\ JobUnderWay = NoCall
    BY DEF Init, Created, FreshTasks, JobUnderWay
  <2>2. Alarms = [t \in Task |-> -1]
    BY DEF Init, Alarms, AlarmOf
  <2>3. \A t \in Task : Mailboxes[t] = << >>
    <3> TAKE t \in Task
    <3>1. MsgQueue[t] = EmptyRing(QCapacity[t], Filler) /\ QCapacity[t] \in Nat \ {0}
      BY ConstantFacts DEF Init
    <3>2. Contents(QCapacity[t], EmptyRing(QCapacity[t], Filler)) = << >>
      BY <3>1, EmptyRingHolds
    <3> QED BY <3>1, <3>2 DEF Mailboxes
  <2>4. Mailboxes = [t \in Task |-> << >>]
    BY <2>3 DEF Mailboxes
  <2> QED BY <2>1, <2>2, <2>4 DEF Actors!Init, Actors!Off
<1>2. /\ (TypeOK /\ Shape) /\ (Marks /\ Halts) /\ MailKept /\ HandlerModel
      /\ (TaskCurrent # NULL => Walked = Created) /\ [Next]_vars
      => [Actors!Next]_(Actors!avars)
  BY HandlersStep
<1> QED BY <1>1, <1>2, TypeCorrect, ControlInvariant, MailboxesInvariant,
           HandlerModelInvariant, TickReachesAll, PTL
        DEF Spec, HandlersAreActors, Actors!Spec

-----------------------------------------------------------------------------
(* The kernel as the example programs see it: KtosPrograms. *)


\* How far position j is behind position i on a ring of n, in the scheduler's counting:
\* not at all exactly for the next position.
LEMMA NegativeWraps ==
  ASSUME NEW n \in Nat \ {0}, NEW y \in 1..n PROVE (0 - y) % n = n - y
BY SMTT(30)

LEMMA WrapIsNext ==
  ASSUME NEW n \in Nat \ {0}, NEW i \in 1..n, NEW j \in 1..n
  PROVE  /\ (j - i - 1) % n \in Nat
         /\ (j - i - 1) % n = 0 <=> j = IF i = n THEN 1 ELSE i + 1
<1>1. CASE j > i
  <2> DEFINE x == j - i - 1
  <2>1. x \in 0 .. n - 1 /\ (x = 0 <=> j = i + 1) /\ i # n
    BY <1>1
  <2> HIDE DEF x
  <2>2. x % n = x
    BY <2>1
  <2> QED BY <2>1, <2>2 DEF x
<1>2. CASE j <= i
  <2> DEFINE y == i + 1 - j
  <2>1. y \in 1..n /\ j - i - 1 = 0 - y /\ (y = n <=> i = n /\ j = 1) /\ j # i + 1
    BY <1>2
  <2> HIDE DEF y
  <2>2. (0 - y) % n = n - y
    BY <2>1, NegativeWraps
  <2>3. n - y \in Nat /\ (n - y = 0 <=> y = n)
    BY <2>1
  <2> QED BY <2>1, <2>2, <2>3
<1> QED BY <1>1, <1>2

\* Visits counts the places from the one after the last turn's.
LEMMA VisitsInRing ==
  ASSUME NEW S, NEW s \in Seq(S), \A i, j \in 1..Len(s) : s[i] = s[j] => i = j,
         NEW r, r.ring = s, NEW i \in 1..Len(s), r.last = s[i], NEW j \in 1..Len(s)
  PROVE  Programs!Visits(r, s[j]) = (j - i - 1) % Len(s)
<1> DEFINE place(u) == CHOOSE p \in DOMAIN r.ring : r.ring[p] = u
<1>1. \A p \in 1..Len(s) : place(s[p]) = p
  <2> TAKE p \in 1..Len(s)
  <2>1. DOMAIN r.ring = 1..Len(s) /\ \A q \in 1..Len(s) : r.ring[q] = s[p] <=> q = p
    OBVIOUS
  <2> QED BY <2>1
<1>2. Programs!Visits(r, s[j]) = (place(s[j]) - place(r.last) - 1) % Len(r.ring)
  BY DEF Programs!Visits
<1> QED BY <1>1, <1>2

\* The ring is the order of creation, closed into a cycle.
Ordered ==
  /\ order \in Seq(Task)
  /\ \A i, j \in 1..Len(order) : order[i] = order[j] => i = j
  /\ Created = {order[i] : i \in 1..Len(order)}
  /\ \A i \in 1..Len(order) :
       TaskNext[order[i]] = order[IF i = Len(order) THEN 1 ELSE i + 1]

\* Until ktos_RunOS nothing has run and the newest task is current; a task that has not
\* run is due.
Before ==
  /\ TaskCurrent = NULL <=> order = << >>
  /\ timerOn => TaskCurrent # NULL
  /\ ~timerOn => /\ FreshTasks = Created
                 /\ order # << >> => TaskCurrent = order[Len(order)]
  /\ \A t \in FreshTasks : Alarms[t] = 0

\* ktos_InitTask links the new task in behind the newest one.
LEMMA OrderGrows ==
  ASSUME TypeOK, Shape, Ordered, Before, NEW t \in Task, InitTask(t), Note
  PROVE  Ordered' /\ order' = Append(order, t) /\ Created' = Created \cup {t} /\ t \notin Created
<1> DEFINE n == Len(order)
<1>1. /\ t \notin Created /\ Created' = Created \cup {t} /\ TaskCurrent' = t /\ ~timerOn
      /\ TaskNext' = Link(t)
  BY LinkGrows DEF InitTask
<1>2. order' = Append(order, t)
  BY <1>1 DEF Note
<1>3. /\ order' \in Seq(Task) /\ Len(order') = n + 1 /\ order'[n + 1] = t /\ n \in Nat
      /\ \A i \in 1..n : order'[i] = order[i]
  BY <1>2 DEF Ordered
<1>4. \A i \in 1..n : order[i] \in Created /\ order[i] # t
  BY <1>1 DEF Ordered
<1>5. \A i, j \in 1..(n + 1) : order'[i] = order'[j] => i = j
  <2> TAKE i, j \in 1..(n + 1)
  <2>1. (i = n + 1 \/ i \in 1..n) /\ (j = n + 1 \/ j \in 1..n)
    BY <1>3
  <2> QED BY <1>3, <1>4, <2>1 DEF Ordered
<1>6. Created' = {order'[i] : i \in 1..(n + 1)}
  <2>1. {order'[i] : i \in 1..(n + 1)} = {order[i] : i \in 1..n} \cup {t}
    <3>1. \A i : i \in 1..(n + 1) <=> i = n + 1 \/ i \in 1..n
      BY <1>3
    <3> QED BY <1>3, <3>1
  <2> QED BY <1>1, <2>1 DEF Ordered
<1>7. \A i \in 1..(n + 1) : TaskNext'[order'[i]] = order'[IF i = n + 1 THEN 1 ELSE i + 1]
  <2>1. CASE TaskCurrent = NULL
    <3>1. n = 0
      BY <2>1 DEF Before
    <3>2. TaskNext'[t] = t
      BY <1>1, <2>1 DEF Link, TypeOK
    <3> QED BY <1>3, <3>1, <3>2
  <2>2. CASE TaskCurrent # NULL
    <3>1. n \in Nat \ {0} /\ TaskCurrent = order[n]
      BY <1>1, <1>3, <2>2 DEF Before, Ordered
    <3>2. /\ TaskNext'[t] = order[1] /\ TaskNext'[order[n]] = t
          /\ \A i \in 1..n : i # n => TaskNext'[order[i]] = TaskNext[order[i]]
      <4>1. \A u \in Task : TaskNext'[u] = IF u = TaskCurrent THEN t
                            ELSE IF u = t THEN TaskNext[TaskCurrent] ELSE TaskNext[u]
        BY <1>1, <2>2 DEF Link, TypeOK
      <4>2. TaskNext[order[n]] = order[1]
        BY <3>1 DEF Ordered
      <4>3. \A i \in 1..n : order[i] \in Task /\ (i # n => order[i] # order[n])
        BY <3>1 DEF Ordered
      <4> QED BY <1>4, <3>1, <4>1, <4>2, <4>3
    <3> TAKE i \in 1..(n + 1)
    <3>3. i = n + 1 \/ i = n \/ (i \in 1..n /\ i # n /\ i + 1 \in 1..n)
      BY <1>3, <3>1
    <3>4. CASE i = n + 1
      BY <1>3, <3>1, <3>2, <3>4
    <3>5. CASE i = n
      BY <1>3, <3>1, <3>2, <3>5
    <3>6. CASE i \in 1..n /\ i # n /\ i + 1 \in 1..n
      <4>1. TaskNext[order[i]] = order[i + 1]
        BY <3>6 DEF Ordered
      <4> QED BY <1>3, <3>2, <3>6, <4>1
    <3> QED BY <3>3, <3>4, <3>5, <3>6
  <2> QED BY <2>1, <2>2
<1> QED BY <1>1, <1>2, <1>3, <1>5, <1>6, <1>7 DEF Ordered

\* Nothing else changes the ring or the order.
LEMMA OrderKept ==
  ASSUME Ordered, TaskNext' = TaskNext, Note
  PROVE  Ordered' /\ order' = order
BY DEF Ordered, Note, Created

\* The record of HandlerTasks, written out.
Record(ring, last, fresh, armed, due, mail) ==
  [ring |-> ring, last |-> last, fresh |-> fresh, armed |-> armed, due |-> due, mail |-> mail]

LEMMA ViewWritten ==
  /\ View = Record(order, TaskCurrent, FreshTasks, Armed, Due, Mail)
  /\ View' = Record(order', TaskCurrent', FreshTasks', Armed', Due', Mail')
BY DEF View, Record

\* What the operators of HandlerTasks make of it.
LEMMA PassedOnView ==
  ASSUME NEW t
  PROVE  [View EXCEPT !.last = t] = Record(order, t, FreshTasks, Armed, Due, Mail)
BY DEF View, Record

LEMMA TakenOnView ==
  ASSUME NEW t
  PROVE  Programs!Taken(View, t) =
           Record(order, t, FreshTasks \ {t}, Armed, Due,
                  [Mail EXCEPT ![t] = IF t \notin FreshTasks /\ @ # << >> THEN Tail(@) ELSE @])
<1> DEFINE fresh == FreshTasks \ {t}
           mail == [Mail EXCEPT ![t] = IF t \notin FreshTasks /\ @ # << >> THEN Tail(@) ELSE @]
<1>1. View.fresh = FreshTasks /\ View.mail = Mail
  BY DEF View
<1>2. Programs!Taken(View, t) = [View EXCEPT !.last = t, !.fresh = fresh, !.mail = mail]
  BY <1>1, Zenon DEF Programs!Taken
<1> HIDE DEF fresh, mail
<1>3. Programs!Taken(View, t) = Record(order, t, fresh, Armed, Due, mail)
  BY <1>2 DEF View, Record
<1> QED BY <1>3 DEF fresh, mail

LEMMA PostedOnView ==
  ASSUME NEW t, NEW m, NEW size, Len(Mail[t]) < size
  PROVE  Programs!Posted(View, t, m, size) =
           Record(order, TaskCurrent, FreshTasks, Armed, Due, [Mail EXCEPT ![t] = Append(@, m)])
<1> DEFINE mail == [Mail EXCEPT ![t] = Append(@, m)]
<1>1. View.mail = Mail
  BY DEF View
<1>2. Programs!Posted(View, t, m, size) = [View EXCEPT !.mail = mail]
  BY <1>1, Zenon DEF Programs!Posted
<1> HIDE DEF mail
<1>3. Programs!Posted(View, t, m, size) =
        Record(order, TaskCurrent, FreshTasks, Armed, Due, mail)
  BY <1>2 DEF View, Record
<1> QED BY <1>3 DEF mail

LEMMA ReturnedOnView ==
  ASSUME NEW t, NEW delay
  PROVE  Programs!Returned(View, t, delay) =
           Record(order, TaskCurrent, FreshTasks,
                  IF delay = Programs!Later THEN Armed \cup {t} ELSE Armed \ {t},
                  IF delay = Programs!Now THEN Due \cup {t} ELSE Due \ {t}, Mail)
<1> DEFINE armed == IF delay = Programs!Later THEN Armed \cup {t} ELSE Armed \ {t}
           due == IF delay = Programs!Now THEN Due \cup {t} ELSE Due \ {t}
<1>1. View.armed = Armed /\ View.due = Due
  BY DEF View
<1>2. Programs!Returned(View, t, delay) = [View EXCEPT !.due = due, !.armed = armed]
  BY <1>1, Zenon DEF Programs!Returned
<1> HIDE DEF armed, due
<1>3. Programs!Returned(View, t, delay) =
        Record(order, TaskCurrent, FreshTasks, armed, due, Mail)
  BY <1>2 DEF View, Record
<1> QED BY <1>3 DEF armed, due

LEMMA ExpiredOnView ==
  ASSUME NEW ts
  PROVE  Programs!AllExpired(View, ts) =
           Record(order, TaskCurrent, FreshTasks, Armed \ ts, Due \cup ts, Mail)
<1> DEFINE armed == Armed \ ts
           due == Due \cup ts
<1>1. View.armed = Armed /\ View.due = Due
  BY DEF View
<1>2. Programs!AllExpired(View, ts) = [View EXCEPT !.armed = armed, !.due = due]
  BY <1>1, Zenon DEF Programs!AllExpired
<1> HIDE DEF armed, due
<1>3. Programs!AllExpired(View, ts) = Record(order, TaskCurrent, FreshTasks, armed, due, Mail)
  BY <1>2 DEF View, Record
<1> QED BY <1>3 DEF armed, due

\* The next task on the ring is the one the loop visits first, and the only one.
LEMMA LoopIsNext ==
  ASSUME TypeOK, Shape, Ordered, TaskCurrent # NULL
  PROVE  LET c == TaskNext[TaskCurrent] IN
         /\ c \in Created /\ Programs!TasksOf(View) = Created
         /\ \A u \in Created : /\ Programs!Visits(View, u) \in Nat
                               /\ Programs!Visits(View, u) = 0 <=> u = c
         /\ Programs!Visited(View) = c
<1> DEFINE c == TaskNext[TaskCurrent]
           n == Len(order)
<1>1. View.ring = order /\ View.last = TaskCurrent
  BY DEF View
<1>2. TaskCurrent \in Created
  BY DEF Shape
<1>3. PICK i \in 1..n : order[i] = TaskCurrent
  BY <1>2 DEF Ordered
<1>4. n \in Nat \ {0}
  BY <1>3 DEF Ordered
<1> DEFINE next == IF i = n THEN 1 ELSE i + 1
<1>5. next \in 1..n /\ c = order[next] /\ c \in Created
  BY <1>3, <1>4 DEF Ordered
<1>6. Programs!TasksOf(View) = Created
  BY <1>1 DEF Programs!TasksOf, Ordered
<1>7. ASSUME NEW j \in 1..n
      PROVE  /\ Programs!Visits(View, order[j]) \in Nat
             /\ Programs!Visits(View, order[j]) = 0 <=> j = next
  <2>1. Programs!Visits(View, order[j]) = (j - i - 1) % n
    BY <1>1, <1>3, VisitsInRing DEF Ordered
  <2> QED BY <1>4, <2>1, WrapIsNext
<1> HIDE DEF next
<1>8. \A u \in Created : /\ Programs!Visits(View, u) \in Nat
                         /\ Programs!Visits(View, u) = 0 <=> u = c
  <2> TAKE u \in Created
  <2>1. PICK j \in 1..n : u = order[j]
    BY DEF Ordered
  <2>2. j = next <=> u = c
    BY <1>5, <2>1 DEF Ordered
  <2> QED BY <1>7, <2>1, <2>2
<1>9. Programs!Visited(View) = c
  BY <1>5, <1>6, <1>8 DEF Programs!Visited
<1> QED BY <1>5, <1>6, <1>8, <1>9

\* What a pass of the loop looks at: the candidate, in the words of HandlerTasks.
LEMMA CandidateOfView ==
  ASSUME TypeOK, Shape, MailKept, HandlerModel, Halts, Ordered, Before, pc = "loop"
  PROVE  /\ Candidate = TaskNext[TaskCurrent] /\ TaskCurrent # NULL /\ timerOn
         /\ Candidate \in Created /\ Candidate \in Task
         /\ Ready(Candidate) <=> Programs!IsReady(View, Candidate)
<1> DEFINE t == Candidate
<1>1. t \in Created /\ t \in Task /\ TaskCurrent # NULL /\ timerOn /\ TaskCurrent \in Task
  BY CandidateInRing, CurrentInRing, ConstantFacts DEF Halts
<1>2. AllowTaskSwitch
  BY <1>1 DEF Halts, HaltedBySleeper, HandlerModel
<1>3. Candidate = TaskNext[TaskCurrent]
  BY <1>2 DEF Candidate
<1> HIDE DEF t
<1>4. Ready(t) <=> Num(t) # 0 \/ ISRTimer[t]
  BY <1>1 DEF Ready, Expired, HandlerModel, t
<1>5. ISRTimer[t] <=> Alarms[t] = 0
  <2>1. CountdownTimer[t] \in Word /\ ISRTimer[t] \in BOOLEAN
    BY <1>1, Parts DEF BlocksTyped, t
  <2>2. Alarms[t] = AlarmOf(CountdownTimer[t], ISRTimer[t])
    BY <1>1 DEF Alarms, t
  <2> QED BY <2>1, <2>2 DEF AlarmOf, Word
<1>6. Num(t) # 0 <=> Mailboxes[t] # << >>
  <2>1. Mailboxes[t] = Contents(QCapacity[t], MsgQueue[t]) /\ RingConsistent(QCapacity[t], MsgQueue[t])
    BY <1>1 DEF Mailboxes, MailKept, QueuesConsistent, t
  <2>2. Mailboxes[t] \in Seq(Message \cup {Filler}) /\ Len(Mailboxes[t]) = Num(t)
    BY <1>1, <2>1, QueueFacts, ContentsIsSeq DEF RingConsistent, Num, t
  <2> HIDE DEF Num
  <2> QED BY <2>2
<1>7. Programs!IsReady(View, t) <=> t \in FreshTasks \/ Alarms[t] = 0 \/ Mailboxes[t] # << >>
  BY <1>1 DEF Programs!IsReady, View, Due, Mail, t
<1>8. t \in FreshTasks => Alarms[t] = 0
  BY DEF Before
<1> QED BY <1>1, <1>3, <1>4, <1>5, <1>6, <1>7, <1>8 DEF t

\* A pass over a task that is not ready.
LEMMA PassByPasses ==
  ASSUME TypeOK, Shape, MailKept, HandlerModel, Halts, Ordered, Before, Note, PassBy
  PROVE  Programs!Pass
<1> DEFINE c == Candidate
<1>1. pc = "loop" /\ TaskCurrent' = c /\ ~Ready(c) /\ TaskNext' = TaskNext /\ timerOn' = timerOn
  BY DEF PassBy, Visit
<1>2. /\ c = TaskNext[TaskCurrent] /\ TaskCurrent # NULL /\ timerOn
      /\ ~Programs!IsReady(View, c)
  BY <1>1, CandidateOfView
<1>3. Programs!Visited(View) = c
  BY <1>2, LoopIsNext
<1>4. UNCHANGED <<Created, FreshTasks, Mailboxes, Alarms, JobUnderWay>>
  BY OthersStutter DEF Actors!avars
<1>5. order' = order
  BY <1>1, OrderKept
<1> HIDE DEF c
<1>6. View' = [View EXCEPT !.last = c]
  <2>1. UNCHANGED <<Armed, Due, Mail>>
    BY <1>4 DEF Armed, Due, Mail
  <2>2. View' = Record(order, c, FreshTasks, Armed, Due, Mail)
    BY <1>1, <1>4, <1>5, <2>1, ViewWritten
  <2> QED BY <2>2, ViewWritten, PassedOnView
<1>7. JobUnderWay = NoCall
  BY <1>1 DEF JobUnderWay
<1> QED BY <1>1, <1>2, <1>3, <1>4, <1>6, <1>7
        DEF Programs!Pass, Programs!CanPass, Programs!PassedBy

\* A dispatch gives the candidate its turn, with the event HandlerTasks says.
LEMMA DispatchStarts ==
  ASSUME TypeOK, Shape, Marks, MailKept, HandlerModel, Halts, Ordered, Before, Note,
         DispatchFirst \/ DispatchHandler
  PROVE  Programs!Start(Candidate)
<1> DEFINE t == Candidate
<1>1. /\ pc = "loop" /\ TaskCurrent' = t /\ Ready(t) /\ TaskNext' = TaskNext
      /\ timerOn' = timerOn
  BY DEF DispatchFirst, DispatchHandler, Select, Visit
<1>2. /\ t = TaskNext[TaskCurrent] /\ TaskCurrent # NULL /\ timerOn /\ t \in Created
      /\ Programs!IsReady(View, t)
  BY <1>1, CandidateOfView
<1>3. /\ Programs!TasksOf(View) = Created
      /\ Programs!Visits(View, t) = 0
      /\ \A u \in Created : Programs!Visits(View, u) \in Nat
  BY <1>2, LoopIsNext
<1>4. Programs!HasTurn(View, t)
  BY <1>2, <1>3 DEF Programs!HasTurn
<1>5. order' = order
  BY <1>1, OrderKept
<1>6. \/ Actors!StartFirst(t) \/ Actors!StartMessage(t) \/ Actors!StartTimer(t)
  BY FirstStarts, HandlerStarts
<1> HIDE DEF t
<1>7. JobUnderWay = NoCall /\ Created' = Created /\ Alarms' = Alarms
  BY <1>6 DEF Actors!StartFirst, Actors!StartMessage, Actors!StartTimer
<1> DEFINE box == Mailboxes[t]
<1>8. /\ JobUnderWay' = <<t, Programs!EventOf(View, t)>>
      /\ FreshTasks' = FreshTasks \ {t}
      /\ Mailboxes' = [Mailboxes EXCEPT ![t] =
                         IF t \notin FreshTasks /\ box # << >> THEN Tail(box) ELSE box]
  <2>1. /\ View.fresh = FreshTasks /\ View.mail[t] = Mailboxes[t]
        /\ INIT = Programs!INIT /\ TIMER = Programs!TIMER
    BY <1>2 DEF View, Mail, INIT, TIMER, Programs!INIT, Programs!TIMER
  <2>2. Mailboxes = [Mailboxes EXCEPT ![t] = Mailboxes[t]]
    BY DEF Mailboxes
  <2> QED BY <1>6, <2>1, <2>2
          DEF Actors!StartFirst, Actors!StartMessage, Actors!StartTimer, Programs!EventOf
<1>9. View' = Programs!Taken(View, t)
  <2>1. Armed' = Armed /\ Due' = Due
    BY <1>7 DEF Armed, Due
  <2>2. Mail' = [Mail EXCEPT ![t] =
                   IF t \notin FreshTasks /\ @ # << >> THEN Tail(@) ELSE @]
    BY <1>2, <1>7, <1>8 DEF Mail, Mailboxes, Created
  <2> DEFINE mail == [Mail EXCEPT ![t] =
                        IF t \notin FreshTasks /\ @ # << >> THEN Tail(@) ELSE @]
  <2> HIDE DEF mail
  <2>3. View' = Record(order, t, FreshTasks \ {t}, Armed, Due, mail)
    BY <1>1, <1>5, <1>8, <2>1, <2>2, ViewWritten DEF mail
  <2> QED BY <2>3, ViewWritten, TakenOnView DEF mail
<1> QED BY <1>1, <1>2, <1>3, <1>4, <1>7, <1>8, <1>9 DEF Programs!Start, t

\* ktos_InitTask puts one more task at the end of the ring, ready for its first turn.
LEMMA InitTaskExtends ==
  ASSUME TypeOK, Shape, MailKept, HandlerModel, Ordered, Before, Note,
         NEW t \in Task, InitTask(t)
  PROVE  Programs!Create(t)
<1>1. /\ Ordered' /\ order' = Append(order, t) /\ Created' = Created \cup {t}
      /\ t \notin Created
  BY OrderGrows
<1>2. /\ TaskCurrent' = t /\ ~timerOn /\ timerOn' = timerOn
  BY DEF InitTask
<1>3. /\ FreshTasks' = FreshTasks \cup {t} /\ Alarms' = [Alarms EXCEPT ![t] = 0]
      /\ Mailboxes' = Mailboxes /\ JobUnderWay' = JobUnderWay
  BY InitTaskCreates DEF Actors!Create
<1>4. FreshTasks' = Created' /\ Armed' = {} /\ Due' = Created'
  <2>1. FreshTasks = Created /\ \A u \in Created : Alarms[u] = 0
    BY <1>2 DEF Before
  <2>2. \A u \in Created' : Alarms'[u] = 0
    BY <1>1, <1>3, <2>1 DEF Alarms, Created
  <2> QED BY <1>1, <1>3, <2>1, <2>2 DEF Armed, Due
<1>5. Mailboxes[t] = << >>
  <2>1. MsgQueue[t].num = 0 /\ RingConsistent(QCapacity[t], MsgQueue[t])
    BY <1>1 DEF MailKept, QueuesConsistent, Num
  <2> QED BY <2>1, QueueFacts, ContentsIsSeq DEF RingConsistent, Mailboxes
<1> DEFINE s == Append(order, t)
           booted == Programs!Booted(s)
           mail == [u \in DOMAIN booted.mail |-> IF u = t THEN << >> ELSE View.mail[u]]
<1>6. {s[i] : i \in DOMAIN s} = Created' /\ s[Len(s)] = t
  BY <1>1 DEF Ordered
<1> HIDE DEF s
<1>7. booted = Record(s, t, Created', {}, Created', [u \in Created' |-> << >>])
  BY <1>6, Zenon DEF Programs!Booted, Record
<1>8. mail = Mail'
  <2>1. DOMAIN booted.mail = Created'
    BY <1>7 DEF Record
  <2>2. View.mail = Mail
    BY DEF View
  <2> HIDE DEF booted
  <2> QED BY <1>1, <1>3, <1>5, <2>1, <2>2 DEF Mail
<1>9. View' = [booted EXCEPT !.mail = mail]
  <2>1. View' = Record(s, t, Created', {}, Created', Mail')
    BY <1>1, <1>2, <1>4, ViewWritten DEF s
  <2> DEFINE none == [u \in Created' |-> << >>]
             all == Created'
  <2> HIDE DEF none, all
  <2>2. booted = Record(s, t, all, {}, all, none)
    BY <1>7 DEF none, all
  <2> HIDE DEF booted, mail
  <2>3. [booted EXCEPT !.mail = mail] = Record(s, t, all, {}, all, mail)
    BY <2>2 DEF Record
  <2> QED BY <1>8, <2>1, <2>3 DEF all
<1>10. t \notin Programs!TasksOf(View)
  BY <1>1 DEF Programs!TasksOf, View, Ordered
<1> QED BY <1>2, <1>3, <1>9, <1>10 DEF Programs!Create, s, View

\* An enqueue posts its message.
LEMMA EnqueuePostsMail ==
  ASSUME TypeOK, Shape, MailKept, HandlerModel, Ordered, Note, SendEnqueue
  PROVE  Programs!Post(outgoing[1], outgoing[2]) /\ outgoing \in Task \X Message
<1> DEFINE t == outgoing[1]
           m == outgoing[2]
<1>1. Actors!Post(t, m) /\ outgoing \in Task \X Message
  BY EnqueuePosts
<1>2. /\ TaskCurrent' = TaskCurrent /\ TaskNext' = TaskNext /\ timerOn' = timerOn
  BY DEF SendEnqueue
<1>3. order' = order
  BY <1>2, OrderKept
<1> HIDE DEF t, m
<1>4. /\ t \in Created /\ Len(Mailboxes[t]) < QCapacity[t]
      /\ Mailboxes' = [Mailboxes EXCEPT ![t] = Append(@, m)]
      /\ UNCHANGED <<Created, FreshTasks, Alarms, JobUnderWay>>
  BY <1>1 DEF Actors!Post
<1>5. Armed' = Armed /\ Due' = Due
  BY <1>4 DEF Armed, Due
<1>6. Mail' = [Mail EXCEPT ![t] = Append(@, m)] /\ Mail[t] = Mailboxes[t]
  BY <1>4 DEF Mail, Mailboxes, Created
<1>7. View' = Programs!Posted(View, t, m, QCapacity[t])
  <2> DEFINE mail == [Mail EXCEPT ![t] = Append(@, m)]
  <2> HIDE DEF mail
  <2>1. View' = Record(order, TaskCurrent, FreshTasks, Armed, Due, mail)
    BY <1>2, <1>3, <1>4, <1>5, <1>6, ViewWritten DEF mail
  <2>2. Programs!Posted(View, t, m, QCapacity[t]) =
          Record(order, TaskCurrent, FreshTasks, Armed, Due, mail)
    BY <1>4, <1>6, PostedOnView DEF mail
  <2> QED BY <2>1, <2>2
<1>8. t \in Programs!TasksOf(View)
  BY <1>4 DEF Programs!TasksOf, View, Ordered
<1> QED BY <1>1, <1>2, <1>4, <1>7, <1>8 DEF Programs!Post, t, m

\* A returned value is no delay, some delay or none at all.
LEMMA ReturnReturns ==
  ASSUME TypeOK, Shape, HandlerModel, Ordered, Note, NEW d \in ReturnDelays, TaskReturn(d)
  PROVE  \E delay \in {Programs!Now, Programs!Later, Programs!Forever} : Programs!Finish(delay)
<1> DEFINE t == TaskCurrent
           delay == IF d = 0 THEN Programs!Now
                    ELSE IF d = Forever THEN Programs!Forever ELSE Programs!Later
<1>1. /\ pc = "task" /\ TaskCurrent' = t /\ TaskNext' = TaskNext /\ timerOn' = timerOn
  BY DEF TaskReturn
<1>2. t \in Created /\ t \in Task /\ JobUnderWay[1] = t
  BY <1>1, CurrentInRing DEF JobUnderWay
<1>3. order' = order
  BY <1>1, OrderKept
<1>4. /\ JobUnderWay # NoCall /\ JobUnderWay' = NoCall
      /\ Alarms' = [Alarms EXCEPT ![t] = IF d = Forever THEN -1 ELSE d]
      /\ UNCHANGED <<Created, FreshTasks, Mailboxes>>
  BY <1>2, ReturnFinishes DEF Actors!Finish, Actors!Off
<1>5. d \in Nat /\ 0 # Forever
  <2>1. d \in Word
    BY ApplicationAssumption
  <2> QED BY <2>1, WordFacts DEF Word
<1> HIDE DEF t
<1>6. \A u \in Created : Alarms'[u] = IF u = t THEN IF d = Forever THEN -1 ELSE d ELSE Alarms[u]
  BY <1>4 DEF Alarms, Created
<1>7. /\ Programs!Now # Programs!Later /\ Programs!Now # Programs!Forever
      /\ Programs!Later # Programs!Forever
  BY DEF Programs!Now, Programs!Later, Programs!Forever
<1>8. /\ Armed' = IF delay = Programs!Later THEN Armed \cup {t} ELSE Armed \ {t}
      /\ Due' = IF delay = Programs!Now THEN Due \cup {t} ELSE Due \ {t}
  <2>1. CASE d = 0
    BY <1>2, <1>4, <1>5, <1>6, <1>7, <2>1 DEF Armed, Due
  <2>2. CASE d = Forever
    BY <1>2, <1>4, <1>5, <1>6, <1>7, <2>2 DEF Armed, Due
  <2>3. CASE d > 0 /\ d # Forever
    BY <1>2, <1>4, <1>5, <1>6, <1>7, <2>3 DEF Armed, Due
  <2> QED BY <1>5, <2>1, <2>2, <2>3
<1>9. delay \in {Programs!Now, Programs!Later, Programs!Forever}
  OBVIOUS
<1>10. Mail' = Mail
  BY <1>4 DEF Mail
<1> HIDE DEF delay
<1>11. View' = Programs!Returned(View, t, delay)
  <2> DEFINE a == IF delay = Programs!Later THEN Armed \cup {t} ELSE Armed \ {t}
             b == IF delay = Programs!Now THEN Due \cup {t} ELSE Due \ {t}
  <2> HIDE DEF a, b
  <2>1. View' = Record(order, t, FreshTasks, a, b, Mail)
    BY <1>1, <1>3, <1>4, <1>8, <1>10, ViewWritten DEF a, b
  <2>2. Programs!Returned(View, t, delay) = Record(order, TaskCurrent, FreshTasks, a, b, Mail)
    BY ReturnedOnView DEF a, b
  <2> QED BY <2>1, <2>2 DEF t
<1> QED BY <1>1, <1>2, <1>4, <1>9, <1>11 DEF Programs!Finish

\* A tick ends every delay of which one millisecond was left.
LEMMA TickExpires ==
  ASSUME TypeOK, Shape, HandlerModel, Ordered, Note,
         TaskCurrent # NULL => Walked = Created, Tick
  PROVE  \/ \E ts \in SUBSET View.armed : Programs!Expire(ts)
         \/ UNCHANGED Programs!mvars
<1>1. /\ TaskCurrent' = TaskCurrent /\ TaskNext' = TaskNext /\ timerOn' = timerOn /\ timerOn
  BY DEF Tick
<1>2. order' = order
  BY <1>1, OrderKept
<1>3. CASE UNCHANGED Actors!avars
  BY <1>1, <1>2, <1>3 DEF Actors!avars, Programs!mvars, View, Armed, Due, Mail
<1>4. CASE Actors!Tick
  <2> DEFINE ts == {t \in Created : Alarms[t] = 1}
  <2>1. /\ Alarms' = [t \in Task |-> IF Alarms[t] > 0 THEN Alarms[t] - 1 ELSE Alarms[t]]
        /\ UNCHANGED <<Created, FreshTasks, Mailboxes, JobUnderWay>>
    BY <1>4 DEF Actors!Tick
  <2>2. \A t \in Created : Alarms[t] \in Int
    <3> TAKE t \in Created
    <3>1. pc # "back"
      BY DEF Tick, HandlerModel
    <3>2. CountdownTimer[t] \in Word /\ t \in Task
      BY Parts DEF BlocksTyped, Created
    <3> QED BY <3>1, <3>2 DEF Alarms, AlarmOf, Word
  <2>3. \A t \in Created : Alarms'[t] = IF Alarms[t] > 0 THEN Alarms[t] - 1 ELSE Alarms[t]
    BY <2>1 DEF Created
  <2>4. Armed' = Armed \ ts /\ Due' = Due \cup ts /\ ts \subseteq Armed
    BY <2>1, <2>2, <2>3 DEF Armed, Due
  <2>5. Mail' = Mail /\ View.armed = Armed
    BY <2>1 DEF Mail, View
  <2> HIDE DEF ts
  <2>6. View' = Programs!AllExpired(View, ts)
    <3> DEFINE a == Armed \ ts
               d == Due \cup ts
    <3> HIDE DEF a, d
    <3>1. View' = Record(order, TaskCurrent, FreshTasks, a, d, Mail)
      BY <1>1, <1>2, <2>1, <2>4, <2>5, ViewWritten DEF a, d
    <3> QED BY <3>1, ExpiredOnView DEF a, d
  <2> QED BY <1>1, <2>1, <2>4, <2>5, <2>6 DEF Programs!Expire
<1> QED BY <1>3, <1>4, TickTicks

\* What the actors and the loop's position do not notice, HandlerTasks does not either.
LEMMA SameView ==
  ASSUME UNCHANGED Actors!avars, UNCHANGED <<TaskCurrent, order>>
  PROVE  View' = View /\ JobUnderWay' = JobUnderWay
BY DEF Actors!avars, View, Armed, Due, Mail

\* The first ktos_RunOS starts the scheduler; later ones, after an exit, change nothing.
LEMMA RunOSBoots ==
  ASSUME TypeOK, Shape, HandlerModel, Ordered, Note, RunOS
  PROVE  Programs!Boot \/ UNCHANGED Programs!mvars
<1>1. /\ TaskCurrent' = TaskCurrent /\ TaskNext' = TaskNext /\ timerOn' = TRUE
      /\ TaskCurrent # NULL
  BY DEF RunOS, tcb
<1>2. View' = View /\ JobUnderWay' = JobUnderWay
  BY <1>1, OrderKept, OthersStutter, SameView
<1>3. Programs!TasksOf(View) # {}
  BY <1>1 DEF Programs!TasksOf, View, Ordered, Shape
<1>4. timerOn \in BOOLEAN
  BY DEF TypeOK
<1> QED BY <1>1, <1>2, <1>3, <1>4 DEF Programs!Boot, Programs!mvars

\* The timer starts in ktos_RunOS and is never stopped.
LEMMA TimerStarts == [Next]_vars => timerOn' = timerOn \/ RunOS
<1> SUFFICES ASSUME [Next]_vars PROVE timerOn' = timerOn \/ RunOS
  OBVIOUS
<1>1. CASE Boot \/ Call
  BY <1>1 DEF Boot, InitTask, Call, SendCheck, SendEnqueue, WakeUp, ExitOS
<1>2. CASE Yield
  BY <1>2 DEF Yield, TaskReturn, SleepCall
<1>3. CASE Scheduler
  BY <1>3
     DEF Scheduler, LeaveRunOS, PassBy, DispatchHandler, DispatchFirst, ResumeSleeper,
         Select, SetTimer, SetTimerFirst, SetTimerSecond
<1>4. CASE Interrupt \/ UNCHANGED vars
  BY <1>4 DEF Interrupt, Tick, IsrSend, IsrWakeUp, IsrExitOS, vars
<1> QED BY <1>1, <1>2, <1>3, <1>4 DEF Next

\* A task that has not run stays due.
LEMMA FreshStayDue ==
  ASSUME [Actors!Next]_(Actors!avars), Created' = Created,
         \A t \in FreshTasks : Alarms[t] = 0
  PROVE  /\ FreshTasks' \subseteq FreshTasks
         /\ \A t \in FreshTasks' : Alarms'[t] = 0
         /\ JobUnderWay' = NoCall => FreshTasks' = FreshTasks
<1>1. CASE \E t \in Task : Actors!StartFirst(t)
  BY <1>1, ConstantFacts DEF Actors!StartFirst, NoCall
<1>2. CASE \/ \E t \in Task : Actors!StartMessage(t) \/ Actors!StartTimer(t)
           \/ \E t \in Task, m \in Message : Actors!Post(t, m)
           \/ UNCHANGED Actors!avars
  BY <1>2 DEF Actors!StartMessage, Actors!StartTimer, Actors!Post, Actors!avars
<1>3. CASE Actors!Tick
  BY <1>3 DEF Actors!Tick, FreshTasks, Created
<1>4. CASE \E d \in ReturnDelays : Actors!Finish(d)
  <2>1. PICK d \in ReturnDelays : Actors!Finish(d)
    BY <1>4
  <2>2. JobUnderWay[1] \notin FreshTasks /\ FreshTasks' = FreshTasks
    BY <2>1 DEF Actors!Finish, JobUnderWay, FreshTasks, Runs
  <2>3. \A t \in FreshTasks : Alarms'[t] = Alarms[t]
    BY <2>1, <2>2 DEF Actors!Finish, Alarms, FreshTasks, Created
  <2> QED BY <2>2, <2>3
<1>5. ~\E t \in Task : Actors!Create(t)
  BY DEF Actors!Create
<1> QED BY <1>1, <1>2, <1>3, <1>4, <1>5 DEF Actors!Next

\* Ordered and Before are inductive.
LEMMA OrderStep ==
  ASSUME SavesIrq, SleepDelays = {}, IsrMessages = {},
         TypeOK, Shape, Marks, MailKept, HandlerModel, Halts, Halts', Ordered, Before,
         TaskCurrent # NULL => Walked = Created, [PNext]_pvars
  PROVE  Note /\ Ordered' /\ Before'
<1>1. [Next]_vars
  BY DEF PNext, pvars
<1>2. Note
  <2>1. CASE UNCHANGED pvars
    BY <2>1 DEF pvars, vars, tcb, Note, Created
  <2> QED BY <2>1 DEF PNext
<1>3. CASE \E t \in Task : InitTask(t)
  <2>1. PICK t \in Task : InitTask(t)
    BY <1>3
  <2>2. /\ Ordered' /\ order' = Append(order, t) /\ Created' = Created \cup {t}
    BY <1>2, <2>1, OrderGrows
  <2>3. TaskCurrent' = t /\ ~timerOn' /\ ~timerOn /\ t # NULL
    BY <2>1, ConstantFacts DEF InitTask
  <2>4. order' # << >> /\ order'[Len(order')] = t
    BY <2>2 DEF Ordered
  <2>5. FreshTasks' = FreshTasks \cup {t} /\ Alarms' = [Alarms EXCEPT ![t] = 0]
    BY <2>1, InitTaskCreates DEF Actors!Create
  <2>6. FreshTasks' = Created' /\ \A u \in FreshTasks' : Alarms'[u] = 0
    BY <2>2, <2>3, <2>5 DEF Before, Alarms, FreshTasks, Created
  <2> QED BY <1>2, <2>2, <2>3, <2>4, <2>6 DEF Before
<1>4. CASE ~\E t \in Task : InitTask(t)
  <2>1. /\ TaskNext' = TaskNext /\ TaskCurrent' \in {TaskCurrent, Candidate}
        /\ TaskCurrent' # TaskCurrent => pc # "main"
    BY <1>1, <1>4, RingMoves
  <2>2. Ordered' /\ order' = order /\ Created' = Created
    BY <1>2, <2>1, OrderKept DEF Created
  <2>3. TaskCurrent' = NULL <=> TaskCurrent = NULL
    BY <2>1, CandidateInRing, ConstantFacts DEF Shape
  <2>4. /\ FreshTasks' \subseteq FreshTasks
        /\ \A t \in FreshTasks' : Alarms'[t] = 0
        /\ JobUnderWay' = NoCall => FreshTasks' = FreshTasks
    BY <1>1, <2>2, HandlersStep, FreshStayDue DEF Before
  <2>5. /\ timerOn' => timerOn \/ TaskCurrent # NULL
        /\ ~timerOn' => ~timerOn
    BY <1>1, TimerStarts DEF RunOS
  <2>6. ~timerOn' => TaskCurrent' = TaskCurrent /\ JobUnderWay' = NoCall
    BY <2>1, <2>5 DEF Halts, JobUnderWay
  <2> QED BY <1>2, <2>2, <2>3, <2>4, <2>5, <2>6 DEF Before
<1> QED BY <1>3, <1>4

\* One step of the kernel is one step of a program over HandlerTasks, or none.
LEMMA ProgramsStep ==
  ASSUME SavesIrq, SleepDelays = {}, IsrMessages = {},
         TypeOK, Shape, Marks, MailKept, HandlerModel, Halts, Ordered, Before, Note,
         TaskCurrent # NULL => Walked = Created, [Next]_vars
  PROVE  [Programs!Next]_(Programs!mvars)
<1>1. CASE \E t \in Task : InitTask(t)
  BY <1>1, InitTaskExtends DEF Programs!Next
<1>2. CASE SendEnqueue
  <2>1. outgoing[1] \in Task /\ outgoing[2] \in Message
    BY <1>2, EnqueuePostsMail
  <2> QED BY <1>2, <2>1, EnqueuePostsMail DEF Programs!Next
<1>3. CASE \E d \in ReturnDelays : TaskReturn(d)
  BY <1>3, ReturnReturns DEF Programs!Next
<1>4. CASE DispatchHandler \/ DispatchFirst
  <2>1. Candidate \in Task
    BY <1>4, HandlerStarts, FirstStarts
  <2> QED BY <1>4, <2>1, DispatchStarts DEF Programs!Next
<1>5. CASE PassBy
  BY <1>5, PassByPasses DEF Programs!Next
<1>6. CASE Tick
  BY <1>6, TickExpires DEF Programs!Next
<1>7. CASE RunOS
  BY <1>7, RunOSBoots DEF Programs!Next
<1>8. CASE \/ SetTimer \/ LeaveRunOS \/ ExitOS \/ IsrExitOS \/ UNCHANGED vars
           \/ \E t \in Task, m \in Message : SendCheck(t, m)
           \/ \E t \in Task, v \in WakeValues : WakeUp(t, v) \/ IsrWakeUp(t, v)
  <2>1. UNCHANGED <<TaskCurrent, TaskNext, timerOn>>
    BY <1>8 DEF SetTimer, LeaveRunOS, ExitOS, IsrExitOS, vars, tcb, SendCheck, WakeUp, IsrWakeUp
  <2>2. UNCHANGED Actors!avars
    BY <1>8, SetTimerStutters, OthersStutter
  <2> QED BY <2>1, <2>2, OrderKept, SameView DEF Programs!mvars
<1>9. ~(ResumeSleeper \/ SetTimerFirst \/ SetTimerSecond)
  BY CandidateInRing DEF ResumeSleeper, Select, Visit, SetTimerFirst, SetTimerSecond,
                         HandlerModel
<1> QED BY <1>1, <1>2, <1>3, <1>4, <1>5, <1>6, <1>7, <1>8, <1>9
        DEF Next, Boot, Call, Yield, Scheduler, Interrupt

\* Whatever is true of every program over HandlerTasks is true of that program on
\* the kernel: any number of tasks that only return, on a HAL that keeps the flag.
THEOREM KernelRunsPrograms ==
  ASSUME SavesIrq, SleepDelays = {}, IsrMessages = {}
  PROVE  PSpec => ProgramsSeeHandlers
<1>1. PInit => Ordered /\ Before /\ Programs!Init
  <2> SUFFICES ASSUME PInit PROVE Ordered /\ Before /\ Programs!Init
    OBVIOUS
  <2>1. Created = {} /\ FreshTasks = {} /\ JobUnderWay = NoCall /\ order = << >>
    BY DEF PInit, Init, Created, FreshTasks, JobUnderWay
  <2>2. Ordered /\ Before
    BY <2>1 DEF PInit, Init, Ordered, Before
  <2>3. Armed = {} /\ Due = {} /\ Mail = [t \in {} |-> << >>]
    BY <2>1 DEF Armed, Due, Mail
  <2>4. View = [ring |-> << >>, last |-> NULL, fresh |-> {}, armed |-> {}, due |-> {},
                mail |-> [t \in {} |-> << >>]]
    BY <2>1, <2>3, Zenon DEF View, PInit, Init
  <2> QED BY <2>1, <2>2, <2>4 DEF Programs!Init, PInit, Init
<1>2. /\ (TypeOK /\ Shape) /\ (Marks /\ Halts) /\ (Marks /\ Halts)' /\ MailKept
      /\ HandlerModel /\ (TaskCurrent # NULL => Walked = Created) /\ Ordered /\ Before
      /\ [PNext]_pvars
      => Ordered' /\ Before' /\ [Programs!Next]_(Programs!mvars)
  <2> SUFFICES ASSUME TypeOK, Shape, Marks, Halts, Halts', MailKept, HandlerModel,
                      TaskCurrent # NULL => Walked = Created, Ordered, Before, [PNext]_pvars
               PROVE  Ordered' /\ Before' /\ [Programs!Next]_(Programs!mvars)
    OBVIOUS
  <2>1. [Next]_vars
    BY DEF PNext, pvars
  <2> QED BY <2>1, OrderStep, ProgramsStep
<1>3. PSpec => Spec
  <2>1. [PNext]_pvars => [Next]_vars
    BY DEF PNext, pvars
  <2> QED BY <2>1, PTL DEF PSpec, PInit, Spec
<1> QED BY <1>1, <1>2, <1>3, TypeCorrect, ControlInvariant, MailboxesInvariant,
           HandlerModelInvariant, TickReachesAll, PTL
        DEF PSpec, ProgramsSeeHandlers, Programs!Spec
=============================================================================
