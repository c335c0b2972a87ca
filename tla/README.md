# KTOS in TLA+

KTOS is a cooperative task switcher for microcontrollers: a portable kernel of
about 400 lines of C (`src/core/ktos.c`), a contract for processor ports
(`src/core/ktos_hal.h`), one board support package (BSP) per processor, and a
set of example applications.  This directory holds a formal model of it: TLA+
modules translated from the source, TLC configurations that check them on small
instances, and theorems about them, proved with TLAPS for every instance.

Contents: 1 the system, 2 the modules, 3 how state and actions correspond to
the code, 4 the runs, 5 bounds, 6 fairness, 7 the proofs, 8 where code and
documentation disagree, 9 what is not modelled, 10 what is next.

## 1. The system

### Components, their state and operations

| component | source | state | operations |
|---|---|---|---|
| kernel | `core/ktos.c`, `core/ktos.h` | `TaskCurrent`, `AllowTaskSwitch`, `ktos_exit_requested`, `g_LastTaskReturnValue`; per task control block: stack pointer, ring link, queue, `CountdownTimer`, `ISRTimer`, `TaskSleeping`, `TaskTypeWakeUp`, `ScheduleReinit` | `ktos_InitTask`, `ktos_RunOS`, `ktos_ExitOS`, `ktos_SendMsg`, `ktos_WakeUp`, `ktos_Sleep`, `ktos_SwitchTask` (the scheduler loop), `ktos_DefaultTaskExitHandler`, `ktos_timer_irq_handler` |
| message queue | the same | `MsgQueue` array, `MsgQueueIn`, `MsgQueueOut`, `MsgQueueEnd`, `NumMessages`, `QCapacity` | enqueue in `ktos_SendMsg`, dequeue in `ktos_SwitchTask` |
| default `main` | `core/ktos_common.c` | none of its own | creates one task, sends it INIT, runs the system |
| HAL contract | `core/ktos_hal.h` | the interrupt-enable flag, the stack frames | disable, enable, `ktos_hal_InitTaskStack`, `ktos_hal_ContextSwitch`, `ktos_hal_InitSystemTimer` |
| BSPs | `bsp/*/ktos_bsp.c` | registers, the saved frames, the tick timer | the HAL functions, for AVR, Cortex-M, MSP430, PIC18, Xtensa |
| UART shell | `examples/Arduino/Nano/uart` | `g_line_buf`, `g_assembling_len` | `rx_task` assembles, `cmd_task` executes |
| button | `.../button_control` | `g_stable_pressed`, `g_last_raw_high`, `g_debounce_count` | `button_task` debounces, `ui_task` prints |
| LED | `.../led_control` | `g_led_mode`, `g_led_level`, the port | `uart_task` parses, `led_task` blinks |
| EEPROM shell | `examples/Arduino/Uno/eeprom` | two EEPROM cells, `g_boot_count`, the line buffer | `counter_task` counts boots and executes, `rx_task` assembles |
| ROS 2 bridge firmware | `examples/ros2_serial_bridge/ktos_firmware` | line buffer, `g_led_state`, `g_motor_speed` | five tasks: heartbeat, sensor, status, serial receive, command |
| ROS 2 bridge node | `.../ros2_ws/.../serial_bridge_node.py` | serial handle, lock, `_running` | reader thread, command callback, `destroy_node` |
| ESP8266 TLS | `examples/esp8266/https_bear_ssl` | receive ring, `g_sending`, `g_request_sent`, result | name lookup and connection, the pump `bear_drive`, espconn's callbacks, the printing task |
| ESP8266 HTTPS GET | `examples/esp8266/https_get` | clock timer and `g_sntp_polls`, response buffer, result | clock polling, name lookup, connection callbacks, the printing task |

### Interactions

There is one processor.  Tasks never pre-empt each other; a task gives up the
processor by returning (handler model) or by calling `ktos_Sleep` (coroutine
model), and the scheduler loop, which runs on `main`'s stack, then visits the
ring of task control blocks.  Interrupt handlers can run whenever the
processor's interrupt flag is set: the 1 ms tick, which walks the ring and counts
down the timers, and application handlers, which may call `ktos_SendMsg`,
`ktos_WakeUp` and `ktos_ExitOS`.  The shared state of tasks, scheduler and
handlers is the task control blocks; it is protected only by disabling
interrupts around some of the accesses.  Whether the flag is part of a stack
frame is up to the BSP: AVR and MSP430 save and restore it at a context switch
(so each context has its own), Cortex-M ports leave it as it is, and so does the
ESP8266's switch, which saves no PS (that port has no tick either).  No shipped port
has both frames that work and a flag that is saved: section 8.

### What is hard

* tests made before interrupts are disabled and acted on afterwards
  (`ktos.c:219`);
* the scheduler's accesses to a timer after a context switch, which assume that
  interrupts are disabled (`ktos.c:332-347`);
* flags with several writers: `ISRTimer` is set by the tick, by `ktos_WakeUp`, by
  `ktos_Sleep(0)` and by a returned 0, and cleared by the scheduler in two
  places;
* `g_LastTaskReturnValue`, which belongs to the last task that returned and is
  read after every context switch;
* stack re-initialisation: a stack has to be rebuilt exactly when its function
  has returned;
* HALT_TASK_SWITCH, which leaves the whole system to one sleeper;
* 16-bit countdowns with a reserved value (65535 means "never").

### What makes each component correct

* message queue: one sender at a time in the critical section, a FIFO of bounded
  capacity, pointers and counter that agree;
* kernel: one ring through all tasks; frames entered only in the way they were
  left; messages in order and none lost or duplicated; TIMER not early, not
  twice and eventually; everybody's turn comes; HALT excludes everybody else; a
  wake-up value belongs to the event that ended the sleep;
* BSPs: what `ktos_hal_InitTaskStack` writes is what `ktos_hal_ContextSwitch`
  pops; a suspended context gets its registers back;
* UART shell: the line executed is the line typed, although it is not in the message;
* button: an edge needs a whole window of samples and always reaches the screen;
* LED: the last accepted command wins; BLINK goes on for ever;
* EEPROM: boots that store their low byte are counted however often power fails, unless
  the failure leaves a cell half programmed or falls between two bytes that both change;
* ROS 2 firmware: what is left of an overlong line is known; the state is that of the
  accepted commands, and a STATUS does not show an old one;
* ROS 2 node: no port is leaked, the device comes back, and the end of spinning closes the
  port: the reader comes to its end unless the process exits first (it is a daemon thread
  that nobody joins, `serial_bridge_node.py:67,213-219`);
* TLS: the stream reaches the engine in order, the engine's buffer is not reused while
  it is sent, the pump never stops with work left, the report is true;
* HTTPS GET: a timeout comes after all polls since the last address and not over the
  request that address has led to, and there is a report in the end.

`PROJECT.json` lists every hazard at its line, with the properties that cover it.

## 2. The modules

```
MessageRing ── KtosQueue ── MCKtosQueue           BoundedFifo (abstract): implemented by
     │             │                                KtosQueue and by each queue of Ktos
     │             ├── KtosQueueProofs
     │             └ implements SharedQueue (abstract)
     │
     └────── Ktos ── KtosHandlers ── KtosClaims ── MCKtos
               │       │  └ implements KtosActors (abstract)
               │       └── KtosPrograms ─┐
               │              └ implements HandlerMachine (abstract, over HandlerTasks)
               └── KtosTurns ────────────┴── MCKtosTurns
KtosTurns ── KtosProofs ── KtosMailboxProofs (with KtosPrograms)
MessageRingProofs (lemmas about the ring, used by all kernel proofs)

HandlerTasks ─┬─ LineShell, ButtonControl, LedControl, EepromShell, RosFirmware ─┐
(kernel as    │                                                                  ├─ MCExamples
 seen above)  │                               HttpGet, RosNode ──────────────────┘
              └─ LineShell, ButtonControl, LedControl, EepromShell, HttpGet ── ExampleProofs

HalFrames ── MCHalFrames, HalFramesProofs
RosNode, RosFirmware ── RosProofs          TlsConnection ── TlsProofs
```

| module | what it is |
|---|---|
| `MessageRing` | the circular buffer as pure operators: `StoreMsg`, `AdvanceIn`, `CountMsg`, `Dequeue`, and `Contents`, the sequence of messages it stands for |
| `BoundedFifo` | abstract: a FIFO of at most `Capacity` messages |
| `SharedQueue` | abstract: a queue whose senders preempt one another; the answer that there is room and the insertion are two steps, the insertion is indivisible |
| `KtosQueue` | one queue with `ktos_SendMsg` statement by statement, called from the background and from nested interrupt levels, while the scheduler dequeues |
| `Ktos` | the kernel: every function of `ktos.c` over all tasks, the tick and the other handlers, and the default `main`'s calls |
| `KtosActors` | abstract: handler-model tasks as actors with a mailbox and an alarm; no scheduler, ring, stacks or flags |
| `KtosHandlers` | the refinement mapping from `Ktos` to `KtosActors` |
| `KtosTurns` | `Ktos` with a history variable that records who ran while a ready task waited |
| `HandlerMachine` | abstract: any program over `HandlerTasks`, that is the kernel the example programs are written against |
| `KtosPrograms` | the refinement mapping from `Ktos`, with a history variable for the order of creation, to `HandlerMachine` |
| `KtosClaims` | what comments claim and the code does not do (section 8) |
| `HalFrames` | the assembly of five ports: frames, save and restore lists, the last jump, trampolines, on symbolic words |
| `HandlerTasks` | the kernel as an application sees it whose tasks only return: `KtosActors` with the order of turns, as operators on one record |
| `LineShell`, `ButtonControl`, `LedControl`, `EepromShell`, `RosFirmware` | the example programs over `HandlerTasks` |
| `RosNode` | the bridge node's two threads and the device |
| `TlsConnection` | the TLS example: startup, pump, callbacks, with engine, espconn and server around it |
| `HttpGet` | the HTTPS GET example up to the start of its kernel |
| `MC*` | instances for TLC; `MCExamples` puts seven programs side by side, one of which runs |
| `*Proofs` | theorems and their proofs (section 7) |

`KtosQueue` and `Ktos` cut the same code at different grains.  `KtosQueue` takes
one queue and makes every statement of `ktos_SendMsg` a step, so that handlers
can interrupt anywhere.  `SendsAreAtomic` says that it implements `SharedQueue`, where
a send is two steps, the test for room and the insertion as a whole: that is what allows
`Ktos`, with all tasks and all functions, to treat the section between disable and
enable as one step while it keeps the test for room separate.

The kernel's contract has two layers in the same way.  `Ktos` assumes of a port what
`ktos_hal.h` says; `HalFrames` asks which ports keep it.  The example programs rest on
`HandlerTasks`.  `ProgramsSeeHandlers` says that this is the kernel they get: each step of
`Ktos` is one that the operators of `HandlerTasks` allow, or none, for tasks that only
return and interrupt handlers that do not send, as in those programs.

## 3. How state and actions correspond to the code

Every variable of `Ktos` that has a C identifier as its name is that static
variable or that field, as a function of the task where it is a field.  `MsgQueue[t]`
is a record of slots, the two pointers as offsets, and the counter.  The rest:

* `pc` says who owns the processor: `main`; the scheduler's `loop`; a `task`
  body; `back`, the scheduler after a task switched back to it; `half`, between
  its two timer stores;
* `irq` is the processor's interrupt-enable flag, `timerOn` is set by
  `ktos_hal_InitSystemTimer`;
* `StackPointer[t]` stands for the saved context: the event with which a fresh
  frame will call the task function, a context switch inside `ktos_Sleep`, or
  that of a function that has already returned (a dead frame);
* `outgoing` is a `ktos_SendMsg` call between its test for room and its
  `ktos_hal_DisableInterrupts`.

A handler is one atomic action, enabled only if `irq`.  Code that runs with
interrupts disabled is one action; code that may be interrupted is cut where a
handler can see or change the same state:

| C function | actions |
|---|---|
| `ktos_InitTask` | `InitTask` |
| `ktos_RunOS` | `RunOS` |
| `ktos_SendMsg` | `SendCheck` (lines 218-219), `SendEnqueue` (220-230); from a handler `IsrSend` |
| `ktos_WakeUp` | `WakeUp`; from a handler `IsrWakeUp` |
| `ktos_ExitOS` | `ExitOS`; from a handler `IsrExitOS` |
| `ktos_Sleep` | `SleepCall` up to the context switch, `ResumeSleeper` after it |
| task function returning through `ktos_DefaultTaskExitHandler` | `TaskReturn` |
| `ktos_SwitchTask`, one pass | `LeaveRunOS`, `PassBy` (task not ready), `DispatchHandler` (re-initialised stack), `DispatchFirst` (the stack of `ktos_InitTask`), `ResumeSleeper`; after the switch back `SetTimer`, or `SetTimerFirst` and `SetTimerSecond` if the flag allows an interrupt between the two stores |
| `ktos_timer_irq_handler` | `Tick`, over the tasks reached from `TaskCurrent` |

Task bodies are not modelled: a body is any finite sequence of the calls above,
with arguments from the constants `ReturnDelays`, `SleepDelays`, `SwitchModes`,
`WakeValues` and `Message`.  `SavesIrq` chooses the BSP family.

The other modules:

* `HalFrames`: words are symbols that say what they stand for (`Param2`, byte 3; the
  exit handler; the value context `c` had in `R4`), stacks are sequences with the top
  first.  A board is a frame (`ktos_hal_InitTaskStack`), two register lists (the pushes
  and pops of `ktos_hal_ContextSwitch`), what its call instruction pushes, and where its
  last instruction goes (`Arrive`).  The actions are the kernel's five kinds of switch,
  made on all boards in lockstep.
* `HandlerTasks`: `HasTurn` is the scheduler's walk from the task that ran last,
  `EventOf` the choice between INIT, message and TIMER, `Posted` `ktos_SendMsg` with its
  silent refusal, `Returned` what the scheduler does with the returned delay.  While no
  task is ready the loop goes on round the ring (`CanPass`, `PassedBy`), so that which of
  two tasks that become ready together comes first depends on where it is.  A turn is
  one action of the program, except where power may fail in its middle
  (`EepromShell`: `ReadCount`, `WriteLow`, `WriteHigh`) or it is long
  (`RosFirmware`: a poll takes its characters one by one).
* `EepromShell`: a cell being programmed is a state of its own (`writing`), so that power
  can fail before, during and after it; an interrupted cell is old, erased or new.  Two
  histories say what is right: `due`, the number of the next boot, which goes up with every
  boot that stores its low byte, and `spoilt`, set by `WRITE` and by the failures that leave
  a number which is neither the old nor the new one (`CountAfter`).
* `RosFirmware`: one character stands for a whole command, so that lines are short;
  `AsShort` is the conversion `(WORD)(short)` and back.
* `RosNode`: one action per access to the shared handle.  A step between taking the
  handle under the lock and using it belongs to neither thread's critical section.
  `live` are the open `Serial` objects, `broken` those whose device was unplugged.
  `ProcessExits` is the end of `main`, which waits for nobody: it may find the reader
  anywhere, and the system closes what the process had open.
* `TlsConnection`: the SDK runs one callback at a time; `bear_drive`'s loop is cut into a
  step per turn, with the guards in the order of the code (`DriveClosed`, `DriveSend`,
  `DriveInject`, `DriveFeed`, `DriveCopy`, `DriveWait`).  TLS bytes are numbered pieces;
  the engine fails when one is missing.
* `HttpGet`: `startup.c` with `HTTP_VERIFY_CA` and `HTTP_SNTP_SYNC`, one action per outcome
  of a callback.  The SDK's SNTP client is external: `client` is whether it runs, between
  `sntp_init` (`startup.c:243`) and `sntp_stop` (217, 225), and the time it had may be lost
  whenever it is started or stopped.

## 4. The runs

Runs that pass:

| run | question | answer |
|---|---|---|
| `queue_many_senders` | what remains true with a task and two nested handlers as senders? | each send inserts its message as a whole, in the order of the insertions (`SendsAreAtomic`); the queue is over its capacity by at most two (`OverflowBounded`) |
| `kernel` | the control invariants of the whole kernel, with everything enabled, on a BSP that does not keep the interrupt flag | stacks are re-initialised exactly after a return; HALT has one owner and freezes the rest; a sleeper is dispatched only with a message; the first event of a race, a wake-up or the tick, decides what a sleeper is told (`FirstEventWins`) |
| `kernel_handlers` | do handler-model tasks see actors, on a BSP that keeps the flag? | yes: queues are FIFOs across dispatches (`MailboxesAreFifo`), `Ktos` implements `KtosActors` (INIT first and once from the frame, messages in order before TIMER, no early TIMER, one job at a time), and under the fairness of section 6 every message is handled and every delay ends (`MailDelivered`, `TimerFires`) |
| `kernel_turns` | are three tasks one ring in every order of creation, is the scheduler round-robin, and do programs over `HandlerTasks` get that kernel from `Ktos`? | yes: between the moment a task is ready and its turn nobody has two turns (`RingIsOneCycle`, `OneTurnEach`); turns go round in the order of creation from wherever the loop is, each with the event, the queue and the timers `HandlerTasks` says (`ProgramsSeeHandlers`) |
| `frames` | does the ESP8266 port keep the contract of `ktos_hal.h`? | yes: a new frame starts its function with its arguments and returns to the exit handler (`FreshTaskStarts`), and a context that goes on has its registers (`ContextRestored`) |
| `examples` | what do six programs do under bursts, full queues, power failures and lost answers, and the two threads of the bridge node with the device unplugged or the process ended at any moment? | see below |
| `tls` | what do callbacks in every order, a small ring, failing sends and errors do to the TLS stream and the report? | the pump leaves nothing behind, acknowledges what was sent, feeds the stream in order until something is dropped, drops only while a record is in flight; the report is true with the exceptions named in `ReportIsTrue`; something is printed unless handshake pieces were dropped (`EventuallyPrints`) |

The properties of `examples`: a line that ended its burst is read as typed
(`LineReadIntact`); every debounced edge is printed although a full queue would go
unnoticed (`UiSeesEveryEdge`), none comes from a bounce (`EdgesAreDebounced`), and a level
that stays is shown (`ButtonLevelReported`); the last accepted mode wins and BLINK blinks
for ever (`LastModeWins`, `LedBlinksForever`); a boot shows one more than the boots before
it that stored their low byte, as long as the stored number is not spoilt
(`BootCountRises`); the pieces of an overlong line (`LineIsTail`), the state after the commands
(`StateIsLastAccepted`) and the age of a STATUS (`StatusIsCurrent`); the clock's timeout
of the HTTPS GET comes only after all polls since the last address and never once that
address has led to a lookup (`TimeoutIsHonest`), and the report comes (`HttpReports`); the
node neither leaks a port nor has two (`NoLeakedPort`), comes back when the device does
(`Reconnects`), and has closed the port after spinning ends, by the reader's end or by the
process's (`EndsClean`).

Runs that end in a counterexample, each for one statement of a comment:
`queue_race`, `sleep_resumes`, `wake_value`, `timer_lost`, `frames_contract` (see section 8).

Every property of a passing run has a mutant in `PROJECT.json`: a definition
changed in the way a plausible bug would change it, under which TLC finds that
property violated.  The mutated forms stand before the definitions they replace,
as operators named `Mut...`.

## 5. Bounds

No state constraint and no counter bound is used: all state is finite once the
constants are.  Countdowns are limited by the delays given, queues by the
capacity (and by the number of senders, which is what `OverflowBounded` says).

* Tasks: two suffice for every property that relates a task to "the others";
  `kernel_turns` uses three, because the order of turns, and the ring's order of
  links, say nothing with two.  It keeps the interrupt flag, as `ProgramsSeeHandlers`
  needs; that `OneTurnEach` holds on the other BSPs too is a theorem (`RoundRobin`).
* Queues: capacity 3 in `queue_many_senders`, 2 for one task of `kernel_handlers`, so that
  both pointers wrap independently and a queue is neither empty nor full; 1
  where only empty or not matters.  Several message values where order is the
  question.
* Delays: 0 (at once), 1 or 2 (one or two ticks, the second giving a tick that
  does not expire) and 65535 (never).  A longer delay adds states in which the
  tick only counts.
* Interrupt levels: two, so that a handler interrupts a handler that interrupted
  a task.
* `wake_value` has three tasks, a sleeper and two that wake it with different values;
  `timer_lost` two, each with a delay of one tick.
* `Init` leaves the interrupt flag after reset open.
* `frames`: two tasks, so that another one runs while one is suspended, and two messages;
  one bit per context tells its last call from the one before.
* `examples`: line buffers of 3 and bursts of 4 characters (a line is cut, and a burst
  holds two lines); queues of 2, for which bursts of 3 are too much, where the code has 4
  and 8, except the button's and the EEPROM's, which are as in the code; a cell of base 3,
  so that the counter wraps and passes the value of a blank cell; the debounce window
  of 6 samples as it is; a 2-bit WORD with a speed outside it; 3 clock polls.
  For the node three `Serial` objects: the shared one, the reader's and the command's.
* `tls`: flights of 4, 2 and 3 pieces and close_notify, segments up to 4, a ring of 3 and a
  response buffer of 2: a segment may be larger than the ring, the ring wraps, and the
  response is cut.

The theorems of section 7 remove these bounds for the properties they cover.

## 6. Fairness

`Spec` has none.  `FairSpec` adds what runs without being asked:

* weak fairness of `RunOS` (main calls it), of `SendEnqueue` (a call that was
  begun goes on) and of `Scheduler` (its loop is `while (1)`);
* strong fairness of `Tick`: the timer hardware raises it periodically, and the
  request stays latched while interrupts are disabled, so it is taken at one of
  the infinitely many moments at which they are enabled;
* strong fairness of `Yield`: in a cooperative system a task returns or sleeps
  after finitely many calls.  It is strong because the task may be inside a call
  each time one looks.  This is an assumption on applications, which `ktos.h`
  makes too; a task that never returns stops the system.

Nothing is assumed of applications' sends, wake-ups or exits, nor of their
interrupt handlers.

`MCExamples` has weak fairness of the scheduler and the tick as far as the two liveness
properties of the kernel's programs need it (`BuSystem`, `LedTurn`, `UartTurn`,
`LedExpire`): that is `OneTurnEach` and `TimerFires`.  Passes of the loop over tasks that
are not ready are in no fairness condition (`BuSystem` leaves `BuPass` out): a pass brings
the loop nearer to the ready tasks and never goes over one, so a task whose turn it is
keeps it until it runs.  Fingers and typists do as they like.  For the
HTTPS GET it assumes the polling timer, that each lookup is answered one way or the other,
and that a connection is closed, the request having said "Connection: close"; nothing is assumed of the
clock.  Of the node it assumes that both threads run on as long as the process lives, which
the end of the process may cut short at any point after `destroy_node`, and which is not
fair itself: `rclpy.shutdown` may take any time.  Nothing is assumed of commands, interrupts
or the device: `Reconnects` speaks of a device that stays plugged in.  `TlsConnection` assumes
that espconn calls back and that the server answers what it got and closes in the end.

## 7. What is proved

All theorems hold for every set of tasks, every queue capacity, every set of
messages and every application (or buffer size, window, ...), under the constants'
assumptions (`NULL` is not a task, capacities are positive, delays are 16-bit words,
frames are told apart from messages; sizes are positive).  Assumptions beyond those are in
the theorem's own `ASSUME`.  `SavesIrq` stands for a HAL that saves the interrupt flag in its
frames and turns it off at a switch; runs and theorems that assume it say so.

`KtosProofs`:

* `TypeCorrect`: `TypeOK`, with `Shape` as the strengthening.  `TypeOK` alone is
  not inductive: the scheduler follows `TaskNext[TaskCurrent]`, so one needs that
  `TaskCurrent` is in the ring from the first `ktos_InitTask` on and that the
  links stay in it; a message leaves a queue as an event, so one needs that no
  queue gives out a slot that was never written (`Written`: each of the `num` slots
  behind the read pointer holds a message).
* `OneRing`: `RingIsOneCycle`, inductive with `Shape`.  A set that is closed under
  the new links and contains the new block is, without it, closed under the old
  ones; one that does not contain it cannot contain its predecessor either, which
  the old ring rules out.  `TickReachesAll` follows: the walk of the tick handler
  visits exactly the created tasks.
* `RoundRobin`: `OneTurnEach`, if no task calls `ktos_Sleep` with HALT_TASK_SWITCH
  (`SwitchModes \subseteq {TRUE}`; such a sleeper is the next to run, and may have run
  just before).  The distance from `TaskCurrent` to a waiting task is not counted; the
  invariant `TurnInv` says instead that the tasks between the two, a set closed under the
  ring's links up to the waiting one (`Arc`), have not had a turn since it waits.  A visit
  takes the first task off the arc; a new task can only come in before the scheduler
  has started.
* `ReinitExactlyReturned`, `HaltHasOwner`, `HaltFreezes`: from `Marks` (the running
  task is not marked) and `Halts` (before `ktos_RunOS` switching is on).
* `ResumptionTakesMail` and `FirstEventDecides`: from `Sleepers`, the state of a task
  inside `ktos_Sleep`: once awake and not dispatched it has neither a timer event
  nor a countdown left, so only a message can make it ready; while asleep without a timer
  event, as when it has just switched back, it has no wake-up value, so that a value can only
  come with the event that ends the sleep, and `ktos_WakeUp` does nothing after it.

`KtosMailboxProofs`, if no interrupt handler sends: `PendingKeepsRoom`,
`QueuesStayConsistent` and `MailboxRefinement` (every queue implements
`BoundedFifo`).  The inductive invariant `MailKept` adds that a block which was not
created yet has an empty queue.  Each step changes one queue at most
(`QueueChanges`), by appending or by taking the head.

The same module proves the refinement of the whole kernel, `HandlersImplementActors`,
for tasks that only return (`SleepDelays = {}`, no sends from handlers, `SavesIrq`): one
lemma per action that the actors see (`InitTaskCreates`, `EnqueuePosts`, `TickTicks`,
`FirstStarts`, `HandlerStarts`, `ReturnFinishes`), and two for those they do not.  Besides
`MailKept`, the marks and the reach of the tick it needs `HandlerModel`: nobody sleeps, the
two timer stores are one step, a stack that has not run holds INIT, and a block outside the
ring has nothing to count down.

`KernelRunsPrograms`, in the same module and under the same conditions, is the refinement
of `HandlerMachine`.  It uses what the lemmas above say of the actors and adds where the
scheduler is: `Ordered` (the ring's links are those of the order of creation, closed into
a cycle) and `Before` (until `ktos_RunOS` the newest task is current and nothing has run).
`Visits` in `HandlerTasks` is a remainder, which the source's pointers know nothing of; `WrapIsNext` and
`LoopIsNext` show that it is 0 for exactly `TaskCurrent->TaskNext`.  This carries the theorems
about the example programs over to `Ktos`, with one argument that is not proved: those
modules make a turn one step, where `HandlerMachine` has `Start`, the `Post`s and `Finish`,
and a tick that falls in between only moves timers the turn does not read.

`KtosQueueProofs`: `TypeCorrect`; `SectionIsExclusive`, for any number of interrupt
levels (at most one context is in the section, with interrupts off: a context there has
the processor, `SectionInv`); `SendsImplementShared`, the refinement of `SharedQueue`: the
insertion is mapped to the store of the slot, and the queue seen there has the two
updates that are still to come (`Settled`), which nobody can interrupt;
`OverflowIsBounded` (the contexts that have passed the test are counted together
with the messages); `OneSenderFifo`, the refinement of `BoundedFifo` for any one
sending context (`QueueIsFifo`; no run checks it, as `SendsAreAtomic` with its several
senders is the stronger question for TLC).

`MessageRingProofs` has the lemmas about the ring: what enqueue and dequeue do to
`Contents`, and that pointers and counter stay consistent, wrap-around included.

`HalFramesProofs`, for the ESP8266 port (`Boards = {"lx106"}`) and any tasks and messages:
`FramesStartTasks` and `RegistersSurvive`.  The invariant says of every context that is not
running what its stack is: the frame of its message if it is to start, what its last
switch pushed, with the mark it had then, if it is suspended.  A switch changes one stack
and reads another.

`RosProofs`, the node: `NoPortLeaks`, for any number of `Serial` objects.  It is nearly inductive;
it needs that the reader's local is the object it has just opened, and that the shared
handle is not live while the reader connects or holds one it has not stored.

`RosProofs`, the firmware, for any sizes of line buffer and queue and any speeds:
`OverlongLineLeavesTail` (the buffer is as long as the line modulo its size, and holds its
last characters), `AcceptedIsApplied` (for each kind of command, either none waits and the
applied value is the wanted one, or the last that waits asks for it: `Settles`) and
`StatusFollowsCommands` (after R's turn nobody comes before C: `CommandIsNext`).

`TlsProofs`, for any sizes of ring, response buffer, segments and flights: `PumpRunsDry`,
`AcksFollowSends`, `StreamInOrder`, `ReportsAreTrue`, `DropsNeedARecordInFlight`.  The
first two come from an invariant about the flags: while the SDK waits, either a record is
in flight and `g_sending` is set, or the last turn of the loop found nothing to do.
`StreamInOrder` has the contents of the ring: slot `g_rxhead + k` holds the piece after the
`k` that come before it; the arithmetic of the wrap-around is in lemmas of its own.

`ExampleProofs`, for any window, line buffer, burst, queue, size of a cell and number of
polls: `NoEdgeIsMissed` (a message for `ui_task` exists only while `ui_task` comes next on
the ring, and it empties its queue), `OnlyWholeWindows`, `LastCommandWins` (the newest
waiting message is the last accepted command; if none waits the LED is as it asked, and a
steady light has no timer), `LinesAreReadIntact` (from the end of the line to
`cmd_task`'s turn that task is next, and the buffer is what was typed), `BootsAreCounted` (unless
spoilt, the cells, the one being programmed included, hold the number before `due`, and
between its two writes a boot holds `due` itself), `TimeoutsAreHonest` (while the timer is
armed its count is the number of polls since the address, and no lookup has come of it).

The programs of two tasks share lemmas about what the operators of `HandlerTasks` do with
two (`PairBooted`, `PairTaken`, `PairPassed`, ...); `RosVisits` and `RosPassed` do the same for
the firmware's five.  `LedControl` and `LineShell` fold over the commands or characters of a burst.
The library's induction takes an operator as a parameter, so these proofs take
`SetInduction`, induction for a set of numbers, which follows from the least
counterexample, and an invariant of the turns of the loop.

Only model-checked: the liveness properties (`MailDelivered`, `TimerFires`,
`ButtonLevelReported`, `LedBlinksForever`, `HttpReports`, `Reconnects`, `EndsClean`,
`EventuallyPrints`); liveness under fairness is beyond the provers used.  Proved without
being a property of a run: `QueuesConsistent` and `SectionExclusive`, which
`MailboxesAreFifo` and `SendsAreAtomic` would not survive without.

## 8. Where code and documentation disagree

| run | documentation | code |
|---|---|---|
| `queue_race` | "Maximum number of messages the queue can hold"; `ktos_SendMsg` is "Thread-safe" and may be called from an ISR (`ktos.h:187,263-264`) | the test at `ktos.c:219` precedes the disable; a handler can take the last slot in between, and the oldest message is overwritten |
| `sleep_resumes` | "Execution resumes here after 200 ms" (`ktos.h:316-319`) | the pass that finds a sleeper expired clears `ISRTimer` (`ktos.c:290`) before it tests it (296): without a message the sleeper is never entered |
| `wake_value` | `TaskTypeWakeUp` is the "Value passed by the most recent `ktos_WakeUp()` call" (`ktos.h:193`) | the first call wins: for a task that is woken and still asleep another one does nothing (`ktos.c:239`); `FirstEventWins` is what holds |
| `timer_lost` | "Interrupts assumed disabled on return" (`ktos.c:332`); TIMER is "Delivered when the task's sleep timer expires" (`ktos.h:139`) | the exit handler switches with whatever flag the task has (`ktos.c:133` against `ktos_hal.h:165-166`); if the HAL leaves the flag as it is, a tick between the stores of 346 and 347 is cleared by the second and TIMER never comes |
| `frames_contract` | "when `ktos_hal_ContextSwitch()` first switches to this task it begins execution at `task_func_addr` with the three initial parameters" (`ktos_hal.h:110-112`) | AVR: the frame has as many bytes as are popped, but the exit handler's address above the task's (`atmega328p/ktos_bsp.c:135-143`), so `RET` takes the exit handler; Cortex-M: `bx lr` returns to the caller, the frame's PC is never loaded (`stm32f103/ktos_bsp.c:193`, `stm32f030`); MSP430: the frame has R4..R11 in the reverse order of the pops |

Only the ESP8266 port keeps the contract of `ktos_hal.h` (`frames`), so what `Ktos` and the modules over it show
holds of the other boards once theirs do.  The runs and theorems with `SavesIrq`
(`kernel_handlers`, `kernel_turns`, `HandlersImplementActors`, `KernelRunsPrograms`) need in
addition a HAL that saves the flag.  AVR and MSP430 save it, but their frames are broken;
the ESP8266's switch saves no PS and its port starts no tick.  So these results speak of
the kernel over a HAL with both, and of no shipped port as it is.
`HalFrames` shows more for the AVR: the
stack pointer is stored through X after X was overwritten (`atmega328p/ktos_bsp.c:222-226`);
of the arguments only the message type lies where it is popped into its register, the
others are popped into r26..r31 in place of r18..r23; and a suspended context pushes 32
bytes of which 33 are popped, so that r0 takes a byte of the return address.

Met while modelling the kernel, as counterexamples or by reading, and not kept as runs:

* after `ktos_Sleep` switches back, the scheduler stores `g_LastTaskReturnValue`, which
  another task may have left, into the sleeper's timer (`ktos.c:334` against `ktos.h:303`,
  "sleep for that many milliseconds");
* `ktos_WakeUp` needs `TaskSleeping`, which only `ktos_Sleep` sets (`ktos.c:239`), so a task
  that returned 65535 is not woken by it (`ktos.h:105-106`);
* HALT_TASK_SWITCH is not ended by `ktos_WakeUp` (`ktos.h:97-98`), because the sleeper
  needs a message;
* `ktos_ExitOS` from a handler takes effect although `ktos.h:360` restricts it to tasks;
* the default `main` makes its task see INIT twice (`ktos_common.c:63`, `ktos.h:138`).

In the examples:

* UART shell and EEPROM shell: a burst of two lines overwrites the first before it is
  executed, which the comment at `uart/src/main.c:94-98` excludes; `LineReadIntact` says
  when a line is safe;
* LED and ROS 2 firmware: commands beyond the queue are dropped without a word, and an
  overlong line's tail is executed as a line of its own; a BLINK during BLINK
  restarts the half second; a motor speed is cut to 16 bits;
* EEPROM: the counter "increments every reset and survives power cycles"
  (`eeprom/README.md:6-7`), but a power failure that leaves a cell half programmed, or that
  falls between the two bytes when both change, spoils the number and is not noticed;
  0xFFFF counts as blank;
* ROS 2 node: a command that is not ASCII raises an exception nobody catches
  (`serial_bridge_node.py:195`) and ends spinning; `destroy_node` may find no port while
  the reader is opening one, which the reader then closes itself;
* TLS: `espconn_sent` failing on the final close_notify turns a complete response into an
  error (`bearssl_conn.c:131`), and so does a failing lookup after a second GOT_IP; nothing
  has a timeout, so dropped handshake pieces hang the program until the server closes;
  `g_network_closed` is never set; a truncated response is reported as success;
* HTTPS GET: an error after a complete response hides it (`startup.c:123-128`); a new address
  during a request starts the clock polling again, and its timeout then ends the request
  of the earlier address (`startup.c:216-220`).

## 9. What is not modelled

* Failing allocations in `ktos_InitTask` and an empty ring in `ktos_RunOS` end in
  `ktos_Emergency`, which does not return.
* `ktos_InitTask` after the first `ktos_RunOS`: no code in the repository does it.
* The tearing of 16-bit accesses on 8-bit processors: an access to `CountdownTimer` is one
  step, and nothing is checked of a tick between its two bytes.
* Parameters of messages, stack sizes, task identifiers, logging.
* Peripheral registers of the BSPs (clocks, timers, UARTs), linker scripts and start-up
  code; the PIC18 port, whose `ktos_hal_ContextSwitch` returns to its caller; the
  alternative BSPs for another kernel API (`nrf52840`, `stm32f407` and others), which do not
  implement the functions the kernel calls; the template.  The remaining AVR and Cortex-M
  ports repeat the code of those modelled, up to the width of the program counter.
* The BearSSL headers under `https_bear_ssl/lib` (about 13,000 lines, more than a third
  of all): declarations and documentation of a library whose code is not in the
  repository.  The engine is modelled as its caller sees it.
* The same example programs ported to other boards (`UNO`, `Mega`, `Leonardo`, `Zero`, `Due`,
  `Pro_Mini`, STM32 and others): their logic is that of the modelled ones, their
  difference register access.  ADC, SPI, I2C and `hello_ktos` examples: one
  task that polls a peripheral and prints; Wi-Fi scan, access point and connect: one callback that
  starts the kernel; `sendmsg`: two tasks that answer each other, an instance of
  `KtosActors`.
* What is printed, parsed or published by the examples, the motor's and the sensor's
  values beyond their range, and the USART's two-byte hardware FIFO.
* Build scripts, packaging, templates and documentation: no run-time state.

For these reasons the modelled lines are a small part of all lines in the repository,
though they contain nearly all of its concurrent logic: of the remainder most is vendored
headers, register access, printing and ports of the same programs.

## 10. What is next

Done, in this order: `MessageRing`, `BoundedFifo`, `KtosQueue`; `Ktos` with its
control invariants; the actor refinement; turns; liveness; their proofs; `HalFrames`; the
example programs, the bridge node, the TLS connection and the HTTPS GET; their proofs; the
runs for what `ktos.h` says of wake-up values and timers; the
proof of the actor refinement; the proofs of round robin, of the atomic sends, of the LED's
modes and the shell's lines; the kernel as an implementation of `HandlerMachine`.

To come:

1. `FreshTaskStarts` for the other ports, should they change: one frame lemma each.
2. `HandlersAreActors` with handlers that send: the mailboxes would be those of `SharedQueue`.
3. Each program composed with `HandlerMachine` step by step, which replaces the argument of
   section 7 about ticks in the middle of a turn.
