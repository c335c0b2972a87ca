----------------------------- MODULE HalFrames -----------------------------
(***************************************************************************)
(* The assembly half of the hardware abstraction layer: the frame that     *)
(* ktos_hal_InitTaskStack writes for a task that is to start, and what     *)
(* ktos_hal_ContextSwitch saves on one stack and restores from another.    *)
(*                                                                         *)
(* The boards make the same calls in lockstep, each on a machine of its    *)
(* own.  A word of a register or of a stack is a symbol that says what it  *)
(* stands for, so that a word in the wrong place is seen.  A stack is a    *)
(* sequence, its top first.                                                *)
(***************************************************************************)
EXTENDS Integers, Sequences

CONSTANTS
  Boards,   \* the boards to run: "lx106", "msp430", "cm3", "cm0", "avr"
  Task,     \* tasks
  Message,  \* messages a frame may carry
  FirstMsg  \* the one of the frames that ktos_InitTask makes

ASSUME TaskAssumption == "os" \notin Task
ASSUME MessageAssumption == FirstMsg \in Message

Context == Task \cup {"os"}

\* Words: registers, and the values found in them.
R(i)       == <<"r", i>>
SREG       == <<"sreg">>     \* status register (SREG, SR, or SAR on the LX106)
LR         == <<"lr">>       \* Cortex-M link register
Register   == {R(i) : i \in 0..31} \cup {SREG, LR}
Zero       == <<"zero">>
Unknown    == <<"unknown">>  \* a word nobody wrote
Launch     == <<"launch">>   \* ktos_task_launch
ExitHandler == <<"exit">>    \* ktos_DefaultTaskExitHandler
Func(t)    == <<"func", t>>
Return(c)  == <<"return", c>>  \* behind c's call of ktos_hal_ContextSwitch
Type(m)    == <<"type", m>>
Param1(m)  == <<"param1", m>>
Param2(m)  == <<"param2", m>>
Part(w, k) == <<"part", w, k>> \* part k of w, 0 the lowest: a byte, or a 16-bit half
\* The word that a sequence of parts, the lowest first, makes up.
Joined(s)  == IF /\ s[1][1] = "part"
                 /\ \A k \in DOMAIN s : s[k] = Part(s[1][2], k - 1)
              THEN s[1][2] ELSE Unknown

Regs(first, last) == [i \in 1..(IF first <= last THEN last - first ELSE first - last) + 1 |->
                        R(IF first <= last THEN first + i - 1 ELSE first - i + 1)]
Zeros(n)   == [i \in 1..n |-> Zero]

(***************************************************************************)
(* Frames of tasks that are to start.                                      *)
(***************************************************************************)
\* Mutant: the exit handler is put where the trampoline takes the function.
MutLx106Frame(t, m) ==
  <<Launch, Zero, Type(m), Param1(m), Param2(m), ExitHandler, Func(t)>> \o Zeros(9)
Lx106Frame(t, m) ==
  <<Launch, Zero, Type(m), Param1(m), Param2(m), Func(t), ExitHandler>> \o Zeros(9)

Msp430Frame(t, m) ==
  <<Zero, Type(m), Param1(m), Part(Param2(m), 0), Part(Param2(m), 1), Func(t)>>
    \o Zeros(3) \o <<Launch, ExitHandler>>

CortexM3Frame(t, m) ==
  Zeros(8) \o <<Type(m), Param1(m), Part(Param2(m), 1), Zero, Zero, ExitHandler, Func(t), Zero>>

CortexM0Frame(t, m) ==
  Zeros(8) \o <<Type(m), Param1(m), Part(Param2(m), 1), Zero, Zero, ExitHandler, Func(t), Zero>>

AvrFrame(t, m) ==
  [i \in 1..4 |-> Part(Param2(m), 4 - i)]
    \o <<Part(Param1(m), 1), Part(Param1(m), 0), Part(Type(m), 1), Part(Type(m), 0)>>
    \o Zeros(25)
    \o <<Part(ExitHandler, 1), Part(ExitHandler, 0), Part(Func(t), 1), Part(Func(t), 0)>>

Frame(b, t, m) == CASE b = "lx106"  -> Lx106Frame(t, m)
                    [] b = "msp430" -> Msp430Frame(t, m)
                    [] b = "cm3"    -> CortexM3Frame(t, m)
                    [] b = "cm0"    -> CortexM0Frame(t, m)
                    [] b = "avr"    -> AvrFrame(t, m)

(***************************************************************************)
(* ktos_hal_ContextSwitch: what it leaves on the stack of the caller, with *)
(* the return address where the call pushes one, and in which registers it *)
(* takes the words of the other stack, both from the top.                  *)
(***************************************************************************)
Lx106Save      == <<R(0), SREG>> \o Regs(2, 15)
\* Mutant: SAR is not taken from the stack, although it was put there.
MutLx106Restore == <<R(0)>> \o Regs(2, 15)
Lx106Restore   == <<R(0), SREG>> \o Regs(2, 15)
Msp430Save     == <<SREG>> \o Regs(11, 4)
Msp430Restore  == <<SREG>> \o Regs(11, 4)
CortexM3Save   == Regs(4, 11)
CortexM3Restore == Regs(4, 11)
CortexM0Save   == Regs(8, 11) \o Regs(4, 7)
CortexM0Restore == Regs(8, 11) \o Regs(4, 7)
AvrSave        == Regs(31, 1) \o <<SREG>>
AvrRestore     == Regs(31, 1) \o <<SREG, R(0)>>

Save(b) == CASE b = "lx106" -> Lx106Save    [] b = "msp430" -> Msp430Save
             [] b = "cm3"   -> CortexM3Save [] b = "cm0"    -> CortexM0Save
             [] b = "avr"   -> AvrSave
Restore(b) == CASE b = "lx106" -> Lx106Restore    [] b = "msp430" -> Msp430Restore
                [] b = "cm3"   -> CortexM3Restore [] b = "cm0"    -> CortexM0Restore
                [] b = "avr"   -> AvrRestore

\* The return address: pushed by the call, low part first on the AVR, or in a register.
CallPushes(b, c) == CASE b = "msp430" -> <<Return(c)>>
                      [] b = "avr"    -> <<Part(Return(c), 1), Part(Return(c), 0)>>
                      [] OTHER        -> << >>
LinkRegister(b) == IF b = "lx106" THEN R(0) ELSE LR

Word(s, i) == IF i \in DOMAIN s THEN s[i] ELSE Unknown

\* The last instruction: where execution goes on, and what the code there finds as its
\* return address, with the registers r restored and the rest of the stack in s.  On the
\* LX106 and the MSP430 a new task goes through the trampoline ktos_task_launch.
Arrive(b, r, s) ==
  CASE b = "lx106"  -> IF r[R(0)] = Launch THEN [pc |-> r[R(5)], ra |-> r[R(6)]]
                                           ELSE [pc |-> r[R(0)], ra |-> r[R(0)]]
    [] b = "msp430" -> [pc |-> IF Word(s, 1) = Launch THEN r[R(8)] ELSE Word(s, 1),
                        ra |-> Word(s, 2)]
    [] b = "avr"    -> [pc |-> Joined(<<Word(s, 2), Word(s, 1)>>),
                        ra |-> Joined(<<Word(s, 4), Word(s, 3)>>)]
    [] OTHER        -> [pc |-> r[LR], ra |-> r[LR]]

\* MsgType, Param1 and Param2 as a task function that starts now finds them.
Arguments(b, r) ==
  CASE b = "lx106"  -> <<r[R(2)], r[R(3)], r[R(4)]>>
    [] b = "msp430" -> <<r[R(4)], r[R(5)], Joined(<<r[R(6)], r[R(7)]>>)>>
    [] b = "avr"    -> <<Joined(<<r[R(24)], r[R(25)]>>), Joined(<<r[R(22)], r[R(23)]>>),
                         Joined(<<r[R(18)], r[R(19)], r[R(20)], r[R(21)]>>)>>
    [] OTHER        -> <<r[R(0)], r[R(1)], r[R(2)]>>

\* The AVR code overwrites X, which holds p_current_sp_storage, with the stack pointer
\* before it stores through X: the caller's stack pointer is not recorded.
RecordsStackPointer(b) == b # "avr"

\* Registers whose values a context may count on across the switch.
Kept(b) == CASE b = "lx106"  -> {SREG} \cup {R(i) : i \in 2..15}
             [] b = "msp430" -> {SREG} \cup {R(i) : i \in 4..11}
             [] b = "avr"    -> {SREG} \cup {R(i) : i \in 1..31}
             [] OTHER        -> {R(i) : i \in 4..11}

(***************************************************************************)
(* The kernel's calls, on every board at once.                             *)
(***************************************************************************)
VARIABLES
  at,      \* the context that should be running
  how,     \* how it came to run: "boot", "fresh" (from a frame) or "resumed"
  status,  \* each task: "created", "returned" (the two have a frame) or "suspended"
  params,  \* the message of each task's frame
  mark,    \* one bit per context, flipped whenever it is left: its registers hold it
  cpu,     \* each board: where execution is, its return address, its registers
  mem      \* each board: the stack of every context that is not running
vars == <<at, how, status, params, mark, cpu, mem>>

\* What context c keeps in register r while its mark is k.
Value(c, r, k) == <<"value", c, r, k>>

\* The registers when c calls ktos_hal_ContextSwitch.
AtCall(b, c) == [r \in Register |-> IF r \in Kept(b) THEN Value(c, r, mark[c])
                                    ELSE IF r = LinkRegister(b) THEN Return(c) ELSE Unknown]

\* The caller's stack, if its stack pointer is recorded: all of it that anyone uses again.
Pushed(b, c) ==
  IF RecordsStackPointer(b)
    THEN [i \in DOMAIN Save(b) |-> AtCall(b, c)[Save(b)[i]]] \o CallPushes(b, c)
    ELSE << >>

Popped(b, r, s) ==
  LET list == Restore(b) IN
  [reg \in Register |->
     IF \E i \in DOMAIN list : list[i] = reg
       THEN Word(s, CHOOSE i \in DOMAIN list : list[i] = reg) ELSE r[reg]]

Arrived(b, c, s) ==
  LET r == Popped(b, AtCall(b, c), s)
      n == Len(Restore(b))
      rest == IF n < Len(s) THEN SubSeq(s, n + 1, Len(s)) ELSE << >>
  IN [pc |-> Arrive(b, r, rest).pc, ra |-> Arrive(b, r, rest).ra, regs |-> r]

\* c calls ktos_hal_ContextSwitch for d; stacks is what memory holds by then.
Switch(c, d, stacks) ==
  /\ cpu' = [b \in Boards |-> Arrived(b, c, stacks[b][d])]
  /\ mem' = [b \in Boards |-> [stacks[b] EXCEPT ![c] = Pushed(b, c)]]
  /\ mark' = [mark EXCEPT ![c] = 1 - mark[c]]
  /\ at' = d

Init ==
  /\ at = "os" /\ how = "boot"
  /\ status = [t \in Task |-> "created"]
  /\ params = [t \in Task |-> FirstMsg]
  /\ mark = [c \in Context |-> 0]
  /\ cpu = [b \in Boards |-> [pc |-> Return("os"), ra |-> Unknown,
                              regs |-> [r \in Register |-> Unknown]]]
  /\ mem = [b \in Boards |->
              [c \in Context |-> IF c = "os" THEN << >> ELSE Frame(b, c, FirstMsg)]]

\* The scheduler switches into the frame of ktos_InitTask,
EnterCreated(t) ==
  /\ at = "os" /\ status[t] = "created"
  /\ Switch("os", t, mem)
  /\ how' = "fresh"
  /\ UNCHANGED <<status, params>>

\* into the frame it makes for a task that had returned,
EnterAgain(t, m) ==
  /\ at = "os" /\ status[t] = "returned"
  /\ Switch("os", t, [b \in Boards |-> [mem[b] EXCEPT ![t] = Frame(b, t, m)]])
  /\ how' = "fresh"
  /\ params' = [params EXCEPT ![t] = m]
  /\ UNCHANGED status

\* or into a task that ktos_Sleep suspended.
Resume(t) ==
  /\ at = "os" /\ status[t] = "suspended"
  /\ Switch("os", t, mem)
  /\ how' = "resumed"
  /\ UNCHANGED <<status, params>>

\* ktos_Sleep, and the exit handler of a task that returns.
Leave(t, as) ==
  /\ at = t
  /\ Switch(t, "os", mem)
  /\ status' = [status EXCEPT ![t] = as]
  /\ how' = "resumed"
  /\ UNCHANGED params
SleepLeave(t) == Leave(t, "suspended")
ExitLeave(t)  == Leave(t, "returned")

Next == \E t \in Task : \/ EnterCreated(t)
                        \/ \E m \in Message : EnterAgain(t, m)
                        \/ Resume(t)
                        \/ SleepLeave(t)
                        \/ ExitLeave(t)

Spec == Init /\ [][Next]_vars

(***************************************************************************)
(* Properties.                                                             *)
(***************************************************************************)
\* "When ktos_hal_ContextSwitch() first switches to this task it begins execution at
\* task_func_addr with the three initial parameters", and a return from there goes to
\* the exit handler (ktos_hal.h:110-117): the frame, the order of the pops and the
\* trampoline have to agree word by word.
FreshTaskStarts ==
  how = "fresh" => \A b \in Boards :
    /\ cpu[b].pc = Func(at)
    /\ cpu[b].ra = ExitHandler
    /\ Arguments(b, cpu[b].regs) = <<Type(params[at]), Param1(params[at]), Param2(params[at])>>

\* A context that had called ktos_hal_ContextSwitch goes on behind that call, with the
\* registers it had then, whatever ran in between (ktos_hal.h:140-147).
ContextRestored ==
  how = "resumed" => \A b \in Boards :
    /\ cpu[b].pc = Return(at)
    /\ \A r \in Kept(b) : cpu[b].regs[r] = Value(at, r, 1 - mark[at])
=============================================================================
