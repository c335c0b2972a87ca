-------------------------- MODULE HalFramesProofs --------------------------
(***************************************************************************)
(* Proofs about HalFrames on the LX106, the one board whose frames keep    *)
(* the contract, for any tasks and messages.                               *)
(***************************************************************************)
EXTENDS HalFrames, SequenceTheorems, TLAPS

B == "lx106"
List == <<R(0), SREG>> \o Regs(2, 15)

LEMMA ListWords ==
  /\ Lx106Save = List /\ Lx106Restore = List
  /\ DOMAIN List = 1..16
  /\ List[1] = R(0) /\ List[2] = SREG /\ \A i \in 3..16 : List[i] = R(i - 1)
<1>1. Regs(2, 15) = [i \in 1..14 |-> R(i + 1)]
  BY DEF Regs
<1>2. Regs(2, 15) \in Seq(Register) /\ Len(Regs(2, 15)) = 14
  <2>1. \A i \in 1..14 : R(i + 1) \in Register
    BY DEF Register
  <2>2. Regs(2, 15) \in [1..14 -> Register]
    BY <1>1, <2>1
  <2>3. Regs(2, 15) \in Seq(Register)
    BY <2>2, SeqDef
  <2> QED BY <2>2, <2>3
<1>3. <<R(0), SREG>> \in Seq(Register) /\ Len(<<R(0), SREG>>) = 2
  BY DEF Register
<1>4. /\ List \in Seq(Register) /\ Len(List) = 16
      /\ \A i \in 1..16 : List[i] = IF i <= 2 THEN <<R(0), SREG>>[i] ELSE Regs(2, 15)[i - 2]
  <2> DEFINE a == <<R(0), SREG>>
             b == Regs(2, 15)
  <2>1. a \in Seq(Register) /\ b \in Seq(Register) /\ Len(a) = 2 /\ Len(b) = 14
    BY <1>2, <1>3
  <2>2. List = a \o b
    BY DEF List
  <2> HIDE DEF a, b
  <2>3. /\ a \o b \in Seq(Register) /\ Len(a \o b) = Len(a) + Len(b)
        /\ \A i \in 1..Len(a) + Len(b) : (a \o b)[i] = IF i <= Len(a) THEN a[i] ELSE b[i - Len(a)]
    BY <2>1, ConcatProperties
  <2>4. /\ List \in Seq(Register) /\ Len(List) = 16
        /\ \A i \in 1..16 : List[i] = IF i <= 2 THEN a[i] ELSE b[i - 2]
    <3>1. Len(a) + Len(b) = 16
      BY <2>1
    <3>2. \A i \in 1..16 : (a \o b)[i] = IF i <= 2 THEN a[i] ELSE b[i - 2]
      BY <2>1, <2>3, <3>1, Zenon
    <3> QED BY <2>2, <2>3, <3>1, <3>2, Zenon
  <2> QED BY <2>4 DEF a, b
<1>5. \A i \in 3..16 : List[i] = R(i - 1)
  <2> SUFFICES ASSUME NEW i \in 3..16 PROVE List[i] = R(i - 1)
    OBVIOUS
  <2>1. List[i] = Regs(2, 15)[i - 2] /\ i - 2 \in 1..14 /\ (i - 2) + 1 = i - 1
    BY <1>4
  <2> QED BY <1>1, <2>1
<1>6. List[1] = R(0) /\ List[2] = SREG
  BY <1>4
<1>7. DOMAIN List = 1..16
  BY <1>4
<1> QED BY <1>5, <1>6, <1>7 DEF List, Lx106Save, Lx106Restore

\* Every register is named once.
LEMMA OnePlaceEach ==
  ASSUME NEW i \in 1..16
  PROVE  (CHOOSE j \in DOMAIN List : List[j] = List[i]) = i
<1>1. \A j \in 1..16 : List[j] = List[i] => j = i
  BY ListWords DEF R, SREG
<1> QED BY <1>1, ListWords

Index(r) == CHOOSE j \in DOMAIN List : List[j] = r

LEMMA Indices ==
  /\ Index(R(0)) = 1 /\ Index(SREG) = 2
  /\ \A k \in 2..15 : R(k) = List[k + 1] /\ Index(R(k)) = k + 1
  /\ \A i \in 1..16 : Index(List[i]) = i
<1>1. \A i \in 1..16 : Index(List[i]) = i
  BY OnePlaceEach DEF Index
<1>2. \A k \in 2..15 : R(k) = List[k + 1]
  <2> SUFFICES ASSUME NEW k \in 2..15 PROVE R(k) = List[k + 1]
    OBVIOUS
  <2>1. k + 1 \in 3..16 /\ (k + 1) - 1 = k
    OBVIOUS
  <2>2. List[k + 1] = R((k + 1) - 1)
    BY <2>1, ListWords
  <2> QED BY <2>1, <2>2
<1>3. 1 \in 1..16 /\ 2 \in 1..16 /\ \A k \in 2..15 : k + 1 \in 1..16
  OBVIOUS
<1> QED BY <1>1, <1>2, <1>3, ListWords, Zenon

\* What ktos_hal_ContextSwitch takes from a stack, register by register.
LEMMA PoppedWords ==
  ASSUME NEW r, NEW s, NEW i \in 1..16
  PROVE  Popped(B, r, s)[List[i]] = Word(s, i)
<1>1. Restore(B) = List
  BY ListWords DEF Restore, B
<1>2. List[i] \in Register
  <2>1. CASE i \in {1, 2}
    BY <2>1, ListWords DEF Register
  <2>2. CASE i \in 3..16
    <3>1. List[i] = R(i - 1) /\ i - 1 \in 0..31
      BY <2>2, ListWords
    <3> QED BY <3>1 DEF Register
  <2> QED BY <2>1, <2>2
<1>3. i \in DOMAIN List
  BY ListWords
<1>4. Popped(B, r, s)[List[i]] =
        IF \E j \in DOMAIN List : List[j] = List[i]
          THEN Word(s, Index(List[i])) ELSE r[List[i]]
  BY <1>1, <1>2, Zenon DEF Popped, Index
<1> QED BY <1>3, <1>4, Indices, Zenon

SavedStack(c, k) == [i \in 1..16 |-> IF i = 1 THEN Return(c) ELSE Value(c, List[i], k)]

LEMMA KeptRegisters == Kept(B) = {List[i] : i \in 2..16}
<1>1. Kept(B) = {SREG} \cup {R(k) : k \in 2..15}
  BY DEF Kept, B
<1>2. \A k \in 2..15 : k + 1 \in 2..16 /\ R(k) = List[k + 1]
  BY Indices
<1>3. \A i \in 2..16 : List[i] \in {SREG} \cup {R(k) : k \in 2..15}
  <2> SUFFICES ASSUME NEW i \in 2..16 PROVE List[i] \in {SREG} \cup {R(k) : k \in 2..15}
    OBVIOUS
  <2>1. CASE i = 2
    BY <2>1, ListWords
  <2>2. CASE i # 2
    <3>1. i - 1 \in 2..15 /\ List[i] = R(i - 1)
      BY <2>2, ListWords
    <3> QED BY <3>1
  <2> QED BY <2>1, <2>2
<1>4. SREG = List[2] /\ 2 \in 2..16
  BY ListWords
<1> QED BY <1>1, <1>2, <1>3, <1>4

LEMMA PushedWords == ASSUME NEW c PROVE Pushed(B, c) = SavedStack(c, mark[c])
<1> DEFINE f == [i \in 1..16 |-> AtCall(B, c)[List[i]]]
           S == {f[i] : i \in 1..16}
<1>1. Save(B) = List /\ DOMAIN List = 1..16
  BY ListWords DEF Save, B
<1>2. Pushed(B, c) = f \o << >>
  <2>1. RecordsStackPointer(B) /\ CallPushes(B, c) = << >>
    BY DEF RecordsStackPointer, CallPushes, B
  <2> QED BY <1>1, <2>1, Zenon DEF Pushed
<1>3. f \in Seq(S)
  <2>1. f \in [1..16 -> S]
    OBVIOUS
  <2> HIDE DEF f, S
  <2> QED BY <2>1, SeqDef
<1>4. f \o << >> = f
  <2> HIDE DEF f, S
  <2> QED BY <1>3, ConcatEmptySeq
<1>5. \A i \in 1..16 : f[i] = IF i = 1 THEN Return(c) ELSE Value(c, List[i], mark[c])
  <2> SUFFICES ASSUME NEW i \in 1..16
               PROVE  f[i] = IF i = 1 THEN Return(c) ELSE Value(c, List[i], mark[c])
    OBVIOUS
  <2>1. \A r \in Register : AtCall(B, c)[r] = IF r \in Kept(B) THEN Value(c, r, mark[c])
                              ELSE IF r = LinkRegister(B) THEN Return(c) ELSE Unknown
    BY Zenon DEF AtCall
  <2>2. CASE i = 1
    <3>1. List[i] = R(0) /\ R(0) \in Register /\ LinkRegister(B) = R(0)
      BY <2>2, ListWords DEF Register, LinkRegister, B
    <3>2. R(0) \notin Kept(B)
      BY DEF Kept, B, R, SREG
    <3>3. AtCall(B, c)[List[i]] = Return(c)
      BY <2>1, <3>1, <3>2, Zenon
    <3> QED BY <2>2, <3>3
  <2>3. CASE i # 1
    <3>1. i \in 2..16
      BY <2>3
    <3>2. List[i] \in Kept(B)
      BY <3>1, KeptRegisters
    <3>3. List[i] \in Register
      BY <3>2 DEF Kept, B, Register
    <3>4. AtCall(B, c)[List[i]] = Value(c, List[i], mark[c])
      BY <2>1, <3>2, <3>3, Zenon
    <3> QED BY <2>3, <3>4
  <2> QED BY <2>2, <2>3
<1>6. f = SavedStack(c, mark[c])
  <2> DEFINE g(i) == IF i = 1 THEN Return(c) ELSE Value(c, List[i], mark[c])
  <2>1. \A i \in 1..16 : AtCall(B, c)[List[i]] = g(i)
    BY <1>5
  <2> HIDE DEF g
  <2>2. f = [i \in 1..16 |-> g(i)]
    BY <2>1
  <2> QED BY <2>2 DEF g, SavedStack
<1> QED BY <1>2, <1>4, <1>6

LEMMA FrameWords ==
  ASSUME NEW t, NEW m
  PROVE  LET s == Lx106Frame(t, m) IN
         /\ Word(s, 1) = Launch /\ Word(s, 3) = Type(m) /\ Word(s, 4) = Param1(m)
         /\ Word(s, 5) = Param2(m) /\ Word(s, 6) = Func(t) /\ Word(s, 7) = ExitHandler
<1> DEFINE a == <<Launch, Zero, Type(m), Param1(m), Param2(m), Func(t), ExitHandler>>
           b == Zeros(9)
           S == {a[i] : i \in 1..7} \cup {Zero}
<1>1. a \in Seq(S) /\ Len(a) = 7
  <2>1. a \in [1..7 -> S]
    OBVIOUS
  <2>2. Len(a) = 7
    OBVIOUS
  <2> HIDE DEF a, S
  <2> QED BY <2>1, <2>2, SeqDef
<1>2. b \in Seq(S) /\ Len(b) = 9
  <2>1. b \in [1..9 -> S]
    BY DEF Zeros
  <2>2. Len(b) = 9
    BY DEF Zeros
  <2> HIDE DEF b, S
  <2> QED BY <2>1, <2>2, SeqDef
<1>3. /\ a[1] = Launch /\ a[3] = Type(m) /\ a[4] = Param1(m) /\ a[5] = Param2(m)
      /\ a[6] = Func(t) /\ a[7] = ExitHandler
  OBVIOUS
<1>4. Lx106Frame(t, m) = a \o b
  BY DEF Lx106Frame
<1> HIDE DEF a, b, S
<1>5. /\ a \o b \in Seq(S) /\ Len(a \o b) = Len(a) + Len(b)
      /\ \A i \in 1..Len(a) + Len(b) : (a \o b)[i] = IF i <= Len(a) THEN a[i] ELSE b[i - Len(a)]
  BY <1>1, <1>2, ConcatProperties
<1>6. Len(a \o b) = 16 /\ \A i \in 1..7 : (a \o b)[i] = a[i]
  <2>1. Len(a) + Len(b) = 16
    BY <1>1, <1>2
  <2>2. \A i \in 1..16 : (a \o b)[i] = IF i <= 7 THEN a[i] ELSE b[i - 7]
    BY <1>1, <1>5, <2>1, Zenon
  <2>3. Len(a \o b) = 16
    BY <1>5, <2>1, Zenon
  <2>4. \A i \in 1..7 : i \in 1..16 /\ i <= 7
    OBVIOUS
  <2> QED BY <2>2, <2>3, <2>4, Zenon
<1>7. \A i \in 1..7 : i \in DOMAIN (a \o b)
  BY <1>5, <1>6
<1> QED BY <1>3, <1>4, <1>6, <1>7 DEF Word

(***************************************************************************)
(* Where a switch leads: into a new frame, or back behind the call.        *)
(***************************************************************************)
LEMMA FreshArrives ==
  ASSUME NEW c, NEW t, NEW m
  PROVE  LET a == Arrived(B, c, Lx106Frame(t, m)) IN
         /\ a.pc = Func(t) /\ a.ra = ExitHandler
         /\ Arguments(B, a.regs) = <<Type(m), Param1(m), Param2(m)>>
<1> DEFINE s == Lx106Frame(t, m)
           r == Popped(B, AtCall(B, c), s)
           a == Arrived(B, c, s)
<1>1. \A i \in 1..16 : r[List[i]] = Word(s, i)
  <2> HIDE DEF s
  <2> QED BY PoppedWords
<1>2. /\ List[1] = R(0) /\ List[3] = R(2) /\ List[4] = R(3) /\ List[5] = R(4)
      /\ List[6] = R(5) /\ List[7] = R(6)
  <2>1. \A k \in 2..6 : R(k) = List[k + 1]
    BY Indices
  <2> QED BY <2>1, ListWords
<1>3. /\ r[R(0)] = Launch /\ r[R(2)] = Type(m) /\ r[R(3)] = Param1(m) /\ r[R(4)] = Param2(m)
      /\ r[R(5)] = Func(t) /\ r[R(6)] = ExitHandler
  <2>1. \A i \in {1, 3, 4, 5, 6, 7} : r[List[i]] = Word(s, i)
    BY <1>1
  <2> HIDE DEF r, s
  <2> QED BY <1>2, <2>1, FrameWords, Zenon DEF s
<1>4. \A rest : Arrive(B, r, rest) = [pc |-> r[R(5)], ra |-> r[R(6)]]
  <2> HIDE DEF r
  <2> QED BY <1>3 DEF Arrive, B
<1>5. a.regs = r /\ \E rest : a.pc = Arrive(B, r, rest).pc /\ a.ra = Arrive(B, r, rest).ra
  BY DEF Arrived
<1> HIDE DEF a, r, s
<1>6. a.pc = r[R(5)] /\ a.ra = r[R(6)]
  BY <1>4, <1>5
<1>7. Arguments(B, r) = <<r[R(2)], r[R(3)], r[R(4)]>>
  BY DEF Arguments, B
<1> QED BY <1>3, <1>5, <1>6, <1>7 DEF a, s

LEMMA ResumedArrives ==
  ASSUME NEW c, NEW d, NEW k
  PROVE  LET a == Arrived(B, c, SavedStack(d, k)) IN
         a.pc = Return(d) /\ \A r \in Kept(B) : a.regs[r] = Value(d, r, k)
<1> DEFINE s == SavedStack(d, k)
           r == Popped(B, AtCall(B, c), s)
           a == Arrived(B, c, s)
<1>1. \A i \in 1..16 : r[List[i]] = Word(s, i)
  <2> HIDE DEF s
  <2> QED BY PoppedWords
<1>2. \A i \in 1..16 : Word(s, i) = IF i = 1 THEN Return(d) ELSE Value(d, List[i], k)
  BY DEF Word, SavedStack
<1>3. r[R(0)] = Return(d)
  <2>1. r[List[1]] = Word(s, 1) /\ Word(s, 1) = Return(d)
    <3> HIDE DEF r, s
    <3> QED BY <1>1, <1>2
  <2> QED BY <2>1, ListWords
<1>4. \A reg \in Kept(B) : r[reg] = Value(d, reg, k)
  <2> SUFFICES ASSUME NEW i \in 2..16 PROVE r[List[i]] = Value(d, List[i], k)
    BY KeptRegisters
  <2> HIDE DEF r, s
  <2> QED BY <1>1, <1>2
<1>5. Return(d) # Launch
  BY DEF Return, Launch
<1>6. \A rest : Arrive(B, r, rest) = [pc |-> r[R(0)], ra |-> r[R(0)]]
  <2> HIDE DEF r
  <2> QED BY <1>3, <1>5 DEF Arrive, B
<1>7. a.regs = r /\ \E rest : a.pc = Arrive(B, r, rest).pc
  BY DEF Arrived
<1> HIDE DEF a, r, s
<1>8. a.pc = Return(d)
  BY <1>3, <1>6, <1>7
<1> QED BY <1>4, <1>7, <1>8 DEF a, s

(***************************************************************************)
(* The invariant: the stack of every context that is not running is a      *)
(* frame with its parameters, or what its last switch left there.          *)
(***************************************************************************)
Bookkeeping ==
  /\ at \in Context /\ how \in {"boot", "fresh", "resumed"}
  /\ how = "fresh" => at # "os"
  /\ status \in [Task -> {"created", "returned", "suspended"}]
  /\ params \in [Task -> Message] /\ mark \in [Context -> {0, 1}]
  /\ mem = [b \in {B} |-> mem[B]] /\ mem[B] = [c \in Context |-> mem[B][c]]

StacksRight ==
  /\ \A t \in Task : status[t] = "created" => mem[B][t] = Lx106Frame(t, params[t])
  /\ \A t \in Task : status[t] = "suspended" /\ at # t => mem[B][t] = SavedStack(t, 1 - mark[t])
  /\ at # "os" => mem[B]["os"] = SavedStack("os", 1 - mark["os"])

FramesInv == Bookkeeping /\ StacksRight /\ FreshTaskStarts /\ ContextRestored

LEMMA FramesStart == ASSUME Boards = {B}, Init PROVE FramesInv
<1>1. at = "os" /\ how = "boot" /\ \A t \in Task : status[t] = "created" /\ params[t] = FirstMsg
  BY DEF Init
<1>2. mem = [b \in {B} |-> [c \in Context |-> IF c = "os" THEN << >> ELSE Frame(b, c, FirstMsg)]]
  BY DEF Init
<1>3. mem[B] = [c \in Context |-> IF c = "os" THEN << >> ELSE Frame(B, c, FirstMsg)]
  BY <1>2, Zenon
<1>4. \A t \in Task : mem[B][t] = Lx106Frame(t, FirstMsg)
  BY <1>3, TaskAssumption DEF Context, Frame, B
<1>5. Bookkeeping
  <2>1. mem = [b \in {B} |-> mem[B]]
    BY <1>2, <1>3
  <2>2. mem[B] = [c \in Context |-> mem[B][c]]
    BY <1>3
  <2> QED BY <2>1, <2>2, MessageAssumption DEF Init, Bookkeeping, Context
<1> QED BY <1>1, <1>4, <1>5 DEF FramesInv, StacksRight, FreshTaskStarts, ContextRestored

\* One call of ktos_hal_ContextSwitch from c to d.
LEMMA SwitchSaves ==
  ASSUME Boards = {B}, Bookkeeping, NEW c \in Context, NEW d \in Context, NEW stacks,
         stacks = [b \in {B} |-> stacks[B]], stacks[B] = [e \in Context |-> stacks[B][e]],
         Switch(c, d, stacks)
  PROVE  /\ cpu'[B] = Arrived(B, c, stacks[B][d])
         /\ mem' = [b \in {B} |-> mem'[B]] /\ mem'[B] = [e \in Context |-> mem'[B][e]]
         /\ mem'[B][c] = SavedStack(c, mark[c])
         /\ \A e \in Context \ {c} : mem'[B][e] = stacks[B][e] /\ mark'[e] = mark[e]
         /\ mark'[c] = 1 - mark[c] /\ mark' \in [Context -> {0, 1}] /\ at' = d
<1>1. cpu' = [b \in {B} |-> Arrived(b, c, stacks[b][d])]
  BY DEF Switch
<1>2. mem' = [b \in {B} |-> [stacks[b] EXCEPT ![c] = Pushed(b, c)]]
  BY DEF Switch
<1>3. mem'[B] = [stacks[B] EXCEPT ![c] = Pushed(B, c)]
  BY <1>2, Zenon
<1>4. mem'[B][c] = Pushed(B, c) /\ \A e \in Context \ {c} : mem'[B][e] = stacks[B][e]
  BY <1>3
<1>5. mem' = [b \in {B} |-> mem'[B]]
  BY <1>2, <1>3
<1>6. mem'[B] = [e \in Context |-> mem'[B][e]]
  BY <1>3
<1>7. mark' = [mark EXCEPT ![c] = 1 - mark[c]] /\ at' = d
  BY DEF Switch
<1>8. /\ mark'[c] = 1 - mark[c] /\ mark' \in [Context -> {0, 1}]
      /\ \A e \in Context \ {c} : mark'[e] = mark[e]
  BY <1>7 DEF Bookkeeping
<1>9. cpu'[B] = Arrived(B, c, stacks[B][d])
  BY <1>1, Zenon
<1> QED BY <1>4, <1>5, <1>6, <1>7, <1>8, <1>9, PushedWords

LEMMA EnterCreatedKeeps ==
  ASSUME Boards = {B}, FramesInv, NEW t \in Task, EnterCreated(t) PROVE FramesInv'
<1> USE DEF FramesInv
<1>1. /\ at = "os" /\ status[t] = "created" /\ Switch("os", t, mem) /\ how' = "fresh"
      /\ UNCHANGED <<status, params>>
  BY DEF EnterCreated
<1>2. "os" \in Context /\ t \in Context /\ t # "os" /\ \A u \in Task : u \in Context \ {"os"}
  BY TaskAssumption DEF Context
<1>3. mem = [b \in {B} |-> mem[B]] /\ mem[B] = [c \in Context |-> mem[B][c]]
  BY DEF Bookkeeping
<1>4. /\ cpu'[B] = Arrived(B, "os", mem[B][t])
      /\ mem' = [b \in {B} |-> mem'[B]] /\ mem'[B] = [e \in Context |-> mem'[B][e]]
      /\ mem'[B]["os"] = SavedStack("os", mark["os"])
      /\ \A e \in Context \ {"os"} : mem'[B][e] = mem[B][e] /\ mark'[e] = mark[e]
      /\ mark'["os"] = 1 - mark["os"] /\ mark' \in [Context -> {0, 1}] /\ at' = t
  BY <1>1, <1>2, <1>3, SwitchSaves
<1>5. Bookkeeping'
  BY <1>1, <1>2, <1>4 DEF Bookkeeping
<1>6. 1 - mark'["os"] = mark["os"]
  BY <1>2, <1>4 DEF Bookkeeping
<1>7. StacksRight'
  BY <1>1, <1>2, <1>4, <1>6 DEF StacksRight
<1>8. mem[B][t] = Lx106Frame(t, params[t])
  BY <1>1 DEF StacksRight
<1>9. FreshTaskStarts'
  BY <1>1, <1>4, <1>8, FreshArrives DEF FreshTaskStarts
<1> QED BY <1>1, <1>5, <1>7, <1>9 DEF ContextRestored

LEMMA EnterAgainKeeps ==
  ASSUME Boards = {B}, FramesInv, NEW t \in Task, NEW m \in Message, EnterAgain(t, m)
  PROVE  FramesInv'
<1> USE DEF FramesInv
<1> DEFINE stacks == [b \in Boards |-> [mem[b] EXCEPT ![t] = Frame(b, t, m)]]
<1>1. /\ at = "os" /\ status[t] = "returned" /\ Switch("os", t, stacks) /\ how' = "fresh"
      /\ status' = status /\ params' = [params EXCEPT ![t] = m]
  BY DEF EnterAgain
<1>2. "os" \in Context /\ t \in Context /\ t # "os" /\ \A u \in Task : u \in Context \ {"os"}
  BY TaskAssumption DEF Context
<1>3. stacks[B] = [mem[B] EXCEPT ![t] = Lx106Frame(t, m)]
  BY DEF Frame, B
<1>4. mem[B] = [c \in Context |-> mem[B][c]]
  BY DEF Bookkeeping
<1>5. /\ stacks = [b \in {B} |-> stacks[B]] /\ stacks[B] = [c \in Context |-> stacks[B][c]]
      /\ stacks[B][t] = Lx106Frame(t, m)
      /\ \A c \in Context \ {t} : stacks[B][c] = mem[B][c]
  <2>1. stacks = [b \in {B} |-> stacks[B]]
    OBVIOUS
  <2> HIDE DEF stacks
  <2> QED BY <1>2, <1>3, <1>4, <2>1
<1> HIDE DEF stacks
<1>6. /\ cpu'[B] = Arrived(B, "os", stacks[B][t])
      /\ mem' = [b \in {B} |-> mem'[B]] /\ mem'[B] = [e \in Context |-> mem'[B][e]]
      /\ mem'[B]["os"] = SavedStack("os", mark["os"])
      /\ \A e \in Context \ {"os"} : mem'[B][e] = stacks[B][e] /\ mark'[e] = mark[e]
      /\ mark'["os"] = 1 - mark["os"] /\ mark' \in [Context -> {0, 1}] /\ at' = t
  BY <1>1, <1>2, <1>5, SwitchSaves
<1>7. params' \in [Task -> Message] /\ params'[t] = m /\ \A u \in Task \ {t} : params'[u] = params[u]
  BY <1>1 DEF Bookkeeping
<1>8. Bookkeeping'
  BY <1>1, <1>2, <1>6, <1>7 DEF Bookkeeping
<1>9. 1 - mark'["os"] = mark["os"]
  BY <1>2, <1>6 DEF Bookkeeping
<1>10. StacksRight'
  <2>1. \A u \in Task : status[u] = "created" => mem'[B][u] = Lx106Frame(u, params'[u])
    BY <1>1, <1>2, <1>5, <1>6, <1>7 DEF StacksRight
  <2>2. \A u \in Task : status[u] = "suspended" => mem'[B][u] = SavedStack(u, 1 - mark'[u])
    BY <1>1, <1>2, <1>5, <1>6 DEF StacksRight
  <2> QED BY <1>1, <1>6, <1>9, <2>1, <2>2 DEF StacksRight
<1>11. FreshTaskStarts'
  BY <1>1, <1>5, <1>6, <1>7, FreshArrives DEF FreshTaskStarts
<1> QED BY <1>1, <1>8, <1>10, <1>11 DEF ContextRestored

LEMMA ResumeKeeps == ASSUME Boards = {B}, FramesInv, NEW t \in Task, Resume(t) PROVE FramesInv'
<1> USE DEF FramesInv
<1>1. /\ at = "os" /\ status[t] = "suspended" /\ Switch("os", t, mem) /\ how' = "resumed"
      /\ UNCHANGED <<status, params>>
  BY DEF Resume
<1>2. "os" \in Context /\ t \in Context /\ t # "os" /\ \A u \in Task : u \in Context \ {"os"}
  BY TaskAssumption DEF Context
<1>3. mem = [b \in {B} |-> mem[B]] /\ mem[B] = [c \in Context |-> mem[B][c]]
  BY DEF Bookkeeping
<1>4. /\ cpu'[B] = Arrived(B, "os", mem[B][t])
      /\ mem' = [b \in {B} |-> mem'[B]] /\ mem'[B] = [e \in Context |-> mem'[B][e]]
      /\ mem'[B]["os"] = SavedStack("os", mark["os"])
      /\ \A e \in Context \ {"os"} : mem'[B][e] = mem[B][e] /\ mark'[e] = mark[e]
      /\ mark'["os"] = 1 - mark["os"] /\ mark' \in [Context -> {0, 1}] /\ at' = t
  BY <1>1, <1>2, <1>3, SwitchSaves
<1>5. Bookkeeping'
  BY <1>1, <1>2, <1>4 DEF Bookkeeping
<1>6. 1 - mark'["os"] = mark["os"]
  BY <1>2, <1>4 DEF Bookkeeping
<1>7. StacksRight'
  BY <1>1, <1>2, <1>4, <1>6 DEF StacksRight
<1>8. mem[B][t] = SavedStack(t, 1 - mark[t]) /\ mark'[t] = mark[t]
  BY <1>1, <1>2, <1>4 DEF StacksRight
<1>9. ContextRestored'
  BY <1>1, <1>4, <1>8, ResumedArrives DEF ContextRestored
<1> QED BY <1>1, <1>5, <1>7, <1>9 DEF FreshTaskStarts

LEMMA LeaveKeeps ==
  ASSUME Boards = {B}, FramesInv, NEW t \in Task, NEW as \in {"suspended", "returned"}, Leave(t, as)
  PROVE  FramesInv'
<1> USE DEF FramesInv
<1>1. /\ at = t /\ Switch(t, "os", mem) /\ how' = "resumed"
      /\ status' = [status EXCEPT ![t] = as] /\ params' = params
  BY DEF Leave
<1>2. "os" \in Context /\ t \in Context /\ t # "os" /\ \A u \in Task : u \in Context \ {"os"}
  BY TaskAssumption DEF Context
<1>3. mem = [b \in {B} |-> mem[B]] /\ mem[B] = [c \in Context |-> mem[B][c]]
  BY DEF Bookkeeping
<1>4. /\ cpu'[B] = Arrived(B, t, mem[B]["os"])
      /\ mem' = [b \in {B} |-> mem'[B]] /\ mem'[B] = [e \in Context |-> mem'[B][e]]
      /\ mem'[B][t] = SavedStack(t, mark[t])
      /\ \A e \in Context \ {t} : mem'[B][e] = mem[B][e] /\ mark'[e] = mark[e]
      /\ mark'[t] = 1 - mark[t] /\ mark' \in [Context -> {0, 1}] /\ at' = "os"
  BY <1>1, <1>2, <1>3, SwitchSaves
<1>5. /\ status' \in [Task -> {"created", "returned", "suspended"}] /\ status'[t] = as
      /\ \A u \in Task \ {t} : status'[u] = status[u]
  BY <1>1 DEF Bookkeeping
<1>6. Bookkeeping'
  BY <1>1, <1>2, <1>4, <1>5 DEF Bookkeeping
<1>7. 1 - mark'[t] = mark[t]
  BY <1>2, <1>4 DEF Bookkeeping
<1>8. StacksRight'
  <2>1. \A u \in Task : status'[u] = "created" => mem'[B][u] = Lx106Frame(u, params[u])
    BY <1>1, <1>2, <1>4, <1>5 DEF StacksRight
  <2>2. \A u \in Task : status'[u] = "suspended" => mem'[B][u] = SavedStack(u, 1 - mark'[u])
    BY <1>1, <1>2, <1>4, <1>5, <1>7 DEF StacksRight
  <2> QED BY <1>1, <1>4, <2>1, <2>2 DEF StacksRight
<1>9. mem[B]["os"] = SavedStack("os", 1 - mark["os"]) /\ mark'["os"] = mark["os"]
  BY <1>1, <1>2, <1>4 DEF StacksRight
<1>10. ContextRestored'
  BY <1>1, <1>4, <1>9, ResumedArrives DEF ContextRestored
<1> QED BY <1>1, <1>6, <1>8, <1>10 DEF FreshTaskStarts

LEMMA FramesInvariance == ASSUME Boards = {B} PROVE Spec => []FramesInv
<1>1. Init => FramesInv
  BY FramesStart
<1>2. FramesInv /\ [Next]_vars => FramesInv'
  <2> SUFFICES ASSUME FramesInv, [Next]_vars PROVE FramesInv'
    OBVIOUS
  <2>1. CASE UNCHANGED vars
    BY <2>1 DEF vars, FramesInv, Bookkeeping, StacksRight, FreshTaskStarts, ContextRestored
  <2>2. CASE Next
    BY <2>2, EnterCreatedKeeps, EnterAgainKeeps, ResumeKeeps, LeaveKeeps
       DEF Next, SleepLeave, ExitLeave
  <2> QED BY <2>1, <2>2
<1> QED BY <1>1, <1>2, PTL DEF Spec

\* On the ESP8266, with any number of tasks, a frame of ktos_hal_InitTaskStack leads to its
\* function, with its three arguments and the exit handler to return to.
THEOREM FramesStartTasks == ASSUME Boards = {B} PROVE Spec => []FreshTaskStarts
<1>1. FramesInv => FreshTaskStarts
  BY DEF FramesInv
<1> QED BY <1>1, FramesInvariance, PTL

\* On the ESP8266, with any number of tasks, a context that comes back from its call of
\* ktos_hal_ContextSwitch has all its registers, whichever contexts ran in between.
THEOREM RegistersSurvive == ASSUME Boards = {B} PROVE Spec => []ContextRestored
<1>1. FramesInv => ContextRestored
  BY DEF FramesInv
<1> QED BY <1>1, FramesInvariance, PTL
=============================================================================
