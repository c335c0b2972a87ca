--------------------------- MODULE ExampleProofs ---------------------------
(***************************************************************************)
(* Proofs about the button example, for any length of the debouncing       *)
(* window, about the LED example and the UART shell, for any bursts and    *)
(* any size of the queue and of the line buffer, about the boot counter of *)
(* the EEPROM example, for any size of a cell, and about the timeout of    *)
(* the HTTPS GET example, for any number of polls.                         *)
(***************************************************************************)
EXTENDS ButtonControl, LedControl, LineShell, EepromShell, HttpGet, WellFoundedInduction, TLAPS

(***************************************************************************)
(* The kernel of a program of two tasks: a runs first, messages are of M.  *)
(***************************************************************************)
Pair(a, b, M) ==
  [ring : {<<a, b>>}, last : {a, b}, fresh : SUBSET {a, b}, armed : SUBSET {a, b},
   due : SUBSET {a, b}, mail : [{a, b} -> Seq(M)]]

LEMMA PairBooted ==
  ASSUME NEW a, NEW b, NEW M
  PROVE  LET k == Booted(<<a, b>>) IN
         /\ k \in Pair(a, b, M)
         /\ k.last = b /\ k.fresh = {a, b} /\ k.armed = {} /\ k.due = {a, b}
         /\ k.mail[a] = << >> /\ k.mail[b] = << >>
<1> DEFINE s == <<a, b>>
<1>1. DOMAIN s = {1, 2} /\ s[1] = a /\ s[2] = b /\ Len(s) = 2
  OBVIOUS
<1>2. {s[i] : i \in DOMAIN s} = {a, b}
  BY <1>1
<1>3. s[Len(s)] = b
  BY <1>1
<1> HIDE DEF s
<1>4. Booted(s) = [ring |-> s, last |-> b, fresh |-> {a, b}, armed |-> {}, due |-> {a, b},
                   mail |-> [t \in {a, b} |-> << >>]]
  BY <1>2, <1>3, Zenon DEF Booted
<1>5. [t \in {a, b} |-> << >>] \in [{a, b} -> Seq(M)]
  OBVIOUS
<1>6. Booted(s) \in Pair(a, b, M)
  <2> DEFINE mail == [t \in {a, b} |-> << >>]
  <2>1. mail \in [{a, b} -> Seq(M)]
    BY <1>5
  <2>2. s = <<a, b>>
    BY DEF s
  <2> HIDE DEF mail
  <2> QED BY <1>4, <2>1, <2>2 DEF Pair
<1>7. LET k == Booted(s) IN
         /\ k.last = b /\ k.fresh = {a, b} /\ k.armed = {} /\ k.due = {a, b}
         /\ k.mail[a] = << >> /\ k.mail[b] = << >>
  BY <1>4
<1> QED BY <1>6, <1>7 DEF s

LEMMA PairReturned ==
  ASSUME NEW a, NEW b, NEW M, NEW k \in Pair(a, b, M), NEW t \in {a, b},
         NEW delay \in {Later, Forever}
  PROVE  LET q == Returned(k, t, delay) IN
         /\ q \in Pair(a, b, M) /\ q.mail = k.mail /\ q.last = k.last /\ q.fresh = k.fresh
         /\ q.due = k.due \ {t}
         /\ delay = Later => q.armed = k.armed \cup {t}
         /\ delay # Later => q.armed = k.armed \ {t}
BY DEF Pair, Returned, Now, Later, Forever

LEMMA PairExpired ==
  ASSUME NEW a, NEW b, NEW M, NEW k \in Pair(a, b, M), NEW t \in {a, b}
  PROVE  LET q == Expired(k, t) IN
         /\ q \in Pair(a, b, M) /\ q.mail = k.mail /\ q.last = k.last /\ q.fresh = k.fresh
         /\ q.due = k.due \cup {t} /\ q.armed = k.armed \ {t}
BY DEF Pair, Expired, AllExpired

LEMMA PairTaken ==
  ASSUME NEW a, NEW b, NEW M, NEW k \in Pair(a, b, M), NEW t \in {a, b}
  PROVE  LET q == Taken(k, t) IN
         /\ q \in Pair(a, b, M) /\ q.last = t /\ q.fresh = k.fresh \ {t}
         /\ q.due = k.due /\ q.armed = k.armed
         /\ \A u \in {a, b} \ {t} : q.mail[u] = k.mail[u]
         /\ q.mail[t] = IF t \notin k.fresh /\ k.mail[t] # << >>
                          THEN Tail(k.mail[t]) ELSE k.mail[t]
<1> DEFINE box == IF t \notin k.fresh /\ k.mail[t] # << >> THEN Tail(k.mail[t]) ELSE k.mail[t]
           f == k.fresh \ {t}
           mail == [k.mail EXCEPT ![t] = box]
<1>1. box \in Seq(M) /\ k.mail \in [{a, b} -> Seq(M)]
  BY DEF Pair
<1>2. Taken(k, t) = [k EXCEPT !.last = t, !.fresh = f, !.mail = mail]
  BY DEF Taken, Pair
<1> HIDE DEF box
<1>3. mail \in [{a, b} -> Seq(M)] /\ f \in SUBSET {a, b}
  BY <1>1 DEF Pair
<1>4. mail[t] = box /\ \A u \in {a, b} \ {t} : mail[u] = k.mail[u]
  BY <1>1
<1> HIDE DEF mail, f
<1>5. /\ Taken(k, t) \in Pair(a, b, M)
      /\ Taken(k, t).last = t /\ Taken(k, t).fresh = f /\ Taken(k, t).mail = mail
      /\ Taken(k, t).due = k.due /\ Taken(k, t).armed = k.armed
  BY <1>2, <1>3 DEF Pair
<1> QED BY <1>4, <1>5 DEF box, f

LEMMA PairPosted ==
  ASSUME NEW a, NEW b, NEW M, NEW k \in Pair(a, b, M), NEW t \in {a, b}, NEW msg \in M,
         NEW size
  PROVE  LET q == Posted(k, t, msg, size) IN
         /\ q \in Pair(a, b, M) /\ q.last = k.last /\ q.fresh = k.fresh
         /\ q.due = k.due /\ q.armed = k.armed
         /\ \A u \in {a, b} \ {t} : q.mail[u] = k.mail[u]
         /\ Len(k.mail[t]) < size => q.mail[t] = Append(k.mail[t], msg)
         /\ ~(Len(k.mail[t]) < size) => q.mail[t] = k.mail[t]
<1>1. CASE ~(Len(k.mail[t]) < size)
  BY <1>1 DEF Posted
<1>2. CASE Len(k.mail[t]) < size
  <2> DEFINE mail == [k.mail EXCEPT ![t] = Append(k.mail[t], msg)]
  <2>1. k.mail \in [{a, b} -> Seq(M)]
    BY DEF Pair
  <2>2. mail \in [{a, b} -> Seq(M)]
    BY <2>1
  <2>3. mail[t] = Append(k.mail[t], msg) /\ \A u \in {a, b} \ {t} : mail[u] = k.mail[u]
    BY <2>1
  <2>4. Posted(k, t, msg, size) = [k EXCEPT !.mail = mail]
    BY <1>2 DEF Posted, Pair
  <2> HIDE DEF mail
  <2>5. LET q == Posted(k, t, msg, size) IN
        /\ q \in Pair(a, b, M) /\ q.last = k.last /\ q.fresh = k.fresh
        /\ q.due = k.due /\ q.armed = k.armed /\ q.mail = mail
    BY <2>2, <2>4 DEF Pair
  <2> QED BY <1>2, <2>3, <2>5
<1> QED BY <1>1, <1>2

LEMMA NegativeWraps ==
  ASSUME NEW N \in Nat \ {0}, NEW i \in 1..N PROVE (0 - i) % N = N - i
BY SMTT(30)

\* The loop visits the other task first, and the last one again after it.
LEMMA PairVisits ==
  ASSUME NEW a, NEW b, a # b, NEW M, NEW k \in Pair(a, b, M)
  PROVE  /\ TasksOf(k) = {a, b}
         /\ k.last = b => Visits(k, a) = 0 /\ Visits(k, b) = 1
         /\ k.last = a => Visits(k, b) = 0 /\ Visits(k, a) = 1
<1> DEFINE place(u) == CHOOSE i \in DOMAIN k.ring : k.ring[i] = u
           N == Len(k.ring)
           p == place(a)
           q == place(b)
<1>1. DOMAIN k.ring = {1, 2} /\ k.ring[1] = a /\ k.ring[2] = b /\ N = 2
  BY DEF Pair
<1>2. p = 1
  <2>1. \A i \in DOMAIN k.ring : k.ring[i] = a <=> i = 1
    BY <1>1
  <2> QED BY <1>1, <2>1
<1>3. q = 2
  <2>1. \A i \in DOMAIN k.ring : k.ring[i] = b <=> i = 2
    BY <1>1
  <2> QED BY <1>1, <2>1
<1>4. /\ k.last = b => Visits(k, a) = (p - q - 1) % N /\ Visits(k, b) = (q - q - 1) % N
      /\ k.last = a => Visits(k, b) = (q - p - 1) % N /\ Visits(k, a) = (p - p - 1) % N
  BY DEF Visits
<1>5. TasksOf(k) = {a, b}
  BY <1>1 DEF TasksOf
<1> HIDE DEF N, p, q
<1>6. p - q - 1 = 0 - q /\ q - q - 1 = 0 - p /\ q - p - 1 = 0 /\ p - p - 1 = 0 - p
  BY <1>2, <1>3
<1>7. N \in Nat \ {0} /\ p \in 1..N /\ q \in 1..N
  BY <1>1, <1>2, <1>3
<1>8. (0 - q) % N = N - q /\ (0 - p) % N = N - p
  BY <1>7, NegativeWraps
<1>9. N - q = 0 /\ N - p = 1 /\ 0 % N = 0
  BY <1>1, <1>2, <1>3
<1>10. k.last = b => Visits(k, a) = 0 /\ Visits(k, b) = 1
  BY <1>4, <1>6, <1>8, <1>9, Zenon
<1>11. k.last = a => Visits(k, b) = 0 /\ Visits(k, a) = 1
  BY <1>4, <1>6, <1>8, <1>9, Zenon
<1> QED BY <1>5, <1>10, <1>11

\* After b's turn a is next, whenever it has something to do,
LEMMA FirstGoes ==
  ASSUME NEW a, NEW b, a # b, NEW M, NEW k \in Pair(a, b, M), k.last = b, IsReady(k, a)
  PROVE  ~HasTurn(k, b)
<1> SUFFICES ASSUME HasTurn(k, b) PROVE FALSE
  OBVIOUS
<1>1. Visits(k, a) = 0 /\ Visits(k, b) = 1 /\ a \in TasksOf(k)
  BY PairVisits
<1>2. Visits(k, b) <= Visits(k, a)
  BY <1>1 DEF HasTurn
<1> QED BY <1>1, <1>2

\* and is not passed by.
LEMMA PairPassed ==
  ASSUME NEW a, NEW b, a # b, NEW M, NEW k \in Pair(a, b, M), CanPass(k)
  PROVE  LET q == PassedBy(k) IN
         /\ q \in Pair(a, b, M) /\ q.mail = k.mail /\ q.fresh = k.fresh
         /\ q.due = k.due /\ q.armed = k.armed
         /\ k.last = b => ~IsReady(k, a)
<1>1. k.last \in {a, b}
  BY DEF Pair
<1>2. Visited(k) \in {a, b} /\ (k.last = b => Visited(k) = a)
  BY <1>1, PairVisits DEF Visited
<1> QED BY <1>2 DEF Pair, PassedBy, CanPass

(***************************************************************************)
(* Loops.  A set of numbers that holds 0, and with a number the next, has  *)
(* them all (the least one missing would be neither 0 nor a next one); so  *)
(* a recursive function over the turns of a loop exists, and what each     *)
(* turn keeps holds after the last.                                        *)
(***************************************************************************)
LEMMA SetInduction ==
  ASSUME NEW S, 0 \in S, \A n \in Nat : n \in S => n + 1 \in S
  PROVE  \A n \in Nat : n \in S
<1> DEFINE T == Nat \ S
<1>1. SUFFICES ASSUME T # {} PROVE FALSE
  OBVIOUS
<1>2. T \subseteq Nat
  OBVIOUS
<1>3. PICK m \in T : \A k \in T : <<k, m>> \notin OpToRel(<, Nat)
  BY <1>1, <1>2, WFMin, NatLessThanWellFounded, Zenon
<1>4. \A k \in T : ~(k < m)
  BY <1>2, <1>3 DEF OpToRel
<1>5. m # 0 /\ m - 1 \in Nat
  OBVIOUS
<1>6. m - 1 \in S
  BY <1>4, <1>5
<1> QED BY <1>5, <1>6

(***************************************************************************)
(* The button example.  That ui_task misses no edge rests on the ring's    *)
(* order: a message for it is there only while button_task had the last    *)
(* turn, so that ui_task is next.                                          *)
(***************************************************************************)
ButtonTypes ==
  /\ raw_high \in BOOLEAN /\ g_stable_pressed \in BOOLEAN /\ g_last_raw_high \in BOOLEAN
  /\ printed \in BOOLEAN
  /\ g_debounce_count \in 0..Needed /\ same \in Nat

Two == {"ui", "button"}
EdgeMsg == {"button"} \X BOOLEAN
Kernels == Pair("ui", "button", EdgeMsg)
KernelShape == buOs \in Kernels /\ buOs.mail["button"] = << >>

UiIsNext ==
  /\ "ui" \in buOs.fresh \/ buOs.mail["ui"] # << >> => buOs.last = "button"
  /\ "ui" \in buOs.fresh => "button" \in buOs.fresh
  /\ "button" \in buOs.fresh => buOs.mail["ui"] = << >>

Window == "button" \notin buOs.fresh => same > g_debounce_count \/ same > Needed

ButtonInv == ButtonTypes /\ KernelShape /\ UiIsNext /\ Window /\ UiSeesEveryEdge

\* button_task has no turn while ui_task has something to do.
LEMMA UiGoesFirst ==
  ASSUME KernelShape, UiIsNext, HasTurn(buOs, "button")
  PROVE  "ui" \notin buOs.fresh /\ buOs.mail["ui"] = << >>
<1> SUFFICES ASSUME "ui" \in buOs.fresh \/ buOs.mail["ui"] # << >> PROVE FALSE
  OBVIOUS
<1>1. buOs.last = "button" /\ IsReady(buOs, "ui")
  BY DEF UiIsNext, IsReady
<1>2. "ui" # "button"
  OBVIOUS
<1> QED BY <1>1, <1>2, FirstGoes DEF KernelShape, Kernels

LEMMA EdgePosted ==
  ASSUME NEW k \in Kernels, NEW p \in BOOLEAN, k.mail["ui"] = << >>
  PROVE  LET q == Posted(k, "ui", <<"button", p>>, 4) IN
         /\ q \in Kernels /\ q.last = k.last /\ q.fresh = k.fresh
         /\ q.mail["ui"] = <<<<"button", p>>>> /\ q.mail["button"] = k.mail["button"]
<1> DEFINE msg == <<"button", p>>
           q == Posted(k, "ui", msg, 4)
<1>1. msg \in EdgeMsg /\ "ui" \in Two /\ "button" \in Two \ {"ui"}
  BY DEF Two, EdgeMsg
<1>2. Append(<< >>, msg) = <<msg>> /\ Len(<< >>) < 4
  OBVIOUS
<1> HIDE DEF msg
<1>3. /\ q \in Kernels /\ q.last = k.last /\ q.fresh = k.fresh
      /\ Len(k.mail["ui"]) < 4 => q.mail["ui"] = Append(k.mail["ui"], msg)
  BY <1>1, PairPosted DEF Kernels, Two
<1>4. q.mail["button"] = k.mail["button"]
  BY <1>1, PairPosted DEF Kernels, Two
<1> HIDE DEF q
<1>5. q.mail["ui"] = <<msg>>
  BY <1>2, <1>3
<1> QED BY <1>3, <1>4, <1>5 DEF msg, q

LEMMA ButtonStarts == BuInit => ButtonInv
<1> SUFFICES ASSUME BuInit PROVE ButtonInv
  OBVIOUS
<1>1. /\ buOs \in Kernels /\ buOs.last = "button" /\ buOs.fresh = Two
      /\ buOs.mail["ui"] = << >> /\ buOs.mail["button"] = << >>
  BY PairBooted DEF BuInit, Kernels, Two
<1>3. KernelShape
  BY <1>1 DEF KernelShape
<1>4. UiIsNext /\ UiSeesEveryEdge /\ Window
  BY <1>1 DEF UiIsNext, UiSeesEveryEdge, Window, Two
<1>5. ButtonTypes
  <2>1. g_debounce_count \in 0..Needed /\ same \in Nat
    BY NeededAssumption DEF BuInit
  <2>2. /\ raw_high \in BOOLEAN /\ g_stable_pressed \in BOOLEAN /\ g_last_raw_high \in BOOLEAN
        /\ printed \in BOOLEAN
    BY Zenon DEF BuInit
  <2> QED BY <2>1, <2>2, Zenon DEF ButtonTypes
<1> QED BY <1>3, <1>4, <1>5 DEF ButtonInv

\* The part of the invariant that a turn of button_task without a message keeps.
LEMMA QuietTurn ==
  ASSUME KernelShape, UiIsNext, HasTurn(buOs, "button"),
         buOs' = Returned(Taken(buOs, "button"), "button", Later)
  PROVE  /\ KernelShape' /\ UiIsNext'
         /\ buOs.mail["ui"] = << >> /\ buOs'.mail["ui"] = << >> /\ buOs'.fresh = {}
<1>1. "ui" \notin buOs.fresh /\ buOs.mail["ui"] = << >>
  BY UiGoesFirst
<1>2. buOs \in Kernels /\ buOs.mail["button"] = << >> /\ "button" \in Two /\ "ui" \in Two
  BY DEF KernelShape, Two
<1> DEFINE k == Taken(buOs, "button")
<1>3. /\ k \in Kernels /\ k.last = "button" /\ k.fresh = buOs.fresh \ {"button"}
      /\ k.mail["ui"] = << >> /\ k.mail["button"] = << >>
  BY <1>1, <1>2, PairTaken DEF Kernels, Two
<1> HIDE DEF k
<1>4. /\ buOs' \in Kernels /\ buOs'.mail = k.mail /\ buOs'.last = k.last /\ buOs'.fresh = k.fresh
  BY <1>2, <1>3, PairReturned DEF Kernels, Two, k
<1>5. buOs'.fresh = {}
  BY <1>1, <1>2, <1>3, <1>4 DEF Kernels, Pair, Two
<1> QED BY <1>1, <1>3, <1>4, <1>5 DEF KernelShape, UiIsNext

LEMMA FreshEvents ==
  ASSUME KernelShape
  PROVE  /\ EventOf(buOs, "button") = INIT => "button" \in buOs.fresh
         /\ EventOf(buOs, "button") # INIT => "button" \notin buOs.fresh
<1>1. <<"timer">> # <<"init">>
  OBVIOUS
<1> QED BY <1>1 DEF KernelShape, EventOf, INIT, TIMER

LEMMA ButtonKept == ButtonInv /\ [BuNext]_buVars => ButtonInv'
<1> SUFFICES ASSUME ButtonTypes, KernelShape, UiIsNext, Window, UiSeesEveryEdge, [BuNext]_buVars
             PROVE  ButtonInv'
  BY DEF ButtonInv
<1>1. CASE UNCHANGED buVars
  BY <1>1, Zenon DEF buVars, ButtonInv, ButtonTypes, KernelShape, UiIsNext, Window, UiSeesEveryEdge
<1>2. CASE Bounce
  <2>1. ButtonTypes'
    <3>1. UNCHANGED <<g_debounce_count, same>>
      BY <1>2 DEF Bounce, sampler
    <3>2. UNCHANGED <<g_stable_pressed, g_last_raw_high, printed>> /\ raw_high' \in BOOLEAN
      BY <1>2 DEF Bounce, sampler
    <3> QED BY <3>1, <3>2, Zenon DEF ButtonTypes
  <2>2. UNCHANGED <<buOs, g_stable_pressed, g_debounce_count, printed, same>>
    BY <1>2 DEF Bounce, sampler
  <2> QED BY <2>1, <2>2 DEF ButtonInv, KernelShape, UiIsNext, Window, UiSeesEveryEdge
<1>3. CASE BuExpire
  <2>1. UNCHANGED <<raw_high, sampler, printed, same>> /\ buOs' = Expired(buOs, "button")
    BY <1>3 DEF BuExpire
  <2>2. buOs' \in Kernels /\ buOs'.mail = buOs.mail /\ buOs'.last = buOs.last
        /\ buOs'.fresh = buOs.fresh
    BY <2>1, PairExpired DEF KernelShape, Kernels
  <2>3. KernelShape' /\ UiIsNext' /\ Window' /\ UiSeesEveryEdge'
    BY <2>1, <2>2 DEF sampler, KernelShape, UiIsNext, Window, UiSeesEveryEdge
  <2>4. ButtonTypes'
    BY <2>1 DEF ButtonTypes, sampler
  <2> QED BY <2>3, <2>4 DEF ButtonInv
<1>4. CASE ButtonInit
  <2>1. /\ HasTurn(buOs, "button") /\ EventOf(buOs, "button") = INIT
        /\ buOs' = Returned(Taken(buOs, "button"), "button", Later)
        /\ g_debounce_count' = 0 /\ same' = 1
    BY <1>4 DEF ButtonInit
  <2>2. printed' = ~raw_high /\ g_stable_pressed' = ~raw_high /\ g_last_raw_high' = raw_high
        /\ raw_high' = raw_high
    BY <1>4 DEF ButtonInit
  <2>3. /\ KernelShape' /\ UiIsNext' /\ buOs'.mail["ui"] = << >> /\ buOs'.fresh = {}
    BY <2>1, QuietTurn
  <2>4. UiSeesEveryEdge'
    <3>1. printed' = g_stable_pressed'
      BY <2>2, Zenon
    <3> QED BY <2>3, <3>1, Zenon DEF UiSeesEveryEdge
  <2>5. Window' /\ g_debounce_count' \in 0..Needed /\ same' \in Nat
    BY <2>1, NeededAssumption DEF Window
  <2>6. ButtonTypes'
    BY <2>2, <2>5, Zenon DEF ButtonTypes
  <2> QED BY <2>3, <2>4, <2>5, <2>6 DEF ButtonInv
<1>5. CASE SampleChanged
  <2>1. /\ HasTurn(buOs, "button") /\ EventOf(buOs, "button") # INIT
        /\ buOs' = Returned(Taken(buOs, "button"), "button", Later)
        /\ g_debounce_count' = 0 /\ same' = 1
    BY <1>5 DEF SampleChanged, SampleTurn
  <2>2. UNCHANGED <<g_stable_pressed, printed, raw_high>> /\ g_last_raw_high' = raw_high
    BY <1>5 DEF SampleChanged
  <2>3. /\ KernelShape' /\ UiIsNext' /\ buOs.mail["ui"] = << >> /\ buOs'.mail["ui"] = << >>
        /\ buOs'.fresh = {}
    BY <2>1, QuietTurn
  <2>4. UiSeesEveryEdge'
    BY <2>1, <2>2, <2>3, FreshEvents DEF UiSeesEveryEdge
  <2>5. Window' /\ g_debounce_count' \in 0..Needed /\ same' \in Nat
    BY <2>1, NeededAssumption DEF Window
  <2>6. ButtonTypes'
    BY <2>2, <2>5, Zenon DEF ButtonTypes
  <2> QED BY <2>3, <2>4, <2>5, <2>6 DEF ButtonInv
<1>6. CASE SampleEqual
  <2> DEFINE k == Taken(buOs, "button")
             p == ~raw_high
  <2>1. /\ HasTurn(buOs, "button") /\ EventOf(buOs, "button") # INIT
        /\ g_debounce_count' = Count(g_debounce_count)
        /\ same' = IF same <= Needed THEN same + 1 ELSE same
    BY <1>6 DEF SampleEqual, SampleTurn
  <2>2. UNCHANGED <<printed, raw_high, g_last_raw_high>>
        /\ g_stable_pressed' = IF Edge THEN p ELSE g_stable_pressed
    BY <1>6 DEF SampleEqual
  <2>3. buOs' = Returned(IF Edge THEN Posted(k, "ui", <<"button", p>>, 4) ELSE k, "button", Later)
    BY <1>6, Zenon DEF SampleEqual
  <2>4. "button" \notin buOs.fresh /\ "ui" \notin buOs.fresh /\ buOs.mail["ui"] = << >>
    BY <2>1, FreshEvents, UiGoesFirst
  <2>5. Window' /\ g_debounce_count' \in 0..Needed /\ same' \in Nat
    BY <2>1, <2>4, NeededAssumption DEF ButtonTypes, Count, Window
  <2>6. p \in BOOLEAN
    OBVIOUS
  <2>7. ButtonTypes'
    BY <2>2, <2>5, <2>6, Zenon DEF ButtonTypes
  <2>8. printed = g_stable_pressed
    BY <2>4, Zenon DEF UiSeesEveryEdge
  <2>11. Edge => p # g_stable_pressed
    BY DEF Edge
  <2>9. CASE ~Edge
    <3>1. KernelShape' /\ UiIsNext' /\ buOs'.mail["ui"] = << >>
      BY <2>1, <2>3, <2>9, QuietTurn
    <3>2. printed' = g_stable_pressed'
      BY <2>2, <2>8, <2>9, Zenon
    <3>3. UiSeesEveryEdge'
      BY <3>1, <3>2, Zenon DEF UiSeesEveryEdge
    <3> QED BY <2>5, <2>7, <3>1, <3>3 DEF ButtonInv
  <2>10. CASE Edge
    <3> DEFINE q == Posted(k, "ui", <<"button", p>>, 4)
    <3>1. buOs \in Kernels /\ buOs.mail["button"] = << >> /\ "button" \in Two /\ "ui" \in Two
      BY DEF KernelShape, Two
    <3>2. /\ k \in Kernels /\ k.last = "button" /\ k.fresh = buOs.fresh \ {"button"}
          /\ k.mail["ui"] = << >> /\ k.mail["button"] = << >>
      BY <2>4, <3>1, PairTaken DEF Kernels, Two
    <3> HIDE DEF k, p
    <3>3. /\ q \in Kernels /\ q.last = k.last /\ q.fresh = k.fresh
          /\ q.mail["ui"] = <<<<"button", p>>>> /\ q.mail["button"] = << >>
      BY <2>6, <3>2, EdgePosted
    <3> HIDE DEF q
    <3>4. /\ buOs' \in Kernels /\ buOs'.mail = q.mail /\ buOs'.last = q.last
          /\ buOs'.fresh = q.fresh
      BY <2>3, <2>10, <3>1, <3>3, PairReturned DEF Kernels, Two, q
    <3>5. buOs'.mail["ui"] = <<<<"button", p>>>>
      BY <3>3, <3>4
    <3>6. buOs'.fresh = {}
      BY <2>4, <3>1, <3>2, <3>3, <3>4 DEF Kernels, Pair, Two
    <3>7. KernelShape' /\ UiIsNext'
      BY <3>2, <3>3, <3>4, <3>6 DEF KernelShape, UiIsNext
    <3>8. g_stable_pressed' = p /\ printed' = printed
      BY <2>2, <2>10, Zenon
    <3>9. printed = ~p
      <4>1. p # g_stable_pressed
        BY <2>10, <2>11
      <4>2. p \in BOOLEAN /\ g_stable_pressed \in BOOLEAN
        BY <2>6, Zenon DEF ButtonTypes
      <4> QED BY <2>8, <4>1, <4>2
    <3>10. <<<<"button", p>>>> # << >>
      OBVIOUS
    <3>11. UiSeesEveryEdge'
      BY <3>5, <3>8, <3>9, <3>10, Zenon DEF UiSeesEveryEdge
    <3> QED BY <2>5, <2>7, <3>7, <3>11 DEF ButtonInv
  <2> QED BY <2>9, <2>10
<1>7. CASE UiTurn
  <2> DEFINE k == Taken(buOs, "ui")
             mail == buOs.mail["ui"]
  <2>1. /\ buOs' = Returned(k, "ui", Forever)
        /\ printed' = IF EventOf(buOs, "ui")[1] = "button" THEN EventOf(buOs, "ui")[2]
                      ELSE printed
    BY <1>7, Zenon DEF UiTurn
  <2>2. UNCHANGED <<raw_high, sampler, same>>
    BY <1>7 DEF UiTurn
  <2>3. buOs \in Kernels /\ buOs.mail["button"] = << >> /\ "button" \in Two /\ "ui" \in Two
    BY DEF KernelShape, Two
  <2>4. /\ k \in Kernels /\ k.last = "ui" /\ k.fresh = buOs.fresh \ {"ui"}
        /\ k.mail["button"] = << >>
        /\ k.mail["ui"] = IF "ui" \notin buOs.fresh /\ mail # << >> THEN Tail(mail) ELSE mail
    BY <2>3, PairTaken DEF Kernels, Two
  <2> HIDE DEF k
  <2>5. /\ buOs' \in Kernels /\ buOs'.mail = k.mail /\ buOs'.last = k.last
        /\ buOs'.fresh = k.fresh
    BY <2>1, <2>3, <2>4, PairReturned DEF Kernels, Two
  <2>6. CASE mail = << >>
    <3>1. EventOf(buOs, "ui") \in {INIT, TIMER}
      BY <2>6 DEF EventOf
    <3>2. EventOf(buOs, "ui")[1] # "button"
      BY <3>1 DEF INIT, TIMER
    <3>3. printed' = printed
      BY <2>1, <3>2, Zenon
    <3>4. KernelShape' /\ UiIsNext' /\ Window'
      BY <2>2, <2>3, <2>4, <2>5, <2>6 DEF KernelShape, UiIsNext, Window, sampler, Kernels
    <3>5. UiSeesEveryEdge'
      BY <2>2, <2>3, <2>4, <2>5, <2>6, <3>3 DEF UiSeesEveryEdge, sampler
    <3>6. ButtonTypes'
      BY <2>2, <3>3 DEF ButtonTypes, sampler
    <3> QED BY <3>4, <3>5, <3>6 DEF ButtonInv
  <2>7. CASE mail # << >>
    <3>1. "button" \notin buOs.fresh /\ "ui" \notin buOs.fresh
      BY <2>7 DEF UiIsNext
    <3>2. mail = <<<<"button", g_stable_pressed>>>>
      BY <2>7, <3>1, Zenon DEF UiSeesEveryEdge
    <3>3. EventOf(buOs, "ui") = <<"button", g_stable_pressed>>
      BY <2>7, <3>1, <3>2 DEF EventOf
    <3>4. printed' = g_stable_pressed
      BY <2>1, <3>3
    <3>5. k.mail["ui"] = << >>
      BY <2>4, <2>7, <3>1, <3>2
    <3>6. KernelShape' /\ UiIsNext' /\ Window'
      BY <2>2, <2>3, <2>4, <2>5, <3>1, <3>5 DEF KernelShape, UiIsNext, Window, sampler, Kernels
    <3>7. g_stable_pressed' = g_stable_pressed
      BY <2>2 DEF sampler
    <3>8. UiSeesEveryEdge'
      BY <2>5, <3>4, <3>5, <3>7 DEF UiSeesEveryEdge
    <3>9. ButtonTypes'
      BY <2>2, <3>4 DEF ButtonTypes, sampler
    <3> QED BY <3>6, <3>8, <3>9 DEF ButtonInv
  <2> QED BY <2>6, <2>7
<1>8. CASE BuPass
  <2>1. /\ CanPass(buOs) /\ buOs' = PassedBy(buOs)
        /\ UNCHANGED <<raw_high, sampler, printed, same>>
    BY <1>8 DEF BuPass
  <2>2. /\ buOs' \in Kernels /\ buOs'.mail = buOs.mail /\ buOs'.fresh = buOs.fresh
        /\ buOs.last = "button" => ~IsReady(buOs, "ui")
    BY <2>1, PairPassed DEF KernelShape, Kernels
  <2>3. KernelShape' /\ UiIsNext' /\ Window' /\ UiSeesEveryEdge'
    BY <2>1, <2>2 DEF sampler, KernelShape, UiIsNext, IsReady, Window, UiSeesEveryEdge
  <2>4. ButtonTypes'
    BY <2>1 DEF ButtonTypes, sampler
  <2> QED BY <2>3, <2>4 DEF ButtonInv
<1> QED BY <1>1, <1>2, <1>3, <1>4, <1>5, <1>6, <1>7, <1>8 DEF BuNext, BuSystem

LEMMA ButtonInvariance == BuInit /\ [][BuNext]_buVars => []ButtonInv
BY ButtonStarts, ButtonKept, PTL

\* Whatever the window, ui_task misses no edge and never lags by more than one, with the
\* result of ktos_SendMsg ignored: the two tasks' order in the ring alone sees to it.
THEOREM NoEdgeIsMissed == BuInit /\ [][BuNext]_buVars => []UiSeesEveryEdge
<1>1. ButtonInv => UiSeesEveryEdge
  BY DEF ButtonInv
<1> QED BY <1>1, ButtonInvariance, PTL

\* Whatever the window, the debounced state changes only when all its samples agreed.
THEOREM OnlyWholeWindows == BuInit /\ [][BuNext]_buVars => EdgesAreDebounced
<1>1. ButtonInv /\ [BuNext]_buVars
        => [g_stable_pressed' # g_stable_pressed =>
              "button" \in buOs.fresh \/ same >= Needed]_buVars
  <2> SUFFICES ASSUME ButtonInv, BuNext, g_stable_pressed' # g_stable_pressed,
                      "button" \notin buOs.fresh
               PROVE  same >= Needed
    OBVIOUS
  <2>1. KernelShape /\ ButtonTypes /\ Window
    BY DEF ButtonInv
  <2>2. ~ButtonInit
    BY <2>1, FreshEvents DEF ButtonInit
  <2>3. SampleEqual
    BY <2>2, Zenon DEF BuNext, BuSystem, Bounce, SampleChanged, UiTurn, BuExpire, BuPass, sampler
  <2>4. Edge
    BY <2>3, Zenon DEF SampleEqual
  <2> QED BY <2>1, <2>4, NeededAssumption DEF Edge, Count, Window, ButtonTypes
<1> QED BY <1>1, ButtonInvariance, PTL DEF EdgesAreDebounced

(***************************************************************************)
(* The LED example.  The last message that waits asks for the mode that    *)
(* was accepted last, and when none waits that mode is set; a steady mode  *)
(* has no timer.                                                           *)
(***************************************************************************)
IsDispatching(f, k, cmd, n) ==
  f = [i \in 0..n |-> IF i = 0 THEN k
                      ELSE Posted(f[i - 1], "led", <<"mode", cmd[i]>>, LedQueue)]

LEMMA DispatchingExists ==
  ASSUME NEW k, NEW cmd, NEW n \in Nat
  PROVE  \E f : IsDispatching(f, k, cmd, n)
<1> DEFINE Step(p, i) == Posted(p, "led", <<"mode", cmd[i]>>, LedQueue)
           Def(f, m) == f = [i \in 0..m |-> IF i = 0 THEN k ELSE Step(f[i - 1], i)]
           S == {m \in Nat : \E f : Def(f, m)}
<1>1. \A f : IsDispatching(f, k, cmd, n) <=> Def(f, n)
  BY DEF IsDispatching
<1> HIDE DEF Step
<1>2. 0 \in S
  <2>1. Def([i \in 0..0 |-> k], 0)
    OBVIOUS
  <2> QED BY <2>1
<1>3. ASSUME NEW m \in Nat, m \in S PROVE m + 1 \in S
  <2>1. PICK f : Def(f, m)
    BY <1>3
  <2> DEFINE g == [i \in 0..m + 1 |-> IF i = m + 1 THEN Step(f[m], m + 1) ELSE f[i]]
  <2>2. \A i \in 0..m : g[i] = f[i]
    OBVIOUS
  <2>3. \A i \in 0..m + 1 : i # 0 => i - 1 \in 0..m
    OBVIOUS
  <2>4. \A i \in 0..m + 1 : g[i] = IF i = 0 THEN k ELSE Step(g[i - 1], i)
    BY <2>1, <2>2, <2>3
  <2>5. Def(g, m + 1)
    BY <2>4
  <2> HIDE DEF Def, g
  <2>6. \E h : Def(h, m + 1)
    BY <2>5
  <2> QED BY <2>6
<1> HIDE DEF S
<1>4. n \in S
  BY <1>2, <1>3, SetInduction
<1> HIDE DEF Def
<1> QED BY <1>1, <1>4 DEF S

LEMMA DispatchedSteps ==
  ASSUME NEW k, NEW cmd, NEW n \in Nat, n = Len(cmd)
  PROVE  \E f : /\ Dispatched(k, cmd) = f[n] /\ f[0] = k
                /\ \A i \in 1..n : f[i] = Posted(f[i - 1], "led", <<"mode", cmd[i]>>, LedQueue)
<1> DEFINE g == CHOOSE f : IsDispatching(f, k, cmd, n)
<1>1. \E f : IsDispatching(f, k, cmd, n)
  BY DispatchingExists
<1>2. IsDispatching(g, k, cmd, n)
  BY <1>1
<1>3. Dispatched(k, cmd) = g[n]
  BY DEF Dispatched, IsDispatching
<1> HIDE DEF g
<1>4. g[0] = k /\ \A i \in 1..n : g[i] = Posted(g[i - 1], "led", <<"mode", cmd[i]>>, LedQueue)
  BY <1>2 DEF IsDispatching
<1> QED BY <1>3, <1>4

LedMsg == {"mode"} \X Mode
LedPair == Pair("led", "uart", LedMsg)

LedKernel == ledOs \in LedPair /\ Len(ledOs.mail["led"]) <= LedQueue

\* What waits for led_task.
LastWaiting ==
  LET mail == ledOs.mail["led"] IN
  IF mail # << >> THEN mail[Len(mail)] = <<"mode", accepted>>
  ELSE accepted = IF "led" \in ledOs.fresh THEN "blink" ELSE g_led_mode

SteadyHasNoTimer ==
  "led" \notin ledOs.fresh /\ g_led_mode # "blink" =>
    lit = (g_led_mode = "on") /\ "led" \notin ledOs.due \cup ledOs.armed

LedInv == LedKernel /\ LastWaiting /\ SteadyHasNoTimer

\* After i commands there are min(i, room) messages more, the last of them the last accepted.
LEMMA DispatchedKept ==
  ASSUME NEW k \in LedPair, Len(k.mail["led"]) <= LedQueue, NEW n \in Nat,
         NEW cmd \in [1..n -> Mode]
  PROVE  LET q == Dispatched(k, cmd)
             room == LedQueue - Len(k.mail["led"])
             last == IF n < room THEN n ELSE room
         IN /\ q \in LedPair /\ q.fresh = k.fresh /\ q.due = k.due /\ q.armed = k.armed
            /\ Len(q.mail["led"]) = Len(k.mail["led"]) + last
            /\ last = 0 => q.mail["led"] = k.mail["led"]
            /\ last # 0 => q.mail["led"][Len(q.mail["led"])] = <<"mode", cmd[last]>>
<1> DEFINE room == LedQueue - Len(k.mail["led"])
           Last(i) == IF i < room THEN i ELSE room
           J(q, i) == /\ q \in LedPair /\ q.fresh = k.fresh /\ q.due = k.due /\ q.armed = k.armed
                      /\ Len(q.mail["led"]) = Len(k.mail["led"]) + Last(i)
                      /\ Last(i) = 0 => q.mail["led"] = k.mail["led"]
                      /\ Last(i) # 0 => q.mail["led"][Len(q.mail["led"])] = <<"mode", cmd[Last(i)]>>
<1>1. n = Len(cmd)
  OBVIOUS
<1>2. PICK f : /\ Dispatched(k, cmd) = f[n] /\ f[0] = k
               /\ \A i \in 1..n : f[i] = Posted(f[i - 1], "led", <<"mode", cmd[i]>>, LedQueue)
  BY <1>1, DispatchedSteps
<1>3. room \in Nat /\ Len(k.mail["led"]) \in Nat /\ LedQueue = Len(k.mail["led"]) + room
  BY LedAssumption DEF LedPair, Pair
<1>4. J(k, 0)
  BY <1>3
<1>5. ASSUME NEW i \in Nat, i + 1 \in 1..n, NEW p, J(p, i)
      PROVE  J(Posted(p, "led", <<"mode", cmd[i + 1]>>, LedQueue), i + 1)
  <2> DEFINE msg == <<"mode", cmd[i + 1]>>
             q == Posted(p, "led", msg, LedQueue)
             box == p.mail["led"]
  <2>1. msg \in LedMsg
    BY <1>5 DEF LedMsg
  <2>2. p \in LedPair /\ box \in Seq(LedMsg)
    BY <1>5 DEF LedPair, Pair
  <2>3. /\ q \in LedPair /\ q.fresh = p.fresh /\ q.due = p.due /\ q.armed = p.armed
        /\ Len(box) < LedQueue => q.mail["led"] = Append(box, msg)
        /\ ~(Len(box) < LedQueue) => q.mail["led"] = box
    <3>1. "led" \in {"led", "uart"}
      OBVIOUS
    <3> HIDE DEF msg, J
    <3> QED BY <2>1, <2>2, <3>1, PairPosted DEF LedPair
  <2> HIDE DEF q, msg
  <2>4. Len(box) = Len(k.mail["led"]) + Last(i)
    BY <1>5
  <2>5. Len(box) < LedQueue <=> i < room
    BY <1>3, <2>4
  <2>6. CASE i < room
    <3>1. q.mail["led"] = Append(box, msg)
      BY <2>3, <2>5, <2>6
    <3>2. Len(q.mail["led"]) = Len(box) + 1 /\ q.mail["led"][Len(box) + 1] = msg
      <4> HIDE DEF box
      <4> QED BY <2>2, <3>1
    <3>3. Last(i) = i /\ Last(i + 1) = i + 1
      BY <1>3, <2>6
    <3>4. Len(q.mail["led"]) = Len(k.mail["led"]) + (i + 1)
      <4>1. Len(box) = Len(k.mail["led"]) + i
        BY <2>4, <3>3
      <4>2. Len(q.mail["led"]) = Len(box) + 1
        BY <3>2
      <4> DEFINE x == Len(k.mail["led"])
                 y == Len(box)
      <4>3. x \in Nat
        BY <1>3
      <4>4. y = x + i
        BY <4>1
      <4>5. Len(q.mail["led"]) = y + 1
        BY <4>2
      <4> HIDE DEF x, y
      <4>6. Len(q.mail["led"]) = x + (i + 1)
        BY <4>3, <4>4, <4>5
      <4> QED BY <4>6 DEF x
    <3>5. q.mail["led"][Len(q.mail["led"])] = <<"mode", cmd[i + 1]>>
      BY <3>2 DEF msg
    <3>6. q.fresh = k.fresh /\ q.due = k.due /\ q.armed = k.armed /\ q \in LedPair
      BY <1>5, <2>3
    <3>7. i + 1 # 0
      OBVIOUS
    <3>8. J(q, i + 1)
      <4> HIDE DEF Last
      <4> QED BY <3>3, <3>4, <3>5, <3>6, <3>7, Zenon
    <3> QED BY <3>8 DEF q, msg
  <2>7. CASE ~(i < room)
    <3>1. q.mail["led"] = box
      BY <2>3, <2>5, <2>7
    <3>2. Last(i) = room /\ Last(i + 1) = room
      BY <1>3, <2>7
    <3>3. q.fresh = k.fresh /\ q.due = k.due /\ q.armed = k.armed /\ q \in LedPair
      BY <1>5, <2>3
    <3>4. J(q, i + 1)
      BY <1>5, <3>1, <3>2, <3>3
    <3> QED BY <3>4 DEF q, msg
  <2> QED BY <2>6, <2>7
<1> HIDE DEF J
<1> DEFINE S == {i \in Nat : i <= n => J(f[i], i)}
<1>6. 0 \in S
  BY <1>2, <1>4
<1>7. ASSUME NEW i \in Nat, i \in S PROVE i + 1 \in S
  <2> SUFFICES ASSUME i + 1 <= n PROVE J(f[i + 1], i + 1)
    OBVIOUS
  <2>1. i + 1 \in 1..n /\ (i + 1) - 1 = i /\ J(f[i], i)
    BY <1>7
  <2>2. f[i + 1] = Posted(f[i], "led", <<"mode", cmd[i + 1]>>, LedQueue)
    BY <1>2, <2>1
  <2> QED BY <1>5, <2>1, <2>2
<1> HIDE DEF S
<1>8. n \in S
  BY <1>6, <1>7, SetInduction
<1>9. J(f[n], n)
  BY <1>8 DEF S
<1> QED BY <1>2, <1>9 DEF J

LEMMA LastOfTail ==
  ASSUME NEW M, NEW s \in Seq(M), s # << >>
  PROVE  /\ Tail(s) = << >> => Head(s) = s[Len(s)]
         /\ Tail(s) # << >> => Tail(s)[Len(Tail(s))] = s[Len(s)]
<1>1. Tail(s) \in Seq(M) /\ Len(Tail(s)) = Len(s) - 1 /\ Len(s) \in Nat \ {0} /\ Head(s) = s[1]
  OBVIOUS
<1>2. CASE Tail(s) = << >>
  <2>1. Len(<< >>) = 0
    OBVIOUS
  <2>2. Len(Tail(s)) = 0
    BY <1>2, <2>1, Zenon
  <2>3. Len(s) = 1
    BY <1>1, <2>2
  <2>4. Head(s) = s[Len(s)]
    BY <1>1, <2>3, Zenon
  <2> QED BY <1>2, <2>4, Zenon
<1>3. CASE Tail(s) # << >>
  <2>1. Len(Tail(s)) # 0
    BY <1>1, <1>3
  <2> QED BY <1>1, <1>3, <2>1
<1> QED BY <1>2, <1>3

LEMMA LedStarts == LedInit => LedInv
<1> SUFFICES ASSUME LedInit PROVE LedInv
  OBVIOUS
<1>1. /\ ledOs = Booted(<<"led", "uart">>) /\ g_led_mode = "blink" /\ accepted = "blink"
  BY DEF LedInit
<1>2. /\ ledOs \in LedPair /\ ledOs.fresh = {"led", "uart"} /\ ledOs.mail["led"] = << >>
  BY <1>1, PairBooted DEF LedPair
<1>3. LedKernel
  BY <1>2, LedAssumption DEF LedKernel
<1>4. LastWaiting /\ SteadyHasNoTimer
  BY <1>1, <1>2 DEF LastWaiting, SteadyHasNoTimer
<1> QED BY <1>3, <1>4 DEF LedInv

LEMMA LedEvents ==
  ASSUME LedKernel
  PROVE  LET ev == EventOf(ledOs, "led")
             mail == ledOs.mail["led"]
         IN /\ ev[1] = "init" => "led" \in ledOs.fresh
            /\ ev[1] = "timer" => "led" \notin ledOs.fresh /\ mail = << >>
            /\ ev[1] = "mode" => /\ "led" \notin ledOs.fresh /\ mail # << >>
                                 /\ ev = Head(mail) /\ ev[2] \in Mode
<1> DEFINE ev == EventOf(ledOs, "led")
           mail == ledOs.mail["led"]
<1>1. mail \in Seq(LedMsg)
  BY DEF LedKernel, LedPair, Pair
<1>2. ASSUME mail # << >>
      PROVE  Head(mail)[1] = "mode" /\ Head(mail)[2] \in Mode
  <2>1. Head(mail) \in LedMsg
    <3> HIDE DEF mail
    <3> QED BY <1>1, <1>2
  <2> QED BY <2>1 DEF LedMsg
<1>3. CASE "led" \in ledOs.fresh
  <2>1. ev[1] = "init"
    BY <1>3 DEF EventOf, INIT
  <2> QED BY <1>3, <2>1
<1>4. CASE "led" \notin ledOs.fresh /\ mail # << >>
  <2>1. ev = Head(mail)
    BY <1>4 DEF EventOf
  <2> QED BY <1>2, <1>4, <2>1
<1>5. CASE "led" \notin ledOs.fresh /\ mail = << >>
  <2>1. ev[1] = "timer"
    BY <1>5 DEF EventOf, TIMER
  <2> QED BY <1>5, <2>1
<1> QED BY <1>3, <1>4, <1>5

\* What a turn of led_task does to the kernel.
LEMMA LedTurnKept ==
  ASSUME LedKernel, NEW delay \in {Later, Forever}, LedEnd(delay)
  PROVE  LET mail == ledOs.mail["led"] IN
         /\ LedKernel' /\ "led" \notin ledOs'.fresh
         /\ delay = Forever => "led" \notin ledOs'.due \cup ledOs'.armed
         /\ ledOs'.mail["led"] = IF "led" \notin ledOs.fresh /\ mail # << >>
                                   THEN Tail(mail) ELSE mail
<1> DEFINE k == Taken(ledOs, "led")
           mail == ledOs.mail["led"]
           box == IF "led" \notin ledOs.fresh /\ mail # << >> THEN Tail(mail) ELSE mail
<1>1. ledOs \in LedPair /\ "led" \in {"led", "uart"} /\ Len(mail) <= LedQueue
  BY DEF LedKernel
<1>2. /\ k \in LedPair /\ k.fresh = ledOs.fresh \ {"led"}
      /\ k.due = ledOs.due /\ k.armed = ledOs.armed /\ k.mail["led"] = box
  BY <1>1, PairTaken DEF LedPair
<1>3. mail \in Seq(LedMsg)
  BY <1>1 DEF LedPair, Pair
<1>4. Len(box) <= LedQueue
  <2> HIDE DEF mail
  <2> QED BY <1>1, <1>3, LedAssumption
<1> HIDE DEF k, box
<1>5. ledOs' = Returned(k, "led", delay)
  BY DEF LedEnd, k
<1> DEFINE q == Returned(k, "led", delay)
<1>6. /\ q \in LedPair /\ q.mail = k.mail /\ q.fresh = k.fresh
      /\ q.due = k.due \ {"led"}
      /\ delay # Later => q.armed = k.armed \ {"led"}
  BY <1>1, <1>2, PairReturned DEF LedPair
<1> HIDE DEF q
<1>a. ledOs' = q
  BY <1>5 DEF q
<1>7. LedKernel'
  BY <1>2, <1>4, <1>6, <1>a DEF LedKernel
<1>8. delay = Forever => delay # Later
  BY DEF Forever, Later
<1> QED BY <1>2, <1>6, <1>7, <1>8, <1>a DEF box

LEMMA UartTurnKept == LedInv /\ UartTurn => LedInv'
<1> SUFFICES ASSUME LedKernel, LastWaiting, SteadyHasNoTimer, UartTurn PROVE LedInv'
  BY DEF LedInv
<1> DEFINE k == Taken(ledOs, "uart")
           mail == ledOs.mail["led"]
           room == LedQueue - Len(mail)
<1>a. PICK n \in Nat : \E cmd \in [1..n -> Mode] :
        /\ ledOs' = Returned(Dispatched(k, cmd), "uart", Later)
        /\ accepted' = LET last == IF n < room THEN n ELSE room
                       IN  IF last = 0 THEN accepted ELSE cmd[last]
  BY LedAssumption DEF UartTurn
<1>1. PICK cmd \in [1..n -> Mode] :
        /\ ledOs' = Returned(Dispatched(k, cmd), "uart", Later)
        /\ accepted' = LET last == IF n < room THEN n ELSE room
                       IN  IF last = 0 THEN accepted ELSE cmd[last]
  BY <1>a
<1>2. UNCHANGED <<g_led_mode, g_led_level, lit>>
  BY DEF UartTurn, led
<1>3. /\ ledOs \in LedPair /\ "uart" \in {"led", "uart"}
      /\ "led" \in {"led", "uart"} \ {"uart"} /\ Len(mail) <= LedQueue
  BY DEF LedKernel
<1>4. /\ k \in LedPair /\ k.fresh = ledOs.fresh \ {"uart"}
      /\ k.due = ledOs.due /\ k.armed = ledOs.armed /\ k.mail["led"] = mail
  BY <1>3, PairTaken DEF LedPair
<1> DEFINE q == Dispatched(k, cmd)
           last == IF n < room THEN n ELSE room
           box == q.mail["led"]
<1> HIDE DEF k
<1>5. /\ q \in LedPair /\ q.fresh = k.fresh /\ q.due = k.due /\ q.armed = k.armed
      /\ Len(box) = Len(mail) + last
      /\ last = 0 => box = mail
      /\ last # 0 => box[Len(box)] = <<"mode", cmd[last]>>
  BY <1>3, <1>4, DispatchedKept
<1>6. Len(mail) \in Nat /\ room \in Nat /\ last \in Nat /\ LedQueue = Len(mail) + room
      /\ last <= room
  <2>1. mail \in Seq(LedMsg)
    BY <1>3 DEF LedPair, Pair
  <2>2. Len(mail) \in Nat
    <3> HIDE DEF mail
    <3> QED BY <2>1
  <2> HIDE DEF mail
  <2> QED BY <1>3, <2>2, LedAssumption
<1>7. ledOs' = Returned(q, "uart", Later)
  BY <1>1
<1> HIDE DEF q
<1>8. /\ ledOs' \in LedPair /\ ledOs'.mail = q.mail /\ ledOs'.fresh = q.fresh
      /\ ledOs'.due = q.due \ {"uart"} /\ ledOs'.armed = q.armed \cup {"uart"}
  <2> DEFINE r == Returned(q, "uart", Later)
  <2>1. /\ r \in LedPair /\ r.mail = q.mail /\ r.fresh = q.fresh
        /\ r.due = q.due \ {"uart"} /\ r.armed = q.armed \cup {"uart"}
    BY <1>3, <1>5, PairReturned DEF LedPair
  <2> HIDE DEF r
  <2> QED BY <1>7, <2>1 DEF r
<1>9. LedKernel'
  <2>1. Len(box) <= LedQueue
    <3> HIDE DEF mail, box, last, room
    <3> QED BY <1>5, <1>6
  <2> QED BY <1>8, <2>1 DEF LedKernel
<1>10. SteadyHasNoTimer'
  BY <1>2, <1>4, <1>5, <1>8 DEF SteadyHasNoTimer
<1>11. LastWaiting'
  <2>1. CASE last = 0
    <3>1. accepted' = accepted
      BY <1>1, <2>1
    <3>2. ledOs'.mail["led"] = mail
      BY <1>5, <1>8, <2>1
    <3>3. "led" \in ledOs'.fresh <=> "led" \in ledOs.fresh
      BY <1>4, <1>5, <1>8
    <3> QED BY <1>2, <3>1, <3>2, <3>3 DEF LastWaiting
  <2>2. CASE last # 0
    <3>1. accepted' = cmd[last]
      BY <1>1, <2>2
    <3>2. ledOs'.mail["led"] = box
      BY <1>8
    <3>3. box # << >>
      <4>1. Len(box) # 0
        <5> HIDE DEF mail, box, last, room
        <5> QED BY <1>5, <1>6, <2>2
      <4> HIDE DEF box
      <4> QED BY <4>1
    <3>4. box[Len(box)] = <<"mode", accepted'>>
      BY <1>5, <2>2, <3>1
    <3> HIDE DEF box
    <3> QED BY <3>2, <3>3, <3>4 DEF LastWaiting
  <2> QED BY <2>1, <2>2
<1> QED BY <1>9, <1>10, <1>11 DEF LedInv

LEMMA LedKept == LedInv /\ [LedNext]_ledVars => LedInv'
<1> SUFFICES ASSUME LedInv, [LedNext]_ledVars PROVE LedInv'
  OBVIOUS
<1>a. LedKernel /\ LastWaiting /\ SteadyHasNoTimer
  BY DEF LedInv
<1> DEFINE mail == ledOs.mail["led"]
<1>1. CASE LedBoot
  <2>1. /\ EventOf(ledOs, "led")[1] = "init" /\ g_led_mode' = "blink" /\ LedEnd(Later)
        /\ accepted' = accepted
    BY <1>1 DEF LedBoot, ToLed
  <2>2. "led" \in ledOs.fresh
    BY <1>a, <2>1, LedEvents
  <2>3. LedKernel' /\ "led" \notin ledOs'.fresh /\ ledOs'.mail["led"] = mail
    BY <1>a, <2>1, <2>2, LedTurnKept
  <2>4. LastWaiting'
    BY <1>a, <2>1, <2>2, <2>3 DEF LastWaiting
  <2> QED BY <2>1, <2>3, <2>4 DEF LedInv, SteadyHasNoTimer
<1>2. CASE Blink
  <2>1. /\ EventOf(ledOs, "led")[1] = "timer" /\ UNCHANGED <<g_led_mode, accepted>>
        /\ \/ g_led_mode = "blink" /\ LedEnd(Later)
           \/ g_led_mode # "blink" /\ LedEnd(Forever) /\ lit' = lit
    BY <1>2 DEF Blink, ToLed
  <2>2. "led" \notin ledOs.fresh /\ mail = << >>
    BY <1>a, <2>1, LedEvents
  <2>3. /\ LedKernel' /\ "led" \notin ledOs'.fresh /\ ledOs'.mail["led"] = << >>
        /\ g_led_mode # "blink" => "led" \notin ledOs'.due \cup ledOs'.armed
    BY <1>a, <2>1, <2>2, LedTurnKept
  <2>4. LastWaiting'
    BY <1>a, <2>1, <2>2, <2>3 DEF LastWaiting
  <2>5. SteadyHasNoTimer'
    BY <1>a, <2>1, <2>2, <2>3, Zenon DEF SteadyHasNoTimer
  <2> QED BY <2>3, <2>4, <2>5 DEF LedInv
<1>3. CASE SetMode
  <2> DEFINE m == EventOf(ledOs, "led")[2]
  <2>1. /\ EventOf(ledOs, "led")[1] = "mode" /\ g_led_mode' = m /\ accepted' = accepted
        /\ lit' = IF m = "blink" THEN lit ELSE m = "on"
        /\ LedEnd(ModeDelay(m))
    BY <1>3, Zenon DEF SetMode, ToLed
  <2>2. "led" \notin ledOs.fresh /\ mail # << >> /\ EventOf(ledOs, "led") = Head(mail)
    BY <1>a, <2>1, LedEvents
  <2>3. ModeDelay(m) \in {Later, Forever} /\ (m # "blink" => ModeDelay(m) = Forever)
    BY DEF ModeDelay
  <2>4. /\ LedKernel' /\ "led" \notin ledOs'.fresh /\ ledOs'.mail["led"] = Tail(mail)
        /\ m # "blink" => "led" \notin ledOs'.due \cup ledOs'.armed
    BY <1>a, <2>1, <2>2, <2>3, LedTurnKept
  <2>5. mail[Len(mail)] = <<"mode", accepted>>
    BY <1>a, <2>2 DEF LastWaiting
  <2>6. mail \in Seq(LedMsg)
    BY <1>a DEF LedKernel, LedPair, Pair
  <2>7. LastWaiting'
    <3>1. CASE Tail(mail) = << >>
      <4>1. Head(mail) = mail[Len(mail)]
        <5> HIDE DEF mail
        <5> QED BY <2>2, <2>6, <3>1, LastOfTail
      <4>2. m = accepted
        BY <2>2, <2>5, <4>1
      <4> QED BY <2>1, <2>4, <3>1, <4>2 DEF LastWaiting
    <3>2. CASE Tail(mail) # << >>
      <4>1. Tail(mail)[Len(Tail(mail))] = mail[Len(mail)]
        <5> HIDE DEF mail
        <5> QED BY <2>2, <2>6, <3>2, LastOfTail
      <4> HIDE DEF mail
      <4> QED BY <2>1, <2>4, <2>5, <3>2, <4>1 DEF LastWaiting
    <3> QED BY <3>1, <3>2
  <2>8. SteadyHasNoTimer'
    BY <2>1, <2>4 DEF SteadyHasNoTimer
  <2> QED BY <2>4, <2>7, <2>8 DEF LedInv
<1>4. CASE UartTurn
  BY <1>4, UartTurnKept
<1>5. ASSUME NEW t \in {"led", "uart"}, LedExpire(t) PROVE LedInv'
  <2>1. /\ t \in ledOs.armed /\ ledOs' = Expired(ledOs, t)
        /\ UNCHANGED <<g_led_mode, lit, accepted>>
    BY <1>5 DEF LedExpire, led
  <2>2. /\ ledOs' \in LedPair /\ ledOs'.mail = ledOs.mail /\ ledOs'.fresh = ledOs.fresh
        /\ ledOs'.due = ledOs.due \cup {t} /\ ledOs'.armed = ledOs.armed \ {t}
    BY <1>a, <2>1, PairExpired DEF LedKernel, LedPair
  <2>3. LedKernel' /\ LastWaiting'
    BY <1>a, <2>1, <2>2 DEF LedKernel, LastWaiting
  <2>4. SteadyHasNoTimer'
    BY <1>a, <2>1, <2>2 DEF SteadyHasNoTimer
  <2> QED BY <2>3, <2>4 DEF LedInv
<1>6. CASE LedPass
  <2>1. CanPass(ledOs) /\ ledOs' = PassedBy(ledOs) /\ UNCHANGED <<g_led_mode, lit, accepted>>
    BY <1>6 DEF LedPass, led
  <2>2. /\ ledOs' \in LedPair /\ ledOs'.mail = ledOs.mail /\ ledOs'.fresh = ledOs.fresh
        /\ ledOs'.due = ledOs.due /\ ledOs'.armed = ledOs.armed
    BY <1>a, <2>1, PairPassed DEF LedKernel, LedPair
  <2> QED BY <1>a, <2>1, <2>2 DEF LedInv, LedKernel, LastWaiting, SteadyHasNoTimer
<1>7. CASE UNCHANGED ledVars
  BY <1>a, <1>7 DEF ledVars, LedInv, LedKernel, LastWaiting, SteadyHasNoTimer
<1> QED BY <1>1, <1>2, <1>3, <1>4, <1>5, <1>6, <1>7 DEF LedNext, LedTurn

\* However many commands come in one activation, and however many of them a queue of any
\* size refuses: once none waits the LED is as the last accepted one asked, and a steady
\* light has no timer left.
THEOREM LastCommandWins == LedInit /\ [][LedNext]_ledVars => []LastModeWins
<1>1. LedInv => LastModeWins
  BY DEF LedInv, LastWaiting, SteadyHasNoTimer, LastModeWins
<1> QED BY <1>1, LedStarts, LedKept, PTL

(***************************************************************************)
(* The UART shell.  The buffer begins with the line typed so far; after    *)
(* the last character of a burst that posted a line, it holds that line    *)
(* unless something was stored since; and cmd_task is next then.           *)
(***************************************************************************)
Char == Letter \cup {EOL, NUL}
Lines == {s \in Seq(Char) : Len(s) < LineBufSize}
Buffers == [0..LineBufSize - 1 -> Char]
ShMsg == {"line"} \X Nat
ShPair == Pair("cmd", "rx", ShMsg)

\* The buffer begins with s; the string in it is s.
Begins(buf, s) == \A i \in 1..Len(s) : buf[i - 1] = s[i]
Holds(buf, s) == \A i \in 1..Len(s) + 1 : buf[i - 1] = Append(s, NUL)[i]

Assembling ==
  /\ g_line_buf \in Buffers /\ typed \in Lines /\ g_assembling_len = Len(typed)
  /\ Begins(g_line_buf, typed)
  /\ "rx" \in shOs.fresh => typed = << >>

CmdIsNext == exact # << >> => shOs.last = "rx" /\ shOs.mail["cmd"] # << >>

ShInv == shOs \in ShPair /\ Assembling /\ CmdIsNext /\ exact \in Lines /\ LineReadIntact

\* What rx_task's loop works on, and what each turn of it keeps.
Draining == [k : ShPair, buf : Buffers, len : Nat, typed : Lines, line : Lines, lines : Nat,
             over : BOOLEAN]

DrainInv(r) ==
  /\ r \in Draining
  /\ r.len = Len(r.typed) /\ Begins(r.buf, r.typed)
  /\ r.k.last = "rx" /\ "rx" \notin r.k.fresh
  /\ r.lines # 0 => r.k.mail["cmd"] # << >>
  /\ r.lines # 0 /\ ~r.over => r.len = 0 /\ Holds(r.buf, r.line)

LEMMA BufferWritten ==
  ASSUME NEW buf \in Buffers, NEW s \in Lines, NEW c \in Char, Begins(buf, s)
  PROVE  LET new == [buf EXCEPT ![Len(s)] = c] IN
         /\ new \in Buffers
         /\ \A i \in 1..Len(s) + 1 : new[i - 1] = Append(s, c)[i]
<1> DEFINE n == Len(s)
           new == [buf EXCEPT ![n] = c]
<1>1. s \in Seq(Char) /\ n \in Nat /\ n \in 0..LineBufSize - 1
  BY LineBufAssumption DEF Lines
<1>2. \A i \in 1..n + 1 : Append(s, c)[i] = IF i = n + 1 THEN c ELSE s[i]
  BY <1>1
<1>3. new \in Buffers /\ \A j \in 0..LineBufSize - 1 : new[j] = IF j = n THEN c ELSE buf[j]
  BY <1>1 DEF Buffers
<1> HIDE DEF new
<1>4. ASSUME NEW i \in 1..n + 1 PROVE new[i - 1] = Append(s, c)[i]
  <2>1. i - 1 \in 0..LineBufSize - 1 /\ (i - 1 = n <=> i = n + 1) /\ (i # n + 1 => i \in 1..n)
    <3> HIDE DEF n
    <3> QED BY <1>1, LineBufAssumption
  <2>2. new[i - 1] = IF i - 1 = n THEN c ELSE buf[i - 1]
    BY <1>3, <2>1
  <2>3. i # n + 1 => buf[i - 1] = s[i]
    BY <2>1 DEF Begins
  <2> QED BY <1>2, <2>1, <2>2, <2>3
<1> QED BY <1>3, <1>4 DEF new

LEMMA EndOfLineKept == ASSUME NEW r, DrainInv(r) PROVE DrainInv(EndOfLine(r))
<1>1. CASE r.len = 0
  BY <1>1 DEF EndOfLine
<1>2. CASE r.len # 0
  <2> DEFINE msg == <<"line", r.len>>
             k == Posted(r.k, "cmd", msg, 4)
             buf == [r.buf EXCEPT ![r.len] = NUL]
             q == EndOfLine(r)
  <2>1. /\ r \in Draining /\ r.len = Len(r.typed) /\ r.k.last = "rx" /\ "rx" \notin r.k.fresh
        /\ Begins(r.buf, r.typed)
    BY DEF DrainInv
  <2>2. /\ r.k \in ShPair /\ r.buf \in Buffers /\ r.len \in Nat /\ r.typed \in Lines
        /\ r.lines \in Nat
    BY <2>1 DEF Draining
  <2>3. buf \in Buffers /\ Holds(buf, r.typed)
    <3>1. NUL \in Char
      BY DEF Char
    <3> QED BY <2>1, <2>2, <3>1, BufferWritten DEF Holds
  <2>4. /\ k \in ShPair /\ k.last = "rx" /\ "rx" \notin k.fresh /\ k.mail["cmd"] # << >>
    <3> DEFINE box == r.k.mail["cmd"]
    <3>1. msg \in ShMsg /\ "cmd" \in {"cmd", "rx"}
      BY <2>2 DEF ShMsg
    <3> HIDE DEF msg
    <3>2. /\ k \in ShPair /\ k.last = r.k.last /\ k.fresh = r.k.fresh
          /\ Len(box) < 4 => k.mail["cmd"] = Append(box, msg)
          /\ ~(Len(box) < 4) => k.mail["cmd"] = box
      BY <2>2, <3>1, PairPosted DEF ShPair
    <3>3. box \in Seq(ShMsg)
      BY <2>2 DEF ShPair, Pair
    <3>4. Append(box, msg) # << >> /\ (~(Len(box) < 4) => box # << >>)
      <4> HIDE DEF box
      <4>1. Len(Append(box, msg)) # 0 /\ Len(<< >>) = 0
        BY <3>3
      <4> QED BY <4>1
    <3> QED BY <2>1, <3>2, <3>4
  <2>5. << >> \in Lines /\ Len(<< >>) = 0
    BY LineBufAssumption DEF Lines
  <2>6. q = [r EXCEPT !.buf = buf, !.len = 0, !.typed = << >>, !.line = r.typed,
                      !.lines = r.lines + 1, !.over = FALSE, !.k = k]
    BY <1>2, <2>1 DEF EndOfLine, Draining
  <2> HIDE DEF buf, k, q
  <2>7. /\ q \in Draining /\ q.k = k /\ q.buf = buf /\ q.len = 0 /\ q.typed = << >>
        /\ q.line = r.typed /\ q.lines = r.lines + 1
    <3>1. q = [k |-> k, buf |-> buf, len |-> 0, typed |-> << >>, line |-> r.typed,
               lines |-> r.lines + 1, over |-> FALSE]
      BY <2>1, <2>6, Zenon DEF Draining
    <3> QED BY <2>2, <2>3, <2>4, <2>5, <3>1 DEF Draining
  <2>8. Begins(q.buf, q.typed)
    BY <2>5, <2>7 DEF Begins
  <2> QED BY <2>3, <2>4, <2>5, <2>7, <2>8 DEF DrainInv, q
<1> QED BY <1>1, <1>2

LEMMA StoreCharKept ==
  ASSUME NEW r, DrainInv(r), NEW c \in Char PROVE DrainInv(StoreChar(r, c))
<1>1. CASE ~(r.len < LineBufSize - 1)
  BY <1>1 DEF StoreChar
<1>2. CASE r.len < LineBufSize - 1
  <2> DEFINE line == Append(r.typed, c)
             buf == [r.buf EXCEPT ![r.len] = c]
             q == StoreChar(r, c)
  <2>1. /\ r \in Draining /\ r.len = Len(r.typed) /\ r.k.last = "rx" /\ "rx" \notin r.k.fresh
        /\ Begins(r.buf, r.typed) /\ (r.lines # 0 => r.k.mail["cmd"] # << >>)
    BY DEF DrainInv
  <2>2. r.k \in ShPair /\ r.buf \in Buffers /\ r.len \in Nat /\ r.typed \in Lines
    BY <2>1 DEF Draining
  <2>3. buf \in Buffers /\ \A i \in 1..r.len + 1 : buf[i - 1] = line[i]
    BY <2>1, <2>2, BufferWritten
  <2>4. line \in Lines /\ Len(line) = r.len + 1
    <3>1. r.typed \in Seq(Char) /\ Len(r.typed) < LineBufSize - 1
      BY <1>2, <2>1, <2>2 DEF Lines
    <3>2. line \in Seq(Char) /\ Len(line) = Len(r.typed) + 1
      BY <3>1
    <3> HIDE DEF line
    <3> QED BY <1>2, <2>1, <2>2, <3>2, LineBufAssumption DEF Lines
  <2>5. q = [r EXCEPT !.buf = buf, !.len = r.len + 1, !.typed = line, !.over = TRUE]
    BY <1>2, <2>1 DEF StoreChar, Draining
  <2> HIDE DEF buf, line, q
  <2>6. /\ q \in Draining /\ q.k = r.k /\ q.buf = buf /\ q.len = r.len + 1 /\ q.typed = line
        /\ q.lines = r.lines /\ q.over
    <3>1. q = [k |-> r.k, buf |-> buf, len |-> r.len + 1, typed |-> line, line |-> r.line,
               lines |-> r.lines, over |-> TRUE]
      BY <2>1, <2>5, Zenon DEF Draining
    <3>2. r.line \in Lines /\ r.lines \in Nat
      BY <2>1 DEF Draining
    <3> QED BY <2>2, <2>3, <2>4, <3>1, <3>2 DEF Draining
  <2>7. Begins(q.buf, q.typed)
    BY <2>3, <2>4, <2>6 DEF Begins
  <2> QED BY <2>1, <2>4, <2>6, <2>7 DEF DrainInv, q
<1> QED BY <1>1, <1>2

IsDraining(f, start, in, n) ==
  f = [i \in 0..n |-> IF i = 0 THEN start ELSE OneChar(f[i - 1], in[i])]

LEMMA DrainingExists ==
  ASSUME NEW start, NEW in, NEW n \in Nat
  PROVE  \E f : IsDraining(f, start, in, n)
<1> DEFINE Step(p, i) == OneChar(p, in[i])
           Def(f, m) == f = [i \in 0..m |-> IF i = 0 THEN start ELSE Step(f[i - 1], i)]
           S == {m \in Nat : \E f : Def(f, m)}
<1>1. \A f : IsDraining(f, start, in, n) <=> Def(f, n)
  BY DEF IsDraining
<1> HIDE DEF Step
<1>2. 0 \in S
  <2>1. Def([i \in 0..0 |-> start], 0)
    OBVIOUS
  <2> QED BY <2>1
<1>3. ASSUME NEW m \in Nat, m \in S PROVE m + 1 \in S
  <2>1. PICK f : Def(f, m)
    BY <1>3
  <2> DEFINE g == [i \in 0..m + 1 |-> IF i = m + 1 THEN Step(f[m], m + 1) ELSE f[i]]
  <2>2. \A i \in 0..m : g[i] = f[i]
    OBVIOUS
  <2>3. \A i \in 0..m + 1 : i # 0 => i - 1 \in 0..m
    OBVIOUS
  <2>4. \A i \in 0..m + 1 : g[i] = IF i = 0 THEN start ELSE Step(g[i - 1], i)
    BY <2>1, <2>2, <2>3
  <2>5. Def(g, m + 1)
    BY <2>4
  <2> HIDE DEF Def, g
  <2>6. \E h : Def(h, m + 1)
    BY <2>5
  <2> QED BY <2>6
<1> HIDE DEF S
<1>4. n \in S
  BY <1>2, <1>3, SetInduction
<1> HIDE DEF Def
<1> QED BY <1>1, <1>4 DEF S

LEMMA DrainedKept ==
  ASSUME NEW start, DrainInv(start), NEW n \in Nat, NEW in \in [1..n -> Letter \cup {EOL}]
  PROVE  DrainInv(Drained(start, in))
<1> DEFINE g == CHOOSE f : IsDraining(f, start, in, n)
<1>1. \E f : IsDraining(f, start, in, n)
  BY DrainingExists
<1>2. IsDraining(g, start, in, n)
  BY <1>1
<1>3. Drained(start, in) = g[n]
  <2>1. n = Len(in)
    OBVIOUS
  <2> QED BY <2>1 DEF Drained, IsDraining
<1> HIDE DEF g
<1>4. g[0] = start /\ \A i \in 1..n : g[i] = OneChar(g[i - 1], in[i])
  BY <1>2 DEF IsDraining
<1> DEFINE S == {i \in Nat : i <= n => DrainInv(g[i])}
<1>5. 0 \in S
  BY <1>4
<1>6. ASSUME NEW i \in Nat, i \in S PROVE i + 1 \in S
  <2> SUFFICES ASSUME i + 1 <= n PROVE DrainInv(g[i + 1])
    OBVIOUS
  <2>1. i + 1 \in 1..n /\ (i + 1) - 1 = i /\ DrainInv(g[i])
    BY <1>6
  <2>2. g[i + 1] = OneChar(g[i], in[i + 1])
    BY <1>4, <2>1
  <2>3. in[i + 1] \in Char
    BY <2>1 DEF Char
  <2> QED BY <2>1, <2>2, <2>3, EndOfLineKept, StoreCharKept DEF OneChar
<1> HIDE DEF S
<1>7. n \in S
  BY <1>5, <1>6, SetInduction
<1> QED BY <1>3, <1>7 DEF S

LEMMA ShellStarts == ShInit => ShInv
<1> SUFFICES ASSUME ShInit PROVE ShInv
  OBVIOUS
<1>1. shOs \in ShPair
  BY PairBooted DEF ShInit, ShPair
<1>2. << >> \in Lines /\ Len(<< >>) = 0
  BY LineBufAssumption DEF Lines
<1>3. g_line_buf \in Buffers
  BY DEF ShInit, Buffers, Char
<1>4. g_assembling_len = 0 /\ typed = << >> /\ exact = << >>
  BY DEF ShInit
<1> QED BY <1>1, <1>2, <1>3, <1>4 DEF ShInv, Assembling, Begins, CmdIsNext, LineReadIntact

\* A turn of rx_task finds no line that is safe: cmd_task would be next.
LEMMA RxFindsNone ==
  ASSUME shOs \in ShPair, CmdIsNext, HasTurn(shOs, "rx")
  PROVE  exact = << >>
<1> SUFFICES ASSUME exact # << >> PROVE FALSE
  OBVIOUS
<1>1. shOs.last = "rx" /\ IsReady(shOs, "cmd")
  BY DEF CmdIsNext, IsReady
<1>2. "cmd" # "rx"
  OBVIOUS
<1> QED BY <1>1, <1>2, FirstGoes DEF ShPair

LEMMA RxDrainKept == ShInv /\ RxDrain => ShInv'
<1> SUFFICES ASSUME ShInv, RxDrain PROVE ShInv'
  OBVIOUS
<1>1. shOs \in ShPair /\ Assembling /\ CmdIsNext
  BY DEF ShInv
<1>2. HasTurn(shOs, "rx") /\ EventOf(shOs, "rx") # INIT
  BY DEF RxDrain
<1>3. exact = << >> /\ "rx" \notin shOs.fresh
  BY <1>1, <1>2, RxFindsNone DEF EventOf
<1> DEFINE k == Taken(shOs, "rx")
           start == [k |-> k, buf |-> g_line_buf, len |-> g_assembling_len, typed |-> typed,
                     line |-> << >>, lines |-> 0, over |-> FALSE]
<1>4. /\ k \in ShPair /\ k.last = "rx" /\ "rx" \notin k.fresh
  <2>1. "rx" \in {"cmd", "rx"}
    OBVIOUS
  <2> QED BY <1>1, <1>3, <2>1, PairTaken DEF ShPair
<1>5. DrainInv(start)
  <2> HIDE DEF k
  <2>1. << >> \in Lines
    BY LineBufAssumption DEF Lines
  <2>2. g_line_buf \in Buffers /\ typed \in Lines /\ g_assembling_len = Len(typed)
        /\ g_assembling_len \in Nat /\ Begins(g_line_buf, typed)
    BY <1>1 DEF Assembling, Lines
  <2>3. start \in Draining
    BY <1>4, <2>1, <2>2 DEF Draining
  <2> QED BY <1>4, <2>2, <2>3 DEF DrainInv
<1>6. PICK n \in Nat : \E in \in [1..n -> Letter \cup {EOL}] :
        LET r == Drained(start, in)
        IN /\ shOs' = Returned(r.k, "rx", Later)
           /\ g_line_buf' = r.buf /\ g_assembling_len' = r.len /\ typed' = r.typed
           /\ exact' = IF exact = << >> /\ r.lines = 1 /\ ~r.over /\ shOs.mail["cmd"] = << >>
                         THEN r.line ELSE exact
  BY BurstAssumption DEF RxDrain
<1>7. PICK in \in [1..n -> Letter \cup {EOL}] :
        LET r == Drained(start, in)
        IN /\ shOs' = Returned(r.k, "rx", Later)
           /\ g_line_buf' = r.buf /\ g_assembling_len' = r.len /\ typed' = r.typed
           /\ exact' = IF exact = << >> /\ r.lines = 1 /\ ~r.over /\ shOs.mail["cmd"] = << >>
                         THEN r.line ELSE exact
  BY <1>6
<1> HIDE DEF start
<1> DEFINE r == Drained(start, in)
<1>8. DrainInv(r)
  BY <1>5, DrainedKept
<1>9. /\ shOs' = Returned(r.k, "rx", Later)
      /\ g_line_buf' = r.buf /\ g_assembling_len' = r.len /\ typed' = r.typed
      /\ exact' = << >> \/ (exact' = r.line /\ r.lines = 1 /\ ~r.over)
  BY <1>3, <1>7
<1> HIDE DEF r
<1>10. /\ r.k \in ShPair /\ r.buf \in Buffers /\ r.typed \in Lines /\ r.line \in Lines
       /\ r.k.last = "rx" /\ "rx" \notin r.k.fresh
       /\ r.len = Len(r.typed) /\ Begins(r.buf, r.typed)
  BY <1>8 DEF DrainInv, Draining
<1>11. /\ shOs' \in ShPair /\ shOs'.mail = r.k.mail /\ shOs'.last = r.k.last
       /\ shOs'.fresh = r.k.fresh
  <2> DEFINE q == Returned(r.k, "rx", Later)
  <2>1. "rx" \in {"cmd", "rx"}
    OBVIOUS
  <2>2. /\ q \in ShPair /\ q.mail = r.k.mail /\ q.last = r.k.last /\ q.fresh = r.k.fresh
    BY <1>10, <2>1, PairReturned DEF ShPair
  <2> HIDE DEF q
  <2> QED BY <1>9, <2>2 DEF q
<1>12. Assembling'
  BY <1>9, <1>10, <1>11 DEF Assembling, Begins
<1>13. exact' # << >> => Holds(r.buf, r.line) /\ r.k.mail["cmd"] # << >>
  BY <1>8, <1>9 DEF DrainInv
<1>14. CmdIsNext'
  BY <1>10, <1>11, <1>13 DEF CmdIsNext
<1>15. LineReadIntact'
  BY <1>9, <1>13 DEF LineReadIntact, Holds
<1>16. exact' \in Lines
  <2>1. << >> \in Lines
    BY LineBufAssumption DEF Lines
  <2> QED BY <1>9, <1>10, <2>1
<1> QED BY <1>11, <1>12, <1>14, <1>15, <1>16 DEF ShInv

LEMMA ShellKept == ShInv /\ [ShNext]_shVars => ShInv'
<1> SUFFICES ASSUME ShInv, [ShNext]_shVars PROVE ShInv'
  OBVIOUS
<1>a. shOs \in ShPair /\ Assembling /\ CmdIsNext /\ LineReadIntact /\ exact \in Lines
  BY DEF ShInv
<1>b. << >> \in Lines /\ Len(<< >>) = 0
  BY LineBufAssumption DEF Lines
<1>c. "cmd" \in {"cmd", "rx"} /\ "rx" \in {"cmd", "rx"}
  OBVIOUS
<1>1. CASE RxDrain
  BY <1>1, RxDrainKept
<1>2. CASE RxInit
  <2> DEFINE k == Taken(shOs, "rx")
             q == Returned(k, "rx", Later)
  <2>1. /\ HasTurn(shOs, "rx") /\ EventOf(shOs, "rx") = INIT /\ shOs' = q
        /\ g_assembling_len' = 0 /\ UNCHANGED <<g_line_buf, typed, exact>>
    BY <1>2 DEF RxInit
  <2>2. k \in ShPair /\ k.fresh = shOs.fresh \ {"rx"}
    BY <1>a, <1>c, PairTaken DEF ShPair
  <2> HIDE DEF k
  <2>3. q \in ShPair /\ q.fresh = k.fresh
    BY <1>c, <2>2, PairReturned DEF ShPair
  <2> HIDE DEF q
  <2>4. exact = << >>
    BY <1>a, <2>1, RxFindsNone
  <2>5. typed = << >>
    <3> DEFINE mail == shOs.mail["rx"]
    <3>1. mail \in Seq(ShMsg)
      BY <1>a DEF ShPair, Pair
    <3>2. mail # << >> => Head(mail) \in ShMsg
      <4> HIDE DEF mail
      <4> QED BY <3>1
    <3>3. mail # << >> => Head(mail)[1] = "line"
      BY <3>2 DEF ShMsg
    <3>4. INIT[1] = "init" /\ TIMER[1] = "timer"
      BY DEF INIT, TIMER
    <3>5. "rx" \in shOs.fresh
      BY <2>1, <3>3, <3>4 DEF EventOf
    <3> QED BY <1>a, <3>5 DEF Assembling
  <2> QED BY <1>a, <1>b, <2>1, <2>2, <2>3, <2>4, <2>5
          DEF ShInv, Assembling, Begins, CmdIsNext, LineReadIntact
<1>3. CASE CmdTurn
  <2> DEFINE k == Taken(shOs, "cmd")
             q == Returned(k, "cmd", Forever)
  <2>1. /\ shOs' = q /\ exact' = << >> /\ UNCHANGED <<g_line_buf, g_assembling_len, typed>>
    BY <1>3 DEF CmdTurn
  <2>2. k \in ShPair /\ k.fresh = shOs.fresh \ {"cmd"}
    BY <1>a, <1>c, PairTaken DEF ShPair
  <2> HIDE DEF k
  <2>3. q \in ShPair /\ q.fresh = k.fresh
    BY <1>c, <2>2, PairReturned DEF ShPair
  <2> HIDE DEF q
  <2> QED BY <1>a, <1>b, <2>1, <2>2, <2>3
          DEF ShInv, Assembling, Begins, CmdIsNext, LineReadIntact
<1>4. CASE ShExpire
  <2> DEFINE q == Expired(shOs, "rx")
  <2>1. shOs' = q /\ UNCHANGED <<g_line_buf, g_assembling_len, typed, exact>>
    BY <1>4 DEF ShExpire
  <2>2. q \in ShPair /\ q.mail = shOs.mail /\ q.last = shOs.last /\ q.fresh = shOs.fresh
    BY <1>a, <1>c, PairExpired DEF ShPair
  <2> HIDE DEF q
  <2> QED BY <1>a, <2>1, <2>2 DEF ShInv, Assembling, Begins, CmdIsNext, LineReadIntact
<1>5. CASE ShPass
  <2> DEFINE q == PassedBy(shOs)
  <2>1. CanPass(shOs) /\ shOs' = q /\ UNCHANGED <<g_line_buf, g_assembling_len, typed, exact>>
    BY <1>5 DEF ShPass
  <2>2. /\ q \in ShPair /\ q.mail = shOs.mail /\ q.fresh = shOs.fresh
        /\ shOs.last = "rx" => ~IsReady(shOs, "cmd")
    BY <1>a, <2>1, PairPassed DEF ShPair
  <2> HIDE DEF q
  <2>3. exact = << >>
    BY <1>a, <2>2 DEF CmdIsNext, IsReady
  <2> QED BY <1>a, <2>1, <2>2, <2>3 DEF ShInv, Assembling, Begins, CmdIsNext, LineReadIntact
<1>6. CASE UNCHANGED shVars
  BY <1>a, <1>6 DEF shVars, ShInv, Assembling, Begins, CmdIsNext, LineReadIntact
<1> QED BY <1>1, <1>2, <1>3, <1>4, <1>5, <1>6 DEF ShNext

\* Whatever the size of the line buffer and however long the bursts: a line that ended its
\* burst is in the buffer, cut and terminated, until cmd_task has read it.
THEOREM LinesAreReadIntact == ShInit /\ [][ShNext]_shVars => []LineReadIntact
<1>1. ShInv => LineReadIntact
  BY DEF ShInv
<1> QED BY <1>1, ShellStarts, ShellKept, PTL

(***************************************************************************)
(* The boot counter.  A number that is not spoilt is due again: the cells, *)
(* with the high byte under way if it is, hold the one before it.          *)
(***************************************************************************)
Stored(lo, hi) == lo + Base * hi

CellTypes ==
  /\ cell \in [0..1 -> Byte] /\ due \in 0..Top /\ cnt \in 0..Top /\ spoilt \in BOOLEAN
  /\ doing \in {"idle", "low", "high"}
  /\ writing = << >> \/ writing \in (0..1) \X Byte

\* What is being programmed while counter_task counts.
Bytes ==
  /\ doing = "low" => writing = << >>
  /\ doing = "high" => \/ writing = <<0, cnt % Base>>
                       \/ writing = << >> /\ cell[0] = cnt % Base

\* Where the number that is due shows.
DueNext ==
  ~spoilt =>
    /\ doing = "idle" =>
         \/ writing = << >> /\ due = Succ(Stored(cell[0], cell[1]))
         \/ writing # << >> /\ writing[1] = 1 /\ due = Succ(Stored(cell[0], writing[2]))
    /\ doing # "idle" => due = cnt
    /\ doing # "idle" /\ (doing = "high" => writing # << >>)
         => due = Succ(Stored(cell[0], cell[1]))

CountInv == CellTypes /\ Bytes /\ DueNext

LEMMA Digits ==
  ASSUME NEW n \in 0..Top
  PROVE  /\ n % Base \in Byte /\ n \div Base \in Byte
         /\ (n % Base) + Base * (n \div Base) = n
<1>1. Base \in Nat /\ Base > 1 /\ n \in Nat
  BY BaseAssumption DEF Top
<1>2. n = Base * (n \div Base) + (n % Base) /\ n % Base \in 0..Base - 1 /\ n \div Base \in Int
  BY <1>1, SMTT(30)
<1>3. n <= Base * Base - 1
  BY <1>1 DEF Top
<1> DEFINE q == n \div Base
           r == n % Base
<1> HIDE DEF q, r
<1>4. q \in Int /\ r \in 0..Base - 1 /\ n = Base * q + r
  BY <1>2 DEF q, r
<1>5. q >= 0
  <2> SUFFICES ASSUME q <= -1 PROVE FALSE
    BY <1>4
  <2>1. Base * q <= -Base
    BY <1>1, <1>4, SMTT(30)
  <2> QED BY <1>1, <1>4, <2>1
<1>6. q <= Base - 1
  <2> SUFFICES ASSUME q >= Base PROVE FALSE
    BY <1>1, <1>4
  <2>1. Base * q >= Base * Base
    BY <1>1, <1>4, SMTT(30)
  <2> QED BY <1>1, <1>3, <1>4, <2>1
<1> QED BY <1>1, <1>4, <1>5, <1>6 DEF Byte, q, r

LEMMA Numbers ==
  /\ Top \in Nat /\ Top >= 1
  /\ \A a, b \in Byte : a + Base * b \in 0..Top
  /\ (Base - 1) + Base * (Base - 1) = Top
<1>1. Base \in Nat /\ Base > 1
  BY BaseAssumption
<1>2. Base * Base >= Base * 2
  BY <1>1, SMTT(30)
<1>3. Base * (Base - 1) = Base * Base - Base
  BY <1>1, SMTT(30)
<1>4. ASSUME NEW a \in Byte, NEW b \in Byte PROVE a + Base * b \in 0..Top
  <2>1. Base * b <= Base * (Base - 1) /\ Base * b \in Nat
    BY <1>1, SMTT(30) DEF Byte
  <2> QED BY <1>1, <1>3, <2>1 DEF Top, Byte
<1> QED BY <1>1, <1>2, <1>3, <1>4 DEF Top

LEMMA SuccNumber == \A n \in 0..Top : Succ(n) \in 0..Top /\ NextCount(n) = Succ(n)
BY Numbers DEF Succ, NextCount

LEMMA CountStarts == EeInit => CountInv
<1> SUFFICES ASSUME EeInit PROVE CountInv
  OBVIOUS
<1>1. cell \in [0..1 -> Byte] /\ cell[0] = Base - 1 /\ cell[1] = Base - 1
  BY BaseAssumption DEF EeInit, Byte
<1>2. Succ(Stored(cell[0], cell[1])) = 1
  BY <1>1, Numbers DEF Stored, Succ
<1>3. CellTypes
  <2>1. due = 1 /\ cnt = 0 /\ spoilt = FALSE /\ doing = "idle" /\ writing = << >>
    BY DEF EeInit
  <2>2. 0 \in 0..Top /\ 1 \in 0..Top
    BY Numbers
  <2> QED BY <1>1, <2>1, <2>2 DEF CellTypes
<1>4. Bytes /\ DueNext
  BY <1>2 DEF EeInit, Bytes, DueNext
<1> QED BY <1>3, <1>4 DEF CountInv

\* Power fails with the cells left as cell' says.
LEMMA PowerLossKept == CountInv /\ PowerLoss => CountInv'
<1> SUFFICES ASSUME CellTypes, Bytes, DueNext, PowerLoss PROVE CountInv'
  BY DEF CountInv
<1> DEFINE done  == writing = << >> \/ cell'[writing[1]] = writing[2]
           carry == cnt \div Base # cell[1]
<1>1. /\ writing' = << >> /\ doing' = "idle" /\ cnt' = 0
      /\ due' = IF doing = "high" /\ done /\ ~carry THEN Succ(due) ELSE due
      /\ spoilt' = (spoilt \/ (doing = "idle" /\ ~done)
                    \/ (doing = "high" /\ (IF done THEN carry ELSE cell' # cell)))
  BY Zenon DEF PowerLoss, CountAfter
<1>2. cell' \in [0..1 -> Byte] /\ (\A a \in 0..1 : writing = << >> \/ writing[1] # a => cell'[a] = cell[a])
  <2>1. CASE writing = << >>
    BY <2>1 DEF PowerLoss, CellTypes
  <2>2. CASE writing # << >>
    <3>1. PICK v \in {cell[writing[1]], Base - 1, writing[2]} :
                 cell' = [cell EXCEPT ![writing[1]] = v]
      BY <2>2 DEF PowerLoss
    <3>2. v \in Byte
      BY <2>2, BaseAssumption DEF Byte, CellTypes
    <3> QED BY <2>2, <3>1, <3>2 DEF CellTypes
  <2> QED BY <2>1, <2>2
<1>3. CellTypes'
  <2>1. due' \in 0..Top
    BY <1>1, SuccNumber DEF CellTypes
  <2>2. spoilt' \in BOOLEAN
    BY <1>1
  <2> QED BY <1>1, <1>2, <2>1, <2>2, Numbers DEF CellTypes
<1>4. ASSUME ~spoilt' PROVE due' = Succ(Stored(cell'[0], cell'[1]))
  <2>0. ~spoilt
    BY <1>1, <1>4
  <2>1. CASE doing = "idle"
    <3>1. done /\ due' = due
      BY <1>1, <1>4, <2>1
    <3>2. CASE writing = << >>
      BY <1>2, <2>0, <2>1, <3>1, <3>2 DEF DueNext
    <3>3. CASE writing # << >>
      <4>1. writing[1] = 1 /\ due = Succ(Stored(cell[0], writing[2]))
        BY <2>0, <2>1, <3>3 DEF DueNext
      <4> QED BY <1>2, <3>1, <3>3, <4>1
    <3> QED BY <3>2, <3>3
  <2>2. CASE doing = "low"
    <3>1. writing = << >> /\ due = Succ(Stored(cell[0], cell[1])) /\ due' = due
      BY <1>1, <2>0, <2>2 DEF DueNext, Bytes
    <3> QED BY <1>2, <3>1
  <2>3. CASE doing = "high" /\ done
    <3>1. ~carry /\ due' = Succ(due) /\ due = cnt
      BY <1>1, <1>4, <2>0, <2>3 DEF DueNext
    <3>2. cell'[0] = cnt % Base /\ cell'[1] = cell[1]
      BY <1>2, <2>3 DEF Bytes
    <3>3. Stored(cell'[0], cell'[1]) = cnt
      BY <3>1, <3>2, Digits DEF Stored, CellTypes
    <3> QED BY <3>1, <3>3
  <2>4. CASE doing = "high" /\ ~done
    <3>1. writing # << >> /\ cell' = cell /\ due' = due
      BY <1>1, <1>4, <2>4
    <3> QED BY <2>0, <2>4, <3>1 DEF DueNext
  <2> QED BY <2>1, <2>2, <2>3, <2>4 DEF CellTypes
<1> QED BY <1>1, <1>3, <1>4 DEF CountInv, Bytes, DueNext

LEMMA CountKept == CountInv /\ [EeNext]_eeVars => CountInv'
<1> SUFFICES ASSUME CountInv, [EeNext]_eeVars PROVE CountInv'
  OBVIOUS
<1> USE DEF CountInv, CellTypes, Bytes, DueNext
<1>1. CASE UNCHANGED <<cell, due, cnt, doing, writing, spoilt>>
  BY <1>1
<1>2. CASE ReadCount
  <2>1. /\ writing = << >> /\ doing = "idle"
        /\ cnt' = NextCount(Stored(cell[0], cell[1])) /\ doing' = "low"
        /\ UNCHANGED <<cell, writing, due, spoilt>>
    BY <1>2 DEF ReadCount, ToCounter, EeTurn, Stored
  <2>2. Stored(cell[0], cell[1]) \in 0..Top
    BY Numbers DEF Stored
  <2>3. cnt' = Succ(Stored(cell[0], cell[1])) /\ cnt' \in 0..Top
    BY <2>1, <2>2, SuccNumber
  <2> QED BY <2>1, <2>3
<1>3. CASE WriteLow
  <2>1. cnt % Base \in Byte
    BY Digits
  <2>2. /\ writing' = <<0, cnt % Base>> /\ doing = "low" /\ doing' = "high"
        /\ UNCHANGED <<cell, cnt, due, spoilt>>
    BY <1>3 DEF WriteLow, Program
  <2> QED BY <2>1, <2>2
<1>4. CASE WriteHigh
  <2>1. cnt \div Base \in Byte /\ Stored(cnt % Base, cnt \div Base) = cnt
    BY Digits DEF Stored
  <2>2. /\ writing = << >> /\ writing' = <<1, cnt \div Base>> /\ doing = "high" /\ doing' = "idle"
        /\ due' = Succ(cnt) /\ spoilt' = FALSE /\ UNCHANGED <<cell, cnt>>
    BY <1>4 DEF WriteHigh, Program
  <2>3. cell[0] = cnt % Base /\ due' \in 0..Top
    BY <2>2, SuccNumber
  <2>4. CellTypes'
    <3>1. writing' \in (0..1) \X Byte
      BY <2>1, <2>2
    <3>2. spoilt' \in BOOLEAN /\ doing' \in {"idle", "low", "high"}
      BY <2>2
    <3>3. cell' \in [0..1 -> Byte] /\ cnt' \in 0..Top
      BY <2>2
    <3> QED BY <2>3, <3>1, <3>2, <3>3
  <2>5. Bytes'
    BY <2>2
  <2>6. DueNext'
    <3>1. writing' # << >> /\ writing'[1] = 1 /\ writing'[2] = cnt \div Base
      BY <2>2
    <3>2. Stored(cell'[0], writing'[2]) = cnt
      BY <2>1, <2>2, <2>3, <3>1
    <3> QED BY <2>2, <3>1, <3>2
  <2> QED BY <2>4, <2>5, <2>6
<1>5. CASE CellDone
  <2>1. /\ writing # << >> /\ writing' = << >>
        /\ cell' = [cell EXCEPT ![writing[1]] = writing[2]]
        /\ UNCHANGED <<doing, cnt, due, spoilt>>
    BY <1>5 DEF CellDone
  <2>2. cell' \in [0..1 -> Byte] /\ writing[1] \in 0..1 /\ cell'[writing[1]] = writing[2]
        /\ \A a \in 0..1 : a # writing[1] => cell'[a] = cell[a]
    BY <2>1
  <2>3. CASE doing = "idle"
    BY <2>1, <2>2, <2>3
  <2>4. CASE doing = "high"
    BY <2>1, <2>2, <2>4
  <2> QED BY <2>1, <2>3, <2>4
<1>6. CASE LineCommand
  <2>1. doing = "idle" /\ UNCHANGED <<cell, doing, cnt, due>>
    BY <1>6 DEF LineCommand, ToCounter, EeTurn
  <2>2. \/ UNCHANGED <<writing, spoilt>>
        \/ \E a \in 0..1, v \in Byte : writing' = <<a, v>> /\ spoilt' = TRUE
    BY <1>6 DEF LineCommand, Program
  <2> QED BY <2>1, <2>2
<1>7. CASE PowerLoss
  BY <1>7, PowerLossKept
<1>8. CASE \/ Heartbeat \/ RxTurn \/ PowerOn \/ EePass
           \/ \E t \in {"counter", "rx"} : EeExpire(t)
  BY <1>1, <1>8 DEF Heartbeat, RxTurn, PowerOn, EePass, EeExpire
<1>9. CASE UNCHANGED eeVars
  BY <1>1, <1>9 DEF eeVars
<1> QED
  BY <1>2, <1>3, <1>4, <1>5, <1>6, <1>7, <1>8, <1>9 DEF EeNext

LEMMA CountInvariance == EeInit /\ [][EeNext]_eeVars => []CountInv
BY CountStarts, CountKept, PTL

\* Whatever the width of a cell, and however often power fails, also between the two
\* bytes or while one is programmed: as long as the stored number is not spoilt, what a
\* boot shows is one more than the boots before it that stored their low byte.
THEOREM BootsAreCounted == EeInit /\ [][EeNext]_eeVars => BootCountRises
<1>1. CountInv /\ [EeNext]_eeVars
        => [(doing = "high" /\ doing' = "idle" /\ on' /\ ~spoilt) => g_boot_count' = due]_eeVars
  <2> SUFFICES ASSUME CountInv, EeNext, doing = "high", doing' = "idle", on', ~spoilt
               PROVE  g_boot_count' = due
    OBVIOUS
  <2>1. due = cnt
    BY DEF CountInv, DueNext
  <2>2. WriteHigh
    BY Zenon
       DEF EeNext, ReadCount, WriteLow, CellDone, Heartbeat, LineCommand, RxTurn, EePass,
           PowerLoss, PowerOn, EeExpire, ToCounter, EeTurn
  <2> QED BY <2>1, <2>2 DEF WriteHigh
<1> QED BY <1>1, CountInvariance, PTL DEF BootCountRises

(***************************************************************************)
(* The HTTPS GET example.  The timer runs only until the last address has  *)
(* led to a lookup, whatever becomes of the clock after that.              *)
(***************************************************************************)
HttpTypes ==
  /\ inSdk \in BOOLEAN /\ clock \in BOOLEAN /\ sntpArmed \in BOOLEAN /\ sought \in BOOLEAN
  /\ g_sntp_polls \in Nat

Polled == /\ waited = g_sntp_polls /\ waited <= MaxPolls
          /\ inSdk => waited < MaxPolls

HttpInv == /\ HttpTypes /\ Polled
           /\ sntpArmed => ~sought
           /\ g_resp_err = 3 => ~inSdk
           /\ TimeoutIsHonest

LEMMA HttpKept == HttpInv /\ [HgNext]_hgVars => HttpInv'
<1> SUFFICES ASSUME HttpInv, [HgNext]_hgVars PROVE HttpInv'
  OBVIOUS
<1> USE PollsAssumption DEF HttpInv, HttpTypes, Polled, TimeoutIsHonest, Exit
<1>a. 1 # 3 /\ 2 # 3
  OBVIOUS
<1>1. CASE Address
  <2>1. g_resp_err # 3
    BY <1>1 DEF Address
  <2>2. HttpTypes'
    BY <1>1 DEF Address
  <2>3. Polled'
    BY <1>1 DEF Address
  <2> HIDE DEF HttpTypes, Polled
  <2> QED BY <1>1, <2>1, <2>2, <2>3 DEF Address
<1>2. CASE ClockSet
  BY <1>2 DEF ClockSet, sntp
<1>3. CASE PollAgain
  BY <1>3 DEF PollAgain, Rearmed
<1>4. CASE PollTimesOut
  <2>1. g_sntp_polls' \in Nat /\ waited' = g_sntp_polls' /\ waited' = MaxPolls /\ waited' <= MaxPolls
    BY <1>4 DEF PollTimesOut
  <2>2. ~sought' /\ inSdk' = FALSE /\ sntpArmed' = FALSE /\ clock' = clock /\ sought' = sought
    BY <1>4, Zenon DEF PollTimesOut
  <2> QED BY <2>1, <2>2, Zenon
<1>5. CASE PollFinds
  <2>1. g_resp_err # 3
    BY <1>5 DEF PollFinds
  <2> QED BY <1>5, <2>1 DEF PollFinds, Disarmed
<1>6. CASE NoName \/ Name
  <2>1. CASE NoName
    BY <1>a, <2>1, Zenon DEF NoName, sntp
  <2>2. CASE Name
    BY <2>2, Zenon DEF Name, sntp
  <2> QED BY <1>6, <2>1, <2>2
<1>7. CASE LinkEvent
  <2>1. CASE LinkUp
    BY <2>1, Zenon DEF LinkUp, sntp
  <2>2. CASE LinkError
    BY <1>a, <2>2, Zenon DEF LinkError, sntp
  <2>3. CASE LinkClosed
    BY <2>3, Zenon DEF LinkClosed, sntp
  <2> QED BY <1>7, <2>1, <2>2, <2>3 DEF LinkEvent
<1>8. ASSUME NEW n \in 1..HttpSegment, Response(n) PROVE HttpInv'
  BY <1>8, Zenon DEF Response, sntp
<1>9. CASE Printed \/ UNCHANGED hgVars
  BY <1>9 DEF Printed, hgVars
<1> QED
  BY <1>1, <1>2, <1>3, <1>4, <1>5, <1>6, <1>7, <1>8, <1>9 DEF HgNext, Poll

\* Whatever the number of polls, however often the station gets an address, and whether
\* or not the time is lost with sntp_stop and sntp_init: the timeout is reported only
\* after all the polls since the last address, and never over a lookup it has led to.
THEOREM TimeoutsAreHonest == HgInit /\ [][HgNext]_hgVars => []TimeoutIsHonest
<1>1. HgInit => HttpInv
  <2>1. 0 # 3 /\ 0 \in Nat /\ 0 <= MaxPolls /\ 0 < MaxPolls
    BY PollsAssumption
  <2> QED BY <2>1, Zenon DEF HgInit, HttpInv, HttpTypes, Polled, TimeoutIsHonest
<1>2. HttpInv => TimeoutIsHonest
  BY DEF HttpInv
<1> QED BY <1>1, <1>2, HttpKept, PTL
=============================================================================
