--------------------------- MODULE HandlerTasks ---------------------------
(***************************************************************************)
(* The kernel as a program sees it whose tasks only return: whose turn it  *)
(* is, with which event, and what a message or a returned delay changes.   *)
(* This is KtosActors with the ring's order (KtosTurns) and without the    *)
(* length of delays, as operators on one record, so that a program's       *)
(* module needs one variable for it.                                       *)
(***************************************************************************)
EXTENDS Integers, Sequences

INIT  == <<"init">>
TIMER == <<"timer">>

\* Values a task function may return.
Now     == "now"       \* 0; no example returns it
Later   == "later"     \* some number of milliseconds
Forever == "forever"   \* KTOS_MSG_SLEEP_INDEFINITLY

TasksOf(k) == {k.ring[i] : i \in DOMAIN k.ring}

\* After ktos_InitTask for each task of the sequence, which sets the timer event: the
\* first one runs first.  "last" is TaskCurrent, the task the loop visited last.
Booted(tasks) ==
  LET all == {tasks[i] : i \in DOMAIN tasks} IN
  [ring |-> tasks, last |-> tasks[Len(tasks)], fresh |-> all, armed |-> {}, due |-> all,
   mail |-> [t \in all |-> << >>]]

IsReady(k, t) == t \in k.fresh \/ t \in k.due \/ k.mail[t] # << >>

\* Mutant: the ring is walked backwards.
MutVisits(k, t) ==
  LET place(u) == CHOOSE i \in DOMAIN k.ring : k.ring[i] = u IN
  (place(k.last) - place(t) - 1) % Len(k.ring)
\* How many tasks the scheduler visits before t.
Visits(k, t) ==
  LET place(u) == CHOOSE i \in DOMAIN k.ring : k.ring[i] = u IN
  (place(t) - place(k.last) - 1) % Len(k.ring)

HasTurn(k, t) == /\ IsReady(k, t)
                 /\ \A u \in TasksOf(k) : IsReady(k, u) => Visits(k, t) <= Visits(k, u)

\* A pass of the loop that finds nothing to do.  The loop goes on while no task is
\* ready: what becomes ready just behind it is visited last.
Visited(k)  == CHOOSE t \in TasksOf(k) : Visits(k, t) = 0
CanPass(k)  == ~IsReady(k, Visited(k))
PassedBy(k) == [k EXCEPT !.last = Visited(k)]

\* Mutant: the newest message comes first.
MutEventOf(k, t) == IF t \in k.fresh THEN INIT
                    ELSE IF k.mail[t] # << >> THEN k.mail[t][Len(k.mail[t])] ELSE TIMER
\* The event of t's turn: its first frame, else the oldest message, else the timer.
EventOf(k, t) == IF t \in k.fresh THEN INIT
                 ELSE IF k.mail[t] # << >> THEN Head(k.mail[t]) ELSE TIMER

\* The turn begins,
Taken(k, t) ==
  [k EXCEPT !.last = t, !.fresh = @ \ {t},
            !.mail[t] = IF t \notin k.fresh /\ @ # << >> THEN Tail(@) ELSE @]

\* ktos_SendMsg is called in it, for a queue of the given size,
Posted(k, t, msg, size) ==
  IF Len(k.mail[t]) < size THEN [k EXCEPT !.mail[t] = Append(@, msg)] ELSE k

\* and the function returns: whatever timer ran before is replaced.
Returned(k, t, delay) ==
  [k EXCEPT !.due = IF delay = Now THEN @ \cup {t} ELSE @ \ {t},
            !.armed = IF delay = Later THEN @ \cup {t} ELSE @ \ {t}]

\* The tick counts down delays to zero.
AllExpired(k, ts) == [k EXCEPT !.armed = @ \ ts, !.due = @ \cup ts]
Expired(k, t)     == AllExpired(k, {t})
=============================================================================
