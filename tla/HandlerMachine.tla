--------------------------- MODULE HandlerMachine ---------------------------
(***************************************************************************)
(* Any program over HandlerTasks: tasks are created, post messages, take   *)
(* turns and return delays in any way the operators of HandlerTasks allow. *)
(* This is the kernel the example programs are written against; Ktos       *)
(* implements it (KtosPrograms).                                           *)
(***************************************************************************)
EXTENDS HandlerTasks

CONSTANTS Task, Capacity, Message, Nobody, Idle

VARIABLES
  k,        \* the kernel, as HandlerTasks has it
  job,      \* the turn under way, <<task, event>>, or Idle
  started   \* has the scheduler been started?

mvars == <<k, job, started>>

Init ==
  /\ k = [ring |-> << >>, last |-> Nobody, fresh |-> {}, armed |-> {}, due |-> {},
          mail |-> [t \in {} |-> << >>]]
  /\ job = Idle /\ started = FALSE

\* One more task at the end of the ring; messages may have been posted to the others.
Create(t) ==
  /\ ~started /\ t \notin TasksOf(k)
  /\ LET booted == Booted(Append(k.ring, t)) IN
     k' = [booted EXCEPT !.mail = [u \in DOMAIN @ |-> IF u = t THEN << >> ELSE k.mail[u]]]
  /\ UNCHANGED <<job, started>>

Boot == ~started /\ started' = TRUE /\ TasksOf(k) # {} /\ UNCHANGED <<k, job>>

Post(t, m) ==
  /\ t \in TasksOf(k) /\ k' = Posted(k, t, m, Capacity[t])
  /\ UNCHANGED <<job, started>>

Start(t) ==
  /\ started /\ job = Idle /\ t \in TasksOf(k) /\ HasTurn(k, t)
  /\ job' = <<t, EventOf(k, t)>> /\ k' = Taken(k, t)
  /\ UNCHANGED started

Finish(delay) ==
  /\ job # Idle /\ job' = Idle /\ k' = Returned(k, job[1], delay)
  /\ UNCHANGED started

Pass == /\ started /\ job = Idle /\ CanPass(k) /\ k' = PassedBy(k)
        /\ UNCHANGED <<job, started>>

Expire(ts) == /\ started /\ k' = AllExpired(k, ts)
              /\ UNCHANGED <<job, started>>

Next ==
  \/ \E t \in Task : Create(t) \/ Start(t)
  \/ \E t \in Task, m \in Message : Post(t, m)
  \/ \E delay \in {Now, Later, Forever} : Finish(delay)
  \/ Boot \/ Pass
  \/ \E ts \in SUBSET k.armed : Expire(ts)

Spec == Init /\ [][Next]_mvars
=============================================================================
