----------------------------- MODULE KtosActors -----------------------------
(***************************************************************************)
(* What the kernel promises to a system of handler-model tasks, without    *)
(* the scheduler: each task is an actor with a mailbox and an alarm.  At   *)
(* most one job is under way.  The first job of an actor is INIT; after    *)
(* that it takes the oldest message of its mailbox, or TIMER when the      *)
(* mailbox is empty and the alarm has run out.  The value its function     *)
(* returns sets the alarm anew, whatever was left of the old one.          *)
(***************************************************************************)
EXTENDS Integers, Sequences

CONSTANTS Task, Capacity, Message, Delays, Forever, INIT, TIMER, Idle

VARIABLES
  created,   \* actors that exist
  fresh,     \* actors that had no job yet
  mailbox,   \* mailbox[t]: accepted messages, oldest first
  alarm,     \* alarm[t]: ticks to go, 0 when it has run out, Off when not set
  job        \* the job under way, <<actor, event>>, or Idle

avars == <<created, fresh, mailbox, alarm, job>>

Off == -1

Init ==
  /\ created = {} /\ fresh = {}
  /\ mailbox = [t \in Task |-> << >>]
  /\ alarm = [t \in Task |-> Off]
  /\ job = Idle

Create(t) ==
  /\ t \notin created
  /\ job = Idle
  /\ created' = created \cup {t}
  /\ fresh' = fresh \cup {t}
  /\ alarm' = [alarm EXCEPT ![t] = 0]
  /\ UNCHANGED <<mailbox, job>>

Post(t, m) ==
  /\ t \in created
  /\ Len(mailbox[t]) < Capacity[t]
  /\ mailbox' = [mailbox EXCEPT ![t] = Append(@, m)]
  /\ UNCHANGED <<created, fresh, alarm, job>>

Tick ==
  /\ alarm' = [t \in Task |-> IF alarm[t] > 0 THEN alarm[t] - 1 ELSE alarm[t]]
  /\ UNCHANGED <<created, fresh, mailbox, job>>

StartFirst(t) ==
  /\ job = Idle
  /\ t \in fresh
  /\ fresh' = fresh \ {t}
  /\ job' = <<t, INIT>>
  /\ UNCHANGED <<created, mailbox, alarm>>

StartMessage(t) ==
  /\ job = Idle
  /\ t \in created \ fresh
  /\ mailbox[t] # << >>
  /\ job' = <<t, Head(mailbox[t])>>
  /\ mailbox' = [mailbox EXCEPT ![t] = Tail(@)]
  /\ UNCHANGED <<created, fresh, alarm>>

StartTimer(t) ==
  /\ job = Idle
  /\ t \in created \ fresh
  /\ mailbox[t] = << >>
  /\ alarm[t] = 0
  /\ job' = <<t, TIMER>>
  /\ UNCHANGED <<created, fresh, mailbox, alarm>>

Finish(d) ==
  /\ job # Idle
  /\ alarm' = [alarm EXCEPT ![job[1]] = IF d = Forever THEN Off ELSE d]
  /\ job' = Idle
  /\ UNCHANGED <<created, fresh, mailbox>>

Next ==
  \/ \E t \in Task : Create(t) \/ StartFirst(t) \/ StartMessage(t) \/ StartTimer(t)
  \/ \E t \in Task, m \in Message : Post(t, m)
  \/ \E d \in Delays : Finish(d)
  \/ Tick

Spec == Init /\ [][Next]_avars
=============================================================================
