----------------------------- MODULE MCKtosQueue -----------------------------
(***************************************************************************)
(* Instances of KtosQueue for TLC.  The state space is finite as it is: no *)
(* counter grows, so no bound is needed beyond the constants.              *)
(***************************************************************************)
EXTENDS KtosQueue

\* Who sends to the queue: the task and two nesting interrupt handlers.
TaskAndTwoIsr == {0, 1, 2}
=============================================================================
