----------------------------- MODULE MCKtosTurns -----------------------------
(***************************************************************************)
(* Instance of KtosTurns and KtosPrograms for TLC: one kernel with both    *)
(* history variables.                                                      *)
(***************************************************************************)
EXTENDS KtosTurns, KtosPrograms

OneSlot == [t \in Task |-> 1]

WatchedInit == TInit /\ PInit

WatchedNext == TNext /\ Note

WatchedSpec == WatchedInit /\ [][WatchedNext]_<<vars, passed, order>>
=============================================================================
