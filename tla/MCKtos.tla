------------------------------- MODULE MCKtos -------------------------------
(***************************************************************************)
(* Instances of the kernel for TLC: the plain specification and the        *)
(* handler-model refinement share these constants.                         *)
(***************************************************************************)
EXTENDS KtosClaims

\* Queue sizes: one slot each; two slots for one task and one for the others.
OneSlot == [t \in Task |-> 1]
Mixed   == [t \in Task |-> IF t = CHOOSE x \in Task : TRUE THEN 2 ELSE 1]
=============================================================================
