---------------------------- MODULE MCHalFrames ----------------------------
(***************************************************************************)
(* Instances of HalFrames for TLC: the board that keeps the contract, and  *)
(* the four whose frames do not.                                           *)
(***************************************************************************)
EXTENDS HalFrames

OnlyLx106  == {"lx106"}
FourBoards == {"msp430", "cm3", "cm0", "avr"}
=============================================================================
