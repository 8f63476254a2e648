------------------------------ MODULE MC_Revoke ------------------------------
(* Two objects, a register and two pages; a call repeats the last pass at    *)
(* most twice.                                                               *)
EXTENDS Revoke
=============================================================================
