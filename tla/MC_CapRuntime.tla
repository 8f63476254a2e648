---------------------------- MODULE MC_CapRuntime ----------------------------
(* Three objects for a table of two slots: two whose keys collide at the     *)
(* last slot, one of which may be copied twice, and one whose own slot is    *)
(* where the probe wraps to.                                                 *)
EXTENDS CapRuntime, TLC

MCCopyOf == [k \in Keys |-> IF k = 12 THEN {120, 121} ELSE {10 * k}]
Symmetry == Permutations(Threads)
MCHash   == [k \in Keys |-> IF k = 16 THEN 0 ELSE 1]
=============================================================================
