---------------------------- MODULE MC_Allocator ----------------------------
(* Allocator with a compressed-bounds format in which a length of 4 or more *)
(* needs alignment 2, and one of 8 or more alignment 4.                     *)
EXTENDS Allocator

Alignment(s) == IF s < 4 THEN 1 ELSE IF s < 8 THEN 2 ELSE 4

RoundUp(x, a)   == ((x + a - 1) \div a) * a
RoundDown(x, a) == (x \div a) * a

RoundedMC == [s \in Sizes |-> RoundUp(s, Alignment(s))]
AlignUpMC == [s \in Sizes |-> [o \in Offset |-> RoundUp(o, Alignment(s))]]
LowMC     == [s \in Sizes |-> [o \in 0 .. Word |-> RoundDown(o, Alignment(s))]]
HighMC    == [s \in Sizes |-> [o \in 0 .. Word |-> RoundUp(o + s, Alignment(s))]]
=============================================================================
