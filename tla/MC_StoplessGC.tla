--------------------------- MODULE MC_StoplessGC ----------------------------
(* Instances of StoplessGC for TLC; the configurations give the constants. *)
EXTENDS StoplessGC
=============================================================================
