-------------------------- MODULE MC_SigprotHandler --------------------------
(* Two objects, one of which two threads may copy to different places;       *)
(* register files with interior pointers, numbers that equal an object's     *)
(* address, and references in a register the handler does not try.           *)
EXTENDS SigprotHandler

File(a, b, c) == [r \in Regs |-> IF r = 0 THEN a ELSE IF r = 1 THEN b ELSE c]

MCCopyOf   == [o \in Objects |-> IF o = 10 THEN {30, 40} ELSE {50}]
MCStartRegs ==
  [t \in Threads |-> IF t = 1 THEN File(Ref(10, 1), Ref(20, 0), Number(0))
                              ELSE File(Ref(10, 0), Number(10), Ref(20, 1))]
=============================================================================
