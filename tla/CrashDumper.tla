----------------------------- MODULE CrashDumper -----------------------------
(***************************************************************************)
(* The memory that stopless_crash_dumper reads after a crash.  The dumper  *)
(* runs in a signal handler, so a read that faults kills it and the dump   *)
(* with it.  It reads the stack through the stack capability and any other *)
(* memory through whichever register capability covers it; both are guarded*)
(* by comparisons in 64-bit arithmetic on numbers found in the registers   *)
(* and on the stack at the time of the crash, which may be anything.       *)
(*                                                                         *)
(* The unit of address is one 8-byte word; a capability takes two.         *)
(***************************************************************************)
EXTENDS Integers

CONSTANTS
  AddrSpace,   \* 2^64: addresses are computed modulo this
  StackLo,     \* bounds of the stack capability, cap_sp
  StackHi,
  CrashWords   \* numbers a register or a stack word may hold at a crash

ASSUME DumperAssumption ==
  /\ AddrSpace \in Nat /\ AddrSpace % 2 = 0 /\ AddrSpace > 16
  /\ StackLo \in Nat /\ StackLo >= 2 /\ StackHi \in StackLo..(AddrSpace - 2)
  /\ CrashWords \subseteq 0..(AddrSpace - 1)

\* A crash: the stack capability (tagged but sealed or without the permission
\* to load if "unreadable"), the frame pointer c29, the address c in the
\* register looked at, and the words on the stack.
Crashes == [sp : {"readable", "unreadable", "untagged"}, fp : CrashWords, c : CrashWords,
            stk : [StackLo..(StackHi - 1) -> CrashWords]]

\* The sentinel of a refused read, no address.
BadRead == AddrSpace

Plus(a, n) == (a + n) % AddrSpace

\* Mutant: only the first byte of a read is checked.
AcceptsStart(lo, hi, a, n) == a >= lo /\ a <= hi

\* The test before a read of n words at a through a capability to lo..hi.
Accepts(lo, hi, a, n) == a >= lo /\ Plus(a, n) <= hi

\* The read itself, by the hardware: in bounds, and aligned if it loads a
\* capability (n = 2).
Allowed(lo, hi, a, n) == a >= lo /\ a + n <= hi /\ a % n = 0

Safe(lo, hi, a, n) == Accepts(lo, hi, a, n) => Allowed(lo, hi, a, n)

-----------------------------------------------------------------------------
(* The stack, read through cap_sp, of which only the tag and the bounds    *)
(* are tested.                                                             *)

TriesStack(x, a) == x.sp # "untagged" /\ Accepts(StackLo, StackHi, a, 1)

StackSafe(x, a) == TriesStack(x, a) => x.sp = "readable" /\ Allowed(StackLo, StackHi, a, 1)

StkRd(x, a) ==
  IF ~ TriesStack(x, a) THEN BadRead
  ELSE IF a \in StackLo..(StackHi - 1) THEN x.stk[a] ELSE 0

\* The saved frame pointer found in frame f is not followed.
EndsChain(sfp, f) == sfp <= f \/ sfp % 2 # 0 \/ sfp = BadRead

MaxFrames == 8

\* The frame after f, or 0.
NextFrame(x, f) ==
  LET sfp == StkRd(x, f) IN IF f = 0 \/ EndsChain(sfp, f) THEN 0 ELSE sfp

\* The frames walked, then 0.
Frames(x) ==
  LET frame[i \in 0..(MaxFrames - 1)] == IF i = 0 THEN x.fp ELSE NextFrame(x, frame[i - 1])
  IN frame

\* Each frame's saved frame pointer and return address, the return address
\* beside c29, and a window of words around the stack pointer.
FrameReads(x)  == LET fr == Frames(x) IN
                  UNION {{fr[i], Plus(fr[i], 2)} : i \in {j \in DOMAIN fr : fr[j] # 0}}
WindowReads    == {Plus(StackLo, d) : d \in -2..(StackHi - StackLo)}
StackReads(x)  == FrameReads(x) \cup {Plus(x.fp, 2)} \cup WindowReads

-----------------------------------------------------------------------------
(* Other memory, through the first register capability that covers it.     *)

\* The capabilities COVER accepts are tagged, unsealed and allow loads: here
\* the stack pointer, if it does, and the program counter, whose code is at
\* 0..1.
Bounds(x) == {<<0, 2>>} \cup {b \in {<<StackLo, StackHi>>} : x.sp = "readable"}

\* Instructions around the program counter,
CodeReads(x) == {Plus(x.c, d) : d \in -4..4}

\* words at a register's address and after it, bytes of bytecode around it.
ProbeReads(x) == {Plus(x.c, d) : d \in -3..7}

\* The interpreter's locals and expression stack, loaded as capabilities.
SlotReads(x) == {Plus(x.c, d) : d \in {-4, -2, 0, 2, 4, 6}}

\* In whichever order the registers are tried.
CoverSafe(x, a, n) == \A b \in Bounds(x) : Safe(b[1], b[2], a, n)

-----------------------------------------------------------------------------

\* No read of the dump faults (what stopless_method_name reads through c12 to
\* name the method is left out).
DumpSafe(x) ==
  /\ \A a \in StackReads(x) : StackSafe(x, a)
  /\ \A a \in CodeReads(x) \cup ProbeReads(x) : CoverSafe(x, a, 1)
  /\ \A a \in SlotReads(x) : CoverSafe(x, a, 2)

\* The frames walked go up the stack, so none is shown twice.
FramesAscend(x) ==
  LET fr == Frames(x) IN \A i \in 1..(MaxFrames - 1) : fr[i] # 0 => fr[i] > fr[i - 1]

\* The crash left a stack pointer that has its tag but cannot be read through,
\* a number within a few words of either end of the address space, where a sum
\* wraps, or an odd one where the interpreter keeps the address of a slot.
Edge(x) == x.sp = "unreadable" \/ x.c % 2 # 0 \/ x.c < 4 \/ \E a \in {x.fp, x.c} : Plus(a, 8) < a

\* What can become of a dump.
DumpOutcomes ==
  {[result |-> IF DumpSafe(x) /\ FramesAscend(x) THEN "complete" ELSE "cut",
    edge |-> Edge(x)] : x \in Crashes}
=============================================================================
