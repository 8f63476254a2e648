------------------------------ MODULE Allocator ------------------------------
(***************************************************************************)
(* stopless_alloc: threads race to take blocks from one arena with a       *)
(* compare-and-swap on its bump offset.  A block is reserved at an offset  *)
(* where CHERI can bound it exactly, and long enough for the bounds it can *)
(* express; the capability handed out covers what cheri_bounds_set makes   *)
(* of the request.  Offsets are size_t, and wrap.                          *)
(***************************************************************************)
EXTENDS Integers, Sequences

CONSTANTS
  Threads,
  Sizes,       \* sizes requested
  ArenaSize,   \* a->size
  Word,        \* 2^64, the modulus of size_t
  Rounded,     \* Rounded[s]: cheri_representable_length(s)
  AlignUp,     \* AlignUp[s][o]: o aligned for s by its representable mask
  MaxResets,   \* bound on the times the arena is reset
  Low, High    \* Low[s][o], High[s][o]: bounds of a capability set at o for s

Offset == 0 .. ArenaSize

\* The arena mapping is aligned for any length up to its own, so offsets
\* stand for addresses.  An aligned offset gets exact bounds.
ASSUME AllocatorAssumption ==
  /\ MaxResets \in Nat
  /\ ArenaSize \in Nat /\ Word \in Nat /\ ArenaSize < Word
  /\ Sizes \subseteq Nat \ {0}
  /\ Rounded \in [Sizes -> Nat]
  /\ AlignUp \in [Sizes -> [Offset -> Nat]]
  /\ \A s \in Sizes, o \in Offset :
       LET at == AlignUp[s][o]
       IN  /\ Low[s][o] \in Nat /\ High[s][o] \in Nat
           /\ o <= at
           /\ at \in Offset => Low[s][at] = at /\ High[s][at] = at + Rounded[s]

\* No request is so large that an offset wraps.
NoWrap ==
  \A s \in Sizes : /\ Rounded[s] >= s
                   /\ \A o \in Offset : AlignUp[s][o] + Rounded[s] < Word

VARIABLES
  bump,     \* a->bump_offset
  pc,       \* pc[t]: "idle", or "try" inside the CAS loop
  size,     \* size[t]: size_bytes
  cur,      \* cur[t]: the offset the thread read last
  blocks,   \* capabilities handed out since the arena was last reset
  resets    \* times the arena has been reset

vars == <<bump, pc, size, cur, blocks, resets>>

Init ==
  /\ bump = 0
  /\ pc = [t \in Threads |-> "idle"]
  /\ size \in [Threads -> Sizes]
  /\ cur = [t \in Threads |-> 0]
  /\ blocks = << >>
  /\ resets = 0

\* The call: NULL at once if rounding overflowed, else read the offset.
Call(t, s) ==
  /\ pc[t] = "idle"
  /\ Rounded[s] >= s
  /\ pc' = [pc EXCEPT ![t] = "try"]
  /\ size' = [size EXCEPT ![t] = s]
  /\ cur' = [cur EXCEPT ![t] = bump]
  /\ UNCHANGED <<bump, blocks, resets>>

AlignedOff(t) == AlignUp[size[t]][cur[t]] % Word

NewOff(t) == (AlignedOff(t) + Rounded[size[t]]) % Word

\* The capability handed out.  Bounds that leave the arena cost it its tag.
HandOut(t) ==
  IF High[size[t]][AlignedOff(t)] > ArenaSize THEN blocks
  ELSE Append(blocks, [off |-> AlignedOff(t), size |-> size[t]])

\* new_off > a->size: NULL.
Fails(t) ==
  /\ pc[t] = "try"
  /\ NewOff(t) > ArenaSize
  /\ pc' = [pc EXCEPT ![t] = "idle"]
  /\ UNCHANGED <<bump, size, cur, blocks, resets>>

\* Mutant: the offset is stored without comparing.
TakeBlindly(t) ==
  /\ pc[t] = "try"
  /\ NewOff(t) <= ArenaSize
  /\ bump' = NewOff(t)
  /\ blocks' = HandOut(t)
  /\ pc' = [pc EXCEPT ![t] = "idle"]
  /\ UNCHANGED <<size, cur, resets>>

\* Mutant: the start of the block is checked, not its end.
TakeUnchecked(t) ==
  /\ pc[t] = "try"
  /\ AlignedOff(t) <= ArenaSize
  /\ bump = cur[t]
  /\ bump' = NewOff(t)
  /\ blocks' = HandOut(t)
  /\ pc' = [pc EXCEPT ![t] = "idle"]
  /\ UNCHANGED <<size, cur, resets>>

\* The CAS succeeds, and the block is the thread's.
Take(t) ==
  /\ pc[t] = "try"
  /\ NewOff(t) <= ArenaSize
  /\ bump = cur[t]
  /\ bump' = NewOff(t)
  /\ blocks' = HandOut(t)
  /\ pc' = [pc EXCEPT ![t] = "idle"]
  /\ UNCHANGED <<size, cur, resets>>

\* Mutant: a lost race is retried from the offset read before it.
RetryStale(t) ==
  /\ pc[t] = "try"
  /\ NewOff(t) <= ArenaSize
  /\ bump # cur[t]
  /\ UNCHANGED vars

\* The CAS fails, because another thread was faster, and reads the offset.
\* (A spurious failure of the weak CAS changes nothing.)
Retry(t) ==
  /\ pc[t] = "try"
  /\ NewOff(t) <= ArenaSize
  /\ bump # cur[t]
  /\ cur' = [cur EXCEPT ![t] = bump]
  /\ UNCHANGED <<bump, pc, size, blocks, resets>>

\* stopless_arena_reset: the caller has seen to it that nothing is left, but
\* not that no thread is allocating.
Reset ==
  /\ resets < MaxResets
  /\ resets' = resets + 1
  /\ bump' = 0
  /\ blocks' = << >>
  /\ UNCHANGED <<pc, size, cur>>

Step(t) == Fails(t) \/ Take(t) \/ Retry(t)

Next ==
  \/ \E t \in Threads : (\E s \in Sizes : Call(t, s)) \/ Step(t)
  \/ Reset

Spec == Init /\ [][Next]_vars

\* A thread inside the loop keeps running.
LiveSpec == Spec /\ \A t \in Threads : WF_vars(Step(t))

-----------------------------------------------------------------------------
\* Offsets stay in the arena, whatever the race and whoever resets it.
TypeOK ==
  /\ bump \in Offset
  /\ pc \in [Threads -> {"idle", "try"}]
  /\ size \in [Threads -> Sizes]
  /\ cur \in [Threads -> Offset]
  /\ blocks \in Seq([off : Offset, size : Sizes])
  /\ resets \in 0 .. MaxResets

LowOf(i)  == Low[blocks[i].size][blocks[i].off]
HighOf(i) == High[blocks[i].size][blocks[i].off]

\* No two capabilities handed out cover a common byte, however the threads
\* race and whatever CHERI's rounding adds to the requests (stopless_alloc).
CapsDisjoint ==
  \A i, j \in 1 .. Len(blocks) : i # j => HighOf(i) <= LowOf(j) \/ HighOf(j) <= LowOf(i)

\* Every capability lies below the offset, so that no later block can reach
\* into it; this makes CapsDisjoint inductive.
CapsBelowOffset ==
  \A i \in 1 .. Len(blocks) : LowOf(i) <= HighOf(i) /\ HighOf(i) <= bump

\* A call returns: a thread that loses the race loses it to another thread's
\* block, and the arena is finite (the loop of stopless_alloc).
CallReturns == \A t \in Threads : pc[t] = "try" ~> pc[t] = "idle"
=============================================================================
