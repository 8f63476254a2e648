-------------------------- MODULE Allocator_Proofs --------------------------
(***************************************************************************)
(* The allocator is correct for every number of threads, every arena and   *)
(* every compressed-bounds format that keeps CHERI's contract, as long as  *)
(* no offset wraps.                                                        *)
(***************************************************************************)
EXTENDS Allocator, SequenceTheorems, TLAPS

Inv == TypeOK /\ CapsBelowOffset /\ CapsDisjoint

Blocks == [off : Offset, size : Sizes]

\* The arithmetic of one request.
LEMMA Request ==
  ASSUME NEW s \in Sizes, NEW o \in Offset
  PROVE  /\ s \in Nat /\ o \in Nat /\ o <= ArenaSize
         /\ Rounded[s] \in Nat /\ AlignUp[s][o] \in Nat /\ o <= AlignUp[s][o]
         /\ Low[s][o] \in Nat /\ High[s][o] \in Nat
         /\ AlignUp[s][o] \in Offset =>
              /\ Low[s][AlignUp[s][o]] = AlignUp[s][o]
              /\ High[s][AlignUp[s][o]] = AlignUp[s][o] + Rounded[s]
         /\ ArenaSize \in Nat /\ Word \in Nat /\ ArenaSize < Word
<1>1. ArenaSize \in Nat /\ Word \in Nat /\ ArenaSize < Word
  BY AllocatorAssumption
<1>2. s \in Nat /\ Rounded[s] \in Nat
  BY AllocatorAssumption
<1>3. o \in Nat /\ o <= ArenaSize
  BY <1>1 DEF Offset
<1>4. AlignUp[s] \in [Offset -> Nat]
  BY AllocatorAssumption
<1>5. AlignUp[s][o] \in Nat
  BY <1>4
<1>6. /\ Low[s][o] \in Nat /\ High[s][o] \in Nat
      /\ o <= AlignUp[s][o]
      /\ AlignUp[s][o] \in Offset =>
           /\ Low[s][AlignUp[s][o]] = AlignUp[s][o]
           /\ High[s][AlignUp[s][o]] = AlignUp[s][o] + Rounded[s]
  BY AllocatorAssumption
<1> QED
  BY <1>1, <1>2, <1>3, <1>5, <1>6

\* A block that is taken starts at or above the offset, ends at the new one
\* and gets bounds that cover exactly that.
LEMMA TakenBlock ==
  ASSUME NoWrap, TypeOK, NEW t \in Threads, Take(t)
  PROVE  LET off == AlignedOff(t)
             s == size[t]
         IN  /\ off \in Offset /\ s \in Sizes
             /\ bump <= off /\ bump' \in Offset
             /\ Low[s][off] = off /\ High[s][off] = bump' /\ off <= bump'
             /\ blocks' = Append(blocks, [off |-> off, size |-> s])
<1> DEFINE s == size[t]
           at == AlignUp[s][cur[t]]
<1>1. /\ s \in Sizes /\ cur[t] \in Offset /\ cur[t] = bump
      /\ at \in Nat /\ Rounded[s] \in Nat /\ ArenaSize \in Nat /\ Word \in Nat
  <2>1. s \in Sizes /\ cur[t] \in Offset /\ cur[t] = bump
    BY DEF TypeOK, Take
  <2> QED
    BY <2>1, Request
<1>2. bump <= at /\ at + Rounded[s] < Word
  BY <1>1, Request DEF NoWrap
<1>3. AlignedOff(t) = at /\ NewOff(t) = at + Rounded[s]
  <2>1. at % Word = at /\ (at + Rounded[s]) % Word = at + Rounded[s]
    BY <1>1, <1>2
  <2> QED
    BY <2>1 DEF AlignedOff, NewOff
<1>4. bump' = at + Rounded[s] /\ bump' <= ArenaSize
  BY <1>3 DEF Take
<1>5. at \in Offset /\ bump' \in Offset
  BY <1>1, <1>4 DEF Offset
<1>6. Low[s][at] = at /\ High[s][at] = at + Rounded[s]
  BY <1>1, <1>5, Request
<1>7. blocks' = Append(blocks, [off |-> at, size |-> s])
  BY <1>1, <1>3, <1>4, <1>6 DEF Take, HandOut
<1> QED
  BY <1>1, <1>2, <1>3, <1>4, <1>5, <1>6, <1>7

LEMMA TypeStep ==
  ASSUME NoWrap, TypeOK, [Next]_vars
  PROVE  TypeOK'
<1>1. ASSUME NEW t \in Threads, NEW s \in Sizes, Call(t, s) PROVE TypeOK'
  BY <1>1 DEF TypeOK, Call
<1>2. ASSUME NEW t \in Threads, Fails(t) PROVE TypeOK'
  BY <1>2 DEF TypeOK, Fails
<1>3. ASSUME NEW t \in Threads, Take(t) PROVE TypeOK'
  <2>0. blocks \in Seq(Blocks)
    BY DEF TypeOK, Blocks
  <2>1. bump' \in Offset /\ blocks' \in Seq(Blocks)
    <3> DEFINE b == [off |-> AlignedOff(t), size |-> size[t]]
    <3>1. b \in Blocks /\ bump' \in Offset /\ blocks' = Append(blocks, b)
      BY <1>3, TakenBlock DEF Blocks
    <3> QED
      BY <2>0, <3>1, AppendProperties
  <2> QED
    BY <1>3, <2>1 DEF TypeOK, Take, Blocks
<1>4. ASSUME NEW t \in Threads, Retry(t) PROVE TypeOK'
  BY <1>4 DEF TypeOK, Retry
<1>5. ASSUME Reset PROVE TypeOK'
  <2>1. 0 \in Offset /\ << >> \in Seq(Blocks)
    BY AllocatorAssumption DEF Offset
  <2> QED
    BY <1>5, <2>1, AllocatorAssumption DEF TypeOK, Reset, Blocks
<1>6. ASSUME UNCHANGED vars PROVE TypeOK'
  BY <1>6 DEF TypeOK, vars
<1> QED
  BY <1>1, <1>2, <1>3, <1>4, <1>5, <1>6 DEF Next, Step

LEMMA CapsStep ==
  ASSUME NoWrap, Inv, [Next]_vars
  PROVE  CapsBelowOffset' /\ CapsDisjoint'
<1>t. TypeOK /\ CapsBelowOffset /\ CapsDisjoint
  BY DEF Inv
<1>1. ASSUME UNCHANGED <<bump, blocks>> PROVE CapsBelowOffset' /\ CapsDisjoint'
  BY <1>1, <1>t DEF CapsBelowOffset, CapsDisjoint, LowOf, HighOf
<1>2. ASSUME NEW t \in Threads, Take(t) PROVE CapsBelowOffset' /\ CapsDisjoint'
  <2> DEFINE off == AlignedOff(t)
             s == size[t]
  <2>1. /\ off \in Offset /\ s \in Sizes /\ bump <= off /\ bump \in Offset /\ bump' \in Offset
        /\ Low[s][off] = off /\ High[s][off] = bump' /\ off <= bump'
        /\ blocks' = Append(blocks, [off |-> off, size |-> s])
    BY <1>2, <1>t, TakenBlock DEF TypeOK
  <2>n. PICK n \in Nat : n = Len(blocks)
    BY <1>t DEF TypeOK
  <2>2. /\ blocks \in Seq(Blocks)
        /\ Len(blocks') = n + 1
        /\ blocks'[n + 1] = [off |-> off, size |-> s]
        /\ \A i \in 1 .. n : blocks'[i] = blocks[i]
    <3> DEFINE b == [off |-> off, size |-> s]
    <3>1. b \in Blocks /\ blocks \in Seq(Blocks) /\ blocks' = Append(blocks, b)
      BY <2>1, <1>t DEF TypeOK, Blocks
    <3> QED
      BY <3>1, <2>n, AppendProperties
  <2>3. LowOf(n + 1)' = off /\ HighOf(n + 1)' = bump'
    <3>1. blocks'[n + 1].off = off /\ blocks'[n + 1].size = s
      BY <2>2
    <3> QED
      BY <2>1, <3>1 DEF LowOf, HighOf
  <2>4. \A i \in 1 .. n : /\ LowOf(i)' = LowOf(i) /\ HighOf(i)' = HighOf(i)
                          /\ LowOf(i) \in Nat /\ HighOf(i) \in Nat
    <3> TAKE i \in 1 .. n
    <3>1. blocks[i] \in Blocks
      BY <2>2, <2>n
    <3>2. blocks[i].size \in Sizes /\ blocks[i].off \in Offset
      BY <3>1 DEF Blocks
    <3>3. LowOf(i) \in Nat /\ HighOf(i) \in Nat
      BY <3>2, Request DEF LowOf, HighOf
    <3>4. blocks'[i] = blocks[i]
      BY <2>2
    <3>5. LowOf(i)' = LowOf(i) /\ HighOf(i)' = HighOf(i)
      BY <3>4 DEF LowOf, HighOf
    <3> QED
      BY <3>3, <3>5
  <2>5. \A i \in 1 .. n : LowOf(i) <= HighOf(i) /\ HighOf(i) <= bump
    BY <1>t, <2>n DEF CapsBelowOffset
  <2>o. off \in Nat /\ bump \in Nat /\ bump' \in Nat
    BY <2>1, Request DEF Offset
  <2>6. \A i \in 1 .. n : HighOf(i)' <= off
    BY <2>1, <2>o, <2>4, <2>5
  <2>7. bump <= bump'
    BY <2>1, AllocatorAssumption DEF Offset
  <2>8. CapsBelowOffset'
    <3>1. \A i \in 1 .. n : LowOf(i)' <= HighOf(i)' /\ HighOf(i)' <= bump'
      BY <2>1, <2>4, <2>5, <2>7, AllocatorAssumption DEF Offset
    <3>2. LowOf(n + 1)' <= HighOf(n + 1)' /\ HighOf(n + 1)' <= bump'
      BY <2>1, <2>3, AllocatorAssumption DEF Offset
    <3>3. \A i \in 1 .. Len(blocks') : i \in 1 .. n \/ i = n + 1
      BY <2>2
    <3>4. \A i \in 1 .. Len(blocks') : LowOf(i)' <= HighOf(i)' /\ HighOf(i)' <= bump'
      BY <3>1, <3>2, <3>3
    <3> QED
      BY <3>4 DEF CapsBelowOffset
  <2>9. CapsDisjoint'
    <3> SUFFICES ASSUME NEW i \in 1 .. n + 1, NEW j \in 1 .. n + 1, i # j
                 PROVE  HighOf(i)' <= LowOf(j)' \/ HighOf(j)' <= LowOf(i)'
      BY <2>2 DEF CapsDisjoint
    <3>1. CASE i = n + 1
      <4>1. j \in 1 .. n
        BY <3>1, <2>2
      <4> QED
        BY <3>1, <4>1, <2>3, <2>6
    <3>2. CASE j = n + 1
      <4>1. i \in 1 .. n
        BY <3>2, <2>2
      <4> QED
        BY <3>2, <4>1, <2>3, <2>6
    <3>3. CASE i # n + 1 /\ j # n + 1
      <4>1. i \in 1 .. n /\ j \in 1 .. n
        BY <3>3, <2>2
      <4> QED
        BY <4>1, <3>3, <2>4, <2>n, <1>t DEF CapsDisjoint
    <3> QED
      BY <3>1, <3>2, <3>3
  <2> QED
    BY <2>8, <2>9
<1>3. ASSUME Reset PROVE CapsBelowOffset' /\ CapsDisjoint'
  BY <1>3 DEF Reset, CapsBelowOffset, CapsDisjoint
<1> QED
  BY <1>1, <1>2, <1>3 DEF Next, Step, Call, Fails, Retry, vars

LEMMA InvInit == Init => Inv
<1>1. 0 \in Offset /\ << >> \in Seq(Blocks)
  BY AllocatorAssumption DEF Offset
<1> QED
  BY <1>1, AllocatorAssumption DEF Init, Inv, TypeOK, CapsBelowOffset, CapsDisjoint, Blocks

\* Offsets stay in the arena for any number of racing threads.
THEOREM AllocatorTyping ==
  ASSUME NoWrap
  PROVE  Spec => []TypeOK
<1>1. Init => TypeOK
  BY InvInit DEF Inv
<1>2. TypeOK /\ [Next]_vars => TypeOK'
  BY TypeStep
<1> QED
  BY <1>1, <1>2, PTL DEF Spec

\* No two capabilities overlap, for any number of threads, resets, and any
\* compressed-bounds format.
THEOREM AllocatorDisjoint ==
  ASSUME NoWrap
  PROVE  Spec => []CapsDisjoint
<1>1. Init => Inv
  BY InvInit
<1>2. Inv /\ [Next]_vars => Inv'
  BY TypeStep, CapsStep DEF Inv
<1>3. Inv => CapsDisjoint
  BY DEF Inv
<1> QED
  BY <1>1, <1>2, <1>3, PTL DEF Spec
=============================================================================
