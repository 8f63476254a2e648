-------------------------- MODULE StoplessGC_Proofs -------------------------
(***************************************************************************)
(* Proofs about StoplessGC for every arena, every number of roots and      *)
(* registers, and every sound configuration: the inductive invariant IInv, *)
(* and the safety properties that follow from it.                          *)
(***************************************************************************)
EXTENDS StoplessGC_Types, FiniteSetTheorems

-----------------------------------------------------------------------------
(* The inductive invariant without its typing part.                        *)

SafeInv ==
  /\ ArenaInv
  /\ ForwardInv
  /\ MarkInv
  /\ CapInv
  /\ EpochInv
  /\ ScanInv
  /\ LookupInv
  /\ TableInv

LEMMA SafeParts == IInv <=> TypeInv /\ SafeInv
BY DEF IInv, TypeInv, SafeInv

\* Each part survives a step that leaves its variables alone.
LEMMA Kept ==
  /\ ArenaInv /\ UNCHANGED <<bump, orig, fwd, shadow, movedFrom, reg, mem>> => ArenaInv'
  /\ ForwardInv /\ UNCHANGED <<fwd, orig, bump>> => ForwardInv'
  /\ MarkInv /\ UNCHANGED <<fwd, shadow, movedFrom, op>> => MarkInv'
  /\ CapInv /\ UNCHANGED <<reg, mem, fwd, movedFrom, shadow, epoch, clean>> => CapInv'
  /\ EpochInv /\ UNCHANGED <<epoch, pending, col, op, room, movedFrom>> => EpochInv'
  /\ ScanInv /\ UNCHANGED <<movedFrom, fwd, todo, mem, lk, op, epoch, clean>> => ScanInv'
  /\ LookupInv /\ UNCHANGED <<lk, op, fwd, bump>> => LookupInv'
  /\ TableInv /\ UNCHANGED <<ftCap, ftSize, op, room>> => TableInv'
<1>1. ArenaInv /\ UNCHANGED <<bump, orig, fwd, shadow, movedFrom, reg, mem>> => ArenaInv'
  BY DEF ArenaInv
<1>2. ForwardInv /\ UNCHANGED <<fwd, orig, bump>> => ForwardInv'
  BY DEF ForwardInv, Moved, Superseded
<1>3. MarkInv /\ UNCHANGED <<fwd, shadow, movedFrom, op>> => MarkInv'
  BY DEF MarkInv, Moved
<1>4. CapInv /\ UNCHANGED <<reg, mem, fwd, movedFrom, shadow, epoch, clean>> => CapInv'
  BY DEF CapInv, Fresh, Settled, Moved, Live
<1>5. EpochInv /\ UNCHANGED <<epoch, pending, col, op, room, movedFrom>> => EpochInv'
  BY DEF EpochInv, InPause
<1>6. ScanInv /\ UNCHANGED <<movedFrom, fwd, todo, mem, lk, op, epoch, clean>> => ScanInv'
  BY DEF ScanInv, Unscanned
<1>7. LookupInv /\ UNCHANGED <<lk, op, fwd, bump>> => LookupInv'
  BY DEF LookupInv, Moved
<1>8. TableInv /\ UNCHANGED <<ftCap, ftSize, op, room>> => TableInv'
  BY DEF TableInv
<1> QED
  BY <1>1, <1>2, <1>3, <1>4, <1>5, <1>6, <1>7, <1>8

\* A capability that survives revocation is untouched and unmarked.
LEMMA RevokeCap ==
  ASSUME NEW c \in Cap, NEW s
  PROVE  /\ Live(Revoke(c, s)) => Live(c) /\ c.addr \notin s
         /\ ~ Live(Revoke(c, s)) => ~ Live(c) \/ c.addr \in s
         /\ ClearTags /\ (c.tag => c.perm) => (Revoke(c, s).tag => Revoke(c, s).perm)
BY ConstantsAssumption DEF Revoke, Live, Cap

\* What a load changes: at most the scanned location.
LEMMA LoadMem ==
  ASSUME MachineType, KernelType, NEW l \in Loc
  PROVE  /\ MemAfterLoad(l)[l] = Load(l)
         /\ \A m \in Loc : m # l => MemAfterLoad(l)[m] = mem[m]
         /\ \A m \in Loc : MemAfterLoad(l)[m].addr = mem[m].addr
         /\ \A m \in Loc : MemAfterLoad(l)[m].tag => mem[m].tag
         /\ clean \subseteq CleanAfterLoad(l)
         /\ \A m \in Loc : m # l /\ m \in CleanAfterLoad(l) => m \in clean
         /\ ~ (epoch = "open" /\ l \notin CleanAfterLoad(l) /\ Load(l).tag)
<1>1. mem[l] \in Cap /\ mem \in [Loc -> Cap]
  BY DEF MachineType
<1>2. Load(l).addr = mem[l].addr /\ (Load(l).tag => mem[l].tag)
  BY <1>1, RevokeType, RevokeTag DEF Load
<1>3. ~ (epoch = "open" /\ l \notin CleanAfterLoad(l) /\ Load(l).tag)
  BY <1>2 DEF CleanAfterLoad, Load, Unscanned
<1> QED
  BY <1>1, <1>2, <1>3 DEF MemAfterLoad, CleanAfterLoad

\* A load delivers a fresh capability, from an unscanned page too, and
\* leaves memory as sound as it was.
LEMMA LoadCap ==
  ASSUME TypeInv, MarkInv, CapInv, NEW l \in Loc
  PROVE  /\ Fresh(Load(l)) /\ Settled(Load(l))
         /\ \A m \in Loc : Settled(MemAfterLoad(l)[m])
         /\ \A m \in Loc : \/ Fresh(MemAfterLoad(l)[m])
                           \/ epoch = "open" /\ m \notin CleanAfterLoad(l)
<1>t. MachineType /\ KernelType /\ ShapeInv /\ mem[l] \in Cap
  BY DEF TypeInv, TypeOK, MachineType
<1>1. ASSUME Unscanned(l) PROVE Fresh(Load(l)) /\ Settled(Load(l))
  <2>1. Load(l) = Revoke(mem[l], shadow) /\ Load(l).addr = mem[l].addr
    BY <1>1, <1>t, LoadType DEF Load
  <2>2. Live(Load(l)) => mem[l].addr \in Addr /\ mem[l].addr \notin shadow
    BY <2>1, <1>t, RevokeCap DEF ShapeInv, Live, Cap, Addr, Addr0
  <2>3. Fresh(Load(l))
    BY <2>1, <2>2 DEF Fresh, MarkInv
  <2>4. Settled(Load(l))
    BY <2>1, <1>t, RevokeCap DEF CapInv, Settled
  <2> QED
    BY <2>3, <2>4
<1>2. ASSUME ~ Unscanned(l) PROVE Fresh(Load(l)) /\ Settled(Load(l))
  BY <1>2 DEF CapInv, Load, Unscanned, Fresh, Live
<1>3. Fresh(Load(l)) /\ Settled(Load(l))
  BY <1>1, <1>2
<1> QED
  BY <1>3, <1>t, LoadMem DEF CapInv

\* The scan of one location, by a load or by the closing thread, moves no
\* capability and unsettles no root the cycle has visited.
LEMMA LoadArena ==
  ASSUME TypeInv, ArenaInv, NEW l \in Loc,
         mem' = MemAfterLoad(l), UNCHANGED <<bump, orig, fwd, shadow, movedFrom>>,
         \A r \in Regs : reg'[r].addr < bump
  PROVE  ArenaInv'
<1>1. \A m \in Loc : mem'[m].addr = mem[m].addr
  BY LoadMem DEF TypeInv, TypeOK
<1> QED
  BY <1>1 DEF ArenaInv

LEMMA LoadScan ==
  ASSUME TypeInv, ScanInv, NEW l \in Loc,
         mem' = MemAfterLoad(l), clean' = CleanAfterLoad(l),
         UNCHANGED <<movedFrom, fwd, todo, lk, op, epoch>>
  PROVE  ScanInv'
<1>t. MachineType /\ KernelType /\ ControlType /\ ShapeInv /\ Roots \subseteq Loc
  BY DEF TypeInv, TypeOK, Loc
<1>1. \A m \in Loc : mem'[m].addr = mem[m].addr /\ (mem'[m].tag => mem[m].tag)
  BY <1>t, LoadMem
<1>2. clean \subseteq clean'
  BY <1>t, LoadMem
<1>3. lk.use = "scan" => lk.x \in Loc
  BY <1>t DEF ShapeInv
<1>4. \A s \in todo : s \in Loc
  BY <1>t DEF ControlType
<1> QED
  BY <1>1, <1>2, <1>3, <1>4 DEF ScanInv, Unscanned

\* A lookup that answers has reached the last copy.
LEMMA FoundLast ==
  ASSUME TypeInv, LookupInv, LookupDone, Found # 0
  PROVE  Found \in Addr /\ Found < bump /\ fwd[Found] = 0
<1>t. MachineType /\ TableType
  BY DEF TypeInv, TypeOK
<1>1. lk.from # 0 /\ Found = lk.at /\ ~ ChaseExceeded
  BY DEF Found
<1>2. lk.at \in Addr
  BY <1>1, <1>t, ConstantsAssumption DEF TypeInv, ShapeInv, TableType, Lookups, Addr, Addr0
<1> QED
  BY <1>1, <1>2 DEF LookupDone, NextHit, LookupInv

-----------------------------------------------------------------------------
(* A relocation: what it needs, and what it does.                          *)

\* A move happens with the epoch closed and no close owed, copies an object
\* that is not forwarded yet, and records it in a table that has room.
LEMMA MoveFacts ==
  ASSUME SoundConfig, TypeInv, SafeInv, ScanMove
  PROVE  LET from == mem[lk.x].addr
             to == bump
         IN  /\ lk.x \in Roots /\ to \in Addr /\ op = "scan" /\ Live(mem[lk.x])
             /\ from \in Addr /\ from < bump
             /\ room \in Nat /\ room # 0 /\ epoch = "closed" /\ ~ pending
             /\ fwd[from] = 0
             /\ bump' = bump + 1
             /\ orig' = [orig EXCEPT ![to] = orig[from]]
             /\ fwd' = [fwd EXCEPT ![from] = to]
             /\ ftSize' = ftSize + 1 /\ room' = room - 1
             /\ movedFrom' = movedFrom \cup {from}
             /\ lk' = NoLookup
             /\ UNCHANGED <<reg, out, ftCap, shadow, epoch, clean, op, todo, pending, col>>
             /\ \E fixed \in {mem[lk.x], Derive(to)} :
                  mem' = [mem EXCEPT ![to] = mem[from], ![lk.x] = fixed]
<1> USE ConstantsAssumption DEF SafeInv, machineVars, tableVars, kernelVars, cycleVars, collectorVars
<1> DEFINE from == mem[lk.x].addr
           to == bump
<1>i. ArenaInv /\ ForwardInv /\ MarkInv /\ CapInv /\ EpochInv /\ ScanInv /\ LookupInv /\ TableInv
  OBVIOUS
<1>t. TypeInv /\ MachineType /\ TableType /\ KernelType /\ ControlType /\ FlagType /\ ShapeInv
  BY DEF TypeInv, TypeOK
<1>c. /\ Addr = 1 .. MaxAddr /\ Addr0 = 0 .. MaxAddr
      /\ Addr \subseteq Addr0 /\ 0 \in Addr0 /\ Addr \subseteq Loc /\ Roots \subseteq Loc
      /\ Roots \cap Addr = {}
  BY DEF Addr, Addr0, Loc
<1>a. /\ lk.x \in Roots /\ lk.x \in Loc /\ to \in Addr /\ to \in Loc
      /\ lk.from = from /\ lk.from # 0 /\ op = "scan" /\ Live(mem[lk.x])
  BY <1>t, <1>c, <1>i DEF ScanMove, ShapeInv, ScanInv
<1>b. from \in Addr /\ from < bump /\ from # to /\ lk.x # to /\ from \in Loc
  <2>1. mem[lk.x] \in Cap /\ from # 0 /\ from < bump
    BY <1>a, <1>t, <1>i DEF MachineType, ArenaInv
  <2>2. from \in Addr
    BY <2>1, <1>c DEF Cap
  <2> QED
    BY <2>1, <2>2, <1>a, <1>c
<1>r. room \in Nat /\ room # 0 /\ epoch = "closed" /\ ~ pending
  BY <1>a, <1>i, <1>t DEF ScanMove, LimitReached, EpochInv, InPause, ControlType, KernelType
<1>d. ~ TableFull
  BY <1>a, <1>r, <1>i, <1>t DEF TableFull, TableInv, TableType
<1>e. fwd[from] = 0
  <2>1. CASE lk.hops = 0
    BY <2>1, <1>a, <1>i DEF ScanMove, LookupDone, NextHit, ChaseExceeded, LookupInv
  <2>2. CASE lk.hops # 0
    <3>1. lk.hops \in Nat /\ lk.hops >= 2
      BY <2>2, <1>a, <1>t DEF ScanMove, Found, ChaseExceeded, TableType, Lookups, ShapeInv
    <3>2. Moved(from) /\ fwd[fwd[from]] # 0
      BY <3>1, <1>a, <1>i DEF LookupInv
    <3>3. from \in movedFrom
      BY <3>2, <1>a, <1>r, <1>i DEF CapInv, Fresh
    <3> QED
      BY <3>2, <3>3, <1>i DEF ScanInv
  <2> QED
    BY <2>1, <2>2
<1>f. /\ Load(from) = mem[from] /\ MemAfterLoad(from) = mem /\ CleanAfterLoad(from) = clean
  BY <1>b, <1>r, <1>t DEF Load, MemAfterLoad, CleanAfterLoad, Unscanned, MachineType
<1>g. /\ bump' = bump + 1
      /\ orig' = [orig EXCEPT ![to] = orig[from]]
      /\ fwd' = [fwd EXCEPT ![from] = to]
      /\ ftSize' = ftSize + 1 /\ room' = room - 1
      /\ movedFrom' = movedFrom \cup {from}
      /\ lk' = NoLookup
      /\ UNCHANGED <<reg, out, ftCap, shadow, epoch, clean, op, todo, pending, col>>
  BY <1>d, <1>f DEF ScanMove
<1>h. \E fixed \in {mem[lk.x], Derive(to)} :
        mem' = [mem EXCEPT ![to] = mem[from], ![lk.x] = fixed]
  BY <1>d, <1>f DEF ScanMove
<1> QED
  BY <1>a, <1>b, <1>r, <1>e, <1>g, <1>h

-----------------------------------------------------------------------------
(* The induction.                                                          *)

LEMMA SafeInit == Init => SafeInv
<1> SUFFICES ASSUME Init PROVE SafeInv
  OBVIOUS
<1>1. ArenaInv
  BY ConstantsAssumption DEF Init, ArenaInv, NullCap, Addr
<1>2. ForwardInv /\ MarkInv
  BY ConstantsAssumption DEF Init, ForwardInv, MarkInv, Moved, Addr
<1>3. CapInv
  BY DEF Init, CapInv, Fresh, Settled, Live, NullCap
<1>4. EpochInv /\ ScanInv /\ LookupInv /\ TableInv
  BY ConstantsAssumption DEF Init, EpochInv, ScanInv, LookupInv, TableInv, NoLookup, InPause
<1> QED
  BY <1>1, <1>2, <1>3, <1>4 DEF SafeInv

LEMMA SafeStep ==
  ASSUME SoundConfig, TypeInv, SafeInv, [Next]_vars
  PROVE  SafeInv'
<1> USE ConstantsAssumption DEF SafeInv, machineVars, tableVars, kernelVars, cycleVars, collectorVars
<1>i. ArenaInv /\ ForwardInv /\ MarkInv /\ CapInv /\ EpochInv /\ ScanInv /\ LookupInv /\ TableInv
  OBVIOUS
<1>t. TypeInv /\ MachineType /\ TableType /\ KernelType /\ ControlType /\ FlagType /\ ShapeInv
  BY DEF TypeInv, TypeOK
<1>c. /\ Addr = 1 .. MaxAddr /\ Addr0 = 0 .. MaxAddr
      /\ Addr \subseteq Addr0 /\ 0 \in Addr0 /\ Addr \subseteq Loc /\ Roots \subseteq Loc
      /\ Roots \cap Addr = {}
  BY DEF Addr, Addr0, Loc
<1>1. ASSUME NEW r \in Regs, New(r) PROVE SafeInv'
  <2>1. ArenaInv'
    BY <1>1, <1>i, <1>t, <1>c
    DEF New, Running, ArenaInv, MachineType, TableType, KernelType, Cap, Derive
  <2>2. ForwardInv'
    <3>1. /\ bump \in Addr /\ bump' = bump + 1 /\ fwd' = fwd
          /\ orig'[bump] = bump /\ (\A a \in Addr : a # bump => orig'[a] = orig[a])
      BY <1>1, <1>t DEF New, MachineType
    <3>2. \A a \in Addr : Moved(a) => fwd[a] \in Addr
      BY <1>t, <1>c DEF Moved, TableType
    <3>3. \A a \in Addr : Moved(a)' => fwd'[a] > a /\ fwd'[a] < bump' /\ orig'[fwd'[a]] = orig'[a]
      BY <3>1, <3>2, <1>i, <1>c DEF ForwardInv, ArenaInv, Moved
    <3>4. \A a \in Addr : a < bump' /\ Superseded(a)' => Moved(a)'
      <4> SUFFICES ASSUME NEW a \in Addr, a < bump', NEW b \in Addr, b > a, orig'[b] = orig'[a]
                   PROVE  Moved(a)
        BY <3>1 DEF Superseded, Moved
      <4>1. a # bump
        BY <3>1, <1>i, <1>c DEF ArenaInv
      <4>2. b # bump
        BY <3>1, <4>1, <1>i, <1>t, <1>c DEF ArenaInv, MachineType
      <4> QED
        BY <3>1, <4>1, <4>2, <1>i, <1>c DEF ForwardInv, Superseded
    <3> QED
      BY <3>3, <3>4 DEF ForwardInv
  <2>3. CapInv'
    BY <1>1, <1>i, <1>t, <1>c
    DEF New, CapInv, Fresh, Settled, Live, Moved, MachineType, TableType, ArenaInv, Derive
  <2>4. LookupInv'
    BY <1>1, <1>i, <1>t, <1>c
    DEF New, LookupInv, Moved, MachineType, TableType, Lookups
  <2> QED
    BY <2>1, <2>2, <2>3, <2>4, <1>1, <1>i, Kept DEF New, Running
<1>2. ASSUME NEW r \in Regs, Fault(r) PROVE SafeInv'
  <2>1. ScanInv'
    BY <1>2, <1>i, <1>t, <1>c
    DEF Fault, Running, ScanInv, Unscanned, MachineType, LookupInv, StartLookup
  <2>2. LookupInv'
    BY <1>2, <1>i, <1>t, <1>c
    DEF Fault, Running, LookupInv, Moved, MachineType, TableType, StartLookup, ArenaInv
  <2> QED
    BY <2>1, <2>2, <1>2, <1>i, Kept DEF Fault, Running
<1>3. ASSUME NEW r \in Regs, NEW s \in Roots, LoadRoot(r, s) PROVE SafeInv'
  <2>1. ArenaInv'
    <3>1. \A q \in Regs : reg'[q].addr < bump
      BY <1>3, <1>i, <1>t, <1>c, LoadType DEF LoadRoot, ArenaInv, MachineType
    <3> QED
      BY <3>1, <1>3, <1>i, <1>t, <1>c, LoadArena DEF LoadRoot
  <2>2. CapInv'
    BY <1>3, <1>i, <1>t, <1>c, LoadType, LoadCap, LoadMem
    DEF LoadRoot, Running, CapInv, Fresh, Settled, Live, Moved, MachineType, ShapeInv
  <2>3. ScanInv'
    BY <1>3, <1>i, <1>t, <1>c, LoadScan DEF LoadRoot
  <2> QED
    BY <2>1, <2>2, <2>3, <1>3, <1>i, Kept DEF LoadRoot, Running
<1>4. ASSUME NEW r \in Regs, NEW s \in Roots, StoreRoot(s, r) PROVE SafeInv'
  <2>1. ArenaInv'
    BY <1>4, <1>i, <1>t, <1>c
    DEF StoreRoot, Running, ArenaInv, MachineType, TableType, KernelType, Cap
  <2>2. CapInv'
    BY <1>4, <1>i, <1>t, <1>c
    DEF StoreRoot, Running, CapInv, Fresh, Settled, Live, Moved, MachineType, ShapeInv
  <2>3. ScanInv'
    BY <1>4, <1>i, <1>t, <1>c
    DEF StoreRoot, Running, ScanInv, Unscanned, MachineType, LookupInv, MarkInv
  <2> QED
    BY <2>1, <2>2, <2>3, <1>4, <1>i, Kept DEF StoreRoot, Running
<1>5. ASSUME NEW r \in Regs, NEW b \in Regs, GetField(r, b) PROVE SafeInv'
  <2>a. reg[b].addr \in Addr
    BY <1>5, <1>t, <1>c DEF GetField, Live, MachineType, Cap, ShapeInv
  <2>1. ArenaInv'
    <3>1. \A q \in Regs : reg'[q].addr < bump
      BY <1>5, <1>i, <1>t, <1>c, LoadType, <2>a DEF GetField, ArenaInv, MachineType
    <3> QED
      BY <3>1, <1>5, <1>i, <1>t, <1>c, LoadArena, <2>a DEF GetField
  <2>2. CapInv'
    <3> DEFINE l == reg[b].addr
    <3>1. /\ l \in Loc /\ reg' = [reg EXCEPT ![r] = Load(l)] /\ mem' = MemAfterLoad(l)
          /\ clean' = CleanAfterLoad(l) /\ UNCHANGED <<fwd, shadow, epoch, movedFrom>>
      BY <1>5, <2>a DEF GetField, Loc, tableVars, cycleVars
    <3> HIDE DEF l
    <3>2. /\ Fresh(Load(l)) /\ Settled(Load(l))
          /\ \A m \in Loc : Settled(MemAfterLoad(l)[m])
          /\ \A m \in Loc : \/ Fresh(MemAfterLoad(l)[m])
                            \/ epoch = "open" /\ m \notin CleanAfterLoad(l)
      BY <3>1, <1>i, <1>t, LoadCap
    <3>3. \A q \in Regs : reg'[q] = Load(l) \/ reg'[q] = reg[q]
      BY <3>1, <1>t DEF MachineType
    <3> QED
      BY <3>1, <3>2, <3>3, <1>i DEF CapInv, Fresh, Settled, Live, Moved
  <2>3. ScanInv'
    BY <1>5, <1>i, <1>t, <1>c, LoadScan, <2>a DEF GetField
  <2> QED
    BY <2>1, <2>2, <2>3, <1>5, <1>i, Kept DEF GetField, Running
<1>6. ASSUME NEW r \in Regs, NEW b \in Regs, PutField(b, r) PROVE SafeInv'
  <2>a. reg[b].addr \in Addr
    BY <1>6, <1>t, <1>c DEF PutField, Live, MachineType, Cap, ShapeInv
  <2>1. ArenaInv'
    BY <1>6, <1>i, <1>t, <1>c, <2>a
    DEF PutField, Running, ArenaInv, MachineType, TableType, KernelType, Cap
  <2>2. CapInv'
    BY <1>6, <1>i, <1>t, <1>c, <2>a
    DEF PutField, Running, CapInv, Fresh, Settled, Live, Moved, MachineType, ShapeInv
  <2>3. ScanInv'
    BY <1>6, <1>i, <1>t, <1>c
    DEF PutField, Running, ScanInv, Unscanned, MachineType, LookupInv, MarkInv
  <2> QED
    BY <2>1, <2>2, <2>3, <1>6, <1>i, Kept DEF PutField, Running
<1>7. ASSUME NEW x \in Regs, NEW y \in Regs, AcmpFast(x, y) PROVE SafeInv'
  BY <1>7, <1>i, Kept DEF AcmpFast
<1>8. ASSUME NEW x \in Regs, NEW y \in Regs, AcmpSlow(x, y) PROVE SafeInv'
  <2>1. ScanInv'
    BY <1>8, <1>i, <1>t, <1>c
    DEF AcmpSlow, Running, ScanInv, Unscanned, MachineType, LookupInv, StartLookup
  <2>2. LookupInv'
    BY <1>8, <1>i, <1>t, <1>c
    DEF AcmpSlow, Running, LookupInv, Moved, MachineType, TableType, StartLookup, ArenaInv, NormalizeKey
  <2> QED
    BY <2>1, <2>2, <1>8, <1>i, Kept DEF AcmpSlow, Running
<1>9. ASSUME LookupHop PROVE SafeInv'
  <2>a. /\ lk.from \in Addr /\ lk.at \in Addr /\ fwd[lk.at] \in Addr /\ lk.hops \in Nat
        /\ lk'.use = lk.use /\ lk'.x = lk.x /\ lk'.from = lk.from
        /\ lk'.at = fwd[lk.at] /\ lk'.hops = lk.hops + 1
    BY <1>9, <1>t, <1>c DEF LookupHop, NextHit, TableType, Lookups, ShapeInv
  <2>1. ScanInv'
    BY <1>9, <1>i, <1>t, <1>c
    DEF LookupHop, ScanInv, Unscanned, MachineType, LookupInv
  <2>2. LookupInv'
    <3>1. fwd[lk.at] # 0 /\ fwd' = fwd /\ op' = op /\ bump' = bump
      BY <1>9 DEF LookupHop, NextHit
    <3>2. lk.hops = 0 \/ lk.hops = 1 \/ lk.hops >= 2
      BY <2>a
    <3>3. fwd[lk.at] < bump
      BY <3>1, <2>a, <1>i DEF ForwardInv, Moved
    <3>4. Moved(lk.from) /\ (lk.hops = 0 => lk.at = lk.from) /\ (lk.hops >= 1 => fwd[fwd[lk.from]] # 0)
      BY <3>1, <3>2, <2>a, <1>i, <1>c DEF LookupInv, Moved
    <3> QED
      BY <3>1, <3>2, <3>3, <3>4, <2>a, <1>i, <1>c DEF LookupInv, Moved
  <2> QED
    BY <2>1, <2>2, <1>9, <1>i, Kept DEF LookupHop
<1>10. ASSUME Heal PROVE SafeInv'
  <2>a. Found \in Addr /\ Found < bump /\ fwd[Found] = 0
    BY <1>10, <1>t, <1>c, FoundLast DEF Heal
  <2>1. ArenaInv'
    BY <1>10, <1>i, <1>t, <1>c, <2>a
    DEF Heal, ArenaInv, MachineType, TableType, KernelType, Cap, Derive
  <2>2. CapInv'
    BY <1>10, <1>i, <1>t, <1>c, <2>a
    DEF Heal, CapInv, Fresh, Settled, Live, Moved, MachineType, ShapeInv, Derive
  <2>3. ScanInv'
    BY <1>10, <1>i, <1>t, <1>c
    DEF Heal, ScanInv, Unscanned, MachineType, LookupInv, NoLookup
  <2>4. LookupInv'
    BY <1>10, <1>i, <1>t, <1>c
    DEF Heal, LookupInv, Moved, MachineType, TableType, NoLookup
  <2> QED
    BY <2>1, <2>2, <2>3, <2>4, <1>10, <1>i, Kept DEF Heal
<1>11. ASSUME HealFails PROVE SafeInv'
  <2>1. MarkInv'
    BY <1>11, <1>i, <1>t, <1>c
    DEF HealFails, MarkInv, Moved
  <2>2. EpochInv'
    BY <1>11, <1>i, <1>t, <1>c
    DEF HealFails, EpochInv, InPause
  <2>3. ScanInv'
    BY <1>11, <1>i, <1>t, <1>c
    DEF HealFails, ScanInv, Unscanned, MachineType, LookupInv, NoLookup
  <2>4. LookupInv'
    BY <1>11, <1>i, <1>t, <1>c
    DEF HealFails, LookupInv, Moved, MachineType, TableType, NoLookup
  <2>5. TableInv'
    BY <1>11, <1>i, <1>t, <1>c
    DEF HealFails, TableInv
  <2> QED
    BY <2>1, <2>2, <2>3, <2>4, <2>5, <1>11, <1>i, Kept DEF HealFails
<1>12. ASSUME AcmpSecond PROVE SafeInv'
  <2>1. ScanInv'
    BY <1>12, <1>i, <1>t, <1>c
    DEF AcmpSecond, ScanInv, Unscanned, MachineType, LookupInv, StartLookup
  <2>2. LookupInv'
    BY <1>12, <1>i, <1>t, <1>c
    DEF AcmpSecond, LookupInv, Moved, MachineType, TableType, StartLookup, ArenaInv, NormalizeKey, ShapeInv
  <2> QED
    BY <2>1, <2>2, <1>12, <1>i, Kept DEF AcmpSecond
<1>13. ASSUME AcmpDecide PROVE SafeInv'
  <2>1. ScanInv'
    BY <1>13, <1>i, <1>t, <1>c
    DEF AcmpDecide, ScanInv, Unscanned, MachineType, LookupInv, NoLookup
  <2>2. LookupInv'
    BY <1>13, <1>i, <1>t, <1>c
    DEF AcmpDecide, LookupInv, Moved, MachineType, TableType, NoLookup
  <2> QED
    BY <2>1, <2>2, <1>13, <1>i, Kept DEF AcmpDecide
<1>14. ASSUME SystemGC PROVE SafeInv'
  <2>a. BeginCycle /\ movedFrom' = {} /\ op = "idle" /\ lk.use = "none"
    BY <1>14 DEF SystemGC, BeginCycle, Running
  <2>1. ArenaInv' /\ MarkInv' /\ CapInv' /\ ScanInv' /\ LookupInv'
    <3>1. movedFrom = {}
      BY <2>a, <1>i DEF MarkInv
    <3>2. UNCHANGED <<bump, orig, fwd, shadow, movedFrom, reg, mem, lk, epoch, clean>> /\ op' = "scan"
      BY <2>a, <3>1 DEF BeginCycle
    <3>3. ArenaInv' /\ CapInv'
      BY <3>2, <1>i, Kept
    <3>4. MarkInv' /\ ScanInv' /\ LookupInv'
      BY <2>a, <3>1, <3>2, <1>i DEF MarkInv, ScanInv, LookupInv, Moved
    <3> QED
      BY <3>3, <3>4
  <2>2. EpochInv'
    BY <1>14, <2>a, <1>i DEF SystemGC, BeginCycle, Running, EpochInv, InPause, CycleLimit
  <2>3. TableInv'
    BY <2>a, <1>i, <1>t DEF BeginCycle, TableInv, GrownCaps, CycleLimit, SoundConfig, TableType
  <2> QED
    BY <2>1, <2>2, <2>3, <1>14, <1>i, Kept DEF SystemGC, BeginCycle, Running
<1>15. ASSUME CollectorCycle PROVE SafeInv'
  <2>a. BeginCycle /\ movedFrom' = {} /\ op = "idle" /\ lk.use = "none"
    BY <1>15 DEF CollectorCycle, BeginCycle, Running
  <2>1. ArenaInv' /\ MarkInv' /\ CapInv' /\ ScanInv' /\ LookupInv'
    <3>1. movedFrom = {}
      BY <2>a, <1>i DEF MarkInv
    <3>2. UNCHANGED <<bump, orig, fwd, shadow, movedFrom, reg, mem, lk, epoch, clean>> /\ op' = "scan"
      BY <2>a, <3>1 DEF BeginCycle
    <3>3. ArenaInv' /\ CapInv'
      BY <3>2, <1>i, Kept
    <3>4. MarkInv' /\ ScanInv' /\ LookupInv'
      BY <2>a, <3>1, <3>2, <1>i DEF MarkInv, ScanInv, LookupInv, Moved
    <3> QED
      BY <3>3, <3>4
  <2>2. EpochInv'
    BY <1>15, <2>a, <1>i DEF CollectorCycle, BeginCycle, Running, EpochInv, InPause, CycleLimit
  <2>3. TableInv'
    BY <2>a, <1>i, <1>t DEF BeginCycle, TableInv, GrownCaps, CycleLimit, SoundConfig, TableType
  <2> QED
    BY <2>1, <2>2, <2>3, <1>15, <1>i, Kept DEF CollectorCycle, BeginCycle, Running
<1>16. ASSUME NEW s \in Roots, ScanRoot(s) PROVE SafeInv'
  <2>1. ArenaInv'
    BY <1>16, <1>i, <1>t, <1>c, LoadArena DEF ScanRoot, ArenaInv
  <2>2. CapInv'
    BY <1>16, <1>i, <1>t, <1>c, LoadType, LoadCap, LoadMem
    DEF ScanRoot, CapInv, Fresh, Settled, Live, Moved, MachineType, ShapeInv
  <2>3. ScanInv'
    <3>1. \A m \in Loc : mem'[m].addr = mem[m].addr
      BY <1>16, <1>t, <1>c, LoadMem DEF ScanRoot
    <3>2. ~ (epoch' = "open" /\ s \notin clean' /\ mem'[s].tag)
      BY <1>16, <1>t, <1>c, LoadMem DEF ScanRoot
    <3>3. \A a \in movedFrom' : fwd'[fwd'[a]] = 0 /\ \A q \in todo' : mem'[q].addr # fwd'[a]
      BY <3>1, <1>16, <1>i, <1>t, <1>c DEF ScanRoot, ScanInv, ControlType
    <3>4. \A a \in movedFrom' : mem'[s].addr # fwd'[a]
      BY <3>1, <1>16, <1>i, <1>c DEF ScanRoot, ScanInv
    <3> QED
      BY <3>1, <3>2, <3>3, <3>4, <1>16, <1>c DEF ScanRoot, ScanInv, Unscanned, StartLookup, NoLookup
  <2>4. LookupInv'
    BY <1>16, <1>i, <1>t, <1>c
    DEF ScanRoot, LookupInv, Moved, MachineType, TableType, StartLookup, NoLookup, ArenaInv
  <2> QED
    BY <2>1, <2>2, <2>3, <2>4, <1>16, <1>i, Kept DEF ScanRoot
<1>17. ASSUME ScanFix PROVE SafeInv'
  <2>a. Found \in Addr /\ Found < bump /\ fwd[Found] = 0 /\ lk.x \in Roots
    BY <1>17, <1>t, <1>c, FoundLast DEF ScanFix, ShapeInv
  <2>1. ArenaInv'
    BY <1>17, <1>i, <1>t, <1>c, <2>a
    DEF ScanFix, ArenaInv, MachineType, TableType, KernelType, Cap, Derive
  <2>2. CapInv'
    BY <1>17, <1>i, <1>t, <1>c, <2>a
    DEF ScanFix, CapInv, Fresh, Settled, Live, Moved, MachineType, ShapeInv, Derive
  <2>3. ScanInv'
    BY <1>17, <1>i, <1>t, <1>c, <2>a
    DEF ScanFix, ScanInv, Unscanned, MachineType, LookupInv, NoLookup
  <2>4. LookupInv'
    BY <1>17, <1>i, <1>t, <1>c
    DEF ScanFix, LookupInv, Moved, MachineType, TableType, NoLookup
  <2> QED
    BY <2>1, <2>2, <2>3, <2>4, <1>17, <1>i, Kept DEF ScanFix
<1>18. ASSUME ScanLeave PROVE SafeInv'
  <2>1. ScanInv'
    BY <1>18, <1>i, <1>t, <1>c
    DEF ScanLeave, ScanInv, Unscanned, MachineType, LookupInv, NoLookup
  <2>2. LookupInv'
    BY <1>18, <1>i, <1>t, <1>c
    DEF ScanLeave, LookupInv, Moved, MachineType, TableType, NoLookup
  <2> QED
    BY <2>1, <2>2, <1>18, <1>i, Kept DEF ScanLeave
<1>19. ASSUME ScanFails PROVE SafeInv'
  <2>1. MarkInv'
    BY <1>19, <1>i, <1>t, <1>c
    DEF ScanFails, MarkInv, Moved, ScanInv
  <2>2. EpochInv'
    BY <1>19, <1>i, <1>t, <1>c
    DEF ScanFails, EpochInv, InPause
  <2>3. ScanInv'
    BY <1>19, <1>i, <1>t, <1>c
    DEF ScanFails, ScanInv, Unscanned, MachineType, LookupInv, NoLookup
  <2>4. LookupInv'
    BY <1>19, <1>i, <1>t, <1>c
    DEF ScanFails, LookupInv, Moved, MachineType, TableType, NoLookup
  <2>5. TableInv'
    BY <1>19, <1>i, <1>t, <1>c
    DEF ScanFails, TableInv
  <2> QED
    BY <2>1, <2>2, <2>3, <2>4, <2>5, <1>19, <1>i, Kept DEF ScanFails
<1>20. ASSUME ScanMove PROVE SafeInv'
  <2> DEFINE from == mem[lk.x].addr
             to == bump
  <2>a. /\ lk.x \in Roots /\ lk.x \in Loc /\ to \in Addr /\ to \in Loc
        /\ op = "scan" /\ Live(mem[lk.x])
    BY <1>20, <1>t, <1>c, MoveFacts
  <2>b. from \in Addr /\ from < bump /\ from # to /\ lk.x # to /\ from \in Loc
    BY <1>20, <1>t, <1>c, <2>a, MoveFacts
  <2>c. room \in Nat /\ room # 0 /\ epoch = "closed" /\ ~ pending
    BY <1>20, <1>t, MoveFacts
  <2>e. fwd[from] = 0
    BY <1>20, <1>t, MoveFacts
  <2>g. /\ bump' = bump + 1
        /\ orig' = [orig EXCEPT ![to] = orig[from]]
        /\ fwd' = [fwd EXCEPT ![from] = to]
        /\ ftSize' = ftSize + 1 /\ room' = room - 1
        /\ movedFrom' = movedFrom \cup {from}
        /\ lk' = NoLookup
        /\ UNCHANGED <<reg, out, ftCap, shadow, epoch, clean, op, todo, pending, col>>
    BY <1>20, <1>t, MoveFacts
  <2>h. PICK fixed \in {mem[lk.x], Derive(to)} :
          mem' = [mem EXCEPT ![to] = mem[from], ![lk.x] = fixed]
    BY <1>20, <1>t, MoveFacts
  <2>k. /\ \A l \in Loc : mem'[l] \in {mem[l], mem[from], mem[lk.x], Derive(to)}
        /\ \A l \in Loc : l # to /\ l # lk.x => mem'[l] = mem[l]
    BY <2>a, <2>h, <1>t DEF MachineType
  <2>m. \A a \in Addr : Moved(a)' <=> Moved(a) \/ a = from
    BY <2>b, <2>g, <1>t, <1>c DEF Moved, TableType, MachineType
  <2>1. ArenaInv'
    <3>1. \A l \in Loc : mem'[l].addr < bump'
      <4>1. \A l \in Loc : mem[l].addr \in Int /\ mem[l].addr < bump
        BY <1>t, <1>c, <1>i DEF ArenaInv, MachineType, Cap
      <4>2. Derive(to).addr = to /\ to \in Int
        BY <2>a, <1>c DEF Derive
      <4> QED
        BY <4>1, <4>2, <2>a, <2>b, <2>g, <2>k
    <3>2. \A r \in Regs : reg'[r].addr < bump'
      BY <2>g, <1>t, <1>c, <1>i DEF ArenaInv, MachineType, Cap
    <3>3. \A a \in Addr : (orig'[a] # 0 <=> a < bump') /\ orig'[a] < bump'
      BY <2>a, <2>b, <2>g, <1>t, <1>c, <1>i DEF ArenaInv, MachineType
    <3>4. \A a \in Addr : a >= bump' => fwd'[a] = 0 /\ a \notin shadow' \cup movedFrom'
      BY <2>a, <2>b, <2>g, <1>t, <1>c, <1>i DEF ArenaInv, MachineType, TableType
    <3> QED
      BY <3>1, <3>2, <3>3, <3>4 DEF ArenaInv
  <2>2. ForwardInv'
    <3>1. \A a \in Addr : Moved(a)' => fwd'[a] > a /\ fwd'[a] < bump' /\ orig'[fwd'[a]] = orig'[a]
      <4> SUFFICES ASSUME NEW a \in Addr, Moved(a)'
                   PROVE  fwd'[a] > a /\ fwd'[a] < bump' /\ orig'[fwd'[a]] = orig'[a]
        OBVIOUS
      <4>1. CASE a = from
        BY <4>1, <2>a, <2>b, <2>g, <1>t, <1>c DEF MachineType, TableType
      <4>2. CASE a # from
        <5>1. Moved(a) /\ fwd'[a] = fwd[a]
          BY <4>2, <2>m, <2>g, <1>t DEF TableType
        <5>2. fwd[a] > a /\ fwd[a] < bump /\ orig[fwd[a]] = orig[a]
          BY <5>1, <1>i DEF ForwardInv
        <5>3. fwd[a] \in Addr /\ a # to
          BY <5>1, <5>2, <1>t, <1>c DEF TableType, Moved, MachineType
        <5> QED
          BY <5>1, <5>2, <5>3, <2>a, <2>g, <1>t, <1>c DEF MachineType
      <4> QED
        BY <4>1, <4>2
    <3>2. \A a \in Addr : a < bump' /\ Superseded(a)' => Moved(a)'
      <4> SUFFICES ASSUME NEW a \in Addr, a < bump', NEW b \in Addr, b > a, orig'[b] = orig'[a]
                   PROVE  Moved(a)'
        BY DEF Superseded
      <4>1. a < bump /\ orig'[a] = orig[a] /\ orig[a] # 0
        <5>1. CASE a = to
          <6>1. orig'[b] = orig[b] /\ orig[b] = 0
            BY <5>1, <2>a, <2>g, <1>t, <1>c, <1>i DEF MachineType, ArenaInv
          <6>2. orig'[a] = orig[from] /\ orig[from] # 0
            BY <5>1, <2>b, <2>g, <1>t, <1>i DEF MachineType, ArenaInv
          <6> QED
            BY <6>1, <6>2
        <5>2. CASE a # to
          BY <5>2, <2>a, <2>g, <1>t, <1>c, <1>i DEF MachineType, ArenaInv
        <5> QED
          BY <5>1, <5>2
      <4>2. CASE b = to
        <5>1. orig[a] = orig[from]
          BY <4>1, <4>2, <2>g, <2>a, <1>t DEF MachineType
        <5>2. ~ (a > from)
          BY <5>1, <2>b, <2>e, <1>i DEF ForwardInv, Superseded, Moved
        <5>3. a < from => Moved(a)
          BY <4>1, <5>1, <2>b, <1>i DEF ForwardInv, Superseded
        <5> QED
          BY <5>2, <5>3, <2>b, <2>m, <1>c
      <4>3. CASE b # to
        BY <4>1, <4>3, <2>g, <2>m, <1>t, <1>i DEF MachineType, ForwardInv, Superseded
      <4> QED
        BY <4>2, <4>3
    <3> QED
      BY <3>1, <3>2 DEF ForwardInv
  <2>3. MarkInv'
    BY <2>a, <2>b, <2>g, <2>m, <1>i DEF MarkInv
  <2>4. CapInv'
    <3>1. fwd[to] = 0
      BY <2>a, <1>i, <1>c, <1>t DEF ArenaInv, MachineType
    <3>2. \A l \in Loc : Live(mem[l]) => mem[l].addr \in Addr
      BY <1>t, <1>c DEF Live, MachineType, Cap, ShapeInv
    <3>3. \A r \in Regs : Live(reg[r]) => reg[r].addr \in Addr
      BY <1>t, <1>c DEF Live, MachineType, Cap, ShapeInv
    <3>4. \A r \in Regs : Fresh(reg[r])' /\ Settled(reg[r])'
      BY <2>g, <2>m, <3>3, <1>i DEF CapInv, Fresh, Settled, Live
    <3>5. \A l \in Loc : Settled(mem[l])'
      BY <2>a, <2>b, <2>g, <2>k, <1>i DEF CapInv, Settled, Live, Derive
    <3>6. \A c \in {mem[l] : l \in Loc} \cup {Derive(to)} :
             Live(c) => ~ Moved(c.addr)' \/ c.addr \in movedFrom'
      BY <2>a, <2>b, <2>c, <2>g, <2>m, <3>1, <3>2, <1>i DEF CapInv, Fresh, Derive, Moved
    <3>7. \A l \in Loc : Fresh(mem[l])'
      BY <2>a, <2>b, <2>k, <3>6 DEF Fresh, Live
    <3> QED
      BY <3>4, <3>5, <3>7 DEF CapInv
  <2>5. EpochInv'
    BY <2>a, <2>c, <2>g, <1>i DEF EpochInv, InPause
  <2>6. ScanInv'
    <3>1. \A a \in movedFrom : a \in Addr /\ Moved(a) /\ a # from /\ fwd[a] # from /\ fwd[fwd[a]] = 0
                               /\ fwd[a] \in Addr /\ fwd[a] < bump
      <4>1. lk.use = "scan"
        BY <1>20 DEF ScanMove
      <4>2. \A a \in movedFrom : a \in Addr /\ Moved(a) /\ a # from
        BY <2>e, <1>i, <1>t DEF MarkInv, Moved, ControlType
      <4>3. \A a \in movedFrom : fwd[a] # from /\ fwd[fwd[a]] = 0
        BY <4>1, <1>i DEF ScanInv
      <4>4. \A a \in movedFrom : fwd[a] \in Addr /\ fwd[a] < bump
        BY <4>2, <1>i, <1>t, <1>c DEF ForwardInv, Moved, TableType
      <4> QED
        BY <4>2, <4>3, <4>4
    <3>2. \A a \in movedFrom' : fwd'[fwd'[a]] = 0
      <4>1. fwd'[from] = to /\ fwd'[to] = 0
        BY <2>a, <2>b, <2>g, <1>i, <1>t, <1>c DEF ArenaInv, TableType, MachineType
      <4>2. \A a \in movedFrom : fwd'[a] = fwd[a] /\ fwd'[fwd[a]] = 0
        BY <3>1, <2>g, <1>t DEF TableType
      <4> QED
        BY <4>1, <4>2, <2>g
    <3>3. \A a \in movedFrom' : \A s \in todo' : mem'[s].addr # fwd'[a]
      <4> SUFFICES ASSUME NEW a \in movedFrom', NEW s \in todo PROVE mem'[s].addr # fwd'[a]
        BY <2>g
      <4>1. s \in Loc /\ s # to /\ s # lk.x
        BY <1>t, <1>c, <1>i, <1>20, <2>a DEF ControlType, ScanInv, ScanMove
      <4>2. mem'[s] = mem[s] /\ mem[s].addr \in Int /\ mem[s].addr < bump
        BY <4>1, <2>k, <1>i, <1>t, <1>c DEF ArenaInv, MachineType, Cap
      <4>3. CASE a = from
        BY <4>2, <4>3, <2>b, <2>g, <1>t, <1>c DEF TableType, MachineType
      <4>4. CASE a # from
        <5>1. a \in movedFrom /\ fwd'[a] = fwd[a]
          BY <4>4, <2>g, <3>1, <1>t DEF TableType
        <5> QED
          BY <5>1, <4>2, <1>i DEF ScanInv
      <4> QED
        BY <4>3, <4>4
    <3> QED
      BY <3>2, <3>3, <2>g DEF ScanInv, NoLookup
  <2>7. LookupInv'
    BY <2>g DEF LookupInv, NoLookup
  <2>8. TableInv'
    BY <2>c, <2>g, <1>i, <1>t, <2>a DEF TableInv, TableType
  <2> QED
    BY <2>1, <2>2, <2>3, <2>4, <2>5, <2>6, <2>7, <2>8
<1>21. ASSUME MarkConcurrent PROVE SafeInv'
  <2>a. (EndCycle /\ movedFrom = {}) \/ (Proceed("open") /\ movedFrom # {})
    BY <1>21 DEF MarkConcurrent
  <2>1. ArenaInv'
    BY <1>21, <1>i, <1>t, <1>c, <2>a
    DEF MarkConcurrent, EndCycle, Proceed, ArenaInv, MachineType, TableType, KernelType, Cap
  <2>2. MarkInv'
    BY <1>21, <1>i, <1>t, <1>c, <2>a
    DEF MarkConcurrent, EndCycle, Proceed, MarkInv, Moved
  <2>3. CapInv'
    BY <1>21, <1>i, <1>t, <1>c, <2>a
    DEF MarkConcurrent, EndCycle, Proceed, CapInv, Fresh, Settled, Live, Moved, MachineType, ShapeInv
  <2>4. EpochInv'
    BY <1>21, <1>i, <1>t, <1>c, <2>a
    DEF MarkConcurrent, EndCycle, Proceed, EpochInv, InPause
  <2>5. ScanInv'
    BY <1>21, <1>i, <1>t, <1>c, <2>a
    DEF MarkConcurrent, EndCycle, Proceed, ScanInv, Unscanned, MachineType, LookupInv
  <2>6. LookupInv'
    BY <1>21, <1>i, <1>t, <1>c, <2>a
    DEF MarkConcurrent, EndCycle, Proceed, LookupInv, Moved, MachineType, TableType
  <2>7. TableInv'
    BY <1>21, <1>i, <1>t, <1>c, <2>a
    DEF MarkConcurrent, EndCycle, Proceed, TableInv
  <2> QED
    BY <2>1, <2>2, <2>3, <2>4, <2>5, <2>6, <2>7, <1>21, <1>i, Kept DEF MarkConcurrent, EndCycle, Proceed
<1>22. ASSUME MarkSync PROVE SafeInv'
  <2>a. (EndCycle /\ movedFrom = {}) \/ Proceed("sweep")
    <3>1. cycle' = 0
      BY <1>22, <1>t DEF MarkSync, SoundConfig, ControlType
    <3>2. CASE movedFrom = {}
      BY <3>2, <1>22 DEF MarkSync
    <3>3. CASE movedFrom # {}
      BY <3>1, <3>3, <1>22 DEF MarkSync
    <3> QED
      BY <3>2, <3>3
  <2>1. ArenaInv'
    BY <1>22, <1>i, <1>t, <1>c, <2>a
    DEF MarkSync, EndCycle, Proceed, ArenaInv, MachineType, TableType, KernelType, Cap
  <2>2. MarkInv'
    BY <1>22, <1>i, <1>t, <1>c, <2>a
    DEF MarkSync, EndCycle, Proceed, MarkInv, Moved
  <2>3. CapInv'
    BY <1>22, <1>i, <1>t, <1>c, <2>a
    DEF MarkSync, EndCycle, Proceed, CapInv, Fresh, Settled, Live, Moved, MachineType, ShapeInv
  <2>4. EpochInv'
    BY <1>22, <1>i, <1>t, <1>c, <2>a
    DEF MarkSync, EndCycle, Proceed, EpochInv, InPause
  <2>5. ScanInv'
    BY <1>22, <1>i, <1>t, <1>c, <2>a
    DEF MarkSync, EndCycle, Proceed, ScanInv, Unscanned, MachineType, LookupInv
  <2>6. LookupInv'
    BY <1>22, <1>i, <1>t, <1>c, <2>a
    DEF MarkSync, EndCycle, Proceed, LookupInv, Moved, MachineType, TableType
  <2>7. TableInv'
    BY <1>22, <1>i, <1>t, <1>c, <2>a
    DEF MarkSync, EndCycle, Proceed, TableInv
  <2> QED
    BY <2>1, <2>2, <2>3, <2>4, <2>5, <2>6, <2>7, <1>22, <1>i, Kept DEF MarkSync, EndCycle, Proceed
<1>23. ASSUME OpenEpoch PROVE SafeInv'
  <2>a. ~ pending /\ epoch = "closed"
    BY <1>23, <1>i, <1>t DEF OpenEpoch, EpochInv, MarkInv, InPause, KernelType
  <2>1. ArenaInv'
    BY <1>23, <1>i, <1>t, <1>c, RevokeType
    DEF OpenEpoch, EndCycle, ArenaInv, MachineType, TableType, KernelType, Cap
  <2>2. MarkInv'
    BY <1>23, <1>i, <1>t, <1>c
    DEF OpenEpoch, EndCycle, MarkInv, Moved
  <2>3. CapInv'
    BY <1>23, <1>i, <1>t, <1>c, <2>a, RevokeType, RevokeCap
    DEF OpenEpoch, EndCycle, CapInv, Fresh, Settled, Live, Moved, MachineType, ShapeInv, MarkInv
  <2>4. EpochInv'
    BY <1>23, <1>i, <1>t, <1>c, <2>a
    DEF OpenEpoch, EndCycle, EpochInv, InPause
  <2>5. ScanInv'
    BY <1>23, <1>i, <1>t, <1>c, LookupInv
    DEF OpenEpoch, EndCycle, ScanInv, Unscanned, MachineType, LookupInv
  <2>6. LookupInv'
    BY <1>23, <1>i, <1>t, <1>c
    DEF OpenEpoch, EndCycle, LookupInv, Moved, MachineType, TableType
  <2>7. TableInv'
    BY <1>23, <1>i, <1>t, <1>c
    DEF OpenEpoch, EndCycle, TableInv
  <2> QED
    BY <2>1, <2>2, <2>3, <2>4, <2>5, <2>6, <2>7, <1>23, <1>i, Kept DEF OpenEpoch, EndCycle
<1>24. ASSUME OpenFails PROVE SafeInv'
  <2>1. MarkInv'
    BY <1>24, <1>i, <1>t, <1>c
    DEF OpenFails, Proceed, MarkInv, Moved
  <2>2. EpochInv'
    BY <1>24, <1>i, <1>t, <1>c
    DEF OpenFails, Proceed, EpochInv, InPause
  <2>3. ScanInv'
    BY <1>24, <1>i, <1>t, <1>c
    DEF OpenFails, Proceed, ScanInv, Unscanned, MachineType, LookupInv
  <2>4. LookupInv'
    BY <1>24, <1>i, <1>t, <1>c
    DEF OpenFails, Proceed, LookupInv, Moved, MachineType, TableType
  <2>5. TableInv'
    BY <1>24, <1>i, <1>t, <1>c
    DEF OpenFails, Proceed, TableInv
  <2> QED
    BY <2>1, <2>2, <2>3, <2>4, <2>5, <1>24, <1>i, Kept DEF OpenFails, Proceed
<1>25. ASSUME Sweep PROVE SafeInv'
  <2>a. ~ pending /\ epoch = "closed"
    BY <1>25, <1>i, <1>t DEF Sweep, EpochInv, MarkInv, InPause, KernelType
  <2>1. ArenaInv'
    BY <1>25, <1>i, <1>t, <1>c, <2>a, RevokeType
    DEF Sweep, EndCycle, ArenaInv, MachineType, TableType, KernelType, Cap
  <2>2. MarkInv'
    BY <1>25, <1>i, <1>t, <1>c
    DEF Sweep, EndCycle, MarkInv, Moved
  <2>3. CapInv'
    <3>1. movedFrom \subseteq shadow /\ movedFrom' = {} /\ shadow' = shadow /\ fwd' = fwd
      BY <1>25, <1>i DEF Sweep, EndCycle, MarkInv
    <3>2. /\ \A r \in Regs : reg'[r] = Revoke(reg[r], shadow) /\ reg[r] \in Cap
          /\ \A l \in Loc : mem'[l] = Revoke(mem[l], shadow) /\ mem[l] \in Cap
      BY <1>25, <2>a, <1>t DEF Sweep, MachineType
    <3>3. ASSUME NEW c \in Cap, Settled(c), c.tag => c.addr # 0
          PROVE  LET d == Revoke(c, shadow)
                 IN  /\ Live(d) => ~ Moved(d.addr)
                     /\ Settled(d)
      <4>1. Live(Revoke(c, shadow)) => c.addr \in Addr /\ c.addr \notin shadow
        BY <3>3, RevokeCap, <1>c DEF Live, Cap
      <4>2. Live(Revoke(c, shadow)) => ~ Moved(c.addr)
        BY <4>1, <3>1, <1>i DEF MarkInv
      <4>3. Settled(Revoke(c, shadow))
        BY <3>3, RevokeCap, RevokeType DEF Settled
      <4> QED
        BY <4>2, <4>3, RevokeType
    <3>4. \A r \in Regs : Settled(reg[r]) /\ (reg[r].tag => reg[r].addr # 0)
      BY <1>i, <1>t DEF CapInv, ShapeInv
    <3>5. \A l \in Loc : Settled(mem[l]) /\ (mem[l].tag => mem[l].addr # 0)
      BY <1>i, <1>t DEF CapInv, ShapeInv
    <3>6. \A r \in Regs : Fresh(reg[r])' /\ Settled(reg[r])'
      BY <3>1, <3>2, <3>3, <3>4 DEF Fresh, Settled, Live, Moved
    <3>7. \A l \in Loc : Fresh(mem[l])' /\ Settled(mem[l])'
      BY <3>1, <3>2, <3>3, <3>5 DEF Fresh, Settled, Live, Moved
    <3> QED
      BY <3>6, <3>7 DEF CapInv
  <2>4. EpochInv'
    BY <1>25, <1>i, <1>t, <1>c, <2>a
    DEF Sweep, EndCycle, EpochInv, InPause
  <2>5. ScanInv'
    BY <1>25, <1>i, <1>t, <1>c
    DEF Sweep, EndCycle, ScanInv, Unscanned, MachineType, LookupInv
  <2>6. LookupInv'
    BY <1>25, <1>i, <1>t, <1>c
    DEF Sweep, EndCycle, LookupInv, Moved, MachineType, TableType
  <2>7. TableInv'
    BY <1>25, <1>i, <1>t, <1>c
    DEF Sweep, EndCycle, TableInv
  <2> QED
    BY <2>1, <2>2, <2>3, <2>4, <2>5, <2>6, <2>7, <1>25, <1>i, Kept DEF Sweep, EndCycle
<1>26. ASSUME SweepFails PROVE SafeInv'
  <2>a. op = "fallback" /\ Proceed("fatal")
    BY <1>26, <1>i DEF SweepFails, SoundConfig, EpochInv
  <2>1. MarkInv'
    BY <1>26, <1>i, <1>t, <1>c, <2>a
    DEF SweepFails, Proceed, EndCycle, MarkInv, Moved
  <2>2. EpochInv'
    BY <1>26, <1>i, <1>t, <1>c, <2>a
    DEF SweepFails, Proceed, EndCycle, EpochInv, InPause
  <2>3. ScanInv'
    BY <1>26, <1>i, <1>t, <1>c, <2>a
    DEF SweepFails, Proceed, EndCycle, ScanInv, Unscanned, MachineType, LookupInv
  <2>4. LookupInv'
    BY <1>26, <1>i, <1>t, <1>c, <2>a
    DEF SweepFails, Proceed, EndCycle, LookupInv, Moved, MachineType, TableType
  <2>5. TableInv'
    BY <1>26, <1>i, <1>t, <1>c, <2>a
    DEF SweepFails, Proceed, EndCycle, TableInv
  <2> QED
    BY <2>1, <2>2, <2>3, <2>4, <2>5, <2>a, <1>26, <1>i, Kept DEF SweepFails, Proceed
<1>27. ASSUME CollectorCheck PROVE SafeInv'
  <2>1. EpochInv'
    BY <1>27, <1>i, <1>t, <1>c
    DEF CollectorCheck, EpochInv, InPause
  <2> QED
    BY <2>1, <1>27, <1>i, Kept DEF CollectorCheck
<1>28. ASSUME NEW l \in Loc, CloseScan(l) PROVE SafeInv'
  <2>1. ArenaInv'
    BY <1>28, <1>i, <1>t, LoadArena DEF CloseScan, ArenaInv
  <2>2. CapInv'
    BY <1>28, <1>i, <1>t, <1>c, LoadType, LoadCap, LoadMem
    DEF CloseScan, CapInv, Fresh, Settled, Live, Moved, MachineType, ShapeInv
  <2>3. ScanInv'
    BY <1>28, <1>i, <1>t, LoadScan DEF CloseScan
  <2> QED
    BY <2>1, <2>2, <2>3, <1>28, <1>i, Kept DEF CloseScan
<1>29. ASSUME CloseDone PROVE SafeInv'
  <2>1. CapInv'
    BY <1>29, <1>i, <1>t, <1>c
    DEF CloseDone, CapInv, Fresh, Settled, Live, Moved, MachineType, ShapeInv, Unscanned
  <2>2. EpochInv'
    BY <1>29, <1>i, <1>t, <1>c
    DEF CloseDone, EpochInv, InPause
  <2>3. ScanInv'
    BY <1>29, <1>i, <1>t, <1>c
    DEF CloseDone, ScanInv, Unscanned, MachineType, LookupInv
  <2> QED
    BY <2>1, <2>2, <2>3, <1>29, <1>i, Kept DEF CloseDone
<1>30. ASSUME CloseFails PROVE SafeInv'
  <2>1. EpochInv'
    BY <1>30, <1>i, <1>t, <1>c
    DEF CloseFails, EpochInv, InPause
  <2> QED
    BY <2>1, <1>30, <1>i, Kept DEF CloseFails
<1>31. ASSUME ClearPending PROVE SafeInv'
  <2>1. EpochInv'
    BY <1>31, <1>i, <1>t, <1>c
    DEF ClearPending, EpochInv, InPause
  <2> QED
    BY <2>1, <1>31, <1>i, Kept DEF ClearPending
<1>32. ASSUME NEW r \in Regs, HealOther(r) PROVE SafeInv'
  <2>1. ScanInv'
    BY <1>32, <1>i, <1>t, <1>c DEF HealOther, ScanInv, StartLookup
  <2>2. LookupInv'
    BY <1>32, <1>i, <1>t, <1>c
    DEF HealOther, LookupInv, Moved, MachineType, TableType, StartLookup, ArenaInv
  <2> QED
    BY <2>1, <2>2, <1>32, <1>i, Kept DEF HealOther
<1>33. ASSUME UNCHANGED vars PROVE SafeInv'
  BY <1>33, <1>i, Kept DEF vars
<1> QED
  BY <1>1, <1>2, <1>3, <1>4, <1>5, <1>6, <1>7, <1>8, <1>9, <1>10, <1>11, <1>12, <1>13, <1>14, <1>15, <1>16, <1>17, <1>18, <1>19, <1>20, <1>21, <1>22, <1>23, <1>24, <1>25, <1>26, <1>27, <1>28, <1>29, <1>30, <1>31, <1>32, <1>33
  DEF Next, Mutator, Runtime, VMThread, Closer, Dead

-----------------------------------------------------------------------------
(* Theorems.                                                               *)

\* The inductive invariant holds in every sound configuration.
THEOREM Invariance ==
  ASSUME SoundConfig
  PROVE  Spec => []IInv
<1>1. Init => TypeInv /\ SafeInv
  BY TypeInit, SafeInit
<1>2. TypeInv /\ SafeInv /\ [Next]_vars => (TypeInv /\ SafeInv)'
  BY TypeStep, SafeStep
<1>3. TypeInv /\ SafeInv => IInv
  BY SafeParts
<1> QED
  BY <1>1, <1>2, <1>3, PTL DEF Spec

\* Where a capability in reach points, at any time.
LEMMA ReachableCap ==
  ASSUME IInv, NEW c \in Reachable
  PROVE  /\ Fresh(c) /\ Settled(c)
         /\ c \in Cap /\ c.addr < bump
         /\ c.tag => c.addr \in Addr
<1>t. TypeInv /\ MachineType /\ KernelType /\ ShapeInv /\ ArenaInv /\ MarkInv /\ CapInv
  BY DEF IInv, TypeInv, TypeOK
<1>1. ASSUME NEW r \in Regs, c = reg[r]
      PROVE  Fresh(c) /\ Settled(c) /\ c \in Cap /\ c.addr < bump /\ (c.tag => c.addr # 0)
  BY <1>1, <1>t DEF CapInv, ArenaInv, ShapeInv, MachineType
<1>2. ASSUME NEW l \in Loc, c = Load(l)
      PROVE  Fresh(c) /\ Settled(c) /\ c \in Cap /\ c.addr < bump /\ (c.tag => c.addr # 0)
  BY <1>2, <1>t, LoadCap, LoadType, LoadTag DEF ArenaInv
<1>3. Fresh(c) /\ Settled(c) /\ c \in Cap /\ c.addr < bump /\ (c.tag => c.addr # 0)
  BY <1>1, <1>2 DEF Reachable
<1> QED
  BY <1>3, ConstantsAssumption DEF Cap, Addr, Addr0

\* No running mutator ever dereferences an old copy, from a register or from
\* any load, scanned page or not.
THEOREM StaleAccess ==
  ASSUME SoundConfig
  PROVE  Spec => []NoStaleAccess
<1>1. IInv => NoStaleAccess
  <2> SUFFICES ASSUME IInv, op = "idle", NEW c \in Reachable, Live(c)
               PROVE  ~ Superseded(c.addr)
    BY DEF NoStaleAccess
  <2>1. Fresh(c) /\ c.addr \in Addr /\ c.addr < bump
    BY ReachableCap DEF Live
  <2>2. ~ Moved(c.addr)
    BY <2>1 DEF Fresh, IInv, MarkInv
  <2> QED
    BY <2>1, <2>2 DEF IInv, ForwardInv
<1> QED
  BY <1>1, Invariance, PTL

\* Once the owed close is done, no page holds a live capability to an old
\* copy: the flag is not cleared early.
THEOREM Quarantine ==
  ASSUME SoundConfig
  PROVE  Spec => []QuarantineClear
<1>1. IInv => QuarantineClear
  <2> SUFFICES ASSUME IInv, op = "idle", ~ pending
               PROVE  epoch = "closed" /\ \A l \in Loc : Live(mem[l]) => ~ Superseded(mem[l].addr)
    BY DEF QuarantineClear
  <2>t. MachineType /\ KernelType /\ ShapeInv
    BY DEF IInv, TypeOK
  <2>1. epoch = "closed" /\ movedFrom = {}
    BY <2>t DEF IInv, EpochInv, MarkInv, KernelType
  <2>2. \A l \in Loc : Live(mem[l]) => ~ Moved(mem[l].addr)
    BY <2>1 DEF IInv, CapInv, Fresh
  <2>3. \A l \in Loc : Live(mem[l]) => mem[l].addr \in Addr
    BY <2>t, ConstantsAssumption DEF ShapeInv, Live, MachineType, Cap, Addr, Addr0
  <2> QED
    BY <2>1, <2>2, <2>3 DEF IInv, ForwardInv, ArenaInv
<1> QED
  BY <1>1, Invariance, PTL

\* Every revoked capability a mutator can get is in the forwarding table, so
\* the handler finds what it needs to heal it.
THEOREM Healable ==
  ASSUME SoundConfig
  PROVE  Spec => []RevokedIsForwarded
<1>1. IInv => RevokedIsForwarded
  <2> SUFFICES ASSUME IInv, NEW c \in Reachable, ~ Live(c), c.addr # 0
               PROVE  Moved(c.addr)
    BY DEF RevokedIsForwarded
  <2>1. c.addr \in shadow /\ c \in Cap
    BY ReachableCap DEF Settled
  <2>2. c.addr \in Addr
    BY <2>1 DEF IInv, TypeOK, KernelType
  <2> QED
    BY <2>1, <2>2 DEF IInv, MarkInv
<1> QED
  BY <1>1, Invariance, PTL

LEMMA TagsIdentity ==
  ASSUME ClearTags, IInv
  PROVE  TaggedMeansIdentity
<1> SUFFICES ASSUME op = "idle", NEW x \in Regs, NEW y \in Regs,
                    reg[x].tag, reg[y].tag, reg[x].addr # reg[y].addr
             PROVE  orig[reg[x].addr] # orig[reg[y].addr]
  BY DEF TaggedMeansIdentity
<1>1. reg[x] \in Reachable /\ reg[y] \in Reachable
  BY DEF Reachable
<1>2. /\ reg[x].addr \in Addr /\ reg[x].addr < bump /\ ~ Moved(reg[x].addr)
      /\ reg[y].addr \in Addr /\ reg[y].addr < bump /\ ~ Moved(reg[y].addr)
  BY <1>1, ReachableCap DEF IInv, MarkInv, Fresh, Settled, Live
<1>3. ~ Superseded(reg[x].addr) /\ ~ Superseded(reg[y].addr)
  BY <1>2 DEF IInv, ForwardInv
<1>4. reg[x].addr \in Int /\ reg[y].addr \in Int
  BY <1>2, ConstantsAssumption DEF Addr
<1> QED
  BY <1>2, <1>3, <1>4 DEF Superseded

\* On a kernel that clears tags, two tags at two addresses are two objects:
\* the comparison fast path is right.
THEOREM FastPathIdentity ==
  ASSUME SoundConfig, ClearTags
  PROVE  Spec => []TaggedMeansIdentity
<1>1. IInv => TaggedMeansIdentity
  BY TagsIdentity
<1> QED
  BY <1>1, Invariance, PTL

\* Only a relocation writes the forwarding table.
LEMMA OnlyMovesForward ==
  ASSUME [Next]_vars
  PROVE  ScanMove \/ UNCHANGED fwd
BY DEF Next, vars, Mutator, Runtime, SystemGC, BeginCycle, VMThread, Closer, Dead, New, Fault,
       LoadRoot, StoreRoot, GetField, PutField, AcmpFast, AcmpSlow, LookupHop, Heal, HealOther, HealFails,
       AcmpSecond, AcmpDecide, ScanRoot, ScanFix, ScanLeave, ScanFails, MarkConcurrent, MarkSync,
       OpenEpoch, OpenFails, Sweep, SweepFails, CollectorCycle, CollectorCheck, CloseScan,
       CloseDone, CloseFails, ClearPending,
       machineVars, tableVars, kernelVars, cycleVars, collectorVars

\* A forwarding entry is never changed, and leads upwards to a copy of the
\* same object.
THEOREM ForwardPermanence ==
  ASSUME SoundConfig
  PROVE  Spec => ForwardingIsPermanent
<1>1. IInv /\ [Next]_vars =>
        [\A a \in Addr : Moved(a) =>
           /\ fwd'[a] = fwd[a]
           /\ fwd[a] > a
           /\ orig[fwd[a]] = orig[a]]_vars
  <2> SUFFICES ASSUME IInv, [Next]_vars, NEW a \in Addr, Moved(a)
               PROVE  fwd'[a] = fwd[a] /\ fwd[a] > a /\ orig[fwd[a]] = orig[a]
    OBVIOUS
  <2>1. fwd[a] > a /\ orig[fwd[a]] = orig[a]
    BY DEF IInv, ForwardInv
  <2>2. CASE ScanMove
    <3>1. fwd' = [fwd EXCEPT ![mem[lk.x].addr] = bump] /\ fwd[mem[lk.x].addr] = 0
      BY <2>2, SafeParts, MoveFacts
    <3> QED
      BY <3>1, <2>1 DEF Moved, IInv, TypeOK, TableType
  <2> QED
    BY <2>1, <2>2, OnlyMovesForward
<1> QED
  BY <1>1, Invariance, PTL DEF Spec, ForwardingIsPermanent

\* Nothing is relocated while an epoch is open or its close is owed.
THEOREM MovesAreMarked ==
  ASSUME SoundConfig
  PROVE  Spec => NoMoveUnderOpenEpoch
<1>1. IInv /\ [Next]_vars =>
        [fwd' # fwd => epoch = "closed" /\ ~ pending /\ col \notin {"closing", "closed"}]_vars
  <2> SUFFICES ASSUME IInv, [Next]_vars, fwd' # fwd
               PROVE  epoch = "closed" /\ ~ pending /\ col \notin {"closing", "closed"}
    OBVIOUS
  <2>1. ScanMove
    BY OnlyMovesForward
  <2>2. epoch = "closed" /\ ~ pending
    BY <2>1, SafeParts, MoveFacts
  <2> QED
    BY <2>2 DEF IInv, EpochInv
<1> QED
  BY <1>1, Invariance, PTL DEF Spec, NoMoveUnderOpenEpoch

-----------------------------------------------------------------------------
(* The collector implements JavaHeap, as long as no chase gives up.  The   *)
(* refinement needs more than IInv: every object has a last copy, and the  *)
(* lookup in flight stays with the object it was started for.              *)

ObjectInv ==
  /\ \A a \in Addr : a < bump => orig[a] \in Addr /\ orig[orig[a]] = orig[a]
  /\ \A a \in Addr : a < bump => \E b \in Addr : orig[b] = orig[a] /\ fwd[b] = 0
  /\ \A a \in Addr : a >= bump => mem[a].addr = 0

\* n is the address of the last copy of the object c refers to, 0 for null.
LastCopy(n, c) ==
  IF c.addr = 0 THEN n = 0
  ELSE n \in Addr /\ n < bump /\ orig[n] = orig[c.addr] /\ fwd[n] = 0

KeyInv ==
  /\ lk.from # 0 => lk.from < bump /\ orig[lk.at] = orig[lk.from]
  /\ lk.use = "heal" => lk.from = reg[lk.x].addr
  /\ lk.use = "acmp1" => lk.from = NormalizeKey(reg[lk.x])
  /\ lk.use = "acmp2" => lk.from = NormalizeKey(reg[lk.y]) /\ LastCopy(lk.n, reg[lk.x])

RefInv == ObjectInv /\ KeyInv

\* The refinement mapping as functions of the variables it depends on.
CurrentOf(og, fw, o) == CHOOSE a \in Addr : og[a] = o /\ ~ (fw[a] # 0)
IdOf(og, c) == IF c.addr = 0 THEN 0 ELSE og[c.addr]
BornOf(og) == {a \in Addr : og[a] = a}
RefOf(og, fw, m) == [o \in Addr |-> IF o \in BornOf(og) THEN IdOf(og, m[CurrentOf(og, fw, o)]) ELSE 0]
LocalOf(og, rg, m) == [x \in Regs \cup Roots |-> IdOf(og, IF x \in Regs THEN rg[x] ELSE m[x])]

JavaBorn  == BornOf(orig)
JavaRef   == RefOf(orig, fwd, mem)
JavaLocal == LocalOf(orig, reg, mem)

LEMMA JavaInit ==
  ASSUME JavaBorn = {}, JavaRef = [o \in Addr |-> 0],
         JavaLocal = [x \in Regs \cup Roots |-> 0], out = "nothing"
  PROVE  Java!Init
BY DEF Java!Init, JavaBorn, JavaRef, JavaLocal, RefOf, LocalOf, BornOf, IdOf, CurrentOf,
       BornObjects, Identity, Current, Moved

LEMMA JavaNew ==
  ASSUME NEW r, NEW o, o \notin JavaBorn, JavaBorn' = JavaBorn \cup {o},
         JavaLocal' = [JavaLocal EXCEPT ![r] = o], out' = "nothing", JavaRef' = JavaRef
  PROVE  Java!New(r, o)
BY DEF Java!New, JavaBorn, JavaRef, JavaLocal, RefOf, LocalOf, BornOf, IdOf, CurrentOf,
       BornObjects, Identity, Current, Moved

LEMMA JavaCopy ==
  ASSUME NEW x, NEW y, JavaLocal' = [JavaLocal EXCEPT ![x] = JavaLocal[y]], out' = "nothing",
         JavaBorn' = JavaBorn, JavaRef' = JavaRef
  PROVE  Java!Copy(x, y)
BY DEF Java!Copy, JavaBorn, JavaRef, JavaLocal, RefOf, LocalOf, BornOf, IdOf, CurrentOf,
       BornObjects, Identity, Current, Moved

LEMMA JavaMapping ==
  /\ [o \in Addr |-> IF o \in BornObjects THEN Identity(mem[Current(o)]) ELSE 0] = JavaRef
  /\ [x \in Regs \cup Roots |-> Identity(IF x \in Regs THEN reg[x] ELSE mem[x])] = JavaLocal
BY DEF JavaRef, JavaLocal, RefOf, LocalOf, BornOf, IdOf, CurrentOf, BornObjects, Identity, Current, Moved

LEMMA JavaGetField ==
  ASSUME NEW r, NEW b, JavaLocal[b] # 0,
         JavaLocal' = [JavaLocal EXCEPT ![r] = JavaRef[JavaLocal[b]]], out' = "nothing",
         JavaBorn' = JavaBorn, JavaRef' = JavaRef
  PROVE  Java!GetField(r, b)
<1>1. [x \in Regs \cup Roots |-> Identity(IF x \in Regs THEN reg[x] ELSE mem[x])]' = JavaLocal'
  BY DEF JavaLocal, LocalOf, IdOf, Identity
<1>2. UNCHANGED <<BornObjects, [o \in Addr |-> IF o \in BornObjects THEN Identity(mem[Current(o)]) ELSE 0]>>
  BY DEF JavaBorn, JavaRef, RefOf, BornOf, IdOf, CurrentOf, BornObjects, Identity, Current, Moved
<1> QED
  BY <1>1, <1>2, JavaMapping DEF Java!GetField

LEMMA JavaPutField ==
  ASSUME NEW b, NEW r, JavaLocal[b] # 0,
         JavaRef' = [JavaRef EXCEPT ![JavaLocal[b]] = JavaLocal[r]], out' = "nothing",
         JavaBorn' = JavaBorn, JavaLocal' = JavaLocal
  PROVE  Java!PutField(b, r)
BY DEF Java!PutField, JavaBorn, JavaRef, JavaLocal, RefOf, LocalOf, BornOf, IdOf, CurrentOf,
       BornObjects, Identity, Current, Moved

LEMMA JavaAcmp ==
  ASSUME NEW x, NEW y, out' = IF JavaLocal[x] = JavaLocal[y] THEN "same" ELSE "different",
         JavaBorn' = JavaBorn, JavaRef' = JavaRef, JavaLocal' = JavaLocal
  PROVE  Java!Acmp(x, y)
BY DEF Java!Acmp, JavaBorn, JavaRef, JavaLocal, RefOf, LocalOf, BornOf, IdOf, CurrentOf,
       BornObjects, Identity, Current, Moved

LEMMA JavaStutter ==
  ASSUME JavaBorn' = JavaBorn, JavaRef' = JavaRef, JavaLocal' = JavaLocal, out' = out
  PROVE  UNCHANGED Java!heapVars
BY DEF Java!heapVars, JavaBorn, JavaRef, JavaLocal, RefOf, LocalOf, BornOf, IdOf, CurrentOf,
       BornObjects, Identity, Current, Moved

LEMMA FunEq ==
  ASSUME NEW S, NEW f, NEW g, f = [x \in S |-> f[x]], g = [x \in S |-> g[x]], \A x \in S : f[x] = g[x]
  PROVE  f = g
OBVIOUS

LEMMA RefShape ==
  ASSUME NEW og, NEW fw, NEW m
  PROVE  LET f == RefOf(og, fw, m)
         IN  /\ f = [o \in Addr |-> f[o]]
             /\ \A o \in BornOf(og) : f[o] = IdOf(og, m[CurrentOf(og, fw, o)])
             /\ \A o \in Addr : o \notin BornOf(og) => f[o] = 0
BY DEF RefOf, BornOf

LEMMA LocalShape ==
  ASSUME NEW og, NEW rg, NEW m
  PROVE  LET f == LocalOf(og, rg, m)
         IN  /\ f = [x \in Regs \cup Roots |-> f[x]]
             /\ \A x \in Regs : f[x] = IdOf(og, rg[x])
             /\ \A x \in Roots : f[x] = IdOf(og, m[x])
BY ConstantsAssumption DEF LocalOf

\* There is one copy that is not forwarded.
LEMMA OneLast ==
  ASSUME IInv, NEW a \in Addr, NEW b \in Addr, a < bump, orig[a] = orig[b], fwd[a] = 0, fwd[b] = 0
  PROVE  a = b
<1>1. b < bump
  BY DEF IInv, ArenaInv
<1>2. ~ Superseded(a) /\ ~ Superseded(b)
  BY <1>1 DEF IInv, ForwardInv, Moved
<1>3. a \in Int /\ b \in Int
  BY ConstantsAssumption DEF Addr
<1> QED
  BY <1>2, <1>3 DEF Superseded

LEMMA CurrentCopy ==
  ASSUME IInv, NEW a \in Addr, a < bump, fwd[a] = 0
  PROVE  CurrentOf(orig, fwd, orig[a]) = a
<1> DEFINE c == CHOOSE b \in Addr : orig[b] = orig[a] /\ ~ (fwd[b] # 0)
<1>1. c \in Addr /\ orig[c] = orig[a] /\ fwd[c] = 0
  OBVIOUS
<1> HIDE DEF c
<1>2. c = a
  BY <1>1, OneLast
<1> QED
  BY <1>2 DEF CurrentOf, c

LEMMA CurrentBorn ==
  ASSUME IInv, ObjectInv, NEW o \in BornOf(orig)
  PROVE  LET c == CurrentOf(orig, fwd, o)
         IN  c \in Addr /\ c < bump /\ orig[c] = o /\ fwd[c] = 0
<1>1. o \in Addr /\ orig[o] = o /\ o # 0
  BY ConstantsAssumption DEF BornOf, Addr
<1>2. o < bump
  BY <1>1 DEF IInv, ArenaInv
<1>3. PICK b \in Addr : orig[b] = o /\ fwd[b] = 0
  BY <1>1, <1>2 DEF ObjectInv
<1>4. b < bump
  BY <1>1, <1>3 DEF IInv, ArenaInv
<1> QED
  BY <1>3, <1>4, CurrentCopy

\* A step that changes no object's copies and no reference's object.
LEMMA SameImage ==
  ASSUME IInv, ObjectInv, orig' = orig, fwd' = fwd,
         \A l \in Loc : IdOf(orig, mem'[l]) = IdOf(orig, mem[l]),
         \A r \in Regs : IdOf(orig, reg'[r]) = IdOf(orig, reg[r])
  PROVE  JavaBorn' = JavaBorn /\ JavaRef' = JavaRef /\ JavaLocal' = JavaLocal
<1>1. JavaBorn' = JavaBorn
  BY DEF JavaBorn
<1>2. JavaRef' = RefOf(orig, fwd, mem') /\ JavaLocal' = LocalOf(orig, reg', mem')
  BY DEF JavaRef, JavaLocal
<1>3. \A o \in BornOf(orig) : CurrentOf(orig, fwd, o) \in Loc
  BY CurrentBorn DEF Loc
<1>4. \A o \in Addr : RefOf(orig, fwd, mem')[o] = RefOf(orig, fwd, mem)[o]
  BY <1>3, RefShape
<1>5. RefOf(orig, fwd, mem') = RefOf(orig, fwd, mem)
  BY <1>4, RefShape, FunEq
<1>6. \A x \in Regs \cup Roots : LocalOf(orig, reg', mem')[x] = LocalOf(orig, reg, mem)[x]
  BY LocalShape DEF Loc
<1>7. LocalOf(orig, reg', mem') = LocalOf(orig, reg, mem)
  BY <1>6, LocalShape, FunEq
<1> QED
  BY <1>1, <1>2, <1>5, <1>7 DEF JavaRef, JavaLocal

\* ... such as one that leaves the addresses alone.
LEMMA SameAddresses ==
  ASSUME IInv, ObjectInv, orig' = orig, fwd' = fwd,
         \A l \in Loc : mem'[l].addr = mem[l].addr, \A r \in Regs : reg'[r].addr = reg[r].addr
  PROVE  JavaBorn' = JavaBorn /\ JavaRef' = JavaRef /\ JavaLocal' = JavaLocal
<1>1. \A l \in Loc : IdOf(orig, mem'[l]) = IdOf(orig, mem[l])
  BY DEF IdOf
<1>2. \A r \in Regs : IdOf(orig, reg'[r]) = IdOf(orig, reg[r])
  BY DEF IdOf
<1> QED
  BY <1>1, <1>2, SameImage

\* What stopless_acmp_normalize returns: the last copy of the operand.
LEMMA NormalizedLast ==
  ASSUME IInv, KeyInv, ~ ChaseExceeded, op = "idle", LookupDone,
         NEW r \in Regs, lk.from = NormalizeKey(reg[r])
  PROVE  LastCopy(Normalized(reg[r]), reg[r])
<1> DEFINE c == reg[r]
<1>t. TypeInv /\ MachineType /\ TableType /\ ShapeInv /\ LookupInv /\ c \in Cap /\ c.addr < bump
  BY DEF IInv, TypeInv, TypeOK, MachineType, ArenaInv
<1>1. CASE c.addr = 0
  BY <1>1 DEF NormalizeKey, Normalized, Found, LastCopy
<1>2. CASE c.addr # 0 /\ Live(c)
  <2>1. Normalized(c) = c.addr /\ c.addr \in Addr
    BY <1>2, <1>t, ConstantsAssumption DEF NormalizeKey, Normalized, Found, Cap, Addr, Addr0
  <2>2. ~ Moved(c.addr)
    BY <1>2 DEF IInv, CapInv, MarkInv, Fresh
  <2> QED
    BY <1>2, <1>t, <2>1, <2>2 DEF LastCopy, Moved
<1>3. CASE c.addr # 0 /\ ~ Live(c)
  <2>1. lk.from = c.addr /\ c.addr \in Addr
    BY <1>3, <1>t, ConstantsAssumption DEF NormalizeKey, Cap, Addr, Addr0
  <2>2. Moved(c.addr)
    BY <1>3, <2>1 DEF IInv, CapInv, Settled, MarkInv
  <2>3. fwd[lk.at] = 0 /\ lk.hops # 0
    BY <1>3, <1>t, <2>1, <2>2 DEF LookupDone, NextHit, LookupInv, Moved
  <2>4. Found = lk.at /\ lk.at # 0
    BY <1>3, <1>t, <2>1, <2>3 DEF Found, ShapeInv
  <2>5. Found \in Addr /\ Found < bump /\ fwd[Found] = 0
    BY <1>t, <2>4, FoundLast
  <2>6. orig[lk.at] = orig[c.addr]
    BY <1>3, <2>1 DEF KeyInv
  <2> QED
    BY <1>3, <2>4, <2>5, <2>6 DEF Normalized, LastCopy
<1> QED
  BY <1>1, <1>2, <1>3

LEMMA RefInit == Init => RefInv
<1> SUFFICES ASSUME Init PROVE RefInv
  OBVIOUS
<1>1. bump = 1 /\ lk = NoLookup /\ mem = [l \in Loc |-> NullCap]
  BY DEF Init
<1>2. ObjectInv
  BY <1>1, ConstantsAssumption DEF ObjectInv, Addr, Loc, NullCap
<1>3. KeyInv
  BY <1>1 DEF KeyInv, NoLookup
<1> QED
  BY <1>2, <1>3 DEF RefInv

\* The steps by what they do to the copies, the references and the lookup.
LEMMA StepKinds ==
  ASSUME [Next]_vars
  PROVE  \/ UNCHANGED <<bump, orig, fwd, mem, reg, out, lk>>
         \/ UNCHANGED <<bump, orig, fwd, mem, reg, out>> /\ lk' = NoLookup
         \/ LookupHop \/ Heal \/ AcmpSecond \/ AcmpDecide \/ ScanFix \/ ScanMove \/ OpenEpoch \/ Sweep
         \/ \E r \in Regs : New(r) \/ Fault(r) \/ HealOther(r)
         \/ \E r \in Regs, s \in Roots : LoadRoot(r, s) \/ StoreRoot(s, r)
         \/ \E r, b \in Regs : GetField(r, b) \/ PutField(b, r) \/ AcmpFast(r, b) \/ AcmpSlow(r, b)
         \/ \E s \in Roots : ScanRoot(s)
         \/ \E l \in Loc : CloseScan(l)
<1> USE DEF machineVars, tableVars, kernelVars, cycleVars, collectorVars
<1>1. CASE UNCHANGED vars \/ Dead
  BY <1>1 DEF vars, Dead
<1>2. CASE Mutator
  BY <1>2 DEF Mutator
<1>3. CASE Runtime
  BY <1>3 DEF Runtime, HealFails
<1>4. CASE SystemGC
  BY <1>4 DEF SystemGC, BeginCycle
<1>5. CASE VMThread
  BY <1>5 DEF VMThread, ScanLeave, ScanFails, MarkConcurrent, MarkSync, OpenFails, SweepFails
<1>6. CASE Closer
  BY <1>6 DEF Closer, CollectorCycle, BeginCycle, CollectorCheck, CloseDone, CloseFails, ClearPending
<1> QED
  BY <1>1, <1>2, <1>3, <1>4, <1>5, <1>6 DEF Next

\* A step that moves nothing and writes used cells only.
LEMMA ObjectKept ==
  ASSUME IInv, ObjectInv, UNCHANGED <<bump, orig, fwd>>,
         \A a \in Addr : a >= bump => mem'[a].addr = mem[a].addr
  PROVE  ObjectInv'
BY DEF ObjectInv

LEMMA KeyKept ==
  ASSUME IInv, KeyInv, UNCHANGED <<lk, bump, orig, fwd>>,
         reg' = reg \/ lk.use \in {"none", "scan"}
  PROVE  KeyInv'
BY DEF KeyInv, NormalizeKey, LastCopy, Live

\* Where a load takes its capability from, and what it leaves.
LEMMA LoadAddr ==
  ASSUME IInv, NEW l \in Loc
  PROVE  Load(l).addr = mem[l].addr /\ \A m \in Loc : MemAfterLoad(l)[m].addr = mem[m].addr
BY LoadType, LoadMem DEF IInv, TypeOK

LEMMA RefInvStep ==
  ASSUME SoundConfig, IInv, RefInv, ~ ChaseExceeded, [Next]_vars
  PROVE  RefInv'
<1> USE DEF machineVars, tableVars, kernelVars, cycleVars, collectorVars
<1>i. /\ ObjectInv /\ KeyInv /\ TypeInv /\ MachineType /\ TableType /\ KernelType /\ ControlType /\ ShapeInv
      /\ ArenaInv /\ ForwardInv /\ MarkInv /\ CapInv /\ ScanInv /\ LookupInv /\ SafeInv
  BY SafeParts DEF RefInv, IInv, TypeInv, TypeOK
<1>c. /\ Addr \subseteq Loc /\ Roots \subseteq Loc /\ Roots \cap Addr = {} /\ 0 \notin Addr /\ Addr \subseteq Nat
      /\ Addr0 = Addr \cup {0}
  BY ConstantsAssumption DEF Addr, Addr0, Loc
<1>1. CASE UNCHANGED <<bump, orig, fwd, mem, reg, out, lk>>
  BY <1>1, <1>i, ObjectKept, KeyKept DEF RefInv
<1>2. CASE UNCHANGED <<bump, orig, fwd, mem, reg, out>> /\ lk' = NoLookup
  <2>1. KeyInv'
    BY <1>2 DEF KeyInv, NoLookup
  <2> QED
    BY <1>2, <1>i, <2>1, ObjectKept DEF RefInv
<1>3. CASE LookupHop
  <2>1. lk.from # 0 /\ fwd[lk.at] # 0 /\ UNCHANGED <<bump, orig, fwd, mem, reg>>
    BY <1>3 DEF LookupHop, NextHit
  <2>2. /\ lk'.use = lk.use /\ lk'.x = lk.x /\ lk'.y = lk.y /\ lk'.n = lk.n /\ lk'.from = lk.from
        /\ lk'.at = fwd[lk.at]
    BY <1>3, <1>i DEF LookupHop, TableType, Lookups
  <2>3. lk.at \in Addr
    BY <1>i, <1>c, <2>1 DEF ShapeInv, TableType, Lookups
  <2>4. orig[fwd[lk.at]] = orig[lk.from]
    BY <1>i, <2>1, <2>3 DEF ForwardInv, Moved, KeyInv
  <2>5. KeyInv'
    BY <1>i, <2>1, <2>2, <2>4 DEF KeyInv, NormalizeKey, LastCopy, Live
  <2> QED
    BY <1>i, <2>1, <2>5, ObjectKept DEF RefInv
<1>4. CASE Heal \/ AcmpDecide
  <2>1. UNCHANGED <<bump, orig, fwd, mem>> /\ lk' = NoLookup
    BY <1>4 DEF Heal, AcmpDecide
  <2>2. KeyInv'
    BY <2>1 DEF KeyInv, NoLookup
  <2> QED
    BY <1>i, <2>1, <2>2, ObjectKept DEF RefInv
<1>5. CASE AcmpSecond
  <2>1. /\ lk.use = "acmp1" /\ LookupDone /\ UNCHANGED <<bump, orig, fwd, mem, reg>>
        /\ lk' = StartLookup("acmp2", lk.x, lk.y, Normalized(reg[lk.x]), NormalizeKey(reg[lk.y]))
    BY <1>5 DEF AcmpSecond
  <2>2. lk.x \in Regs /\ lk.y \in Regs /\ op = "idle" /\ lk.from = NormalizeKey(reg[lk.x])
    BY <1>i, <2>1 DEF ShapeInv, LookupInv, KeyInv
  <2>3. LastCopy(Normalized(reg[lk.x]), reg[lk.x])
    BY <1>i, <2>1, <2>2, NormalizedLast
  <2>4. /\ lk'.use = "acmp2" /\ lk'.x = lk.x /\ lk'.y = lk.y /\ lk'.n = Normalized(reg[lk.x])
        /\ lk'.from = NormalizeKey(reg[lk.y]) /\ lk'.at = lk'.from
    BY <2>1 DEF StartLookup
  <2>5. lk'.from # 0 => lk'.from < bump
    BY <1>i, <2>2, <2>4 DEF NormalizeKey, ArenaInv
  <2>6. LastCopy(lk.n, reg[lk.x])'
    BY <2>1, <2>3, <2>4 DEF LastCopy
  <2>7. lk'.from = NormalizeKey(reg[lk.y])'
    BY <2>1, <2>4 DEF NormalizeKey, Live
  <2>8. KeyInv'
    BY <2>1, <2>4, <2>5, <2>6, <2>7 DEF KeyInv
  <2> QED
    BY <1>i, <2>1, <2>8, ObjectKept DEF RefInv
<1>6. CASE ScanFix
  <2>1. /\ UNCHANGED <<bump, orig, fwd, reg>> /\ lk' = NoLookup /\ lk.x \in Roots
        /\ mem' = IF NoFixup THEN mem ELSE [mem EXCEPT ![lk.x] = Derive(Found)]
    BY <1>6, <1>i DEF ScanFix, ShapeInv
  <2>2. \A a \in Addr : mem'[a].addr = mem[a].addr
    BY <1>i, <1>c, <2>1 DEF MachineType
  <2>3. KeyInv'
    BY <2>1 DEF KeyInv, NoLookup
  <2> QED
    BY <1>i, <2>1, <2>2, <2>3, ObjectKept DEF RefInv
<1>7. CASE ScanMove
  <2> DEFINE from == mem[lk.x].addr
             to == bump
  <2>1. /\ lk.x \in Roots /\ to \in Addr /\ from \in Addr /\ from < to /\ fwd[from] = 0
        /\ bump' = to + 1 /\ orig' = [orig EXCEPT ![to] = orig[from]] /\ fwd' = [fwd EXCEPT ![from] = to]
        /\ lk' = NoLookup
        /\ \E fixed \in {mem[lk.x], Derive(to)} : mem' = [mem EXCEPT ![to] = mem[from], ![lk.x] = fixed]
    BY <1>7, <1>i, MoveFacts
  <2>2. /\ orig'[to] = orig[from] /\ \A a \in Addr : a # to => orig'[a] = orig[a]
        /\ fwd'[from] = to /\ \A a \in Addr : a # from => fwd'[a] = fwd[a]
        /\ fwd[to] = 0 /\ orig[to] = 0
    BY <1>i, <2>1 DEF MachineType, TableType, ArenaInv
  <2> HIDE DEF from, to
  <2>3. \A a \in Addr : a < bump' <=> a < to \/ a = to
    BY <1>c, <2>1
  <2>4. \A a \in Addr : a < to => orig[a] \in Addr /\ orig[a] < to /\ orig[orig[a]] = orig[a] /\ a # to
    BY <1>i, <1>c, <2>1 DEF ObjectInv, ArenaInv, to
  <2>5. \A a \in Addr : a < bump' => orig'[a] \in Addr /\ orig'[orig'[a]] = orig'[a]
    BY <1>c, <2>1, <2>2, <2>3, <2>4
  <2>6. ASSUME NEW a \in Addr, a < bump' PROVE \E b \in Addr : orig'[b] = orig'[a] /\ fwd'[b] = 0
    <3>1. PICK z \in Addr : z < to /\ orig'[a] = orig[z]
      BY <2>1, <2>2, <2>3, <2>4, <2>6
    <3>2. CASE orig[z] = orig[from]
      BY <1>c, <2>1, <2>2, <3>1, <3>2
    <3>3. CASE orig[z] # orig[from]
      <4>1. PICK b \in Addr : orig[b] = orig[z] /\ fwd[b] = 0
        BY <1>i, <3>1 DEF ObjectInv, to
      <4>2. b # from /\ b # to
        BY <1>c, <2>2, <2>4, <3>1, <3>3, <4>1
      <4> QED
        BY <2>2, <3>1, <4>1, <4>2
    <3> QED
      BY <3>2, <3>3
  <2>7. \A a \in Addr : a >= bump' => mem'[a].addr = 0
    <3>1. ASSUME NEW a \in Addr, a >= bump' PROVE mem'[a] = mem[a] /\ a >= to
      BY <1>i, <1>c, <2>1, <3>1 DEF MachineType
    <3> QED
      BY <1>i, <3>1 DEF ObjectInv, to
  <2>8. ObjectInv' /\ KeyInv'
    BY <2>1, <2>5, <2>6, <2>7 DEF ObjectInv, KeyInv, NoLookup
  <2> QED
    BY <2>8 DEF RefInv
<1>8. CASE OpenEpoch
  <2>1. op = "open" /\ UNCHANGED <<bump, orig, fwd, mem, lk>>
    BY <1>8 DEF OpenEpoch
  <2>2. lk.use \in {"none", "scan"}
    BY <1>i, <2>1 DEF LookupInv
  <2> QED
    BY <1>i, <2>1, <2>2, ObjectKept, KeyKept DEF RefInv
<1>9. CASE Sweep
  <2>1. /\ op \in {"sweep", "fallback"} /\ UNCHANGED <<bump, orig, fwd, lk>>
        /\ mem' = [l \in Loc |-> IF epoch = "open" THEN Load(l) ELSE Revoke(mem[l], shadow)]
    BY <1>9 DEF Sweep
  <2>2. lk.use \in {"none", "scan"}
    BY <1>i, <2>1 DEF LookupInv
  <2>3. \A l \in Loc : mem'[l].addr = mem[l].addr
    BY <1>i, <2>1, LoadAddr, RevokeType DEF MachineType
  <2> QED
    BY <1>i, <1>c, <2>1, <2>2, <2>3, ObjectKept, KeyKept DEF RefInv
<1>10. ASSUME NEW r \in Regs, New(r) PROVE RefInv'
  <2>1. /\ lk.use = "none" /\ bump \in Addr /\ bump' = bump + 1 /\ UNCHANGED <<fwd, mem, lk>>
        /\ orig' = [orig EXCEPT ![bump] = bump]
    BY <1>10 DEF New, Running
  <2>2. /\ orig'[bump] = bump /\ \A a \in Addr : a # bump => orig'[a] = orig[a]
        /\ fwd[bump] = 0 /\ orig[bump] = 0
    BY <1>i, <2>1 DEF MachineType, ArenaInv
  <2>3. \A a \in Addr : a < bump' <=> a < bump \/ a = bump
    BY <1>c, <2>1
  <2>4. \A a \in Addr : a < bump => orig[a] \in Addr /\ orig[a] # bump /\ orig[orig[a]] = orig[a] /\ a # bump
    BY <1>i, <1>c, <2>1 DEF ObjectInv, ArenaInv
  <2>5. \A a \in Addr : a < bump' => orig'[a] \in Addr /\ orig'[orig'[a]] = orig'[a]
    BY <2>1, <2>2, <2>3, <2>4
  <2>6. ASSUME NEW a \in Addr, a < bump' PROVE \E b \in Addr : orig'[b] = orig'[a] /\ fwd'[b] = 0
    <3>1. CASE a = bump
      BY <2>1, <2>2, <3>1
    <3>2. CASE a # bump
      <4>1. PICK b \in Addr : orig[b] = orig[a] /\ fwd[b] = 0
        BY <1>i, <2>3, <2>6, <3>2 DEF ObjectInv
      <4>2. b # bump
        BY <1>c, <2>2, <2>3, <2>4, <2>6, <3>2, <4>1
      <4> QED
        BY <2>1, <2>2, <3>2, <4>1, <4>2
    <3> QED
      BY <3>1, <3>2
  <2>7. \A a \in Addr : a >= bump' => mem'[a].addr = 0
    BY <1>i, <1>c, <2>1 DEF ObjectInv
  <2>8. KeyInv'
    <3>1. lk.from # 0 => lk.from \in Addr /\ lk.at \in Addr /\ lk.at < bump
      BY <1>i, <1>c DEF ShapeInv, TableType, Lookups, LookupInv
    <3>2. \A a \in Addr : a < bump => a # bump /\ a < bump'
      BY <1>c, <2>1
    <3> QED
      BY <1>i, <2>1, <2>2, <3>1, <3>2 DEF KeyInv
  <2> QED
    BY <2>5, <2>6, <2>7, <2>8 DEF RefInv, ObjectInv
<1>11. ASSUME NEW r \in Regs, Fault(r) \/ HealOther(r) PROVE RefInv'
  <2>1. /\ UNCHANGED <<bump, orig, fwd, mem, reg>>
        /\ \E y : lk' = StartLookup("heal", r, y, 0, reg[r].addr)
    BY <1>11 DEF Fault, HealOther
  <2>2. lk'.use = "heal" /\ lk'.x = r /\ lk'.from = reg[r].addr /\ lk'.at = reg[r].addr
    BY <2>1 DEF StartLookup
  <2>3. KeyInv'
    BY <1>i, <2>1, <2>2 DEF KeyInv, ArenaInv
  <2> QED
    BY <1>i, <2>1, <2>3, ObjectKept DEF RefInv
<1>12. ASSUME NEW r \in Regs, NEW s \in Roots, LoadRoot(r, s) PROVE RefInv'
  <2>1. lk.use = "none" /\ UNCHANGED <<bump, orig, fwd, lk>> /\ mem' = MemAfterLoad(s)
    BY <1>12 DEF LoadRoot, Running
  <2> QED
    BY <1>i, <1>c, <2>1, LoadAddr, ObjectKept, KeyKept DEF RefInv
<1>13. ASSUME NEW r \in Regs, NEW s \in Roots, StoreRoot(s, r) PROVE RefInv'
  <2>1. UNCHANGED <<bump, orig, fwd, lk, reg>> /\ mem' = [mem EXCEPT ![s] = reg[r]]
    BY <1>13 DEF StoreRoot
  <2>2. \A a \in Addr : mem'[a] = mem[a]
    BY <1>i, <1>c, <2>1 DEF MachineType
  <2> QED
    BY <1>i, <2>1, <2>2, ObjectKept, KeyKept DEF RefInv
<1>14. ASSUME NEW r \in Regs, NEW b \in Regs, GetField(r, b) PROVE RefInv'
  <2>1. /\ lk.use = "none" /\ UNCHANGED <<bump, orig, fwd, lk>> /\ mem' = MemAfterLoad(reg[b].addr)
        /\ Live(reg[b])
    BY <1>14 DEF GetField, Running
  <2>2. reg[b].addr \in Addr
    BY <1>i, <1>c, <2>1 DEF Live, MachineType, Cap, ShapeInv
  <2> QED
    BY <1>i, <1>c, <2>1, <2>2, LoadAddr, ObjectKept, KeyKept DEF RefInv
<1>15. ASSUME NEW r \in Regs, NEW b \in Regs, PutField(b, r) PROVE RefInv'
  <2>1. UNCHANGED <<bump, orig, fwd, lk, reg>> /\ mem' = [mem EXCEPT ![reg[b].addr] = reg[r]]
    BY <1>15 DEF PutField
  <2>2. \A a \in Addr : a >= bump => a # reg[b].addr
    BY <1>i, <1>c DEF ArenaInv, MachineType, Cap
  <2>3. \A a \in Addr : a >= bump => mem'[a].addr = mem[a].addr
    BY <1>i, <1>c, <2>1, <2>2 DEF MachineType
  <2> QED
    BY <1>i, <2>1, <2>3, ObjectKept, KeyKept DEF RefInv
<1>16. ASSUME NEW x \in Regs, NEW y \in Regs, AcmpFast(x, y) PROVE RefInv'
  BY <1>16, <1>i, ObjectKept, KeyKept DEF AcmpFast, RefInv
<1>17. ASSUME NEW x \in Regs, NEW y \in Regs, AcmpSlow(x, y) PROVE RefInv'
  <2>1. UNCHANGED <<bump, orig, fwd, mem, reg>> /\ lk' = StartLookup("acmp1", x, y, 0, NormalizeKey(reg[x]))
    BY <1>17 DEF AcmpSlow
  <2>2. lk'.use = "acmp1" /\ lk'.x = x /\ lk'.from = NormalizeKey(reg[x]) /\ lk'.at = lk'.from
    BY <2>1 DEF StartLookup
  <2>3. lk'.from # 0 => lk'.from < bump
    BY <1>i, <2>2 DEF NormalizeKey, ArenaInv
  <2>4. KeyInv'
    BY <2>1, <2>2, <2>3 DEF KeyInv, NormalizeKey, Live
  <2> QED
    BY <1>i, <2>1, <2>4, ObjectKept DEF RefInv
<1>18. ASSUME NEW s \in Roots, ScanRoot(s) PROVE RefInv'
  <2>1. /\ UNCHANGED <<bump, orig, fwd, reg>> /\ mem' = MemAfterLoad(s)
        /\ lk' = NoLookup \/ lk' = StartLookup("scan", s, Nothing, 0, mem[s].addr)
    BY <1>18 DEF ScanRoot
  <2>2. mem[s].addr < bump
    BY <1>i, <1>c DEF ArenaInv
  <2>3. KeyInv'
    BY <2>1, <2>2 DEF KeyInv, NoLookup, StartLookup
  <2> QED
    BY <1>i, <1>c, <2>1, <2>3, LoadAddr, ObjectKept DEF RefInv
<1>19. ASSUME NEW l \in Loc, CloseScan(l) PROVE RefInv'
  <2>1. UNCHANGED <<bump, orig, fwd, lk, reg>> /\ mem' = MemAfterLoad(l)
    BY <1>19 DEF CloseScan
  <2> QED
    BY <1>i, <1>c, <2>1, LoadAddr, ObjectKept, KeyKept DEF RefInv
<1> QED
  BY <1>1, <1>2, <1>3, <1>4, <1>5, <1>6, <1>7, <1>8, <1>9, <1>10, <1>11, <1>12, <1>13, <1>14, <1>15,
     <1>16, <1>17, <1>18, <1>19, StepKinds

-----------------------------------------------------------------------------
(* What each step is to the program.                                       *)

\* Scans, revocations and lookups change no address: the program sees nothing.
LEMMA QuietStep ==
  ASSUME IInv, ObjectInv, UNCHANGED <<orig, fwd, out>>,
         \A l \in Loc : mem'[l].addr = mem[l].addr, \A r \in Regs : reg'[r].addr = reg[r].addr
  PROVE  UNCHANGED Java!heapVars
BY SameAddresses, JavaStutter

\* What a lookup answers is a copy of the object it was asked about.
LEMMA FoundObject ==
  ASSUME IInv, KeyInv, LookupDone, Found # 0
  PROVE  Found \in Addr /\ orig[Found] = orig[lk.from]
<1>1. Found \in Addr
  BY FoundLast, SafeParts DEF SafeInv
<1>2. Found = lk.at /\ lk.from # 0
  BY DEF Found
<1> QED
  BY <1>1, <1>2 DEF KeyInv

LEMMA FunUpdate ==
  ASSUME NEW S, NEW f, f = [x \in S |-> f[x]], NEW y \in S, NEW v
  PROVE  LET g == [f EXCEPT ![y] = v]
         IN  g = [x \in S |-> g[x]] /\ g[y] = v /\ \A x \in S : x # y => g[x] = f[x]
OBVIOUS

LEMMA JavaLocalShape ==
  /\ JavaLocal = [x \in Regs \cup Roots |-> JavaLocal[x]]
  /\ \A x \in Regs : JavaLocal[x] = IdOf(orig, reg[x])
  /\ \A x \in Roots : JavaLocal[x] = IdOf(orig, mem[x])
BY LocalShape DEF JavaLocal

LEMMA LocalEq ==
  ASSUME NEW og, NEW rg, NEW m, NEW f, f = [x \in Regs \cup Roots |-> f[x]],
         \A x \in Regs : f[x] = IdOf(og, rg[x]), \A x \in Roots : f[x] = IdOf(og, m[x])
  PROVE  LocalOf(og, rg, m) = f
<1>1. \A x \in Regs \cup Roots : LocalOf(og, rg, m)[x] = f[x]
  BY LocalShape
<1> QED
  BY <1>1, LocalShape, FunEq

LEMMA RefEq ==
  ASSUME NEW og, NEW fw, NEW m, NEW f, f = [o \in Addr |-> f[o]],
         \A o \in BornOf(og) : f[o] = IdOf(og, m[CurrentOf(og, fw, o)]),
         \A o \in Addr : o \notin BornOf(og) => f[o] = 0
  PROVE  RefOf(og, fw, m) = f
<1>1. \A o \in Addr : RefOf(og, fw, m)[o] = f[o]
  BY RefShape
<1> QED
  BY <1>1, RefShape, FunEq

LEMMA JavaRefShape ==
  /\ JavaRef = [o \in Addr |-> JavaRef[o]]
  /\ \A o \in BornOf(orig) : JavaRef[o] = IdOf(orig, mem[CurrentOf(orig, fwd, o)])
  /\ \A o \in Addr : o \notin BornOf(orig) => JavaRef[o] = 0
BY RefShape DEF JavaRef

\* A register takes the capability c; memory is scanned at most.
LEMMA RegisterWritten ==
  ASSUME IInv, ObjectInv, UNCHANGED <<orig, fwd>>, NEW r \in Regs, NEW c,
         reg' = [reg EXCEPT ![r] = c], \A l \in Loc : mem'[l].addr = mem[l].addr
  PROVE  /\ JavaBorn' = JavaBorn /\ JavaRef' = JavaRef
         /\ JavaLocal' = [JavaLocal EXCEPT ![r] = IdOf(orig, c)]
<1> DEFINE loc == [JavaLocal EXCEPT ![r] = IdOf(orig, c)]
           rg == reg'
           m == mem'
<1>1. JavaBorn' = JavaBorn /\ JavaRef' = RefOf(orig, fwd, m) /\ JavaLocal' = LocalOf(orig, rg, m)
  BY DEF JavaBorn, JavaRef, JavaLocal
<1>2. \A l \in Loc : IdOf(orig, m[l]) = IdOf(orig, mem[l])
  BY DEF IdOf
<1>3. rg[r] = c /\ \A x \in Regs : x # r => rg[x] = reg[x]
  BY DEF IInv, TypeOK, MachineType
<1>4. \A o \in BornOf(orig) : CurrentOf(orig, fwd, o) \in Loc
  BY CurrentBorn DEF Loc
<1>5. \A x \in Roots : x # r /\ x \in Loc
  BY ConstantsAssumption DEF Loc
<1>6. /\ loc = [x \in Regs \cup Roots |-> loc[x]] /\ loc[r] = IdOf(orig, c)
      /\ \A x \in Regs \cup Roots : x # r => loc[x] = JavaLocal[x]
  BY JavaLocalShape, FunUpdate
<1> HIDE DEF loc, rg, m
<1>7. RefOf(orig, fwd, m) = JavaRef
  BY <1>2, <1>4, JavaRefShape, RefEq
<1>8. \A x \in Regs : loc[x] = IdOf(orig, rg[x])
  BY <1>3, <1>6, JavaLocalShape
<1>9. \A x \in Roots : loc[x] = IdOf(orig, m[x])
  BY <1>2, <1>5, <1>6, JavaLocalShape
<1>10. LocalOf(orig, rg, m) = loc
  BY <1>6, <1>8, <1>9, LocalEq
<1> QED
  BY <1>1, <1>7, <1>10 DEF loc

\* A root slot takes the capability c.
LEMMA RootWritten ==
  ASSUME IInv, ObjectInv, UNCHANGED <<orig, fwd, reg>>, NEW s \in Roots, NEW c,
         mem' = [mem EXCEPT ![s] = c]
  PROVE  /\ JavaBorn' = JavaBorn /\ JavaRef' = JavaRef
         /\ JavaLocal' = [JavaLocal EXCEPT ![s] = IdOf(orig, c)]
<1> DEFINE loc == [JavaLocal EXCEPT ![s] = IdOf(orig, c)]
           m == mem'
<1>1. JavaBorn' = JavaBorn /\ JavaRef' = RefOf(orig, fwd, m) /\ JavaLocal' = LocalOf(orig, reg, m)
  BY DEF JavaBorn, JavaRef, JavaLocal
<1>2. m[s] = c /\ \A l \in Loc : l # s => m[l] = mem[l]
  BY DEF IInv, TypeOK, MachineType, Loc
<1>3. \A o \in BornOf(orig) : CurrentOf(orig, fwd, o) \in Loc /\ CurrentOf(orig, fwd, o) # s
  BY CurrentBorn, ConstantsAssumption DEF Loc
<1>4. Roots \subseteq Loc /\ \A x \in Regs : x # s
  BY ConstantsAssumption DEF Loc
<1>5. /\ loc = [x \in Regs \cup Roots |-> loc[x]] /\ loc[s] = IdOf(orig, c)
      /\ \A x \in Regs \cup Roots : x # s => loc[x] = JavaLocal[x]
  BY JavaLocalShape, FunUpdate
<1> HIDE DEF loc, m
<1>6. RefOf(orig, fwd, m) = JavaRef
  BY <1>2, <1>3, JavaRefShape, RefEq
<1>7. \A x \in Regs : loc[x] = IdOf(orig, reg[x])
  BY <1>4, <1>5, JavaLocalShape
<1>8. \A x \in Roots : loc[x] = IdOf(orig, m[x])
  BY <1>2, <1>4, <1>5, JavaLocalShape
<1>9. LocalOf(orig, reg, m) = loc
  BY <1>5, <1>7, <1>8, LocalEq
<1> QED
  BY <1>1, <1>6, <1>9 DEF loc

\* A dereference reaches the contents of the object: with the safepoint
\* released, a live capability points to the last copy.
LEMMA LiveCurrent ==
  ASSUME IInv, ObjectInv, op = "idle", NEW b \in Regs, Live(reg[b])
  PROVE  LET l == reg[b].addr
         IN  /\ l \in Addr /\ orig[l] \in BornOf(orig) /\ orig[l] # 0
             /\ CurrentOf(orig, fwd, orig[l]) = l
             /\ JavaLocal[b] = orig[l]
             /\ JavaRef[orig[l]] = IdOf(orig, mem[l])
<1> DEFINE l == reg[b].addr
<1>1. reg[b] \in Cap /\ l # 0 /\ l < bump
  BY DEF IInv, TypeOK, MachineType, ShapeInv, ArenaInv, Live
<1>2. l \in Addr
  BY <1>1, ConstantsAssumption DEF Cap, Addr, Addr0
<1>3. fwd[l] = 0
  BY DEF IInv, CapInv, MarkInv, Fresh, Moved
<1>4. orig[l] \in BornOf(orig) /\ orig[l] # 0
  BY <1>1, <1>2, ConstantsAssumption DEF ObjectInv, BornOf, Addr
<1>5. CurrentOf(orig, fwd, orig[l]) = l
  BY <1>1, <1>2, <1>3, CurrentCopy
<1>6. JavaLocal[b] = orig[l]
  BY <1>1, LocalShape DEF JavaLocal, IdOf
<1>7. JavaRef[orig[l]] = IdOf(orig, mem[l])
  BY <1>4, <1>5, RefShape DEF JavaRef
<1> QED
  BY <1>2, <1>4, <1>5, <1>6, <1>7

\* A field of the last copy of an object takes the capability c.
LEMMA FieldWritten ==
  ASSUME IInv, ObjectInv, UNCHANGED <<orig, fwd, reg>>, NEW o \in BornOf(orig), NEW c,
         mem' = [mem EXCEPT ![CurrentOf(orig, fwd, o)] = c]
  PROVE  /\ JavaBorn' = JavaBorn /\ JavaLocal' = JavaLocal
         /\ JavaRef' = [JavaRef EXCEPT ![o] = IdOf(orig, c)]
<1> DEFINE new == [JavaRef EXCEPT ![o] = IdOf(orig, c)]
           l == CurrentOf(orig, fwd, o)
           m == mem'
<1>1. JavaBorn' = JavaBorn /\ JavaRef' = RefOf(orig, fwd, m) /\ JavaLocal' = LocalOf(orig, reg, m)
  BY DEF JavaBorn, JavaRef, JavaLocal
<1>2. l \in Addr /\ orig[l] = o /\ o \in Addr
  BY CurrentBorn DEF BornOf
<1>3. m[l] = c /\ \A k \in Loc : k # l => m[k] = mem[k]
  BY <1>2 DEF IInv, TypeOK, MachineType, Loc
<1>4. \A q \in BornOf(orig) : q # o => CurrentOf(orig, fwd, q) \in Loc /\ CurrentOf(orig, fwd, q) # l
  BY <1>2, CurrentBorn DEF Loc
<1>5. \A x \in Roots : x \in Loc /\ x # l
  BY <1>2, ConstantsAssumption DEF Loc
<1>6. /\ new = [q \in Addr |-> new[q]] /\ new[o] = IdOf(orig, c)
      /\ \A q \in Addr : q # o => new[q] = JavaRef[q]
  BY <1>2, JavaRefShape, FunUpdate
<1>7. BornOf(orig) \subseteq Addr
  BY DEF BornOf
<1> HIDE DEF new, m
<1>8. \A q \in BornOf(orig) : new[q] = IdOf(orig, m[CurrentOf(orig, fwd, q)])
  BY <1>3, <1>4, <1>6, <1>7, JavaRefShape
<1>9. \A q \in Addr : q \notin BornOf(orig) => new[q] = 0
  BY <1>6, JavaRefShape
<1>10. RefOf(orig, fwd, m) = new
  BY <1>6, <1>8, <1>9, RefEq
<1>11. LocalOf(orig, reg, m) = JavaLocal
  BY <1>3, <1>5, JavaLocalShape, LocalEq
<1> QED
  BY <1>1, <1>10, <1>11 DEF new

LEMMA CurrentUnique ==
  ASSUME NEW og, NEW fw, NEW a \in Addr, fw[a] = 0,
         \A b \in Addr : og[b] = og[a] /\ fw[b] = 0 => b = a
  PROVE  CurrentOf(og, fw, og[a]) = a
BY DEF CurrentOf

\* A relocation: the contents are those of the new copy, and no reference
\* changes its object.
LEMMA MoveInvisible ==
  ASSUME SoundConfig, IInv, ObjectInv, ScanMove
  PROVE  UNCHANGED Java!heapVars
<1> DEFINE from == mem[lk.x].addr
           to == bump
           og == orig'
           fw == fwd'
           m == mem'
<1>i. /\ TypeInv /\ SafeInv /\ ArenaInv /\ MachineType /\ TableType
      /\ Addr \subseteq Loc /\ Roots \subseteq Loc /\ Roots \cap Addr = {} /\ 0 \notin Addr /\ Addr \subseteq Int
  BY SafeParts, ConstantsAssumption DEF IInv, TypeOK, Addr, Loc
<1>1. /\ lk.x \in Roots /\ to \in Addr /\ from \in Addr /\ from < to /\ fwd[from] = 0
      /\ orig' = [orig EXCEPT ![to] = orig[from]] /\ fwd' = [fwd EXCEPT ![from] = to]
      /\ UNCHANGED <<reg, out>>
  BY <1>i, MoveFacts
<1>2. PICK fixed \in {mem[lk.x], Derive(to)} : mem' = [mem EXCEPT ![to] = mem[from], ![lk.x] = fixed]
  BY <1>i, MoveFacts
<1>3. /\ og[to] = orig[from] /\ \A a \in Addr : a # to => og[a] = orig[a]
      /\ fw[from] = to /\ \A a \in Addr : a # from => fw[a] = fwd[a]
      /\ fwd[to] = 0 /\ orig[to] = 0
  BY <1>i, <1>1 DEF MachineType, TableType, ArenaInv
<1>4. m[to] = mem[from] /\ m[lk.x] = fixed /\ \A l \in Loc : l # to /\ l # lk.x => m[l] = mem[l]
  BY <1>i, <1>1, <1>2 DEF MachineType
<1>5. /\ \A l \in Loc : mem[l].addr = 0 \/ (mem[l].addr \in Addr /\ mem[l].addr # to)
      /\ \A r \in Regs : reg[r].addr = 0 \/ (reg[r].addr \in Addr /\ reg[r].addr # to)
  <2>1. \A l \in Loc : mem[l].addr \in Addr0 /\ mem[l].addr < to
    BY <1>i DEF MachineType, Cap, ArenaInv
  <2>2. \A r \in Regs : reg[r].addr \in Addr0 /\ reg[r].addr < to
    BY <1>i DEF MachineType, Cap, ArenaInv
  <2>3. \A a \in Addr0 : a < to => a = 0 \/ (a \in Addr /\ a # to)
    BY <1>1, ConstantsAssumption DEF Addr, Addr0
  <2> QED
    BY <2>1, <2>2, <2>3
<1>6. /\ orig[from] \in Addr /\ orig[from] # to
      /\ orig[from] \in BornOf(orig) /\ CurrentOf(orig, fwd, orig[from]) = from
  <2>1. orig[from] \in BornOf(orig) /\ orig[from] \in Addr
    BY <1>1 DEF ObjectInv, BornOf
  <2>2. orig[from] # to
    BY <2>1, <1>i, <1>1 DEF ArenaInv
  <2> QED
    BY <2>1, <2>2, <1>1, CurrentCopy
<1>7. JavaBorn' = BornOf(og) /\ JavaRef' = RefOf(og, fw, m) /\ JavaLocal' = LocalOf(og, reg, m)
  BY <1>1 DEF JavaBorn, JavaRef, JavaLocal
<1>a. \A o \in BornOf(orig) : LET c == CurrentOf(orig, fwd, o)
                              IN  c \in Addr /\ c # to /\ orig[c] = o /\ fwd[c] = 0
  <2>1. \A c \in Addr : c < to => c # to
    BY <1>i, <1>1
  <2> QED
    BY <2>1, CurrentBorn
<1>b. \A a, b \in Addr : a < to /\ orig[a] = orig[b] /\ fwd[a] = 0 /\ fwd[b] = 0 => a = b
  BY OneLast
<1>c. \A o \in BornOf(orig) : CurrentOf(orig, fwd, o) < to
  BY CurrentBorn
<1> HIDE DEF from, to, og, fw, m
<1>8. BornOf(og) = BornOf(orig)
  BY <1>i, <1>1, <1>3, <1>6 DEF BornOf
<1>9. \A c : c.addr = 0 \/ (c.addr \in Addr /\ c.addr # to) => IdOf(og, c) = IdOf(orig, c)
  BY <1>3 DEF IdOf
<1>10. CurrentOf(og, fw, orig[from]) = to
  <2>1. ASSUME NEW b \in Addr, og[b] = og[to], fw[b] = 0 PROVE b = to
    <3>1. b # from
      BY <1>i, <1>1, <1>3, <2>1
    <3>2. b # to => orig[b] = orig[from] /\ fwd[b] = 0
      BY <1>3, <2>1, <3>1
    <3> QED
      BY <1>1, <1>b, <3>1, <3>2
  <2>2. fw[to] = 0
    BY <1>i, <1>1, <1>3
  <2> QED
    BY <1>1, <1>3, <2>1, <2>2, CurrentUnique
<1>11. ASSUME NEW o \in BornOf(orig), o # orig[from]
       PROVE  CurrentOf(og, fw, o) = CurrentOf(orig, fwd, o)
  <2> DEFINE c == CurrentOf(orig, fwd, o)
  <2>1. c \in Addr /\ c # to /\ c < to /\ orig[c] = o /\ fwd[c] = 0 /\ c # from
    BY <1>a, <1>c, <1>11
  <2> HIDE DEF c
  <2>2. og[c] = o /\ fw[c] = 0
    BY <1>3, <2>1
  <2>3. ASSUME NEW b \in Addr, og[b] = og[c], fw[b] = 0 PROVE b = c
    <3>1. b # to
      BY <1>3, <1>11, <2>2, <2>3
    <3>2. orig[b] = o
      BY <1>3, <2>2, <2>3, <3>1
    <3>3. b # from
      BY <1>11, <3>2
    <3> QED
      BY <1>3, <1>b, <2>1, <2>3, <3>2, <3>3
  <2> QED
    BY <2>1, <2>2, <2>3, CurrentUnique DEF c
<1>12. RefOf(og, fw, m) = JavaRef
  <2>1. ASSUME NEW o \in BornOf(orig) PROVE JavaRef[o] = IdOf(og, m[CurrentOf(og, fw, o)])
    <3>1. CASE o = orig[from]
      <4>1. JavaRef[o] = IdOf(orig, mem[from])
        BY <1>6, <3>1, JavaRefShape
      <4> QED
        BY <1>i, <1>1, <1>4, <1>5, <1>9, <1>10, <3>1, <4>1
    <3>2. CASE o # orig[from]
      <4> DEFINE c == CurrentOf(orig, fwd, o)
      <4>1. c \in Addr /\ c # to /\ JavaRef[o] = IdOf(orig, mem[c]) /\ CurrentOf(og, fw, o) = c
        BY <1>a, <1>11, <3>2, JavaRefShape
      <4> HIDE DEF c
      <4>2. m[c] = mem[c] /\ c \in Loc
        BY <1>i, <1>1, <1>4, <4>1
      <4> QED
        BY <1>5, <1>9, <4>1, <4>2
    <3> QED
      BY <3>1, <3>2
  <2> QED
    BY <1>8, <2>1, JavaRefShape, RefEq
<1>13. LocalOf(og, reg, m) = JavaLocal
  <2>1. \A x \in Regs : JavaLocal[x] = IdOf(og, reg[x])
    BY <1>5, <1>9, JavaLocalShape
  <2>2. ASSUME NEW x \in Roots PROVE JavaLocal[x] = IdOf(og, m[x])
    <3>1. CASE m[x] = mem[x]
      BY <1>i, <1>5, <1>9, <3>1, JavaLocalShape
    <3>2. CASE m[x] # mem[x]
      <4>1. x = lk.x /\ m[x] = Derive(to)
        BY <1>i, <1>1, <1>2, <1>4, <3>2
      <4>2. IdOf(og, Derive(to)) = orig[from]
        BY <1>i, <1>1, <1>3 DEF IdOf, Derive
      <4>3. JavaLocal[lk.x] = orig[from]
        BY <1>i, <1>1, JavaLocalShape DEF IdOf, from
      <4> QED
        BY <4>1, <4>2, <4>3
    <3> QED
      BY <3>1, <3>2
  <2> QED
    BY <2>1, <2>2, JavaLocalShape, LocalEq
<1> QED
  BY <1>1, <1>7, <1>8, <1>12, <1>13, JavaStutter DEF JavaBorn

\* An allocation: the fresh cell is a new object with a null field.
LEMMA NewObject ==
  ASSUME IInv, ObjectInv, NEW r \in Regs, New(r)
  PROVE  Java!New(r, bump) /\ bump \in Addr
<1> DEFINE to == bump
           og == orig'
           rg == reg'
           new == [JavaLocal EXCEPT ![r] = to]
<1>i. /\ ArenaInv /\ MachineType
      /\ Addr \subseteq Loc /\ Roots \subseteq Loc /\ Roots \cap Regs = {} /\ 0 \notin Addr /\ Addr \subseteq Int
  BY ConstantsAssumption DEF IInv, TypeOK, Addr, Loc
<1>1. /\ to \in Addr /\ orig' = [orig EXCEPT ![to] = to] /\ reg' = [reg EXCEPT ![r] = Derive(to)]
      /\ out' = "nothing" /\ UNCHANGED <<mem, fwd>>
  BY DEF New, tableVars
<1>2. /\ og[to] = to /\ \A a \in Addr : a # to => og[a] = orig[a]
      /\ rg[r] = Derive(to) /\ \A x \in Regs : x # r => rg[x] = reg[x]
      /\ fwd[to] = 0 /\ orig[to] = 0 /\ mem[to].addr = 0
  BY <1>i, <1>1 DEF MachineType, ArenaInv, ObjectInv
<1>3. \A a \in Addr : orig[a] # to
  BY <1>i, <1>1, ConstantsAssumption DEF ArenaInv, MachineType, Addr0
<1>5. /\ \A l \in Loc : mem[l].addr = 0 \/ (mem[l].addr \in Addr /\ mem[l].addr # to)
      /\ \A x \in Regs : reg[x].addr = 0 \/ (reg[x].addr \in Addr /\ reg[x].addr # to)
  <2>1. \A l \in Loc : mem[l].addr \in Addr0 /\ mem[l].addr < to
    BY <1>i DEF MachineType, Cap, ArenaInv
  <2>2. \A x \in Regs : reg[x].addr \in Addr0 /\ reg[x].addr < to
    BY <1>i DEF MachineType, Cap, ArenaInv
  <2>3. \A a \in Addr0 : a < to => a = 0 \/ (a \in Addr /\ a # to)
    BY <1>1, ConstantsAssumption DEF Addr, Addr0
  <2> QED
    BY <2>1, <2>2, <2>3
<1>7. JavaBorn' = BornOf(og) /\ JavaRef' = RefOf(og, fwd, mem) /\ JavaLocal' = LocalOf(og, rg, mem)
  BY <1>1 DEF JavaBorn, JavaRef, JavaLocal
<1>a. \A o \in BornOf(orig) : LET c == CurrentOf(orig, fwd, o)
                              IN  c \in Addr /\ c # to /\ c < to /\ orig[c] = o /\ fwd[c] = 0
  <2>1. \A c \in Addr : c < to => c # to
    BY <1>i, <1>1
  <2> QED
    BY <2>1, CurrentBorn
<1>b. \A a, b \in Addr : a < to /\ orig[a] = orig[b] /\ fwd[a] = 0 /\ fwd[b] = 0 => a = b
  BY OneLast
<1>c. /\ new = [x \in Regs \cup Roots |-> new[x]] /\ new[r] = to
      /\ \A x \in Regs \cup Roots : x # r => new[x] = JavaLocal[x]
  BY JavaLocalShape, FunUpdate
<1> HIDE DEF to, og, rg, new
<1>8. BornOf(og) = BornOf(orig) \cup {to} /\ to \notin BornOf(orig) /\ BornOf(orig) \subseteq Addr
  BY <1>i, <1>1, <1>2 DEF BornOf
<1>9. \A c : c.addr = 0 \/ (c.addr \in Addr /\ c.addr # to) => IdOf(og, c) = IdOf(orig, c)
  BY <1>2 DEF IdOf
<1>10. CurrentOf(og, fwd, to) = to
  <2>1. \A b \in Addr : og[b] = og[to] => b = to
    BY <1>2, <1>3
  <2> QED
    <3>1. CurrentOf(og, fwd, og[to]) = to
      BY <1>1, <1>2, <2>1, CurrentUnique
    <3> QED
      BY <1>2, <3>1
<1>11. ASSUME NEW o \in BornOf(orig)
       PROVE  CurrentOf(og, fwd, o) = CurrentOf(orig, fwd, o)
  <2> DEFINE c == CurrentOf(orig, fwd, o)
  <2>1. c \in Addr /\ c # to /\ c < to /\ orig[c] = o /\ fwd[c] = 0 /\ o # to
    BY <1>a, <1>8
  <2> HIDE DEF c
  <2>2. og[c] = o
    BY <1>2, <2>1
  <2>3. ASSUME NEW b \in Addr, og[b] = og[c], fwd[b] = 0 PROVE b = c
    <3>1. b # to
      BY <1>2, <2>1, <2>2, <2>3
    <3>2. orig[b] = o
      BY <1>2, <2>2, <2>3, <3>1
    <3> QED
      BY <1>b, <2>1, <2>3, <3>2
  <2> QED
    BY <2>1, <2>2, <2>3, CurrentUnique DEF c
<1>12. RefOf(og, fwd, mem) = JavaRef
  <2>1. ASSUME NEW o \in BornOf(orig) PROVE JavaRef[o] = IdOf(og, mem[CurrentOf(og, fwd, o)])
    <3> DEFINE c == CurrentOf(orig, fwd, o)
    <3>1. c \in Loc /\ JavaRef[o] = IdOf(orig, mem[c]) /\ CurrentOf(og, fwd, o) = c
      BY <1>i, <1>a, <1>11, JavaRefShape
    <3> HIDE DEF c
    <3> QED
      BY <1>5, <1>9, <3>1
  <2>2. JavaRef[to] = IdOf(og, mem[CurrentOf(og, fwd, to)])
    BY <1>1, <1>2, <1>8, <1>10, JavaRefShape DEF IdOf
  <2> QED
    BY <1>8, <2>1, <2>2, JavaRefShape, RefEq
<1>13. LocalOf(og, rg, mem) = new
  <2>1. IdOf(og, Derive(to)) = to
    BY <1>i, <1>1, <1>2 DEF IdOf, Derive
  <2>2. ASSUME NEW x \in Regs PROVE new[x] = IdOf(og, rg[x])
    <3>1. CASE x = r
      BY <1>2, <1>c, <2>1, <3>1
    <3>2. CASE x # r
      <4>1. IdOf(og, reg[x]) = IdOf(orig, reg[x])
        BY <1>5, <1>9
      <4>2. rg[x] = reg[x] /\ new[x] = JavaLocal[x]
        BY <1>2, <1>c, <3>2
      <4> QED
        BY <4>1, <4>2, JavaLocalShape
    <3> QED
      BY <3>1, <3>2
  <2>3. ASSUME NEW x \in Roots PROVE new[x] = IdOf(og, mem[x])
    <3>1. x # r /\ x \in Loc
      BY <1>i
    <3> QED
      BY <1>5, <1>9, <1>c, <3>1, JavaLocalShape
  <2> QED
    BY <1>c, <2>2, <2>3, LocalEq
<1>14. Java!New(r, to)
  BY <1>1, <1>7, <1>8, <1>12, <1>13, JavaNew DEF JavaBorn, new
<1> QED
  BY <1>1, <1>14 DEF to

\* A heal or a root fixup: the object is the same, reached at its last copy.
LEMMA ForwardInvisible ==
  ASSUME IInv, RefInv, Heal \/ ScanFix
  PROVE  UNCHANGED Java!heapVars
<1>i. ObjectInv /\ KeyInv /\ MachineType /\ ShapeInv /\ ScanInv /\ Roots \subseteq Loc /\ Addr \subseteq Loc
  BY DEF RefInv, IInv, TypeOK, Loc
<1>1. LookupDone /\ Found # 0 /\ UNCHANGED <<orig, fwd, out>>
  BY DEF Heal, ScanFix, tableVars
<1>2. Found \in Addr /\ orig[Found] = orig[lk.from]
  BY <1>i, <1>1, FoundObject
<1>3. IdOf(orig, Derive(Found)) = orig[lk.from]
  BY <1>1, <1>2 DEF IdOf, Derive
<1>4. CASE Heal
  <2>1. /\ lk.use = "heal" /\ reg' = [reg EXCEPT ![lk.x] = Derive(Found)] /\ mem' = mem
        /\ lk.from = reg[lk.x].addr /\ lk.from # 0
    BY <1>4, <1>i DEF Heal, KeyInv, ShapeInv
  <2>2. IdOf(orig, Derive(Found)) = IdOf(orig, reg[lk.x])
    BY <1>3, <2>1 DEF IdOf
  <2>3. \A r \in Regs : reg'[r] = reg[r] \/ (r = lk.x /\ reg'[r] = Derive(Found))
    BY <1>i, <2>1 DEF MachineType
  <2>4. \A r \in Regs : IdOf(orig, reg'[r]) = IdOf(orig, reg[r])
    BY <2>2, <2>3
  <2> QED
    BY <1>i, <1>1, <2>1, <2>4, SameImage, JavaStutter
<1>5. CASE ScanFix
  <2>1. /\ lk.use = "scan" /\ mem' \in {mem, [mem EXCEPT ![lk.x] = Derive(Found)]} /\ reg' = reg
        /\ lk.from = mem[lk.x].addr /\ lk.from # 0
    BY <1>5, <1>i DEF ScanFix, ScanInv, ShapeInv
  <2>2. IdOf(orig, Derive(Found)) = IdOf(orig, mem[lk.x])
    BY <1>3, <2>1 DEF IdOf
  <2>3. \A l \in Loc : mem'[l] = mem[l] \/ (l = lk.x /\ mem'[l] = Derive(Found))
    BY <1>i, <2>1 DEF MachineType
  <2>4. \A l \in Loc : IdOf(orig, mem'[l]) = IdOf(orig, mem[l])
    BY <2>2, <2>3
  <2> QED
    BY <1>i, <1>1, <2>1, <2>4, SameImage, JavaStutter
<1> QED
  BY <1>4, <1>5

\* A comparison, fast or slow, tells whether the operands are one object.
LEMMA ComparedFast ==
  ASSUME ClearTags, IInv, ObjectInv, NEW x \in Regs, NEW y \in Regs, AcmpFast(x, y)
  PROVE  Java!Acmp(x, y)
<1>1. /\ op = "idle" /\ out' = Verdict(reg[x].addr = reg[y].addr) /\ UNCHANGED <<orig, fwd, mem, reg>>
      /\ reg[x].addr = reg[y].addr \/ (reg[x].tag /\ reg[y].tag)
  BY DEF AcmpFast, Running, tableVars
<1>2. JavaBorn' = JavaBorn /\ JavaRef' = JavaRef /\ JavaLocal' = JavaLocal
  BY <1>1, SameAddresses
<1>3. (JavaLocal[x] = JavaLocal[y]) <=> (reg[x].addr = reg[y].addr)
  <2>1. CASE reg[x].addr = reg[y].addr
    BY <2>1, JavaLocalShape DEF IdOf
  <2>2. CASE reg[x].addr # reg[y].addr
    <3>1. orig[reg[x].addr] # orig[reg[y].addr]
      BY <1>1, <2>2, TagsIdentity DEF TaggedMeansIdentity
    <3>2. reg[x].addr # 0 /\ reg[y].addr # 0
      BY <1>1, <2>2 DEF IInv, ShapeInv
    <3> QED
      BY <2>2, <3>1, <3>2, JavaLocalShape DEF IdOf
  <2> QED
    BY <2>1, <2>2
<1> QED
  BY <1>1, <1>2, <1>3, JavaAcmp DEF Verdict

LEMMA ComparedSlow ==
  ASSUME IInv, RefInv, ~ ChaseExceeded, AcmpDecide
  PROVE  lk.x \in Regs /\ lk.y \in Regs /\ Java!Acmp(lk.x, lk.y)
<1> DEFINE n == Normalized(reg[lk.y])
           x == reg[lk.x]
           y == reg[lk.y]
<1>i. ObjectInv /\ KeyInv /\ ArenaInv /\ MachineType /\ 0 \notin Addr
  BY ConstantsAssumption DEF RefInv, IInv, TypeOK, Addr
<1>1. /\ lk.use = "acmp2" /\ LookupDone /\ out' = Verdict(lk.n = n) /\ UNCHANGED <<orig, fwd, mem, reg>>
  BY DEF AcmpDecide, tableVars
<1>2. /\ lk.x \in Regs /\ lk.y \in Regs /\ op = "idle" /\ lk.from = NormalizeKey(y)
      /\ LastCopy(lk.n, x)
  BY <1>i, <1>1 DEF IInv, ShapeInv, LookupInv, KeyInv
<1>3. LastCopy(n, y)
  BY <1>i, <1>1, <1>2, NormalizedLast
<1>4. JavaBorn' = JavaBorn /\ JavaRef' = JavaRef /\ JavaLocal' = JavaLocal
  BY <1>i, <1>1, SameAddresses
<1>5. JavaLocal[lk.x] = IdOf(orig, x) /\ JavaLocal[lk.y] = IdOf(orig, y)
  BY <1>2, JavaLocalShape
<1>6. /\ x.addr # 0 => orig[x.addr] # 0
      /\ y.addr # 0 => orig[y.addr] # 0
  <2>1. \A c \in Cap : c.addr # 0 /\ c.addr < bump => orig[c.addr] # 0
    BY <1>i, ConstantsAssumption DEF Cap, ArenaInv, Addr, Addr0
  <2>2. x \in Cap /\ x.addr < bump /\ y \in Cap /\ y.addr < bump
    BY <1>i, <1>2 DEF MachineType, ArenaInv
  <2> QED
    BY <2>1, <2>2
<1> HIDE DEF n, x, y
<1>7. (IdOf(orig, x) = IdOf(orig, y)) <=> (lk.n = n)
  <2>1. CASE x.addr = 0 \/ y.addr = 0
    BY <1>i, <1>2, <1>3, <1>6, <2>1 DEF LastCopy, IdOf
  <2>2. CASE x.addr # 0 /\ y.addr # 0
    <3>1. /\ lk.n \in Addr /\ lk.n < bump /\ orig[lk.n] = orig[x.addr] /\ fwd[lk.n] = 0
          /\ n \in Addr /\ n < bump /\ orig[n] = orig[y.addr] /\ fwd[n] = 0
      BY <1>2, <1>3, <2>2 DEF LastCopy
    <3>2. orig[x.addr] = orig[y.addr] => lk.n = n
      BY <3>1, OneLast
    <3> QED
      BY <2>2, <3>1, <3>2 DEF IdOf
  <2> QED
    BY <2>1, <2>2
<1>8. out' = IF JavaLocal[lk.x] = JavaLocal[lk.y] THEN "same" ELSE "different"
  BY <1>1, <1>5, <1>7 DEF Verdict
<1> QED
  BY <1>2, <1>4, <1>8, JavaAcmp

\* Every step of the collector and of the mutators is a step of the program
\* on its objects, or invisible to it.
LEMMA JavaStep ==
  ASSUME SoundConfig, ClearTags, IInv, RefInv, ~ ChaseExceeded, [Next]_vars
  PROVE  [Java!Next]_(Java!heapVars)
<1> USE DEF machineVars, tableVars, kernelVars, cycleVars, collectorVars
<1>i. ObjectInv /\ MachineType /\ KernelType /\ Addr \subseteq Loc /\ Roots \subseteq Loc
  BY DEF RefInv, IInv, TypeOK, Loc
<1>1. CASE UNCHANGED <<bump, orig, fwd, mem, reg, out>>
  BY <1>1, <1>i, QuietStep
<1>2. CASE LookupHop \/ AcmpSecond
  BY <1>2, <1>i, QuietStep DEF LookupHop, AcmpSecond
<1>3. CASE Heal \/ ScanFix
  BY <1>3, ForwardInvisible
<1>4. CASE AcmpDecide
  BY <1>4, ComparedSlow DEF Java!Next
<1>5. CASE ScanMove
  BY <1>5, <1>i, MoveInvisible
<1>6. CASE OpenEpoch
  <2>1. UNCHANGED <<orig, fwd, mem, out>> /\ \A r \in Regs : reg'[r].addr = reg[r].addr
    BY <1>6, <1>i, RevokeType DEF OpenEpoch, MachineType
  <2> QED
    BY <1>i, <2>1, QuietStep
<1>7. CASE Sweep
  <2>1. UNCHANGED <<orig, fwd, out>> /\ \A r \in Regs : reg'[r].addr = reg[r].addr
    BY <1>7, <1>i, RevokeType DEF Sweep, MachineType
  <2>2. \A l \in Loc : mem'[l].addr = mem[l].addr
    BY <1>7, <1>i, RevokeType, LoadAddr DEF Sweep, MachineType
  <2> QED
    BY <1>i, <2>1, <2>2, QuietStep
<1>8. ASSUME NEW r \in Regs, New(r) PROVE Java!Next
  BY <1>8, <1>i, NewObject DEF Java!Next
<1>9. ASSUME NEW r \in Regs, Fault(r) \/ HealOther(r) PROVE UNCHANGED Java!heapVars
  BY <1>9, <1>i, QuietStep DEF Fault, HealOther
<1>10. ASSUME NEW r \in Regs, NEW s \in Roots, LoadRoot(r, s) PROVE Java!Next
  <2>1. /\ reg' = [reg EXCEPT ![r] = Load(s)] /\ mem' = MemAfterLoad(s) /\ out' = "nothing"
        /\ UNCHANGED <<orig, fwd>>
    BY <1>10 DEF LoadRoot
  <2>2. \A l \in Loc : mem'[l].addr = mem[l].addr
    BY <1>i, <2>1, LoadAddr
  <2>3. IdOf(orig, Load(s)) = JavaLocal[s]
    BY <1>i, LoadAddr, JavaLocalShape DEF IdOf
  <2> DEFINE c == Load(s)
  <2> HIDE DEF c
  <2>4. reg' = [reg EXCEPT ![r] = c] /\ IdOf(orig, c) = JavaLocal[s]
    BY <2>1, <2>3 DEF c
  <2>5. /\ JavaBorn' = JavaBorn /\ JavaRef' = JavaRef
        /\ JavaLocal' = [JavaLocal EXCEPT ![r] = IdOf(orig, c)]
    BY <1>i, <2>1, <2>2, <2>4, RegisterWritten
  <2>6. Java!Copy(r, s)
    BY <2>1, <2>4, <2>5, JavaCopy
  <2> QED
    BY <2>6 DEF Java!Next
<1>11. ASSUME NEW r \in Regs, NEW s \in Roots, StoreRoot(s, r) PROVE Java!Next
  <2>1. mem' = [mem EXCEPT ![s] = reg[r]] /\ out' = "nothing" /\ UNCHANGED <<orig, fwd, reg>>
    BY <1>11 DEF StoreRoot
  <2>2. IdOf(orig, reg[r]) = JavaLocal[r]
    BY JavaLocalShape
  <2>3. Java!Copy(s, r)
    BY <1>i, <2>1, <2>2, RootWritten, JavaCopy
  <2> QED
    BY <2>3 DEF Java!Next
<1>12. ASSUME NEW r \in Regs, NEW b \in Regs, GetField(r, b) PROVE Java!Next
  <2> DEFINE l == reg[b].addr
  <2>1. /\ op = "idle" /\ Live(reg[b]) /\ reg' = [reg EXCEPT ![r] = Load(l)] /\ mem' = MemAfterLoad(l)
        /\ out' = "nothing" /\ UNCHANGED <<orig, fwd>>
    BY <1>12 DEF GetField, Running
  <2>2. l \in Addr /\ JavaLocal[b] # 0 /\ JavaRef[JavaLocal[b]] = IdOf(orig, mem[l])
    BY <1>i, <2>1, LiveCurrent
  <2>3. \A k \in Loc : mem'[k].addr = mem[k].addr
    BY <1>i, <2>1, <2>2, LoadAddr
  <2>4. IdOf(orig, Load(l)) = JavaRef[JavaLocal[b]]
    BY <1>i, <2>2, LoadAddr DEF IdOf
  <2> DEFINE c == Load(l)
  <2> HIDE DEF l, c
  <2>5. reg' = [reg EXCEPT ![r] = c] /\ IdOf(orig, c) = JavaRef[JavaLocal[b]]
    BY <2>1, <2>4 DEF c
  <2>6. /\ JavaBorn' = JavaBorn /\ JavaRef' = JavaRef
        /\ JavaLocal' = [JavaLocal EXCEPT ![r] = IdOf(orig, c)]
    BY <1>i, <2>1, <2>3, <2>5, RegisterWritten
  <2>7. Java!GetField(r, b)
    BY <2>1, <2>2, <2>5, <2>6, JavaGetField
  <2> QED
    BY <2>7 DEF Java!Next
<1>13. ASSUME NEW r \in Regs, NEW b \in Regs, PutField(b, r) PROVE Java!Next
  <2> DEFINE l == reg[b].addr
             o == JavaLocal[b]
  <2>1. /\ op = "idle" /\ Live(reg[b]) /\ mem' = [mem EXCEPT ![l] = reg[r]]
        /\ out' = "nothing" /\ UNCHANGED <<orig, fwd, reg>>
    BY <1>13 DEF PutField, Running
  <2>2. o # 0 /\ o \in BornOf(orig) /\ CurrentOf(orig, fwd, o) = l
    BY <1>i, <2>1, LiveCurrent
  <2>3. IdOf(orig, reg[r]) = JavaLocal[r]
    BY JavaLocalShape
  <2> HIDE DEF l, o
  <2>4. JavaBorn' = JavaBorn /\ JavaLocal' = JavaLocal /\ JavaRef' = [JavaRef EXCEPT ![o] = JavaLocal[r]]
    BY <1>i, <2>1, <2>2, <2>3, FieldWritten
  <2>5. Java!PutField(b, r)
    BY <2>1, <2>2, <2>4, JavaPutField DEF o
  <2> QED
    BY <2>5 DEF Java!Next
<1>14. ASSUME NEW x \in Regs, NEW y \in Regs, AcmpFast(x, y) PROVE Java!Next
  BY <1>14, <1>i, ComparedFast DEF Java!Next
<1>15. ASSUME NEW x \in Regs, NEW y \in Regs, AcmpSlow(x, y) PROVE UNCHANGED Java!heapVars
  BY <1>15, <1>i, QuietStep DEF AcmpSlow
<1>16. ASSUME NEW s \in Roots, ScanRoot(s) PROVE UNCHANGED Java!heapVars
  BY <1>16, <1>i, LoadAddr, QuietStep DEF ScanRoot
<1>17. ASSUME NEW l \in Loc, CloseScan(l) PROVE UNCHANGED Java!heapVars
  BY <1>17, <1>i, LoadAddr, QuietStep DEF CloseScan
<1> QED
  BY <1>1, <1>2, <1>3, <1>4, <1>5, <1>6, <1>7, <1>8, <1>9, <1>10, <1>11, <1>12, <1>13, <1>14, <1>15,
     <1>16, <1>17, StepKinds

LEMMA JavaStart == Init => Java!Init
<1> SUFFICES ASSUME Init PROVE Java!Init
  OBVIOUS
<1>1. /\ orig = [a \in Addr |-> 0] /\ mem = [l \in Loc |-> NullCap] /\ reg = [r \in Regs |-> NullCap]
      /\ out = "nothing" /\ 0 \notin Addr /\ Roots \subseteq Loc
  BY ConstantsAssumption DEF Init, Addr, Loc
<1>2. BornOf(orig) = {}
  BY <1>1 DEF BornOf
<1>3. JavaRef = [o \in Addr |-> 0]
  BY <1>2 DEF JavaRef, RefOf
<1>4. \A x \in Regs : reg[x].addr = 0
  BY <1>1 DEF NullCap
<1>5. \A x \in Roots : mem[x].addr = 0
  BY <1>1 DEF NullCap
<1>6. \A x \in Regs \cup Roots : JavaLocal[x] = 0
  BY <1>4, <1>5, JavaLocalShape DEF IdOf
<1>7. JavaLocal = [x \in Regs \cup Roots |-> 0]
  BY <1>6, JavaLocalShape
<1> QED
  BY <1>1, <1>2, <1>3, <1>7, JavaInit DEF JavaBorn

\* The program cannot tell that objects move (StoplessHeap, the SIGPROT heal,
\* stopless_acmp_eq): every behaviour in which no chase outruns FT_CHASE_MAX
\* is, on a kernel that clears tags, a behaviour of JavaHeap.
THEOREM Refinement ==
  ASSUME SoundConfig, ClearTags
  PROVE  Spec /\ []~ ChaseExceeded => ImplementsJavaHeap
<1>1. IInv /\ RefInv /\ ~ ChaseExceeded /\ [Next]_vars => RefInv'
  BY RefInvStep
<1>2. IInv /\ RefInv /\ ~ ChaseExceeded /\ [Next]_vars => [Java!Next]_(Java!heapVars)
  BY JavaStep
<1>3. Spec /\ []~ ChaseExceeded => []RefInv
  BY Invariance, RefInit, <1>1, PTL DEF Spec
<1> QED
  BY Invariance, JavaStart, <1>2, <1>3, PTL DEF Spec, ImplementsJavaHeap, Java!HeapSpec

-----------------------------------------------------------------------------
(* When a chase gives up: it has passed as many old copies as it has hops, *)
(* all of one object.                                                      *)

\* The copies of object o that have been moved away from.
OldCopies(o) == {a \in Addr : Moved(a) /\ orig[a] = o}

MovedAtMost(n) == \A o \in Addr0 : Cardinality(OldCopies(o)) <= n

Passed == {a \in OldCopies(orig[lk.at]) : a < lk.at}

HopsInv == IF lk.from = 0 THEN lk.hops = 0 ELSE lk.hops <= Cardinality(Passed)

LEMMA AddrFinite == \A S \in SUBSET Addr : IsFiniteSet(S) /\ Cardinality(S) \in Nat
<1>1. IsFiniteSet(Addr)
  BY FS_Interval, ConstantsAssumption DEF Addr
<1> QED
  BY <1>1, FS_Subset, FS_CardinalityType

LEMMA HopsStep ==
  ASSUME IInv, HopsInv, [Next]_vars
  PROVE  HopsInv'
<1> USE DEF machineVars, tableVars, kernelVars, cycleVars, collectorVars
<1>1. ASSUME lk' = lk, fwd' = fwd, \A a \in Addr : a < bump => orig'[a] = orig[a]
      PROVE  HopsInv'
  <2>1. CASE lk.from = 0
    BY <1>1, <2>1 DEF HopsInv
  <2>2. CASE lk.from # 0
    <3>1. lk.at \in Addr /\ lk.at < bump
      BY <2>2, ConstantsAssumption DEF IInv, ShapeInv, LookupInv, TypeOK, TableType, Lookups, Addr, Addr0
    <3>2. \A a \in Addr : Moved(a) => a < bump
      BY ConstantsAssumption DEF IInv, ArenaInv, Moved, TypeOK, MachineType, Addr
    <3>3. Passed' = Passed
      BY <1>1, <3>1, <3>2 DEF Passed, OldCopies, Moved
    <3> QED
      BY <1>1, <2>2, <3>3 DEF HopsInv
  <2> QED
    BY <2>1, <2>2
<1>2. CASE lk' = NoLookup
  BY <1>2 DEF HopsInv, NoLookup
<1>3. ASSUME NEW use, NEW x, NEW y, NEW n, NEW from, lk' = StartLookup(use, x, y, n, from)
      PROVE  HopsInv'
  <2>1. lk'.from = from /\ lk'.hops = 0
    BY <1>3 DEF StartLookup
  <2>2. Passed' \in SUBSET Addr
    BY DEF Passed, OldCopies
  <2>3. Cardinality(Passed') \in Nat
    BY <2>2, AddrFinite
  <2> QED
    BY <2>1, <2>3 DEF HopsInv
<1>4. CASE LookupHop
  <2>1. lk.from # 0 /\ fwd[lk.at] # 0 /\ lk' = [lk EXCEPT !.at = fwd[lk.at], !.hops = @ + 1] /\ lk \in Lookups
        /\ UNCHANGED <<orig, fwd>>
    BY <1>4 DEF LookupHop, NextHit, IInv, TypeOK, TableType
  <2>2. lk.at \in Addr
    BY <2>1, ConstantsAssumption DEF IInv, ShapeInv, Lookups, Addr, Addr0
  <2>3. fwd[lk.at] > lk.at /\ orig[fwd[lk.at]] = orig[lk.at] /\ fwd[lk.at] \in Addr0
    BY <2>1, <2>2 DEF IInv, ForwardInv, Moved, TypeOK, TableType
  <2>4. lk'.from = lk.from /\ lk'.hops = lk.hops + 1 /\ lk'.at = fwd[lk.at]
    BY <2>1 DEF Lookups
  <2>5. Passed \cup {lk.at} \in SUBSET Passed' /\ Passed' \in SUBSET Addr /\ Passed \in SUBSET Addr /\ lk.at \notin Passed
    BY <2>1, <2>2, <2>3, <2>4, ConstantsAssumption DEF Passed, OldCopies, Moved, Addr, Addr0
  <2>6. Cardinality(Passed \cup {lk.at}) = Cardinality(Passed) + 1
    BY <2>5, AddrFinite, FS_AddElement
  <2>7. Cardinality(Passed \cup {lk.at}) <= Cardinality(Passed')
    BY <2>5, AddrFinite, FS_Subset
  <2>8. Cardinality(Passed) \in Nat /\ Cardinality(Passed') \in Nat /\ lk.hops \in Nat
    BY <2>1, <2>5, AddrFinite DEF Lookups
  <2> QED
    BY <2>1, <2>4, <2>6, <2>7, <2>8 DEF HopsInv
<1>6. CASE AcmpSecond
  BY <1>3, <1>6 DEF AcmpSecond
<1>7. ASSUME NEW r \in Regs, Fault(r) \/ HealOther(r) PROVE HopsInv'
  BY <1>3, <1>7 DEF Fault, HealOther
<1>8. ASSUME NEW x \in Regs, NEW y \in Regs, AcmpSlow(x, y) PROVE HopsInv'
  BY <1>3, <1>8 DEF AcmpSlow
<1>9. ASSUME NEW s \in Roots, ScanRoot(s) PROVE HopsInv'
  BY <1>2, <1>3, <1>9 DEF ScanRoot
<1>10. CASE Heal \/ AcmpDecide \/ ScanFix
  BY <1>2, <1>10 DEF Heal, AcmpDecide, ScanFix
<1>11. CASE ScanMove
  BY <1>2, <1>11 DEF ScanMove
<1>12. CASE OpenEpoch \/ Sweep
  BY <1>1, <1>12 DEF OpenEpoch, Sweep
<1>13. ASSUME NEW r \in Regs, NEW s \in Roots, LoadRoot(r, s) \/ StoreRoot(s, r) PROVE HopsInv'
  BY <1>1, <1>13 DEF LoadRoot, StoreRoot
<1>14. ASSUME NEW r \in Regs, NEW b \in Regs, New(r) \/ GetField(r, b) \/ PutField(b, r) \/ AcmpFast(r, b)
       PROVE  HopsInv'
  BY <1>1, <1>14 DEF IInv, TypeOK, MachineType, New, GetField, PutField, AcmpFast
<1>15. ASSUME NEW l \in Loc, CloseScan(l) PROVE HopsInv'
  BY <1>1, <1>15 DEF CloseScan
<1> QED
  BY <1>1, <1>2, <1>4, <1>6, <1>7, <1>8, <1>9, <1>10, <1>11, <1>12, <1>13, <1>14, <1>15, StepKinds

\* The chase of forward_table_lookup gives up only on an object that has been
\* moved more than FT_CHASE_MAX times: hops are never spent on another object's
\* copies, nor on one copy twice.
THEOREM ChaseOutrun ==
  ASSUME SoundConfig
  PROVE  Spec => [](ChaseExceeded => ~ MovedAtMost(ChaseMax))
<1>1. Init => HopsInv
  BY DEF Init, HopsInv, NoLookup
<1>2. IInv /\ HopsInv /\ [Next]_vars => HopsInv'
  BY HopsStep
<1>3. IInv /\ HopsInv => (ChaseExceeded => ~ MovedAtMost(ChaseMax))
  <2> SUFFICES ASSUME IInv, HopsInv, ChaseExceeded PROVE ~ MovedAtMost(ChaseMax)
    OBVIOUS
  <2> DEFINE o == orig[lk.at]
  <2>1. lk.hops \in Nat /\ lk.hops > ChaseMax /\ ChaseMax \in Nat
    BY ConstantsAssumption DEF IInv, TypeOK, TableType, Lookups, ChaseExceeded
  <2>2. lk.from # 0 /\ lk.hops <= Cardinality(Passed)
    BY <2>1 DEF HopsInv
  <2>3. o \in Addr0
    BY <2>2, ConstantsAssumption
       DEF IInv, ShapeInv, TypeOK, TableType, MachineType, Lookups, Addr, Addr0
  <2>4. Passed \in SUBSET OldCopies(o) /\ Passed \in SUBSET Addr /\ OldCopies(o) \in SUBSET Addr
    BY DEF Passed, OldCopies
  <2>5. Cardinality(Passed) <= Cardinality(OldCopies(o))
    BY <2>4, AddrFinite, FS_Subset
  <2>6. Cardinality(Passed) \in Nat /\ Cardinality(OldCopies(o)) \in Nat
    BY <2>4, AddrFinite
  <2>7. ~ (Cardinality(OldCopies(o)) <= ChaseMax)
    BY <2>1, <2>2, <2>5, <2>6
  <2> QED
    BY <2>3, <2>7 DEF MovedAtMost
<1> QED
  BY Invariance, <1>1, <1>2, <1>3, PTL DEF Spec

\* ... so that the program cannot tell that objects move (StoplessHeap, the
\* SIGPROT heal, stopless_acmp_eq) until one has moved more than FT_CHASE_MAX
\* times, however many objects there are and however large the arena is.
THEOREM RefinementWithinMoves ==
  ASSUME SoundConfig, ClearTags
  PROVE  Spec /\ []MovedAtMost(ChaseMax) => ImplementsJavaHeap
BY Refinement, ChaseOutrun, PTL
=============================================================================
