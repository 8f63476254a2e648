-------------------------- MODULE StoplessGC_Types --------------------------
(***************************************************************************)
(* Type correctness of StoplessGC, proved for every arena, every number of *)
(* roots and registers and every configuration, sound or not, and the      *)
(* lemmas on capabilities and lookups the other proofs use.                *)
(***************************************************************************)
EXTENDS StoplessGC, TLAPS

-----------------------------------------------------------------------------
(* Capabilities and lookups.                                               *)

LEMMA RevokeType ==
  ASSUME NEW c \in Cap, NEW s
  PROVE  /\ Revoke(c, s) \in Cap
         /\ Revoke(c, s).addr = c.addr
BY DEF Revoke, Cap

\* Revocation never sets a tag or a permission.
LEMMA RevokeTag ==
  ASSUME NEW c \in Cap, NEW s
  PROVE  /\ Revoke(c, s).tag => c.tag
         /\ Revoke(c, s).perm => c.perm
BY DEF Revoke, Cap

LEMMA LoadType ==
  ASSUME MachineType, KernelType, NEW l \in Loc
  PROVE  /\ Load(l) \in Cap
         /\ Load(l).addr = mem[l].addr
         /\ MemAfterLoad(l) \in [Loc -> Cap]
         /\ CleanAfterLoad(l) \in SUBSET Loc
<1>1. mem[l] \in Cap
  BY DEF MachineType
<1>2. Load(l) \in Cap /\ Load(l).addr = mem[l].addr
  BY <1>1, RevokeType DEF Load
<1>3. MemAfterLoad(l) \in [Loc -> Cap]
  BY <1>2 DEF MemAfterLoad, MachineType
<1>4. CleanAfterLoad(l) \in SUBSET Loc
  BY DEF CleanAfterLoad, KernelType
<1>5. QED
  BY <1>2, <1>3, <1>4

\* A load, too, leaves no tagged null behind.
LEMMA LoadTag ==
  ASSUME MachineType, KernelType, ShapeInv, NEW l \in Loc
  PROVE  /\ Load(l).tag => Load(l).addr # 0
         /\ \A m \in Loc : MemAfterLoad(l)[m].tag => MemAfterLoad(l)[m].addr # 0
<1>1. mem[l] \in Cap
  BY DEF MachineType
<1>2. Load(l).tag => Load(l).addr # 0
  BY <1>1, RevokeType, RevokeTag DEF Load, ShapeInv
<1>3. QED
  BY <1>2 DEF MemAfterLoad, MachineType, ShapeInv

LEMMA CapTypes ==
  /\ NullCap \in Cap
  /\ \A a \in Addr0 : Derive(a) \in Cap
BY ConstantsAssumption DEF NullCap, Derive, Cap, Addr0

LEMMA LookupTypes ==
  /\ NoLookup \in Lookups
  /\ \A use \in {"heal", "acmp1", "acmp2", "scan"}, x \in Regs \cup Roots,
       y \in Regs \cup {Nothing}, n \in Addr0, from \in Addr0 :
         StartLookup(use, x, y, n, from) \in Lookups
<1>1. 0 \in Addr0
  BY ConstantsAssumption DEF Addr0
<1>2. QED
  BY <1>1 DEF NoLookup, Lookups, StartLookup

LEMMA LookupExcept ==
  ASSUME NEW k \in Lookups, NEW a \in Addr0
  PROVE  [k EXCEPT !.at = a, !.hops = @ + 1] \in Lookups
<1>1. k.hops + 1 \in Nat
  BY DEF Lookups
<1> QED
  BY <1>1 DEF Lookups

LEMMA FoundType ==
  ASSUME TableType
  PROVE  Found \in Addr0
BY ConstantsAssumption DEF TableType, Found, Lookups, Addr0

-----------------------------------------------------------------------------
(* Type correctness.                                                       *)

\* What type correctness needs of the state besides TypeOK.
TypeInv == TypeOK /\ ShapeInv

LEMMA TypeInit == Init => TypeInv
<1> SUFFICES ASSUME Init PROVE TypeInv
  OBVIOUS
<1>1. MachineType
  BY ConstantsAssumption, CapTypes DEF Init, MachineType, Addr, Addr0
<1>2. TableType /\ KernelType
  BY ConstantsAssumption, LookupTypes DEF Init, TableType, KernelType, Addr0
<1>3. ControlType
  BY ConstantsAssumption DEF Init, ControlType
<1>4. FlagType
  BY DEF Init, FlagType
<1>5. ShapeInv
  BY DEF Init, ShapeInv, NullCap, NoLookup
<1> QED
  BY <1>1, <1>2, <1>3, <1>4, <1>5 DEF TypeInv, TypeOK

\* A part whose variables are unchanged keeps its type.
LEMMA Untouched ==
  /\ MachineType /\ UNCHANGED machineVars => MachineType'
  /\ TableType /\ UNCHANGED <<tableVars, lk>> => TableType'
  /\ KernelType /\ UNCHANGED kernelVars => KernelType'
  /\ ControlType /\ UNCHANGED <<op, todo, movedFrom, room, cycle, col, faults>> => ControlType'
  /\ FlagType /\ UNCHANGED <<pending, markedPending>> => FlagType'
  /\ ShapeInv /\ UNCHANGED <<reg, mem, lk>> => ShapeInv'
<1>1. MachineType /\ UNCHANGED machineVars => MachineType'
  BY DEF MachineType, machineVars
<1>2. TableType /\ UNCHANGED <<tableVars, lk>> => TableType'
  BY DEF TableType, tableVars
<1>3. KernelType /\ UNCHANGED kernelVars => KernelType'
  BY DEF KernelType, kernelVars
<1>4. ControlType /\ UNCHANGED <<op, todo, movedFrom, room, cycle, col, faults>> => ControlType'
  BY DEF ControlType
<1>5. FlagType /\ UNCHANGED <<pending, markedPending>> => FlagType'
  BY DEF FlagType
<1>6. ShapeInv /\ UNCHANGED <<reg, mem, lk>> => ShapeInv'
  BY DEF ShapeInv
<1> QED
  BY <1>1, <1>2, <1>3, <1>4, <1>5, <1>6

LEMMA TypeStep ==
  ASSUME TypeInv, [Next]_vars
  PROVE  TypeInv'
<1> USE ConstantsAssumption DEF TypeInv, TypeOK, machineVars, tableVars, kernelVars, cycleVars, collectorVars
<1>t. MachineType /\ TableType /\ KernelType /\ ControlType /\ FlagType /\ ShapeInv
  OBVIOUS
<1>c. /\ Addr = 1 .. MaxAddr /\ Addr0 = 0 .. MaxAddr
      /\ Addr \subseteq Addr0 /\ 0 \in Addr0 /\ Addr \subseteq Loc /\ Roots \subseteq Loc
  BY DEF Addr, Addr0, Loc
<1>f. Found \in Addr0
  BY FoundType
<1>1. ASSUME NEW r \in Regs, New(r) PROVE TypeInv'
  <2>1. MachineType'
    BY <1>1, <1>t, <1>c, CapTypes DEF New, MachineType
  <2>2. ShapeInv'
    BY <1>1, <1>t, <1>c DEF New, ShapeInv, MachineType, Derive
  <2> QED
    BY <2>1, <2>2, <1>1, <1>t, Untouched DEF New
<1>2. ASSUME NEW r \in Regs, Fault(r) PROVE TypeInv'
  <2>1. TableType'
    BY <1>2, <1>t, <1>c, LookupTypes DEF Fault, TableType, MachineType, Cap
  <2>2. ShapeInv'
    BY <1>2, <1>t, <1>c DEF Fault, ShapeInv, StartLookup
  <2> QED
    BY <2>1, <2>2, <1>2, <1>t, Untouched DEF Fault
<1>3. ASSUME NEW r \in Regs, NEW s \in Roots, LoadRoot(r, s) PROVE TypeInv'
  <2>1. MachineType'
    BY <1>3, <1>t, <1>c, LoadType DEF LoadRoot, MachineType
  <2>2. KernelType'
    BY <1>3, <1>t, <1>c, LoadType DEF LoadRoot, KernelType
  <2>3. ShapeInv'
    BY <1>3, <1>t, <1>c, LoadTag, LoadType DEF LoadRoot, ShapeInv, MachineType
  <2> QED
    BY <2>1, <2>2, <2>3, <1>3, <1>t, Untouched DEF LoadRoot
<1>4. ASSUME NEW r \in Regs, NEW s \in Roots, StoreRoot(s, r) PROVE TypeInv'
  <2>1. MachineType'
    BY <1>4, <1>t, <1>c DEF StoreRoot, MachineType
  <2>2. ShapeInv'
    BY <1>4, <1>t, <1>c DEF StoreRoot, ShapeInv, MachineType
  <2> QED
    BY <2>1, <2>2, <1>4, <1>t, Untouched DEF StoreRoot
<1>5. ASSUME NEW r \in Regs, NEW b \in Regs, GetField(r, b) PROVE TypeInv'
  <2>a. reg[b].addr \in Addr
    BY <1>5, <1>t, <1>c DEF GetField, Live, MachineType, Cap, ShapeInv
  <2>1. MachineType'
    BY <1>5, <1>t, <1>c, LoadType, <2>a DEF GetField, MachineType
  <2>2. KernelType'
    BY <1>5, <1>t, <1>c, LoadType, <2>a DEF GetField, KernelType
  <2>3. ShapeInv'
    BY <1>5, <1>t, <1>c, LoadTag, <2>a DEF GetField, ShapeInv, MachineType
  <2> QED
    BY <2>1, <2>2, <2>3, <1>5, <1>t, Untouched DEF GetField
<1>6. ASSUME NEW r \in Regs, NEW b \in Regs, PutField(b, r) PROVE TypeInv'
  <2>a. reg[b].addr \in Addr
    BY <1>6, <1>t, <1>c DEF PutField, Live, MachineType, Cap, ShapeInv
  <2>1. MachineType'
    BY <1>6, <1>t, <1>c, <2>a DEF PutField, MachineType
  <2>2. ShapeInv'
    BY <1>6, <1>t, <1>c, <2>a DEF PutField, ShapeInv, MachineType
  <2> QED
    BY <2>1, <2>2, <1>6, <1>t, Untouched DEF PutField
<1>7. ASSUME NEW x \in Regs, NEW y \in Regs, AcmpFast(x, y) PROVE TypeInv'
  <2>1. MachineType'
    BY <1>7, <1>t, <1>c DEF AcmpFast, MachineType, Verdict
  <2>2. ShapeInv'
    BY <1>7, <1>t, <1>c DEF AcmpFast, ShapeInv
  <2> QED
    BY <2>1, <2>2, <1>7, <1>t, Untouched DEF AcmpFast
<1>8. ASSUME NEW x \in Regs, NEW y \in Regs, AcmpSlow(x, y) PROVE TypeInv'
  <2>1. TableType'
    BY <1>8, <1>t, <1>c, LookupTypes DEF AcmpSlow, TableType, MachineType, Cap, NormalizeKey
  <2>2. ShapeInv'
    BY <1>8, <1>t, <1>c DEF AcmpSlow, ShapeInv, StartLookup
  <2> QED
    BY <2>1, <2>2, <1>8, <1>t, Untouched DEF AcmpSlow
<1>9. CASE LookupHop
  <2>a. lk \in Lookups /\ lk.at \in Addr /\ fwd[lk.at] \in Addr0
    BY <1>9, <1>t, <1>c DEF LookupHop, NextHit, TableType, Lookups, ShapeInv
  <2>b. lk' \in Lookups
    BY <1>9, <2>a, LookupExcept DEF LookupHop
  <2>1. TableType'
    BY <1>9, <1>t, <2>b DEF LookupHop, TableType
  <2>2. ShapeInv'
    BY <1>9, <1>t, <1>c DEF LookupHop, ShapeInv, TableType, Lookups, NextHit
  <2> QED
    BY <2>1, <2>2, <1>9, <1>t, Untouched DEF LookupHop
<1>10. CASE Heal
  <2>1. MachineType'
    BY <1>10, <1>t, <1>c, CapTypes, <1>f DEF Heal, MachineType
  <2>2. TableType'
    BY <1>10, <1>t, <1>c, LookupTypes DEF Heal, TableType
  <2>3. ShapeInv'
    BY <1>10, <1>t, <1>c DEF Heal, ShapeInv, MachineType, Derive, NoLookup
  <2> QED
    BY <2>1, <2>2, <2>3, <1>10, <1>t, Untouched DEF Heal
<1>11. CASE HealFails
  <2>1. TableType'
    BY <1>11, <1>t, <1>c, LookupTypes DEF HealFails, TableType
  <2>2. ControlType'
    BY <1>11, <1>t, <1>c DEF HealFails, ControlType
  <2>3. ShapeInv'
    BY <1>11, <1>t, <1>c DEF HealFails, ShapeInv, NoLookup
  <2> QED
    BY <2>1, <2>2, <2>3, <1>11, <1>t, Untouched DEF HealFails
<1>12. CASE AcmpSecond
  <2>1. TableType'
    BY <1>12, <1>t, <1>c, LookupTypes, <1>f DEF AcmpSecond, TableType, MachineType, Cap, NormalizeKey, Normalized, ShapeInv
  <2>2. ShapeInv'
    BY <1>12, <1>t, <1>c DEF AcmpSecond, ShapeInv, StartLookup
  <2> QED
    BY <2>1, <2>2, <1>12, <1>t, Untouched DEF AcmpSecond
<1>13. CASE AcmpDecide
  <2>1. MachineType'
    BY <1>13, <1>t, <1>c DEF AcmpDecide, MachineType, Verdict
  <2>2. TableType'
    BY <1>13, <1>t, <1>c, LookupTypes DEF AcmpDecide, TableType
  <2>3. ShapeInv'
    BY <1>13, <1>t, <1>c DEF AcmpDecide, ShapeInv, NoLookup
  <2> QED
    BY <2>1, <2>2, <2>3, <1>13, <1>t, Untouched DEF AcmpDecide
<1>14. CASE SystemGC
  <2>1. TableType'
    BY <1>14, <1>t, <1>c DEF SystemGC, BeginCycle, TableType, GrownCaps
  <2>2. ControlType'
    BY <1>14, <1>t, <1>c DEF SystemGC, BeginCycle, ControlType, CycleLimit
  <2>3. ShapeInv'
    BY <1>14, <1>t, <1>c DEF SystemGC, BeginCycle, ShapeInv
  <2> QED
    BY <2>1, <2>2, <2>3, <1>14, <1>t, Untouched DEF SystemGC, BeginCycle
<1>15. CASE CollectorCycle
  <2>1. TableType'
    BY <1>15, <1>t, <1>c DEF CollectorCycle, BeginCycle, TableType, GrownCaps
  <2>2. ControlType'
    BY <1>15, <1>t, <1>c DEF CollectorCycle, BeginCycle, ControlType, CycleLimit
  <2>3. ShapeInv'
    BY <1>15, <1>t, <1>c DEF CollectorCycle, BeginCycle, ShapeInv
  <2> QED
    BY <2>1, <2>2, <2>3, <1>15, <1>t, Untouched DEF CollectorCycle, BeginCycle
<1>16. ASSUME NEW s \in Roots, ScanRoot(s) PROVE TypeInv'
  <2>1. MachineType'
    BY <1>16, <1>t, <1>c, LoadType DEF ScanRoot, MachineType
  <2>2. TableType'
    BY <1>16, <1>t, <1>c, LookupTypes DEF ScanRoot, TableType, MachineType, Cap
  <2>3. KernelType'
    BY <1>16, <1>t, <1>c, LoadType DEF ScanRoot, KernelType
  <2>4. ControlType'
    BY <1>16, <1>t, <1>c DEF ScanRoot, ControlType
  <2>5. ShapeInv'
    BY <1>16, <1>t, <1>c, LoadTag DEF ScanRoot, ShapeInv, MachineType, StartLookup, NoLookup
  <2> QED
    BY <2>1, <2>2, <2>3, <2>4, <2>5, <1>16, <1>t, Untouched DEF ScanRoot
<1>17. CASE ScanFix
  <2>1. MachineType'
    BY <1>17, <1>t, <1>c, CapTypes, <1>f DEF ScanFix, MachineType
  <2>2. TableType'
    BY <1>17, <1>t, <1>c, LookupTypes DEF ScanFix, TableType
  <2>3. ShapeInv'
    BY <1>17, <1>t, <1>c DEF ScanFix, ShapeInv, MachineType, Derive, NoLookup
  <2> QED
    BY <2>1, <2>2, <2>3, <1>17, <1>t, Untouched DEF ScanFix
<1>18. CASE ScanLeave
  <2>1. TableType'
    BY <1>18, <1>t, <1>c, LookupTypes DEF ScanLeave, TableType
  <2>2. ShapeInv'
    BY <1>18, <1>t, <1>c DEF ScanLeave, ShapeInv, NoLookup
  <2> QED
    BY <2>1, <2>2, <1>18, <1>t, Untouched DEF ScanLeave
<1>19. CASE ScanFails
  <2>1. TableType'
    BY <1>19, <1>t, <1>c, LookupTypes DEF ScanFails, TableType
  <2>2. ControlType'
    BY <1>19, <1>t, <1>c DEF ScanFails, ControlType
  <2>3. ShapeInv'
    BY <1>19, <1>t, <1>c DEF ScanFails, ShapeInv, NoLookup
  <2> QED
    BY <2>1, <2>2, <2>3, <1>19, <1>t, Untouched DEF ScanFails
<1>20. CASE ScanMove
  <2> DEFINE from == mem[lk.x].addr
  <2>x. lk.x \in Roots /\ bump \in Addr
    BY <1>20, <1>t DEF ScanMove, ShapeInv
  <2>y. mem[lk.x] \in Cap /\ mem[lk.x].tag
    BY <1>20, <1>t, <1>c, <2>x DEF ScanMove, Live, MachineType
  <2>z. mem[lk.x].addr # 0
    BY <1>t, <1>c, <2>x, <2>y DEF ShapeInv
  <2>a. from \in Addr
    BY <1>c, <2>y, <2>z DEF Cap
  <2>b. /\ Load(from) \in Cap /\ (Load(from).tag => Load(from).addr # 0)
        /\ MemAfterLoad(from) \in [Loc -> Cap] /\ CleanAfterLoad(from) \in SUBSET Loc
        /\ \A l \in Loc : MemAfterLoad(from)[l].tag => MemAfterLoad(from)[l].addr # 0
    BY <2>a, <1>t, <1>c, LoadType, LoadTag
  <2>c. PICK fixed \in Cap :
          /\ fixed.tag => fixed.addr # 0
          /\ mem' = [MemAfterLoad(from) EXCEPT ![bump] = Load(from), ![lk.x] = fixed]
    <3>1. PICK fixed : /\ fixed \in {mem[lk.x], NullCap, Derive(bump)}
                       /\ mem' = [MemAfterLoad(from) EXCEPT ![bump] = Load(from), ![lk.x] = fixed]
      BY <1>20 DEF ScanMove
    <3>2. fixed \in Cap
      BY <3>1, <2>x, <2>y, <1>c, CapTypes
    <3>3. fixed.tag => fixed.addr # 0
      BY <3>1, <2>a, <2>x, <1>c DEF NullCap, Derive
    <3> QED
      BY <3>1, <3>2, <3>3
  <2>1. MachineType'
    <3>1. mem' \in [Loc -> Cap]
      BY <2>b, <2>c
    <3>2. orig' \in [Addr -> Addr0]
      BY <1>20, <1>t, <2>a DEF ScanMove, MachineType
    <3>3. bump' \in 1 .. MaxAddr + 1
      BY <1>20, <1>c DEF ScanMove
    <3> QED
      BY <1>20, <1>t, <3>1, <3>2, <3>3 DEF ScanMove, MachineType
  <2>2. TableType'
    BY <1>20, <1>t, <1>c, <2>a, <2>x, LookupTypes DEF ScanMove, TableType
  <2>3. KernelType'
    BY <1>20, <1>t, <2>b DEF ScanMove, KernelType
  <2>4. ControlType'
    BY <1>20, <1>t, <2>a DEF ScanMove, ControlType, LimitReached
  <2>5. ShapeInv'
    <3>1. \A l \in Loc : mem'[l] \in {MemAfterLoad(from)[l], Load(from), fixed}
      BY <2>b, <2>c
    <3>2. \A l \in Loc : mem'[l].tag => mem'[l].addr # 0
      BY <2>b, <2>c, <3>1
    <3>3. reg' = reg /\ lk' = NoLookup
      BY <1>20 DEF ScanMove
    <3> QED
      BY <1>t, <3>2, <3>3 DEF ShapeInv, NoLookup
  <2> QED
    BY <2>1, <2>2, <2>3, <2>4, <2>5, <1>20, <1>t, Untouched DEF ScanMove
<1>21. CASE MarkConcurrent
  <2>1. KernelType'
    BY <1>21, <1>t, <1>c DEF MarkConcurrent, KernelType, ControlType
  <2>a. EndCycle \/ Proceed("open")
    BY <1>21 DEF MarkConcurrent
  <2>2. ControlType'
    BY <1>21, <1>t, <2>a DEF MarkConcurrent, ControlType, EndCycle, Proceed
  <2>3. ShapeInv'
    BY <1>21, <1>t, <1>c DEF MarkConcurrent, ShapeInv
  <2> QED
    BY <2>1, <2>2, <2>3, <1>21, <1>t, Untouched DEF MarkConcurrent, EndCycle, Proceed
<1>22. CASE MarkSync
  <2>1. KernelType'
    BY <1>22, <1>t, <1>c DEF MarkSync, KernelType, ControlType
  <2>a. EndCycle \/ Proceed("sweep")
    BY <1>22 DEF MarkSync
  <2>2. ControlType'
    BY <1>22, <1>t, <2>a DEF MarkSync, ControlType, EndCycle, Proceed
  <2>3. FlagType'
    BY <1>22, <1>t, <1>c DEF MarkSync, FlagType
  <2>4. ShapeInv'
    BY <1>22, <1>t, <1>c DEF MarkSync, ShapeInv
  <2> QED
    BY <2>1, <2>2, <2>3, <2>4, <1>22, <1>t, Untouched DEF MarkSync, EndCycle, Proceed
<1>23. CASE OpenEpoch
  <2>1. MachineType'
    BY <1>23, <1>t, <1>c, RevokeType DEF OpenEpoch, MachineType
  <2>2. KernelType'
    BY <1>23, <1>t, <1>c DEF OpenEpoch, KernelType
  <2>3. ControlType'
    BY <1>23, <1>t, <1>c DEF OpenEpoch, ControlType, EndCycle
  <2>4. FlagType'
    BY <1>23, <1>t, <1>c DEF OpenEpoch, FlagType
  <2>5. ShapeInv'
    BY <1>23, <1>t, RevokeType, RevokeTag DEF OpenEpoch, ShapeInv, MachineType
  <2> QED
    BY <2>1, <2>2, <2>3, <2>4, <2>5, <1>23, <1>t, Untouched DEF OpenEpoch, EndCycle, Proceed
<1>24. CASE OpenFails
  <2>1. ControlType'
    BY <1>24, <1>t, <1>c DEF OpenFails, ControlType, Proceed
  <2>2. ShapeInv'
    BY <1>24, <1>t, <1>c DEF OpenFails, ShapeInv
  <2> QED
    BY <2>1, <2>2, <1>24, <1>t, Untouched DEF OpenFails, EndCycle, Proceed
<1>25. CASE Sweep
  <2>1. MachineType'
    BY <1>25, <1>t, <1>c, RevokeType, LoadType DEF Sweep, MachineType
  <2>2. KernelType'
    BY <1>25, <1>t, <1>c DEF Sweep, KernelType
  <2>3. ControlType'
    BY <1>25, <1>t, <1>c DEF Sweep, ControlType, EndCycle
  <2>4. FlagType'
    BY <1>25, <1>t, <1>c DEF Sweep, FlagType
  <2>5. ShapeInv'
    <3>1. \A r \in Regs : reg'[r].tag => reg'[r].addr # 0
      BY <1>25, <1>t, RevokeType, RevokeTag DEF Sweep, ShapeInv, MachineType
    <3>2. \A l \in Loc : mem'[l].tag => mem'[l].addr # 0
      BY <1>25, <1>t, RevokeType, RevokeTag, LoadTag DEF Sweep, ShapeInv, MachineType
    <3> QED
      BY <1>25, <1>t, <3>1, <3>2 DEF Sweep, ShapeInv
  <2> QED
    BY <2>1, <2>2, <2>3, <2>4, <2>5, <1>25, <1>t, Untouched DEF Sweep, EndCycle, Proceed
<1>26. CASE SweepFails
  <2>a. EndCycle \/ Proceed("fatal")
    BY <1>26 DEF SweepFails
  <2>1. ControlType'
    BY <1>26, <1>t, <2>a DEF SweepFails, ControlType, EndCycle, Proceed
  <2>2. FlagType'
    BY <1>26, <1>t, <1>c DEF SweepFails, FlagType
  <2>3. ShapeInv'
    BY <1>26, <1>t, <1>c DEF SweepFails, ShapeInv
  <2> QED
    BY <2>1, <2>2, <2>3, <1>26, <1>t, Untouched DEF SweepFails, EndCycle, Proceed
<1>27. CASE CollectorCheck
  <2>1. ControlType'
    BY <1>27, <1>t, <1>c DEF CollectorCheck, ControlType
  <2>2. ShapeInv'
    BY <1>27, <1>t, <1>c DEF CollectorCheck, ShapeInv
  <2> QED
    BY <2>1, <2>2, <1>27, <1>t, Untouched DEF CollectorCheck
<1>28. ASSUME NEW l \in Loc, CloseScan(l) PROVE TypeInv'
  <2>1. MachineType'
    BY <1>28, <1>t, <1>c, LoadType DEF CloseScan, MachineType
  <2>2. KernelType'
    BY <1>28, <1>t, <1>c, LoadType DEF CloseScan, KernelType
  <2>3. ShapeInv'
    BY <1>28, <1>t, <1>c, LoadTag DEF CloseScan, ShapeInv, MachineType
  <2> QED
    BY <2>1, <2>2, <2>3, <1>28, <1>t, Untouched DEF CloseScan
<1>29. CASE CloseDone
  <2>1. KernelType'
    BY <1>29, <1>t, <1>c DEF CloseDone, KernelType
  <2>2. ControlType'
    BY <1>29, <1>t, <1>c DEF CloseDone, ControlType
  <2>3. ShapeInv'
    BY <1>29, <1>t, <1>c DEF CloseDone, ShapeInv
  <2> QED
    BY <2>1, <2>2, <2>3, <1>29, <1>t, Untouched DEF CloseDone
<1>30. CASE CloseFails
  <2>1. ControlType'
    BY <1>30, <1>t, <1>c DEF CloseFails, ControlType
  <2>2. ShapeInv'
    BY <1>30, <1>t, <1>c DEF CloseFails, ShapeInv
  <2> QED
    BY <2>1, <2>2, <1>30, <1>t, Untouched DEF CloseFails
<1>31. CASE ClearPending
  <2>1. ControlType'
    BY <1>31, <1>t, <1>c DEF ClearPending, ControlType
  <2>2. FlagType'
    BY <1>31, <1>t, <1>c DEF ClearPending, FlagType
  <2>3. ShapeInv'
    BY <1>31, <1>t, <1>c DEF ClearPending, ShapeInv
  <2> QED
    BY <2>1, <2>2, <2>3, <1>31, <1>t, Untouched DEF ClearPending
<1>32. ASSUME NEW r \in Regs, HealOther(r) PROVE TypeInv'
  <2>1. TableType'
    BY <1>32, <1>t, <1>c, LookupTypes DEF HealOther, TableType, MachineType, Cap, ShapeInv
  <2>2. ShapeInv'
    BY <1>32, <1>t, <1>c DEF HealOther, ShapeInv, StartLookup
  <2> QED
    BY <2>1, <2>2, <1>32, <1>t, Untouched DEF HealOther
<1>33. CASE UNCHANGED vars
  BY <1>33, <1>t, Untouched DEF vars, ShapeInv
<1> QED
  BY <1>1, <1>2, <1>3, <1>4, <1>5, <1>6, <1>7, <1>8, <1>9, <1>10, <1>11, <1>12, <1>13, <1>14, <1>15, <1>16, <1>17, <1>18, <1>19, <1>20, <1>21, <1>22, <1>23, <1>24, <1>25, <1>26, <1>27, <1>28, <1>29, <1>30, <1>31, <1>32, <1>33 DEF Next, Mutator, Runtime, VMThread, Closer, Dead

\* Every variable keeps its type: no lookup, move, fixup or heal leaves the
\* arena and no cycle exceeds its limits.
THEOREM Typing == Spec => []TypeOK
<1>1. Spec => []TypeInv
  BY TypeInit, TypeStep, PTL DEF Spec
<1>2. TypeInv => TypeOK
  BY DEF TypeInv
<1> QED
  BY <1>1, <1>2, PTL
=============================================================================
