----------------------------- MODULE StoplessGC -----------------------------
(***************************************************************************)
(* The Stopless collector end to end: the mutators, the collection cycle   *)
(* (VM_StoplessCollect, run by the VM thread at a safepoint), the collector*)
(* thread that closes revocation epochs off-pause, the forwarding table,   *)
(* the SIGPROT heal, the identity barrier, and the CHERI hardware and      *)
(* kernel as far as the collector relies on them.                          *)
(*                                                                         *)
(* An object is one arena cell whose contents are one reference field; its *)
(* address is the cell number, and addresses are handed out upwards by the *)
(* bump allocator and never again.      A capability is an address with    *)
(* its tag and its permissions.  Relocating an object copies the cell and  *)
(* maps the old address to the new one in the forwarding table; the stale  *)
(* capabilities are made to trap by the kernel's revocation.               *)
(*                                                                         *)
(* Mutator instructions are atomic, and run only outside the safepoint.    *)
(* The collector thread is not stopped by a safepoint, so its closing scan *)
(* interleaves with a cycle requested by System.gc.  A forwarding-table    *)
(* lookup is the loop of the code, one probe per step.                     *)
(***************************************************************************)
EXTENDS Integers, FiniteSets

CONSTANTS
  MaxAddr,          \* cells of the arena
  Regs,             \* registers of the mutator threads
  Roots,            \* root slots scanned by StoplessHeap::scan_roots
  Nothing,          \* "no register, no root" in a lookup
  ClearTags,        \* kernel built with CHERI_CAPREVOKE_CLEARTAGS
  Concurrent,       \* STOPLESS_REVOKE_CONCURRENT is set
  CollectorThread,  \* STOPLESS_CONCURRENT_MS is set
  NoFixup,          \* STOPLESS_NO_FIXUP is set
  MoveLimit,        \* STOPLESS_MOVE_LIMIT
  Batch,            \* STOPLESS_REVOKE_BATCH
  FtInitialCap,     \* FT_INITIAL_CAP, slots of the forwarding table
  ChaseMax,         \* FT_CHASE_MAX
  GrowMayFail,      \* calloc of a larger table may fail
  MaxFaults,        \* bound on failed epoch opens and closes, as injected by
                    \* STOPLESS_FAULT_OPEN and STOPLESS_FAULT_CLOSE
  SweepMayFail,     \* cheri_revoke may fail in a synchronous sweep
  MaxNew            \* bound on the objects the mutators allocate

Addr  == 1 .. MaxAddr
Addr0 == 0 .. MaxAddr
Loc   == Roots \cup Addr      \* memory that holds a capability

ASSUME ConstantsAssumption ==
  /\ MaxAddr \in Nat \ {0}
  /\ Roots \cap Addr = {} /\ Regs \cap Roots = {}
  /\ Nothing \notin Regs \cup Roots
  /\ ClearTags \in BOOLEAN /\ Concurrent \in BOOLEAN
  /\ CollectorThread \in BOOLEAN /\ NoFixup \in BOOLEAN
  /\ GrowMayFail \in BOOLEAN /\ SweepMayFail \in BOOLEAN
  /\ MoveLimit \in Nat
  /\ Batch \in Nat \ {0}
  /\ FtInitialCap \in Nat \ {0}
  /\ ChaseMax \in Nat \ {0}
  /\ MaxFaults \in Nat
  /\ MaxNew \in Nat

VARIABLES
  bump,          \* next arena cell to hand out
  orig,          \* history: the first address of the object in a cell
  mem,           \* capability held by each root slot and each cell's field
  reg,           \* capability held by each mutator register
  out,           \* the comparison result the last instruction delivered
  fwd,           \* forwarding table: old address -> new address, 0 if absent
  ftSize,        \* g_size
  ftCap,         \* g_capacity
  lk,            \* the forwarding-table lookup in flight
  shadow,        \* kernel revocation bitmap
  epoch,         \* kernel revocation epoch, "open" or "closed"
  clean,         \* pages scanned since the epoch opened
  pending,       \* g_stopless_close_pending
  op,            \* control point of VM_StoplessCollect::doit
  todo,          \* roots the cycle has still to visit
  movedFrom,     \* moved_from: old copies of this cycle
  room,          \* moves left before the limit of this cycle
  markedPending, \* s_marked_pending > 0
  cycle,         \* s_cycle modulo the batch
  col,           \* control point of StoplessCollectorThread::run_service
  faults         \* epoch opens and closes that have failed

machineVars   == <<bump, orig, mem, reg, out>>
tableVars     == <<fwd, ftSize, ftCap>>
kernelVars    == <<shadow, epoch, clean>>
cycleVars     == <<op, todo, movedFrom, room, markedPending, cycle>>
collectorVars == <<pending, col, faults>>

vars == <<machineVars, tableVars, lk, kernelVars, cycleVars, collectorVars>>

-----------------------------------------------------------------------------
(* Capabilities, and what the hardware and the kernel do to them.          *)

Cap == [addr : Addr0, tag : BOOLEAN, perm : BOOLEAN]

NullCap == [addr |-> 0, tag |-> FALSE, perm |-> FALSE]

\* A capability rebuilt from the arena root, as the allocator and ft_derive do.
Derive(a) == [addr |-> a, tag |-> TRUE, perm |-> TRUE]

\* Dereferencing c does not trap.
Live(c) == c.tag /\ c.perm

\* Mutant: the marked range is one cell too long.
RevokeNeighbour(c, s) ==
  IF (c.addr \in s \/ c.addr - 1 \in s) /\ c.tag THEN [c EXCEPT !.tag = FALSE] ELSE c

\* What scanning c for revocation leaves, under the marks of bitmap s.
Revoke(c, s) ==
  IF c.addr \in s /\ c.tag
  THEN IF ClearTags THEN [c EXCEPT !.tag = FALSE] ELSE [c EXCEPT !.perm = FALSE]
  ELSE c

\* The page of l has not been scanned in the open epoch: loading a tagged
\* capability from it takes a load-generation fault, on which the kernel
\* scans the page.  A page is one location here, the finest grain there is.
Unscanned(l) == epoch = "open" /\ l \notin clean /\ mem[l].tag

\* The capability a load from l delivers.
Load(l) == IF Unscanned(l) THEN Revoke(mem[l], shadow) ELSE mem[l]

\* Memory and scanned pages after a load from l.
MemAfterLoad(l)   == [mem EXCEPT ![l] = Load(l)]
CleanAfterLoad(l) == IF Unscanned(l) THEN clean \cup {l} ELSE clean

-----------------------------------------------------------------------------
(* forward_table_lookup, one ft_find per step.  lk.from is the key the     *)
(* loop started from (0: the operand needs no lookup), lk.at the address   *)
(* reached, lk.hops the probes that hit.                                   *)

Lookups == [use : {"none", "heal", "acmp1", "acmp2", "scan"},
            x : Regs \cup Roots \cup {Nothing}, y : Regs \cup {Nothing},
            n : Addr0, from : Addr0, at : Addr0, hops : Nat]

NoLookup == [use |-> "none", x |-> Nothing, y |-> Nothing, n |-> 0,
             from |-> 0, at |-> 0, hops |-> 0]

StartLookup(use, x, y, n, from) ==
  [use |-> use, x |-> x, y |-> y, n |-> n, from |-> from, at |-> from, hops |-> 0]

\* The chase has gone deeper than FT_CHASE_MAX: fail-stop.
ChaseExceeded == lk.hops > ChaseMax

\* Mutant: the lookup of an earlier version, which followed a single entry.
NextHitOnce == lk.from # 0 /\ lk.hops = 0 /\ fwd[lk.at] # 0

\* The next probe of the chase hits.
NextHit == lk.from # 0 /\ ~ ChaseExceeded /\ fwd[lk.at] # 0

LookupHop ==
  /\ NextHit
  /\ lk' = [lk EXCEPT !.at = fwd[lk.at], !.hops = @ + 1]
  /\ UNCHANGED <<machineVars, tableVars, kernelVars, cycleVars, collectorVars>>

LookupDone == ~ NextHit

\* Mutant: the exceeded chase returns the copy it got to.
FoundPartial == IF lk.from = 0 \/ lk.hops = 0 THEN 0 ELSE lk.at

\* The address of the capability lookup returns, 0 for NULL.
Found == IF lk.from = 0 \/ lk.hops = 0 \/ ChaseExceeded THEN 0 ELSE lk.at

-----------------------------------------------------------------------------
(* The mutators.  They run while no VM operation holds the safepoint; a    *)
(* mutator inside the handler or the runtime is not at a safepoint either. *)

Running == op = "idle" /\ lk.use = "none"

\* Objects by their first address.
BornObjects == {a \in Addr : orig[a] = a}

\* StoplessHeap::mem_allocate by a mutator.
New(r) ==
  /\ Running
  /\ Cardinality(BornObjects) < MaxNew
  /\ bump \in Addr
  /\ reg' = [reg EXCEPT ![r] = Derive(bump)]
  /\ orig' = [orig EXCEPT ![bump] = bump]
  /\ bump' = bump + 1
  /\ out' = "nothing"
  /\ UNCHANGED <<mem, tableVars, lk, kernelVars, cycleVars, collectorVars>>

LoadRoot(r, s) ==
  /\ Running
  /\ reg' = [reg EXCEPT ![r] = Load(s)]
  /\ mem' = MemAfterLoad(s)
  /\ clean' = CleanAfterLoad(s)
  /\ out' = "nothing"
  /\ UNCHANGED <<bump, orig, tableVars, lk, shadow, epoch, cycleVars, collectorVars>>

StoreRoot(s, r) ==
  /\ Running
  /\ mem' = [mem EXCEPT ![s] = reg[r]]
  /\ out' = "nothing"
  /\ UNCHANGED <<bump, orig, reg, tableVars, lk, kernelVars, cycleVars, collectorVars>>

GetField(r, b) ==
  /\ Running
  /\ Live(reg[b])
  /\ LET l == reg[b].addr
     IN  /\ reg' = [reg EXCEPT ![r] = Load(l)]
         /\ mem' = MemAfterLoad(l)
         /\ clean' = CleanAfterLoad(l)
  /\ out' = "nothing"
  /\ UNCHANGED <<bump, orig, tableVars, lk, shadow, epoch, cycleVars, collectorVars>>

PutField(b, r) ==
  /\ Running
  /\ Live(reg[b])
  /\ mem' = [mem EXCEPT ![reg[b].addr] = reg[r]]
  /\ out' = "nothing"
  /\ UNCHANGED <<bump, orig, reg, tableVars, lk, kernelVars, cycleVars, collectorVars>>

\* Dereferencing a revoked capability traps, and the handler looks it up.
Fault(r) ==
  /\ Running
  /\ reg[r].addr # 0
  /\ ~ Live(reg[r])
  /\ lk' = StartLookup("heal", r, Nothing, 0, reg[r].addr)
  /\ UNCHANGED <<machineVars, tableVars, kernelVars, cycleVars, collectorVars>>

\* stopless_try_heal patches the faulting register; the instruction retries.
Heal ==
  /\ lk.use = "heal"
  /\ LookupDone
  /\ Found # 0
  /\ reg' = [reg EXCEPT ![lk.x] = Derive(Found)]
  /\ lk' = NoLookup
  /\ UNCHANGED <<bump, orig, mem, out, tableVars, kernelVars, cycleVars, collectorVars>>

\* The faulting register does not forward: the handler patches another
\* revoked register of the thread that does, if it finds one (the scan's
\* order is left open), and the instruction faults again.
HealOther(r) ==
  /\ lk.use = "heal" /\ lk.y = Nothing
  /\ LookupDone
  /\ Found = 0
  /\ r # lk.x
  /\ reg[r].addr # 0
  /\ ~ Live(reg[r])
  /\ lk' = StartLookup("heal", r, lk.x, 0, reg[r].addr)
  /\ UNCHANGED <<machineVars, tableVars, kernelVars, cycleVars, collectorVars>>

\* Unforwarded fault: the default action of the re-raised signal.
HealFails ==
  /\ lk.use = "heal"
  /\ LookupDone
  /\ Found = 0
  /\ lk' = NoLookup
  /\ op' = "fatal"
  /\ UNCHANGED <<machineVars, tableVars, kernelVars, todo, movedFrom, room,
                 markedPending, cycle, collectorVars>>

\* Mutant: operands are compared as they are.
NormalizeKeyNever(c) == 0

\* stopless_acmp_normalize: a null or live operand is its own address.
NormalizeKey(c) == IF c.addr = 0 \/ Live(c) THEN 0 ELSE c.addr

Normalized(c) == IF Found = 0 THEN c.addr ELSE Found

Verdict(same) == IF same THEN "same" ELSE "different"

\* TemplateTable::if_acmp and JNIHandles::is_same_object, the fast paths:
\* equal addresses, or two tags.
AcmpFast(x, y) ==
  /\ Running
  /\ \/ reg[x].addr = reg[y].addr
     \/ reg[x].tag /\ reg[y].tag
  /\ out' = Verdict(reg[x].addr = reg[y].addr)
  /\ UNCHANGED <<bump, orig, mem, reg, tableVars, lk, kernelVars, cycleVars, collectorVars>>

\* ... and the slow path, stopless_acmp_eq: the first operand,
AcmpSlow(x, y) ==
  /\ Running
  /\ reg[x].addr # reg[y].addr
  /\ ~ (reg[x].tag /\ reg[y].tag)
  /\ lk' = StartLookup("acmp1", x, y, 0, NormalizeKey(reg[x]))
  /\ UNCHANGED <<machineVars, tableVars, kernelVars, cycleVars, collectorVars>>

\* the second operand,
AcmpSecond ==
  /\ lk.use = "acmp1"
  /\ LookupDone
  /\ lk' = StartLookup("acmp2", lk.x, lk.y, Normalized(reg[lk.x]), NormalizeKey(reg[lk.y]))
  /\ UNCHANGED <<machineVars, tableVars, kernelVars, cycleVars, collectorVars>>

\* and the comparison.
AcmpDecide ==
  /\ lk.use = "acmp2"
  /\ LookupDone
  /\ out' = Verdict(lk.n = Normalized(reg[lk.y]))
  /\ lk' = NoLookup
  /\ UNCHANGED <<bump, orig, mem, reg, tableVars, kernelVars, cycleVars, collectorVars>>

-----------------------------------------------------------------------------
(* VM_StoplessCollect::doit.                                               *)

\* forward_table_maybe_grow, at the start of the cycle.
GrownCaps ==
  IF ftSize * 10 < ftCap * 7
  THEN {ftCap}
  ELSE {ftCap * 2} \cup (IF GrowMayFail THEN {ftCap} ELSE {})

\* Mutant: cycles relocate while a close is owed.
CycleLimitIgnoringClose == MoveLimit

\* Relocations this cycle may make: none while a close is owed.
CycleLimit == IF Concurrent /\ pending THEN 0 ELSE MoveLimit

\* Mutant: a cycle starts from an empty table.
BeginCycleClearingTable ==
  /\ Running
  /\ ftCap' \in GrownCaps
  /\ fwd' = [a \in Addr |-> 0]
  /\ ftSize' = 0
  /\ room' = CycleLimit
  /\ op' = "scan"
  /\ todo' = Roots
  /\ movedFrom' = {}
  /\ UNCHANGED <<machineVars, lk, kernelVars, markedPending, cycle, pending, faults>>

\* The cycle starts: grow the table, fix the limit, scan the roots.
BeginCycle ==
  /\ Running
  /\ ftCap' \in GrownCaps
  /\ room' = CycleLimit
  /\ op' = "scan"
  /\ todo' = Roots
  /\ movedFrom' = {}
  /\ UNCHANGED <<machineVars, fwd, ftSize, lk, kernelVars, markedPending, cycle,
                 pending, faults>>

\* StoplessHeap::collect, called by a mutator through System.gc.
SystemGC == BeginCycle /\ UNCHANGED col

\* Mutant: the limit is compared off by one.
LimitReachedLate == room < 0

LimitReached == room = 0

TableFull == ftSize >= ftCap

\* do_oop on root s: load it and look it up.
ScanRoot(s) ==
  /\ op = "scan" /\ lk.use = "none"
  /\ s \in todo
  /\ todo' = todo \ {s}
  /\ mem' = MemAfterLoad(s)
  /\ clean' = CleanAfterLoad(s)
  /\ lk' = IF mem[s].addr = 0 THEN NoLookup
           ELSE StartLookup("scan", s, Nothing, 0, mem[s].addr)
  /\ UNCHANGED <<bump, orig, reg, out, tableVars, shadow, epoch, op, movedFrom,
                 room, markedPending, cycle, collectorVars>>

\* The root's object has moved already: store the forwarded capability.
ScanFix ==
  /\ lk.use = "scan"
  /\ LookupDone
  /\ Found # 0
  /\ mem' = IF NoFixup THEN mem ELSE [mem EXCEPT ![lk.x] = Derive(Found)]
  /\ lk' = NoLookup
  /\ UNCHANGED <<bump, orig, reg, out, tableVars, kernelVars, cycleVars, collectorVars>>

\* Not forwarded, and left in place: limit reached, class not targeted, or OOM.
ScanLeave ==
  /\ lk.use = "scan"
  /\ LookupDone
  /\ Found = 0
  /\ LimitReached \/ Live(mem[lk.x])
  /\ lk' = NoLookup
  /\ UNCHANGED <<machineVars, tableVars, kernelVars, cycleVars, collectorVars>>

\* Not forwarded and revoked: reading its class traps, and nothing heals it.
ScanFails ==
  /\ lk.use = "scan"
  /\ LookupDone
  /\ Found = 0
  /\ ~ LimitReached
  /\ ~ Live(mem[lk.x])
  /\ lk' = NoLookup
  /\ op' = "fatal"
  /\ UNCHANGED <<machineVars, tableVars, kernelVars, todo, movedFrom, room,
                 markedPending, cycle, collectorVars>>

\* move_object, forward_table_cas_insert, moved_from.append, root fixup.  A
\* full table drops the mapping and hands back NULL, which the fixup stores.
ScanMove ==
  /\ lk.use = "scan"
  /\ LookupDone
  /\ Found = 0
  /\ ~ LimitReached
  /\ Live(mem[lk.x])
  /\ bump \in Addr
  /\ LET from  == mem[lk.x].addr
         to    == bump
         fixed == IF NoFixup THEN mem[lk.x] ELSE IF TableFull THEN NullCap ELSE Derive(to)
     IN  /\ bump' = bump + 1
         /\ orig' = [orig EXCEPT ![to] = orig[from]]
         /\ mem' = [MemAfterLoad(from) EXCEPT ![to] = Load(from), ![lk.x] = fixed]
         /\ clean' = CleanAfterLoad(from)
         /\ fwd' = IF TableFull THEN fwd ELSE [fwd EXCEPT ![from] = to]
         /\ ftSize' = IF TableFull THEN ftSize ELSE ftSize + 1
         /\ movedFrom' = movedFrom \cup {from}
  /\ room' = room - 1
  /\ lk' = NoLookup
  /\ UNCHANGED <<reg, out, ftCap, shadow, epoch, op, todo, markedPending, cycle, collectorVars>>

\* The pause ends; a cycle the collector thread asked for returns to it.
EndCycle ==
  /\ op' = "idle"
  /\ movedFrom' = {}
  /\ room' = 0
  /\ col' = IF col = "wait" THEN "check" ELSE col

\* The pause goes on at p.
Proceed(p) == op' = p /\ UNCHANGED <<movedFrom, room, col>>

\* The roots are done: mark the old copies, and decide how to revoke them.
MarkConcurrent ==
  /\ Concurrent
  /\ op = "scan" /\ lk.use = "none" /\ todo = {}
  /\ shadow' = shadow \cup movedFrom
  /\ IF movedFrom = {} THEN EndCycle ELSE Proceed("open")
  /\ UNCHANGED <<machineVars, tableVars, lk, epoch, clean, todo,
                 markedPending, cycle, pending, faults>>

MarkSync ==
  /\ ~ Concurrent
  /\ op = "scan" /\ lk.use = "none" /\ todo = {}
  /\ shadow' = shadow \cup movedFrom
  /\ cycle' = (cycle + 1) % Batch
  /\ markedPending' = (markedPending \/ movedFrom # {})
  /\ IF markedPending' /\ cycle' = 0 THEN Proceed("sweep") ELSE EndCycle
  /\ UNCHANGED <<machineVars, tableVars, lk, epoch, clean, todo,
                 pending, faults>>

\* Mutant: the epoch opens without scanning the registers.
OpenEpochKeepingRegisters ==
  /\ op = "open"
  /\ epoch' = "open"
  /\ clean' = IF epoch = "open" THEN clean ELSE {}
  /\ pending' = TRUE
  /\ EndCycle
  /\ UNCHANGED <<machineVars, tableVars, lk, shadow, todo, markedPending, cycle, faults>>

\* stopless_revoke_open: publish the marks, scan the registers, arm the load
\* barrier.  Opening an epoch that is open already does nothing.
OpenEpoch ==
  /\ op = "open"
  /\ epoch' = "open"
  /\ clean' = IF epoch = "open" THEN clean ELSE {}
  /\ reg' = IF epoch = "open" THEN reg ELSE [r \in Regs |-> Revoke(reg[r], shadow)]
  /\ pending' = TRUE
  /\ EndCycle
  /\ UNCHANGED <<bump, orig, mem, out, tableVars, lk, shadow, todo,
                 markedPending, cycle, faults>>

\* Mutant: the failed open ends the pause, without a sweep.
OpenFailsQuietly ==
  /\ op = "open"
  /\ faults < MaxFaults
  /\ faults' = faults + 1
  /\ EndCycle
  /\ UNCHANGED <<machineVars, tableVars, lk, kernelVars, todo, markedPending, cycle, pending>>

\* The open fails: fall back to a synchronous sweep inside the pause.
OpenFails ==
  /\ op = "open"
  /\ faults < MaxFaults
  /\ faults' = faults + 1
  /\ Proceed("fallback")
  /\ UNCHANGED <<machineVars, tableVars, lk, kernelVars, todo, markedPending, cycle, pending>>

\* Mutant: the sweep misses the registers.
SweepKeepingRegisters ==
  /\ op \in {"sweep", "fallback"}
  /\ mem' = [l \in Loc |-> IF epoch = "open" THEN Load(l) ELSE Revoke(mem[l], shadow)]
  /\ epoch' = "closed"
  /\ clean' = {}
  /\ markedPending' = FALSE
  /\ EndCycle
  /\ UNCHANGED <<bump, orig, reg, out, tableVars, lk, shadow, todo, cycle, pending, faults>>

\* stopless_revoke_now completes: every register and page is scanned.  With
\* an epoch open already it only completes that one.
Sweep ==
  /\ op \in {"sweep", "fallback"}
  /\ reg' = IF epoch = "open" THEN reg ELSE [r \in Regs |-> Revoke(reg[r], shadow)]
  /\ mem' = [l \in Loc |-> IF epoch = "open" THEN Load(l) ELSE Revoke(mem[l], shadow)]
  /\ epoch' = "closed"
  /\ clean' = {}
  /\ markedPending' = FALSE
  /\ EndCycle
  /\ UNCHANGED <<bump, orig, out, tableVars, lk, shadow, todo,
                 cycle, pending, faults>>

\* cheri_revoke fails before it scans anything.  The cycle's own sweep
\* ignores the result; the fallback dies inside the safepoint.
SweepFails ==
  /\ SweepMayFail
  /\ op \in {"sweep", "fallback"}
  /\ IF op = "sweep" THEN EndCycle ELSE Proceed("fatal")
  /\ markedPending' = FALSE
  /\ UNCHANGED <<machineVars, tableVars, lk, kernelVars, todo,
                 cycle, pending, faults>>

-----------------------------------------------------------------------------
(* StoplessCollectorThread::run_service.                                   *)

CollectorCycle ==
  /\ CollectorThread
  /\ col = "sleep"
  /\ col' = "wait"
  /\ BeginCycle

\* Mutant: a close that failed is not tried again.
CollectorCheckNoRetry ==
  /\ col = "check"
  /\ op # "fatal"
  /\ col' = IF pending /\ faults = 0 THEN "closing" ELSE "sleep"
  /\ UNCHANGED <<machineVars, tableVars, lk, kernelVars, cycleVars, pending, faults>>

\* Back from the VM operation: is a close owed?
CollectorCheck ==
  /\ col = "check"
  /\ op # "fatal"
  /\ col' = IF pending THEN "closing" ELSE "sleep"
  /\ UNCHANGED <<machineVars, tableVars, lk, kernelVars, cycleVars, pending, faults>>

\* stopless_revoke_close: the kernel scans one page; mutators keep running.
CloseScan(l) ==
  /\ col = "closing"
  /\ op # "fatal"
  /\ Unscanned(l)
  /\ mem' = MemAfterLoad(l)
  /\ clean' = CleanAfterLoad(l)
  /\ UNCHANGED <<bump, orig, reg, out, tableVars, lk, shadow, epoch, cycleVars, collectorVars>>

\* No page with a capability is left to scan: the epoch clears.
CloseDone ==
  /\ col = "closing"
  /\ op # "fatal"
  /\ \A l \in Loc : ~ Unscanned(l)
  /\ epoch' = "closed"
  /\ clean' = {}
  /\ col' = "closed"
  /\ UNCHANGED <<machineVars, tableVars, lk, shadow, cycleVars, pending, faults>>

\* Mutant: a failed close clears the flag.
CloseFailsClearing ==
  /\ col = "closing"
  /\ op # "fatal"
  /\ faults < MaxFaults
  /\ faults' = faults + 1
  /\ pending' = FALSE
  /\ col' = "sleep"
  /\ UNCHANGED <<machineVars, tableVars, lk, kernelVars, cycleVars>>

\* The close fails or never clears: keep the flag, retry after the next cycle.
CloseFails ==
  /\ col = "closing"
  /\ op # "fatal"
  /\ faults < MaxFaults
  /\ faults' = faults + 1
  /\ col' = "sleep"
  /\ UNCHANGED <<machineVars, tableVars, lk, kernelVars, cycleVars, pending>>

\* stopless_set_close_pending(0).
ClearPending ==
  /\ col = "closed"
  /\ op # "fatal"
  /\ pending' = FALSE
  /\ col' = "sleep"
  /\ UNCHANGED <<machineVars, tableVars, lk, kernelVars, cycleVars, faults>>

-----------------------------------------------------------------------------
Init ==
  /\ bump = 1
  /\ orig = [a \in Addr |-> 0]
  /\ mem = [l \in Loc |-> NullCap]
  /\ reg = [r \in Regs |-> NullCap]
  /\ out = "nothing"
  /\ fwd = [a \in Addr |-> 0]
  /\ ftSize = 0
  /\ ftCap = FtInitialCap
  /\ lk = NoLookup
  /\ shadow = {}
  /\ epoch = "closed"
  /\ clean = {}
  /\ pending = FALSE
  /\ op = "idle"
  /\ todo = {}
  /\ movedFrom = {}
  /\ room = 0
  /\ markedPending = FALSE
  /\ cycle = 0
  /\ col = "sleep"
  /\ faults = 0

Mutator ==
  \/ \E r \in Regs : New(r) \/ Fault(r)
  \/ \E r \in Regs, s \in Roots : LoadRoot(r, s) \/ StoreRoot(s, r)
  \/ \E r, b \in Regs : GetField(r, b) \/ PutField(b, r)
  \/ \E x, y \in Regs : AcmpFast(x, y) \/ AcmpSlow(x, y)

\* Code that runs on after a fault or a comparison entered the runtime.
Runtime ==
  \/ LookupHop
  \/ Heal \/ HealFails \/ \E r \in Regs : HealOther(r)
  \/ AcmpSecond \/ AcmpDecide

VMThread ==
  \/ \E s \in Roots : ScanRoot(s)
  \/ ScanFix \/ ScanLeave \/ ScanFails \/ ScanMove
  \/ MarkConcurrent \/ MarkSync
  \/ OpenEpoch \/ OpenFails \/ Sweep \/ SweepFails

Closer ==
  \/ CollectorCycle \/ CollectorCheck
  \/ \E l \in Loc : CloseScan(l)
  \/ CloseDone \/ CloseFails \/ ClearPending

\* The process has died.
Dead == op = "fatal" /\ UNCHANGED vars

Next == Mutator \/ Runtime \/ SystemGC \/ VMThread \/ Closer \/ Dead

Spec == Init /\ [][Next]_vars

\* Scheduling the code relies on: the VM thread and threads inside the
\* runtime keep running, the collector thread loops, and the VM-operation
\* queue eventually serves its request.  Nothing is assumed of mutators.
Fairness ==
  /\ WF_vars(VMThread)
  /\ WF_vars(Runtime)
  /\ SF_vars(CollectorCycle)
  /\ WF_vars(CollectorCheck)
  /\ WF_vars((\E l \in Loc : CloseScan(l)) \/ CloseDone)
  /\ WF_vars(ClearPending)

LiveSpec == Spec /\ Fairness

-----------------------------------------------------------------------------
(* Properties.                                                             *)

Moved(a) == fwd[a] # 0

\* A newer copy of the object in cell a exists.
Superseded(a) == \E b \in Addr : b > a /\ orig[b] = orig[a]

\* The capabilities a running mutator has, or would get from its next load.
Reachable == {reg[r] : r \in Regs} \cup {Load(l) : l \in Loc}

MachineType ==
  /\ bump \in 1 .. MaxAddr + 1
  /\ orig \in [Addr -> Addr0]
  /\ mem \in [Loc -> Cap]
  /\ reg \in [Regs -> Cap]
  /\ out \in {"nothing", "same", "different"}

TableType ==
  /\ fwd \in [Addr -> Addr0]
  /\ ftSize \in Nat
  /\ ftCap \in Nat
  /\ lk \in Lookups

KernelType ==
  /\ shadow \in SUBSET Addr
  /\ epoch \in {"open", "closed"}
  /\ clean \in SUBSET Loc

ControlType ==
  /\ op \in {"idle", "scan", "open", "fallback", "sweep", "fatal"}
  /\ todo \in SUBSET Roots
  /\ movedFrom \in SUBSET Addr
  /\ room \in 0 .. MoveLimit
  /\ cycle \in 0 .. Batch - 1
  /\ col \in {"sleep", "wait", "check", "closing", "closed"}
  /\ faults \in 0 .. MaxFaults

FlagType == pending \in BOOLEAN /\ markedPending \in BOOLEAN

\* Every variable has its type: the limits of a cycle are respected, and no
\* lookup, move or fixup leaves the arena (do_oop, forward_table_lookup).
TypeOK ==
  /\ MachineType
  /\ TableType
  /\ KernelType
  /\ ControlType
  /\ FlagType

\* While mutators run, no capability they hold or can load dereferences to
\* an old copy: marks are published before the safepoint ends
\* (VM_StoplessCollect::doit) and every lookup chases to the last copy.
NoStaleAccess ==
  op = "idle" => \A c \in Reachable : Live(c) => ~ Superseded(c.addr)

\* With no close owed, not even an unscanned page holds a live capability to
\* an old copy: the flag is cleared only after the closing scan finished.
QuarantineClear ==
  (op = "idle" /\ ~ pending) =>
    /\ epoch = "closed"
    /\ \A l \in Loc : Live(mem[l]) => ~ Superseded(mem[l].addr)

\* A revoked capability is always forwarded, so a stale access heals and
\* never ends in the handler's unforwarded-fault exit.
RevokedIsForwarded ==
  \A c \in Reachable : ~ Live(c) /\ c.addr # 0 => Moved(c.addr)

\* The claim of the comparison fast path (if_acmp): two tagged capabilities
\* at different addresses refer to different objects.
TaggedMeansIdentity ==
  op = "idle" =>
    \A x, y \in Regs :
      (reg[x].tag /\ reg[y].tag /\ reg[x].addr # reg[y].addr)
        => orig[reg[x].addr] # orig[reg[y].addr]

\* A forwarding entry is never changed or dropped, and leads upwards to a
\* copy of the same object, so chains are acyclic (forward_table_lookup).
ForwardingIsPermanent ==
  [][\A a \in Addr : Moved(a) =>
       /\ fwd'[a] = fwd[a]
       /\ fwd[a] > a
       /\ orig[fwd[a]] = orig[a]]_vars

\* Nothing is relocated while an epoch is open or its close is owed: the
\* marks of such a move could not be published (the assertion in doit).
NoMoveUnderOpenEpoch ==
  [][fwd' # fwd => epoch = "closed" /\ ~ pending /\ col \notin {"closing", "closed"}]_vars

\* The chase gives up only on a corrupt table (FT_CHASE_MAX).
ChaseGivesUpOnlyOnCorruption ==
  ChaseExceeded => \E a \in Addr : Moved(a) /\ fwd[a] <= a

\* An epoch close that is owed is eventually done and the flag cleared, so
\* relocation, suspended meanwhile, resumes (run_service's retry).
CloseCompletes == pending ~> (~ pending \/ op = "fatal")

-----------------------------------------------------------------------------
(* The inductive invariant behind the safety properties, and the           *)
(* configurations it holds in: epochs opened in the pause, or a sweep that *)
(* cannot fail in every pause, and a table with room for a cycle's moves.  *)

SoundConfig ==
  /\ Concurrent \/ (Batch = 1 /\ ~ SweepMayFail)
  /\ ~ GrowMayFail
  /\ MoveLimit * 10 <= FtInitialCap * 3

InPause == op \in {"scan", "open", "fallback", "sweep"}

\* No tagged null, and a lookup serves the kind of slot it was started for.
ShapeInv ==
  /\ \A r \in Regs : reg[r].tag => reg[r].addr # 0
  /\ \A l \in Loc : mem[l].tag => mem[l].addr # 0
  /\ lk.use = "heal" => lk.x \in Regs /\ lk.from # 0
  /\ lk.use \in {"acmp1", "acmp2"} => lk.x \in Regs /\ lk.y \in Regs
  /\ lk.use = "scan" => lk.x \in Roots /\ lk.from # 0
  /\ lk.from # 0 => lk.at # 0

\* Cells are used up to bump; every capability points into used cells.
ArenaInv ==
  /\ \A a \in Addr : orig[a] # 0 <=> a < bump
  /\ \A a \in Addr : orig[a] < bump
  /\ \A a \in Addr : a >= bump => fwd[a] = 0 /\ a \notin shadow \cup movedFrom
  /\ \A r \in Regs : reg[r].addr < bump
  /\ \A l \in Loc : mem[l].addr < bump

\* Entries lead upwards to a copy of the same object, and every copy but the
\* last has an entry.
ForwardInv ==
  /\ \A a \in Addr : Moved(a) => fwd[a] > a /\ fwd[a] < bump /\ orig[fwd[a]] = orig[a]
  /\ \A a \in Addr : a < bump /\ Superseded(a) => Moved(a)

\* The marks are exactly the old copies, once the cycle has set its own.
MarkInv ==
  /\ \A a \in Addr : Moved(a) <=> a \in shadow \cup movedFrom
  /\ op \in {"open", "fallback"} => movedFrom # {}
  /\ op \in {"open", "fallback", "sweep"} => movedFrom \subseteq shadow
  /\ op = "idle" => movedFrom = {}

\* c is dead or points to the last copy, up to the moves of this cycle.
Fresh(c) == Live(c) => ~ Moved(c.addr) \/ c.addr \in movedFrom

\* c is dead only if its address is marked, and then by its tag if the
\* kernel clears tags.
Settled(c) ==
  /\ ~ Live(c) /\ c.addr # 0 => c.addr \in shadow
  /\ ClearTags /\ c.tag => c.perm

CapInv ==
  /\ \A r \in Regs : Fresh(reg[r]) /\ Settled(reg[r])
  /\ \A l \in Loc : Settled(mem[l])
  /\ \A l \in Loc : Fresh(mem[l]) \/ (epoch = "open" /\ l \notin clean)

\* An epoch is open only while its close is owed, and then nothing moves.
EpochInv ==
  /\ epoch = "open" => pending
  /\ col = "closing" => pending
  /\ col = "closed" => pending /\ epoch = "closed"
  /\ pending => Concurrent
  /\ pending /\ InPause => room = 0 /\ movedFrom = {}
  /\ op = "sweep" => ~ Concurrent
  /\ op \in {"open", "fallback"} => Concurrent

\* Roots still to visit do not hold the fresh copies of this cycle, so the
\* copy just made is the end of its chain.
ScanInv ==
  /\ \A a \in movedFrom : fwd[fwd[a]] = 0
  /\ \A a \in movedFrom : \A s \in todo : mem[s].addr # fwd[a]
  /\ lk.use = "scan" => /\ op = "scan"
                        /\ lk.from = mem[lk.x].addr
                        /\ lk.x \notin todo
                        /\ \A a \in movedFrom : mem[lk.x].addr # fwd[a]
                        /\ ~ Unscanned(lk.x)

\* The lookup in flight is on the chain of its key.
LookupInv ==
  /\ lk.use # "none" /\ lk.use # "scan" => op = "idle"
  /\ lk.from # 0 => /\ lk.at < bump
                    /\ lk.hops = 0 => lk.at = lk.from
                    /\ lk.hops >= 1 => Moved(lk.from)
                    /\ lk.hops = 1 => lk.at = fwd[lk.from]
                    /\ lk.hops >= 2 => fwd[fwd[lk.from]] # 0

\* The table never fills within a cycle.
TableInv ==
  /\ FtInitialCap <= ftCap
  /\ ftSize <= ftCap
  /\ op = "scan" => ftSize + room <= ftCap

IInv ==
  /\ TypeOK
  /\ ShapeInv
  /\ ArenaInv
  /\ ForwardInv
  /\ MarkInv
  /\ CapInv
  /\ EpochInv
  /\ ScanInv
  /\ LookupInv
  /\ TableInv

-----------------------------------------------------------------------------
(* Refinement of JavaHeap: an object is its first address, its contents    *)
(* are those of its one copy that has not been forwarded.                  *)

Current(o) == CHOOSE a \in Addr : orig[a] = o /\ ~ Moved(a)

Identity(c) == IF c.addr = 0 THEN 0 ELSE orig[c.addr]

Java == INSTANCE JavaHeap WITH
  Obj   <- Addr,
  NoObj <- 0,
  born  <- BornObjects,
  ref   <- [o \in Addr |-> IF o \in BornObjects THEN Identity(mem[Current(o)]) ELSE 0],
  local <- [x \in Regs \cup Roots |-> Identity(IF x \in Regs THEN reg[x] ELSE mem[x])]

\* The program cannot tell that objects move: no lost update, no stale read,
\* no reference changing its object, no wrong comparison.
ImplementsJavaHeap == Java!HeapSpec
=============================================================================
