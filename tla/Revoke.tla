------------------------------- MODULE Revoke -------------------------------
(***************************************************************************)
(* The revocation driver, revoke.c: the shadow bitmap of an arena, and the *)
(* calls of cheri_revoke that make the kernel invalidate the capabilities  *)
(* to marked addresses, while mutators go on loading and storing.          *)
(*                                                                         *)
(* The kernel is external and modelled from what the driver relies on: an  *)
(* epoch counter, odd while a revocation is open; opening scans the        *)
(* registers and arms the load barrier, so that a page is scanned before   *)
(* anything is loaded from it; the last pass scans the other pages.  A scan*)
(* consults the bitmap as it is at that moment.  A call may fail before it *)
(* does anything or half-way, and may return an error although it worked.  *)
(***************************************************************************)
EXTENDS Integers

CONSTANTS
  Addrs,       \* objects of the arena
  None,        \* no address
  Regs, Pages, \* places a capability may be in
  MaxLoops,    \* how often a call repeats the last pass: 10 in the code
  FaultOpen,   \* STOPLESS_FAULT_OPEN and STOPLESS_FAULT_CLOSE: how many
  FaultClose,  \* calls are made to fail
  MaxEpoch     \* bound: no call begins once the epoch has reached this

Locs == Regs \cup Pages

ASSUME RevokeAssumption ==
  /\ None \notin Addrs /\ Regs \cap Pages = {}
  /\ MaxLoops \in Nat /\ FaultOpen \in Nat /\ FaultClose \in Nat /\ MaxEpoch \in Nat

VARIABLES
  arena,    \* "none", "ready", "gone"
  cri,      \* g_cri has been acquired
  shadow,   \* marked addresses
  mem,      \* the address each place has a live capability to, or None
  epoch,    \* g_cri->epochs
  scanned,  \* pages scanned in the open epoch
  call,     \* the call in progress
  faults,   \* g_fault_open, g_fault_close
  armed,    \* history: marked when an open that succeeded began
  dead      \* history: marked when a close, or a synchronous sweep, that
            \* succeeded began

kernelVars == <<epoch, scanned>>
historyVars == <<armed, dead>>
vars == <<arena, cri, shadow, mem, kernelVars, call, faults, historyVars>>

-----------------------------------------------------------------------------
(* Epochs.                                                                 *)

IsOpen  == epoch % 2 = 1
Enqueue == epoch
Dequeue == epoch - (epoch % 2)

\* cheri_revoke_epoch_clears: a whole revocation has begun and ended since.
Clears(now, then) == now >= then + (then % 2) + 2

\* The contents of places L once scanned.
Swept(L) == [l \in Locs |-> IF l \in L /\ mem[l] \in shadow THEN None ELSE mem[l]]

-----------------------------------------------------------------------------
(* The arena and its bitmap.                                               *)

\* A call that is not in progress: op, control point, the epoch it started
\* from or waits for, passes repeated, the last rc, the marks at its start.
Idle == [op |-> "none", pc |-> "idle", target |-> 0, loops |-> 0, rc |-> 0, marks |-> {}]

\* ensure_cri succeeds, as it always does once it has.
EnsureCri == cri' = TRUE

\* stopless_arena_init: mmap or either cheri_revoke_get_shadow may fail, before
\* or after ensure_cri, and the arena is then as before.
ArenaInit ==
  /\ call = Idle /\ arena = "none"
  /\ \/ arena' = "ready" /\ EnsureCri
     \/ arena' = arena /\ cri' \in {cri, TRUE}
  /\ UNCHANGED <<shadow, mem, kernelVars, call, faults, historyVars>>

\* stopless_arena_fini
ArenaFini ==
  /\ call = Idle /\ arena = "ready"
  /\ arena' = "gone"
  /\ UNCHANGED <<cri, shadow, mem, kernelVars, call, faults, historyVars>>

\* stopless_mark_revoke, stopless_mark_revoke_cap
Mark(a) ==
  /\ arena = "ready" /\ a \notin shadow
  /\ shadow' = shadow \cup {a}
  /\ UNCHANGED <<arena, cri, mem, kernelVars, call, faults, historyVars>>

\* stopless_unmark_revoke: the address is about to be used again.
Unmark(a) ==
  /\ call = Idle /\ arena = "ready" /\ a \in shadow
  /\ shadow' = shadow \ {a}
  /\ armed' = armed \ {a} /\ dead' = dead \ {a}
  /\ UNCHANGED <<arena, cri, mem, kernelVars, call, faults>>

-----------------------------------------------------------------------------
(* Mutators.                                                               *)

\* A new object; its address is not marked.
New(r, a) ==
  /\ arena = "ready" /\ a \notin shadow
  /\ mem' = [mem EXCEPT ![r] = a]
  /\ UNCHANGED <<arena, cri, shadow, kernelVars, call, faults, historyVars>>

Store(r, p) ==
  /\ mem' = [mem EXCEPT ![p] = mem[r]]
  /\ UNCHANGED <<arena, cri, shadow, kernelVars, call, faults, historyVars>>

\* What a load from page p finds, after the barrier.
Barrier(p) == IF IsOpen /\ p \notin scanned THEN Swept({p}) ELSE mem

Load(r, p) ==
  /\ mem' = [Barrier(p) EXCEPT ![r] = Barrier(p)[p]]
  /\ scanned' = IF IsOpen THEN scanned \cup {p} ELSE scanned
  /\ UNCHANGED <<arena, cri, shadow, epoch, call, faults, historyVars>>

-----------------------------------------------------------------------------
(* Calls of the driver.                                                    *)

\* Mutant: a spent budget counts on.
FaultSpentAnyway(op) == IF op = "now" THEN faults ELSE [faults EXCEPT ![op] = @ - 1]

\* fault_budget
FaultSpent(op) ==
  IF op \in DOMAIN faults /\ faults[op] > 0 THEN [faults EXCEPT ![op] = @ - 1] ELSE faults

\* stopless_revoke_open, _close and _now up to the first cheri_revoke; an
\* injected fault, or ensure_cri, makes the call fail at once.
Begin(op) ==
  /\ call = Idle /\ epoch < MaxEpoch
  /\ faults' = FaultSpent(op)
  /\ \/ /\ faults' = faults
        /\ EnsureCri
        /\ call' = [op |-> op, pc |-> "call", target |-> Enqueue, loops |-> 0, rc |-> 0,
                    marks |-> shadow]
     \/ /\ faults' # faults \/ ~ cri
        /\ UNCHANGED <<cri, call>>
  /\ UNCHANGED <<arena, shadow, mem, kernelVars, historyVars>>

\* CHERI_REVOKE_LAST_PASS
LastPass == call.op # "open"

\* cheri_revoke returns rc.
Back(rc) == call' = [call EXCEPT !.pc = "back", !.rc = rc]

InKernel == UNCHANGED <<arena, cri, shadow, faults, historyVars>>

\* It fails, or has nothing to do.  (A call without CHERI_REVOKE_IGNORE_START
\* has nothing to do either if its epoch has cleared; the driver makes none.)
KernelRefuses ==
  /\ call.pc = "call"
  /\ \/ Back(-1)
     \/ ~ LastPass /\ IsOpen /\ Back(0)
  /\ UNCHANGED <<mem, kernelVars>> /\ InKernel

\* It opens an epoch, unless one is open, and goes on to the last pass if it
\* is to make one.
KernelEnters ==
  /\ call.pc = "call"
  /\ LastPass \/ ~ IsOpen
  /\ IF IsOpen THEN UNCHANGED <<mem, kernelVars>>
     ELSE epoch' = epoch + 1 /\ scanned' = {} /\ mem' = Swept(Regs)
  /\ IF LastPass THEN call' = [call EXCEPT !.pc = "scan"] ELSE \E rc \in {0, -1} : Back(rc)
  /\ InKernel

KernelScans(p) ==
  /\ call.pc = "scan" /\ p \in Pages \ scanned
  /\ mem' = Swept({p}) /\ scanned' = scanned \cup {p}
  /\ UNCHANGED <<epoch, call>> /\ InKernel

\* The last pass ends the epoch, or gives up and leaves it open.
KernelLeaves ==
  /\ call.pc = "scan"
  /\ \/ scanned = Pages /\ epoch' = epoch + 1 /\ \E rc \in {0, -1} : Back(rc)
     \/ UNCHANGED epoch /\ Back(-1)
  /\ UNCHANGED <<mem, scanned>> /\ InKernel

\* The driver returns r to its caller.
Return(r) ==
  /\ call' = Idle
  /\ armed' = IF r = 0 /\ call.op = "open" /\ call.target % 2 = 0
              THEN armed \cup call.marks ELSE armed
  /\ dead'  = IF r = 0 /\ call.op # "open" THEN dead \cup call.marks ELSE dead

InDriver == UNCHANGED <<arena, cri, shadow, mem, kernelVars, faults>>

\* Mutant: the result of the opening pass is not looked at.
OpenAlwaysDone == 0

\* The epoch counter is the truth, not rc.
OpenResult == IF Enqueue > call.target \/ call.rc = 0 THEN 0 ELSE call.rc

OpenReturns ==
  /\ call.pc = "back" /\ call.op = "open"
  /\ Return(OpenResult) /\ InDriver

\* stopless_revoke_now: rc is the truth, and the epoch to wait for is the one
\* after the first pass.
NowPassed ==
  /\ call.pc = "back" /\ call.op = "now"
  /\ IF call.rc # 0 THEN Return(call.rc)
     ELSE call' = [call EXCEPT !.op = "wait", !.target = Enqueue] /\ UNCHANGED historyVars
  /\ InDriver

Cleared == Clears(Dequeue, call.target)

\* The wait goes on: revoke_now gives it up on an error, revoke_close does not.
WaitGoesOn ==
  /\ ~ Cleared
  /\ call.loops < MaxLoops
  /\ call.op = "wait" => call.rc = 0

\* Mutant: passes are not counted, so the wait is not bounded.
NotCounted == call.loops

PassCounted == call.loops + 1

WaitAgain ==
  /\ call.pc = "back" /\ call.op \in {"close", "wait"}
  /\ WaitGoesOn
  /\ call' = [call EXCEPT !.pc = "call", !.loops = PassCounted]
  /\ UNCHANGED historyVars /\ InDriver

\* Mutant: when the passes are used up the epoch is taken to be over.
WaitAlwaysDone == 0

WaitResult ==
  IF call.op = "wait" /\ call.rc # 0 THEN call.rc ELSE IF Cleared THEN 0 ELSE -1

WaitReturns ==
  /\ call.pc = "back" /\ call.op \in {"close", "wait"}
  /\ ~ WaitGoesOn
  /\ Return(WaitResult) /\ InDriver

-----------------------------------------------------------------------------

Init ==
  /\ arena = "none" /\ cri = FALSE
  /\ shadow = {} /\ mem = [l \in Locs |-> None]
  /\ epoch = 0 /\ scanned = {}
  /\ call = Idle
  /\ faults = [open |-> FaultOpen, close |-> FaultClose]
  /\ armed = {} /\ dead = {}

\* A step of a call that has begun.
CallStep ==
  \/ KernelRefuses \/ KernelEnters \/ KernelLeaves \/ \E p \in Pages : KernelScans(p)
  \/ OpenReturns \/ NowPassed \/ WaitAgain \/ WaitReturns

Next ==
  \/ ArenaInit \/ ArenaFini
  \/ \E a \in Addrs : Mark(a) \/ Unmark(a)
  \/ \E r \in Regs, a \in Addrs : New(r, a)
  \/ \E r \in Regs, p \in Pages : Store(r, p) \/ Load(r, p)
  \/ \E op \in {"open", "close", "now"} : Begin(op)
  \/ CallStep

Spec == Init /\ [][Next]_vars

\* The caller's thread and the kernel keep running.
LiveSpec == Spec /\ WF_vars(CallStep)

-----------------------------------------------------------------------------
(* Properties.                                                             *)

Calls == [op : {"none", "open", "close", "now", "wait"}, pc : {"idle", "call", "scan", "back"},
          target : Nat, loops : 0..MaxLoops, rc : {0, -1}, marks : SUBSET Addrs]

\* The state is well formed; a fault budget never goes below zero.
TypeOK ==
  /\ arena \in {"none", "ready", "gone"} /\ cri \in BOOLEAN
  /\ shadow \subseteq Addrs /\ mem \in [Locs -> Addrs \cup {None}]
  /\ epoch \in Nat /\ scanned \subseteq Pages
  /\ call \in Calls
  /\ faults \in [open : Nat, close : Nat]
  /\ armed \subseteq Addrs /\ dead \subseteq Addrs

\* Once stopless_revoke_close or stopless_revoke_now has returned 0, nothing
\* holds a live capability to an address marked when it was called, whether
\* the mark was made before the epoch was opened or after, whatever passes
\* failed in between, until the address is unmarked: its memory can be reused.
CleanOnSuccess == \A l \in Locs : mem[l] \notin dead

\* Once stopless_revoke_open has returned 0, and unless an epoch was open
\* already, no register holds and no load finds a live capability to an
\* address that was marked, also while closing fails and is tried again.
OpenArms ==
  /\ \A r \in Regs : mem[r] \notin armed
  /\ \A p \in Pages : Barrier(p)[p] \notin armed

\* Every call returns, however often the kernel fails.
CallReturns == call # Idle ~> call = Idle
=============================================================================
