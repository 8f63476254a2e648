--------------------------- MODULE SigprotHandler ---------------------------
(***************************************************************************)
(* The signal handlers of handler.c: what happens between a capability     *)
(* fault and the retry of the instruction, or the end of the process.      *)
(*                                                                         *)
(* A thread executes an access through register rn.  If the register's     *)
(* capability is not usable the kernel delivers SIGPROT to whoever owns it:*)
(* sigprot_handler, the crash dumper once it is armed, HotSpot, or nobody. *)
(* The first two decode the instruction, try its base register, then every *)
(* register in turn, then the program counter, and patch what forwards.    *)
(*                                                                         *)
(* Registers 0..MaxReg; the handler tries those below NTried (30 in the    *)
(* code, so c30 is never tried).  The forwarding table is used through its *)
(* contract: a lookup returns the current copy, or 0.  ForwardTable has its*)
(* steps, StoplessGC the collector that fills it.                          *)
(***************************************************************************)
EXTENDS CrashDumper

CONSTANTS
  Threads,
  MaxReg, NTried,
  Objects,       \* base addresses of objects before they move
  CopyOf,        \* CopyOf[o]: addresses an object may be copied to
  StartRegs,     \* each thread's registers at start
  CodeAddr,      \* address of the faulting instruction, si_addr
  ClearTags,     \* CHERI_CAPREVOKE_CLEARTAGS
  Evacuates,     \* stopless_set_evacuate_cb has been called
  PrevHandler,   \* who owns SIGPROT at start: "none" (SIG_DFL) or "hotspot"
  MayHang        \* STOPLESS_HANG_ON_CRASH

Regs == 0..MaxReg
Owners == {"none", "hotspot", "sigprot", "sigill", "dumper"}
Signals == {"PROT", "ILL"}

ASSUME HandlerAssumption ==
  /\ MaxReg \in Nat /\ NTried \in 0..MaxReg
  /\ Objects \subseteq Nat \ {0}
  /\ \A o \in Objects : CopyOf[o] \subseteq Nat \ (Objects \cup {0})
  /\ \A o, p \in Objects : o # p => CopyOf[o] \cap CopyOf[p] = {}
  /\ CodeAddr \notin Objects
  /\ ClearTags \in BOOLEAN /\ Evacuates \in BOOLEAN /\ MayHang \in BOOLEAN
  /\ PrevHandler \in {"none", "hotspot"}

VARIABLES
  regs,    \* each thread's capability registers
  slot,    \* a memory slot per thread, and whether
  pending, \* stopless_v1_pending_slot points to it
  fwd,     \* the forwarding table: object -> current copy, 0 if it has none
  owner,   \* the handler installed for each signal
  prevSa,  \* prev_sa, "unset" until the handler is installed
  armed,   \* the crash dumper has been armed
  ctl,     \* each thread's control point
  alive,   \* the process runs
  dump     \* the outcome of the crash dump

handlerVars == <<owner, prevSa, armed>>
vars == <<regs, slot, pending, fwd, handlerVars, ctl, alive, dump>>

-----------------------------------------------------------------------------
(* Capabilities.  A number is a capability without bounds or tag.          *)

Number(n)  == [base |-> 0, addr |-> n, tag |-> FALSE, perms |-> FALSE]
Ref(b, d)  == [base |-> b, addr |-> b + d, tag |-> TRUE, perms |-> TRUE]
NoCap      == Number(0)

Caps == [base : Nat, addr : Nat, tag : BOOLEAN, perms : BOOLEAN]

\* At start a register holds a number or a reference that points into its
\* object, where no other object begins.  A pointer one past the end of an
\* object, where the next one begins, is left out: the lookup by address would
\* forward it to the neighbour's copy.
ASSUME StartAssumption ==
  /\ StartRegs \in [Threads -> [Regs -> Caps]]
  /\ \A t \in Threads, r \in Regs :
       LET c == StartRegs[t][r] IN
       \/ c = Number(c.addr)
       \/ /\ c.base \in Objects /\ c.addr >= c.base
          /\ c = Ref(c.base, c.addr - c.base)
          /\ c.addr # c.base => c.addr \notin Objects

Usable(c)  == c.tag /\ c.perms

\* cheri_revoke_is_revoked, for either kind of kernel.
Revoked(c) == ~ c.tag \/ ~ c.perms

\* What revoking object o does to a capability.
Revoke(c, o) ==
  IF c.base # o THEN c
  ELSE IF ClearTags THEN [c EXCEPT !.tag = FALSE] ELSE [c EXCEPT !.perms = FALSE]

IsRef(c) == c.base # 0

\* The object and the place in it that a reference denotes.
ObjectAt(b) == IF b \in Objects THEN b ELSE CHOOSE o \in Objects : b \in CopyOf[o]
Denotes(c)  == <<ObjectAt(c.base), c.addr - c.base>>

\* forward_table_lookup, by its contract; objects move once here.
Lookup(a) == IF a \in Objects THEN fwd[a] ELSE 0

\* Mutant: the interior offset is lost.
RebasedToStart(c, b) == Ref(b, 0)

\* The capability to the copy at b that replaces c, c's offset re-applied.
Rebased(c, b) == Ref(b, c.addr - c.base)

\* STOPLESS_TRY_REG's two lookups: by the base, then by the address.
Forwarded(c) ==
  IF Lookup(c.base) # 0 THEN Rebased(c, Lookup(c.base))
  ELSE IF c.addr # c.base /\ Lookup(c.addr) # 0 THEN Ref(Lookup(c.addr), 0)
  ELSE NoCap

-----------------------------------------------------------------------------
(* The environment: accesses, and the collector's moves and revocations.   *)

\* pc; the instruction's base register rn; si_code; where the program
\* counter points; the register i at which the scan goes on; the register to
\* patch, -1 for none, and the capability for it; the handler running.
Running == [pc |-> "run", rn |-> 0, code |-> "tag", at |-> "code", i |-> 0,
            reg |-> -1, new |-> NoCap, by |-> "none"]

Go(t, c) == ctl' = [ctl EXCEPT ![t] = c]

\* The handler has returned to the instruction that faulted.
Returned(t) == [Running EXCEPT !.pc = "retry", !.rn = ctl[t].rn, !.code = ctl[t].code]

FaultCode(c) == IF ~ c.tag THEN "tag" ELSE "perm"

Raise(t, rn, code, at) ==
  /\ alive /\ ctl[t].pc = "run"
  /\ Go(t, [Running EXCEPT !.pc = "fault", !.rn = rn, !.code = code, !.at = at])
  /\ UNCHANGED <<fwd, handlerVars, alive, dump>>

\* A load or store through a capability that is not usable.
Access(t, rn) ==
  /\ Revoked(regs[t][rn])
  /\ Raise(t, rn, FaultCode(regs[t][rn]), "code")
  /\ UNCHANGED <<regs, slot, pending>>

\* The tests' access: load the slot, announce it, dereference what was loaded.
AccessSlot(t) ==
  /\ Revoked(slot[t])
  /\ alive /\ ctl[t].pc = "run"
  /\ regs' = [regs EXCEPT ![t][0] = slot[t]]
  /\ pending' = [pending EXCEPT ![t] = TRUE]
  /\ Go(t, [Running EXCEPT !.pc = "fault", !.code = FaultCode(slot[t])])
  /\ UNCHANGED <<slot, fwd, handlerVars, alive, dump>>

\* Faults that are not of a revoked capability: out of bounds, a SafeFetch
\* probe, a jump through a bad capability, an illegal instruction.
OtherFault(t) ==
  /\ \/ Raise(t, 0, "other", "code")
     \/ Raise(t, 0, "tag", "safefetch")
     \/ Raise(t, 0, "tag", "bad")
     \/ Raise(t, 0, "ill", "code")
  /\ UNCHANGED <<regs, slot, pending>>

\* At a safepoint the collector moves object o and its old copy is revoked;
\* with an evacuation hook it may revoke first and leave the copying to the
\* mutators.
AtSafepoint == alive /\ \A t \in Threads : ctl[t].pc = "run"

RevokeAll(o) ==
  /\ regs' = [t \in Threads |-> [r \in Regs |-> Revoke(regs[t][r], o)]]
  /\ slot' = [t \in Threads |-> Revoke(slot[t], o)]

Move(o) ==
  /\ AtSafepoint /\ fwd[o] = 0
  /\ \/ \E b \in CopyOf[o] : fwd' = [fwd EXCEPT ![o] = b]
     \/ Evacuates /\ fwd' = fwd
  /\ RevokeAll(o)
  /\ UNCHANGED <<pending, handlerVars, ctl, alive, dump>>

-----------------------------------------------------------------------------
(* Installing handlers.                                                    *)

QuietVars == <<regs, slot, pending, fwd, ctl, alive, dump>>

\* stopless_handler_install; its callers install once.
HandlerInstall ==
  /\ AtSafepoint /\ prevSa = "unset"
  /\ prevSa' = owner["PROT"]
  /\ owner' = [s \in Signals |-> IF s = "PROT" THEN "sigprot" ELSE "sigill"]
  /\ UNCHANGED <<armed, QuietVars>>

\* stopless_handler_remove
HandlerRemove ==
  /\ AtSafepoint /\ owner["PROT"] \in {"sigprot", "dumper"}
  /\ owner' = [owner EXCEPT !["PROT"] = prevSa]
  /\ UNCHANGED <<prevSa, armed, QuietVars>>

\* stopless_install_crash_diag, from the first class initializer: the heap,
\* and with it the handler, is there already
InstallCrashDiag ==
  /\ alive /\ owner["PROT"] = "sigprot"
  /\ ~ armed
  /\ armed' = TRUE
  /\ owner' = [s \in Signals |-> "dumper"]
  /\ UNCHANGED <<prevSa, QuietVars>>

-----------------------------------------------------------------------------
(* Delivery.                                                               *)

Unpatched == <<regs, slot, pending, fwd>>

\* The process is killed, by the default action or a fault in a handler.
Die ==
  /\ alive' = FALSE
  /\ ctl' = [t \in Threads |-> [Running EXCEPT !.pc = "dead"]]

Signal(t) == IF ctl[t].code = "ill" THEN "ILL" ELSE "PROT"
Owner(t)  == owner[Signal(t)]

AtFault(t) == alive /\ ctl[t].pc = "fault"

\* stopless_safefetch_redirect: continue behind the probe.
SafeFetchRedirect(t) ==
  /\ AtFault(t) /\ Owner(t) \in {"sigprot", "dumper"} /\ ctl[t].at = "safefetch"
  /\ Go(t, Running)
  /\ UNCHANGED <<Unpatched, handlerVars, alive, dump>>

\* si_code is that of a revoked capability: stopless_try_heal.
EnterHeal(t) ==
  /\ AtFault(t) /\ Owner(t) \in {"sigprot", "dumper"} /\ ctl[t].at # "safefetch"
  /\ ctl[t].code \in {"tag", "perm"}
  /\ Go(t, [ctl[t] EXCEPT !.pc = "decode", !.by = Owner(t)])
  /\ UNCHANGED <<Unpatched, handlerVars, alive, dump>>

\* Another si_code: the previous handler if there is one, and return.
PassOn(t) ==
  /\ AtFault(t) /\ Owner(t) = "sigprot" /\ ctl[t].code = "other"
  /\ \/ Go(t, IF prevSa = "none" THEN Returned(t) ELSE Running) /\ UNCHANGED alive
     \/ prevSa # "none" /\ Die
  /\ UNCHANGED <<Unpatched, handlerVars, dump>>

EnterDump(t) ==
  /\ AtFault(t) /\ Owner(t) = "dumper" /\ ctl[t].code \notin {"tag", "perm"}
  /\ Go(t, [ctl[t] EXCEPT !.pc = "dump"])
  /\ UNCHANGED <<Unpatched, handlerVars, alive, dump>>

\* Nobody, HotSpot's error reporter or sigill_handler: the process ends.
Fatal(t) ==
  /\ AtFault(t) /\ Owner(t) \in {"none", "hotspot", "sigill"}
  /\ Die
  /\ UNCHANGED <<Unpatched, handlerVars, dump>>

-----------------------------------------------------------------------------
(* stopless_try_heal.                                                      *)

\* Register i is a candidate.
Tried(t, i) == i < NTried /\ Revoked(regs[t][i])

\* STOPLESS_TRY_REG(i) for a candidate.  The control point after a miss is
\* next, with i tried.
TryReg(t, i, next) ==
  LET new == Forwarded(regs[t][i])
  IN  Go(t, IF new # NoCap THEN [ctl[t] EXCEPT !.pc = "heal", !.reg = i, !.new = new]
            ELSE IF Evacuates THEN [ctl[t] EXCEPT !.pc = "evacuate", !.reg = i, !.i = next]
            ELSE [ctl[t] EXCEPT !.pc = "scan", !.i = next])

\* Mutant: the instruction is not decoded (the handler's first version).
DecodeSkipped(t) ==
  /\ alive /\ ctl[t].pc = "decode"
  /\ Go(t, [ctl[t] EXCEPT !.pc = "scan", !.i = 0])
  /\ UNCHANGED <<Unpatched, handlerVars, alive, dump>>

\* Fetch the faulting instruction and try its base register.  Fetching
\* through a bad program counter is a fault in the handler.
Decode(t) ==
  /\ alive /\ ctl[t].pc = "decode"
  /\ \/ ctl[t].at = "bad" /\ Die
     \/ /\ ctl[t].at = "code" /\ UNCHANGED alive
        /\ IF Tried(t, ctl[t].rn) THEN TryReg(t, ctl[t].rn, 0)
           ELSE Go(t, [ctl[t] EXCEPT !.pc = "scan", !.i = 0])
  /\ UNCHANGED <<Unpatched, handlerVars, dump>>

Candidates(t) == {i \in Regs : i >= ctl[t].i /\ Tried(t, i)}

\* The fallback scan over the register file, one candidate at a time.
Scan(t) ==
  /\ alive /\ ctl[t].pc = "scan"
  /\ \E i \in Candidates(t) :
       (\A j \in Candidates(t) : i <= j) /\ TryReg(t, i, i + 1)
  /\ UNCHANGED <<Unpatched, handlerVars, alive, dump>>

\* The last resort, si_addr: it names no register.
LastResort(t) ==
  /\ alive /\ ctl[t].pc = "scan" /\ Candidates(t) = {}
  /\ Go(t, IF Lookup(CodeAddr) # 0
           THEN [ctl[t] EXCEPT !.pc = "heal", !.reg = -1, !.new = Ref(Lookup(CodeAddr), 0)]
           ELSE [ctl[t] EXCEPT !.pc = "unhealed"])
  /\ UNCHANGED <<Unpatched, handlerVars, alive, dump>>

\* Mutant: the arguments of the insertion are swapped.
CasInsertSwapped(o, b) == [fwd EXCEPT ![o] = IF @ = 0 THEN o ELSE @]

\* Mutant: the copy just made replaces the one another thread has published.
CasInsertOverwrites(o, b) == [fwd EXCEPT ![o] = b]

\* forward_table_cas_insert: the first copy wins.
CasInsert(o, b) == [fwd EXCEPT ![o] = IF @ = 0 THEN b ELSE @]

\* The evacuation hook: copy the object, publish the copy; NULL if the
\* address is not an object's.
Evacuate(t) ==
  LET c == regs[t][ctl[t].reg]
  IN  /\ alive /\ ctl[t].pc = "evacuate"
      /\ \/ /\ c.base \notin Objects
            /\ Go(t, [ctl[t] EXCEPT !.pc = "scan", !.reg = -1])
            /\ UNCHANGED fwd
         \/ /\ c.base \in Objects
            /\ \E b \in CopyOf[c.base] : fwd' = CasInsert(c.base, b)
            /\ Go(t, [ctl[t] EXCEPT !.pc = "heal", !.new = Rebased(c, fwd'[c.base])])
      /\ UNCHANGED <<regs, slot, pending, handlerVars, alive, dump>>

\* Mutant: the announced slot is not forgotten.
PendingKept(t) == pending

PendingCleared(t) == [pending EXCEPT ![t] = FALSE]

\* Mutant: only the slot is healed (the handler's first version).
UnpatchedRegs(t) == regs

\* The saved registers with the new capability in place.
PatchedRegs(t) ==
  IF ctl[t].reg >= 0 THEN [regs EXCEPT ![t][ctl[t].reg] = ctl[t].new] ELSE regs

\* Patch the register, heal the announced slot, return to the instruction.
Heal(t) ==
  /\ alive /\ ctl[t].pc = "heal"
  /\ regs' = PatchedRegs(t)
  /\ slot' = IF pending[t] THEN [slot EXCEPT ![t] = ctl[t].new] ELSE slot
  /\ pending' = PendingCleared(t)
  /\ Go(t, Returned(t))
  /\ UNCHANGED <<fwd, handlerVars, alive, dump>>

\* Not healed: the default action, or a dump first.
Unhealed(t) ==
  /\ alive /\ ctl[t].pc = "unhealed"
  /\ IF ctl[t].by = "dumper"
     THEN Go(t, [ctl[t] EXCEPT !.pc = "dump"]) /\ UNCHANGED <<owner, alive>>
     ELSE owner' = [owner EXCEPT !["PROT"] = "none"] /\ Die
  /\ UNCHANGED <<Unpatched, prevSa, armed, dump>>

\* The rest of stopless_crash_dumper.
Dump(t) ==
  /\ alive /\ ctl[t].pc = "dump"
  /\ dump' \in DumpOutcomes
  /\ \/ Die
     \/ /\ MayHang /\ dump'.result = "complete"
        /\ Go(t, [ctl[t] EXCEPT !.pc = "hung"]) /\ UNCHANGED alive
  /\ UNCHANGED <<Unpatched, handlerVars>>

\* The instruction executes again.
Retry(t) ==
  /\ alive /\ ctl[t].pc = "retry"
  /\ LET c == regs[t][ctl[t].rn]
     IN Go(t, IF ctl[t].code = "other" THEN [ctl[t] EXCEPT !.pc = "fault"]
              ELSE IF Usable(c) THEN Running
              ELSE [ctl[t] EXCEPT !.pc = "fault", !.code = FaultCode(c)])
  /\ UNCHANGED <<Unpatched, handlerVars, alive, dump>>

-----------------------------------------------------------------------------

Init ==
  /\ regs = StartRegs
  /\ slot = [t \in Threads |-> regs[t][0]]
  /\ pending = [t \in Threads |-> FALSE]
  /\ fwd = [o \in Objects |-> 0]
  /\ owner = [s \in Signals |-> IF s = "PROT" THEN PrevHandler ELSE "sigill"]
  /\ prevSa = "unset"
  /\ armed = FALSE
  /\ ctl = [t \in Threads |-> Running]
  /\ alive = TRUE
  /\ dump = [result |-> "none", edge |-> FALSE]

\* A step of a handler, or the instruction it returns to.
HandlerStep(t) ==
  \/ SafeFetchRedirect(t) \/ EnterHeal(t) \/ PassOn(t) \/ EnterDump(t) \/ Fatal(t)
  \/ Decode(t) \/ Scan(t) \/ LastResort(t) \/ Evacuate(t)
  \/ Heal(t) \/ Unhealed(t) \/ Dump(t) \/ Retry(t)

Next ==
  \/ \E t \in Threads : HandlerStep(t) \/ OtherFault(t) \/ AccessSlot(t)
  \/ \E t \in Threads, rn \in Regs : Access(t, rn)
  \/ \E o \in Objects : Move(o)
  \/ HandlerInstall \/ HandlerRemove \/ InstallCrashDiag

Spec == Init /\ [][Next]_vars

\* A thread inside a handler keeps running: no handler waits for anything.
LiveSpec == Spec /\ \A t \in Threads : WF_vars(HandlerStep(t))

-----------------------------------------------------------------------------
(* Properties.                                                             *)

Controls == [pc : {"run", "fault", "decode", "scan", "evacuate", "heal",
                   "unhealed", "dump", "retry", "dead", "hung"},
             rn : Regs, code : {"tag", "perm", "other", "ill"},
             at : {"code", "safefetch", "bad"}, i : 0..(MaxReg + 1),
             reg : Regs \cup {-1}, new : Caps, by : Owners]

\* The state is well formed.
TypeOK ==
  /\ regs \in [Threads -> [Regs -> Caps]]
  /\ slot \in [Threads -> Caps] /\ pending \in [Threads -> BOOLEAN]
  /\ fwd \in [Objects -> Nat]
  /\ \A o \in Objects : fwd[o] \in CopyOf[o] \cup {0}
  /\ owner \in [Signals -> Owners] /\ prevSa \in {"unset", "none", "hotspot"} /\ armed \in BOOLEAN
  /\ ctl \in [Threads -> Controls]
  /\ alive \in BOOLEAN

\* While a thread is in a handler, whatever is patched: a register that held a
\* reference denotes the same place of the same object as before, interior
\* pointers included.  No access is redirected to another object.
HealKeepsReferences ==
  [][\A t \in Threads, r \in Regs :
       ctl[t].pc # "run" /\ IsRef(regs[t][r]) =>
         IsRef(regs'[t][r]) /\ Denotes(regs'[t][r]) = Denotes(regs[t][r])]_vars

\* The decoded base register is the one that is patched.  Another is, and a
\* number that equals an old address may be taken for a reference, only if the
\* base register is c30 or holds no reference at all.
HealIsExact ==
  \A t \in Threads : ctl[t].pc = "heal" =>
    \/ ctl[t].reg = ctl[t].rn
    \/ ctl[t].rn >= NTried
    \/ ~ IsRef(regs[t][ctl[t].rn])

\* Threads that evacuate one object at the same time end up on one copy: every
\* usable reference is to the copy the forwarding table names.
UsableIsCurrent ==
  \A t \in Threads : \A c \in {regs[t][r] : r \in Regs} \cup {slot[t]} :
    IsRef(c) /\ Usable(c) =>
      LET o == ObjectAt(c.base) IN c.base = IF fwd[o] = 0 THEN o ELSE fwd[o]

\* Self-heal writes to the slot it was told about, and at the right fault: the
\* slot never changes the object it refers to.
SlotKeepsObject ==
  [][\A t \in Threads : IsRef(slot[t]) => IsRef(slot'[t]) /\ Denotes(slot'[t])[1] = Denotes(slot[t])[1]]_vars

\* A crash dump ends before its time, by a fault of its own, only if the crash
\* left a number within a few words of either end of the address space (null
\* included) or a misaligned slot address in a register it reads through, or a
\* stack pointer that is tagged but sealed or not for loading.  Naming the
\* method is not covered: stopless_method_name dereferences c12, and a fault in
\* it, with SIGPROT blocked, ends the dump too.
DumpCutOnlyAtEdges == dump.result = "cut" => dump.edge

\* Every fault ends: the access succeeds, the signal is handled elsewhere, or
\* the process dies or stops for the debugger.  Healing the wrong register
\* does not go on for ever.
FaultEnds ==
  \A t \in Threads : ctl[t].pc = "fault" ~> ctl[t].pc \in {"run", "hung"} \/ ~ alive
=============================================================================
