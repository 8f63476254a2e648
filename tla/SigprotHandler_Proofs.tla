------------------------ MODULE SigprotHandler_Proofs ------------------------
(***************************************************************************)
(* What the SIGPROT handler does to references, for any number of threads, *)
(* registers and objects, whoever copies them.                             *)
(*                                                                         *)
(* A capability is a number, a reference to an object that has not moved   *)
(* as far as it knows, or a usable reference to the copy in force (CapOK). *)
(* The references to one object are revoked together (TogetherInv), so a   *)
(* thread that publishes a copy from within the handler leaves no usable   *)
(* reference to the original behind.  What a handler has found by the time *)
(* it patches (CtlOK) survives the steps of the other threads, because an  *)
(* entry of the forwarding table is never replaced.                        *)
(***************************************************************************)
EXTENDS SigprotHandler, ArithmeticLemmas, TLAPS

\* A reference to the copy in force.
CurrentRef(c) ==
  c \in Caps /\ Usable(c) /\ c.addr >= c.base /\ \E o \in Objects : c.base \in CopyOf[o] /\ fwd[o] = c.base

\* A reference to where an object was at first: it is usable until the object
\* moves, and points into that object.  Without an evacuation hook the object
\* has its copy before its references are revoked.
FirstRef(c) ==
  /\ c.base \in Objects /\ c.addr >= c.base
  /\ c.addr # c.base => c.addr \notin Objects
  /\ Usable(c) => fwd[c.base] = 0
  /\ ~ Usable(c) /\ ~ Evacuates => fwd[c.base] # 0

CapOK(c) == (~ IsRef(c) /\ ~ Usable(c)) \/ FirstRef(c) \/ CurrentRef(c)

CapInv == \A t \in Threads : CapOK(slot[t]) /\ \A r \in Regs : CapOK(regs[t][r])

\* The references to where o was are all usable or all revoked.
AllUsable(o) ==
  \A t \in Threads : /\ slot[t].base = o => Usable(slot[t])
                     /\ \A r \in Regs : regs[t][r].base = o => Usable(regs[t][r])
AllRevoked(o) ==
  \A t \in Threads : /\ slot[t].base = o => ~ Usable(slot[t])
                     /\ \A r \in Regs : regs[t][r].base = o => ~ Usable(regs[t][r])

TogetherInv == \A o \in Objects : AllUsable(o) \/ AllRevoked(o)

\* The base register of the instruction is beyond the handler's reach.
Stray(t, k) == k.rn >= NTried \/ ~ IsRef(regs[t][k.rn])

InHandler == {"decode", "scan", "evacuate", "heal"}

\* What a thread at control point k relies on.
CtlOK(t, k) ==
  /\ k.pc \in InHandler => k.code \in {"tag", "perm"} /\ k.at \in {"code", "bad"}
  /\ k.pc \in InHandler \ {"decode"} => k.at = "code"
  /\ k.pc \in InHandler \cup {"fault"} /\ k.code \in {"tag", "perm"} /\ k.at = "code" =>
       Revoked(regs[t][k.rn])
  /\ k.pc \in {"evacuate", "heal"} =>
       k.reg \in Regs /\ k.reg < NTried /\ Revoked(regs[t][k.reg]) /\ (k.reg = k.rn \/ Stray(t, k))
  /\ k.pc = "scan" => Stray(t, k)
  /\ k.pc = "heal" =>
       CurrentRef(k.new) /\ (IsRef(regs[t][k.reg]) => Denotes(k.new) = Denotes(regs[t][k.reg]))
  /\ k.pc = "retry" => k.at = "code"
  /\ pending[t] => k.pc \notin {"run", "retry"}
  /\ pending[t] /\ k.pc \in InHandler \cup {"fault"} =>
       k.rn = 0 /\ regs[t][0] = slot[t] /\ k.at = "code" /\ k.code \in {"tag", "perm"}

CtlInv == \A t \in Threads : CtlOK(t, ctl[t])

\* Until the handler is installed SIGPROT has its owner of the start.
OwnerInv == prevSa = "unset" => owner["PROT"] \in {"none", "hotspot"}

RefInv == CapInv /\ TogetherInv /\ CtlInv

IInv == TypeOK /\ RefInv /\ OwnerInv
-----------------------------------------------------------------------------
(* Capabilities.                                                           *)

LEMMA ObjectFacts ==
  /\ 0 \notin Objects /\ Objects \subseteq Nat
  /\ \A o \in Objects : ObjectAt(o) = o
  /\ \A o \in Objects : \A b \in CopyOf[o] :
       b \in Nat /\ b \notin Objects /\ b # 0 /\ ObjectAt(b) = o
<1>1. /\ 0 \notin Objects /\ Objects \subseteq Nat
      /\ \A o \in Objects : \A b \in CopyOf[o] : b \in Nat /\ b \notin Objects /\ b # 0
      /\ \A o, p \in Objects : o # p => CopyOf[o] \cap CopyOf[p] = {}
  BY HandlerAssumption
<1>2. \A o \in Objects : ObjectAt(o) = o
  BY DEF ObjectAt
<1>3. ASSUME NEW o \in Objects, NEW b \in CopyOf[o] PROVE ObjectAt(b) = o
  <2>1. \A p \in Objects : b \in CopyOf[p] => p = o
    BY <1>1
  <2>2. ObjectAt(b) = CHOOSE p \in Objects : b \in CopyOf[p]
    BY <1>1 DEF ObjectAt
  <2> QED
    BY <2>1, <2>2
<1> QED
  BY <1>1, <1>2, <1>3

LEMMA RegsFacts == 0 \in Regs /\ Regs \subseteq Nat /\ NTried \in Nat
                   /\ 0 \in 0 .. (MaxReg + 1)
                   /\ \A i \in Regs : i + 1 \in 0 .. (MaxReg + 1)
  BY HandlerAssumption DEF Regs

LEMMA RevokedIsNotUsable == ASSUME NEW c \in Caps PROVE Revoked(c) <=> ~ Usable(c)
  BY DEF Revoked, Usable

LEMMA NoCapFacts == NoCap \in Caps /\ NoCap.tag = FALSE
  BY DEF NoCap, Number, Caps

LEMMA RefFacts ==
  ASSUME NEW b \in Nat, NEW d \in Nat
  PROVE  /\ Ref(b, d) \in Caps /\ Ref(b, d) # NoCap /\ Usable(Ref(b, d))
         /\ Ref(b, d).base = b /\ Ref(b, d).addr = b + d
  BY DEF Ref, Caps, Usable, NoCap, Number

\* Rebasing to a copy keeps the object and the offset.
LEMMA RebasedFacts ==
  ASSUME NEW c \in Caps, c.base \in Objects, c.addr >= c.base, NEW b \in CopyOf[c.base]
  PROVE  /\ Rebased(c, b) \in Caps /\ Rebased(c, b) # NoCap
         /\ Usable(Rebased(c, b)) /\ Rebased(c, b).base = b
         /\ Rebased(c, b).addr >= b /\ Denotes(Rebased(c, b)) = Denotes(c)
<1> DEFINE d == c.addr - c.base
<1>1. d \in Nat /\ b \in Nat /\ ObjectAt(b) = c.base /\ ObjectAt(c.base) = c.base
  BY ObjectFacts DEF Caps
<1>2. Rebased(c, b) = Ref(b, d)
  BY DEF Rebased
<1> HIDE DEF d
<1>3. /\ Ref(b, d) \in Caps /\ Ref(b, d) # NoCap /\ Usable(Ref(b, d))
      /\ Ref(b, d).base = b /\ Ref(b, d).addr = b + d
  BY <1>1, RefFacts
<1>4. Ref(b, d).addr - Ref(b, d).base = d
  BY <1>1, <1>3
<1>5. Denotes(Ref(b, d)) = Denotes(c)
  BY <1>1, <1>3, <1>4 DEF Denotes, d
<1> QED
  BY <1>1, <1>2, <1>3, <1>5

\* What the two lookups of STOPLESS_TRY_REG find for a revoked capability: the
\* current copy of the object it refers to, if that has one.
LEMMA ForwardedFacts ==
  ASSUME TypeOK, NEW c \in Caps, CapOK(c), Revoked(c)
  PROVE  /\ Forwarded(c) # NoCap =>
              CurrentRef(Forwarded(c)) /\ (IsRef(c) => Denotes(Forwarded(c)) = Denotes(c))
         /\ Forwarded(c) = NoCap /\ IsRef(c) => Evacuates
         /\ Forwarded(c) \in Caps
<1>0. ~ Usable(c) /\ ~ CurrentRef(c)
  BY RevokedIsNotUsable DEF CurrentRef
<1>1. \A o \in Objects : fwd[o] \in CopyOf[o] \/ fwd[o] = 0
  BY DEF TypeOK
<1>2. CASE IsRef(c)
  <2>1. FirstRef(c)
    BY <1>0, <1>2 DEF CapOK
  <2>2. CASE fwd[c.base] # 0
    <3>1. Forwarded(c) = Rebased(c, fwd[c.base]) /\ fwd[c.base] \in CopyOf[c.base]
      BY <1>1, <2>1, <2>2 DEF Forwarded, Lookup, FirstRef
    <3> DEFINE new == Rebased(c, fwd[c.base])
    <3>2. c.base \in Objects /\ c.addr >= c.base
      BY <2>1 DEF FirstRef
    <3>3. /\ new \in Caps /\ new # NoCap /\ Usable(new) /\ new.base = fwd[c.base]
          /\ new.addr >= fwd[c.base] /\ Denotes(new) = Denotes(c)
      BY <3>1, <3>2, RebasedFacts
    <3> HIDE DEF new
    <3>4. CurrentRef(new)
      BY <3>1, <3>2, <3>3 DEF CurrentRef
    <3> QED
      BY <3>1, <3>3, <3>4 DEF new
  <2>3. CASE fwd[c.base] = 0
    <3>1. Forwarded(c) = NoCap
      BY <2>1, <2>3 DEF Forwarded, Lookup, FirstRef
    <3> QED
      BY <1>0, <2>1, <2>3, <3>1, NoCapFacts DEF FirstRef
  <2> QED
    BY <2>2, <2>3
<1>3. CASE ~ IsRef(c)
  <2>1. Lookup(c.base) = 0
    BY <1>3, ObjectFacts DEF IsRef, Lookup
  <2>2. CASE c.addr # c.base /\ Lookup(c.addr) # 0
    <3>1. /\ Forwarded(c) = Ref(Lookup(c.addr), 0)
          /\ c.addr \in Objects /\ Lookup(c.addr) = fwd[c.addr] /\ fwd[c.addr] \in CopyOf[c.addr]
      BY <1>1, <2>1, <2>2 DEF Forwarded, Lookup
    <3>2. fwd[c.addr] \in Nat
      BY <3>1, ObjectFacts
    <3> DEFINE new == Ref(fwd[c.addr], 0)
    <3>3. /\ new \in Caps /\ new # NoCap /\ Usable(new)
          /\ new.base = fwd[c.addr] /\ new.addr = fwd[c.addr] + 0
      BY <3>2, RefFacts
    <3> HIDE DEF new
    <3>4. CurrentRef(new)
      BY <3>1, <3>2, <3>3 DEF CurrentRef
    <3> QED
      BY <1>3, <3>1, <3>3, <3>4 DEF new
  <2>3. CASE ~ (c.addr # c.base /\ Lookup(c.addr) # 0)
    BY <1>3, <2>1, <2>3, NoCapFacts DEF Forwarded
  <2> QED
    BY <2>2, <2>3
<1> QED
  BY <1>2, <1>3
-----------------------------------------------------------------------------
(* Steps of one thread that leave registers, slots and table alone.        *)

\* A published copy stays: what another thread relies on is not disturbed.
LEMMA CtlStable ==
  ASSUME NEW t \in Threads, CtlOK(t, ctl[t]), ctl'[t] = ctl[t], regs'[t] = regs[t],
         slot'[t] = slot[t], pending'[t] = pending[t],
         \A o \in Objects : fwd[o] # 0 => fwd'[o] = fwd[o]
  PROVE  CtlOK(t, ctl[t])'
<1>1. CurrentRef(ctl[t].new) => CurrentRef(ctl[t].new)'
  BY ObjectFacts DEF CurrentRef
<1> QED
  BY <1>1 DEF CtlOK, Stray

LEMMA GoCtl ==
  ASSUME TypeOK, RefInv, NEW t \in Threads, NEW d \in Controls, Go(t, d),
         UNCHANGED <<regs, slot, pending, fwd>>, CtlOK(t, d)
  PROVE  (ctl \in [Threads -> Controls])' /\ RefInv'
<1>1. ctl' \in [Threads -> Controls] /\ ctl'[t] = d /\ \A u \in Threads : u # t => ctl'[u] = ctl[u]
  BY DEF TypeOK, Go
<1>2. CapInv' /\ TogetherInv'
  BY DEF RefInv, CapInv, CapOK, FirstRef, CurrentRef, TogetherInv, AllUsable, AllRevoked
<1>3. ASSUME NEW u \in Threads PROVE CtlOK(u, ctl[u])'
  <2>1. CASE u = t
    BY <1>1, <2>1 DEF CtlOK, Stray, CurrentRef
  <2>2. CASE u # t
    BY <1>1, <2>2, CtlStable DEF RefInv, CtlInv
  <2> QED
    BY <2>1, <2>2
<1> QED
  BY <1>1, <1>2, <1>3 DEF RefInv, CtlInv

LEMMA RunningFacts ==
  /\ Running \in Controls /\ Running.pc = "run" /\ Running.rn = 0 /\ Running.at = "code"
  BY RegsFacts, NoCapFacts DEF Running, Controls, Owners

\* The process dies.
LEMMA DieFacts ==
  ASSUME TypeOK, RefInv, Die, UNCHANGED <<regs, slot, pending, fwd>>
  PROVE  (ctl \in [Threads -> Controls])' /\ RefInv' /\ alive' = FALSE
<1> DEFINE d == [Running EXCEPT !.pc = "dead"]
<1>1. d \in Controls /\ d.pc = "dead"
  BY RegsFacts, NoCapFacts DEF Running, Controls, Owners
<1>2. ctl' = [t \in Threads |-> d] /\ alive' = FALSE
  BY DEF Die
<1> HIDE DEF d
<1>3. CapInv' /\ TogetherInv'
  BY DEF RefInv, CapInv, CapOK, FirstRef, CurrentRef, TogetherInv, AllUsable, AllRevoked
<1>4. CtlInv'
  BY <1>1, <1>2 DEF CtlInv, CtlOK, InHandler
<1> QED
  BY <1>1, <1>2, <1>3, <1>4 DEF RefInv

LEMMA FaultCodeFacts == \A c : FaultCode(c) \in {"tag", "perm"}
  BY DEF FaultCode

\* STOPLESS_TRY_REG.
LEMMA TryRegStep ==
  ASSUME TypeOK, RefInv, NEW t \in Threads, NEW i \in Regs, NEW next \in 0 .. (MaxReg + 1),
         ctl[t].pc \in {"decode", "scan"}, ctl[t].at = "code",
         Tried(t, i), i = ctl[t].rn \/ Stray(t, ctl[t]),
         TryReg(t, i, next), UNCHANGED <<regs, slot, pending, fwd>>
  PROVE  (ctl \in [Threads -> Controls])' /\ RefInv'
<1> DEFINE c == regs[t][i]
           k == ctl[t]
           new == Forwarded(c)
<1>1. k \in Controls /\ c \in Caps /\ CapOK(c) /\ CtlOK(t, k)
  BY DEF TypeOK, RefInv, CapInv, CtlInv
<1>2. i < NTried /\ Revoked(c)
  BY DEF Tried
<1>3. /\ new # NoCap => CurrentRef(new) /\ (IsRef(c) => Denotes(new) = Denotes(c))
      /\ new = NoCap /\ IsRef(c) => Evacuates
      /\ new \in Caps
  BY <1>1, <1>2, ForwardedFacts
<1>4. CASE new # NoCap
  <2> DEFINE d == [k EXCEPT !.pc = "heal", !.reg = i, !.new = new]
  <2>1. /\ d \in Controls /\ d.pc = "heal" /\ d.reg = i /\ d.new = new
        /\ d.rn = k.rn /\ d.code = k.code /\ d.at = k.at
    BY <1>1, <1>3 DEF Controls
  <2>2. Go(t, d)
    BY <1>4 DEF TryReg
  <2> HIDE DEF d, new
  <2>3. CtlOK(t, d)
    BY <1>1, <1>2, <1>3, <1>4, <2>1 DEF CtlOK, InHandler, Stray
  <2> QED
    BY <2>1, <2>2, <2>3, GoCtl
<1>5. CASE new = NoCap /\ Evacuates
  <2> DEFINE d == [k EXCEPT !.pc = "evacuate", !.reg = i, !.i = next]
  <2>1. /\ d \in Controls /\ d.pc = "evacuate" /\ d.reg = i
        /\ d.rn = k.rn /\ d.code = k.code /\ d.at = k.at
    BY <1>1 DEF Controls
  <2>2. Go(t, d)
    BY <1>5 DEF TryReg
  <2> HIDE DEF d, new
  <2>3. CtlOK(t, d)
    BY <1>1, <1>2, <2>1 DEF CtlOK, InHandler, Stray
  <2> QED
    BY <2>1, <2>2, <2>3, GoCtl
<1>6. CASE new = NoCap /\ ~ Evacuates
  <2> DEFINE d == [k EXCEPT !.pc = "scan", !.i = next]
  <2>1. d \in Controls /\ d.pc = "scan" /\ d.rn = k.rn /\ d.code = k.code /\ d.at = k.at
    BY <1>1 DEF Controls
  <2>2. Go(t, d)
    BY <1>6 DEF TryReg
  <2> HIDE DEF d, new
  <2>3. Stray(t, d)
    BY <1>3, <1>6, <2>1 DEF Stray
  <2>4. CtlOK(t, d)
    BY <1>1, <2>1, <2>3 DEF CtlOK, InHandler
  <2> QED
    BY <2>1, <2>2, <2>4, GoCtl
<1> QED
  BY <1>4, <1>5, <1>6
-----------------------------------------------------------------------------
(* Every action keeps the invariant.  Good is what each shows; alive, owner*)
(* and dump are apart.                                                     *)

Good == /\ (regs \in [Threads -> [Regs -> Caps]])' /\ (slot \in [Threads -> Caps])'
        /\ (pending \in [Threads -> BOOLEAN])'
        /\ (fwd \in [Objects -> Nat])' /\ (\A o \in Objects : fwd[o] \in CopyOf[o] \cup {0})'
        /\ (ctl \in [Threads -> Controls])' /\ RefInv'

\* A step of the handler that only moves the thread's control point.
LEMMA GoGood ==
  ASSUME TypeOK, RefInv, NEW t \in Threads, NEW d \in Controls, Go(t, d),
         UNCHANGED <<regs, slot, pending, fwd>>, CtlOK(t, d)
  PROVE  Good
<1>1. (ctl \in [Threads -> Controls])' /\ RefInv'
  BY GoCtl
<1> QED
  BY <1>1 DEF Good, TypeOK

LEMMA DieGood ==
  ASSUME TypeOK, RefInv, Die, UNCHANGED <<regs, slot, pending, fwd>>
  PROVE  Good
<1>1. (ctl \in [Threads -> Controls])' /\ RefInv'
  BY DieFacts
<1> QED
  BY <1>1 DEF Good, TypeOK

\* What a thread's own part of the invariant is.
LEMMA ThreadFacts ==
  ASSUME TypeOK, RefInv, NEW t \in Threads
  PROVE  /\ ctl[t] \in Controls /\ CtlOK(t, ctl[t]) /\ ctl[t].rn \in Regs
         /\ ctl[t].pc = "run" => ~ pending[t]
         /\ \A r \in Regs : regs[t][r] \in Caps /\ CapOK(regs[t][r])
         /\ slot[t] \in Caps /\ CapOK(slot[t])
<1>1. ctl[t] \in Controls /\ CtlOK(t, ctl[t])
  BY DEF TypeOK, RefInv, CtlInv
<1>2. ctl[t].rn \in Regs
  BY <1>1 DEF Controls
<1> QED
  BY <1>1, <1>2 DEF TypeOK, RefInv, CapInv, CtlOK

LEMMA FaultSteps ==
  ASSUME TypeOK, RefInv, NEW t \in Threads,
         \/ SafeFetchRedirect(t) \/ EnterHeal(t) \/ PassOn(t) \/ EnterDump(t) \/ Fatal(t)
  PROVE  Good
<1> DEFINE k == ctl[t]
<1>1. k \in Controls /\ CtlOK(t, k) /\ k.pc = "fault"
  BY ThreadFacts DEF SafeFetchRedirect, EnterHeal, PassOn, EnterDump, Fatal, AtFault
<1>2. UNCHANGED <<regs, slot, pending, fwd>>
  BY DEF SafeFetchRedirect, EnterHeal, PassOn, EnterDump, Fatal, Unpatched
<1>3. CASE SafeFetchRedirect(t)
  <2>1. ~ pending[t] /\ Go(t, Running)
    BY <1>1, <1>3 DEF SafeFetchRedirect, CtlOK
  <2>2. CtlOK(t, Running)
    BY <2>1, RunningFacts DEF CtlOK, InHandler
  <2> QED
    BY <1>2, <2>1, <2>2, RunningFacts, GoGood
<1>4. CASE EnterHeal(t)
  <2> DEFINE d == [k EXCEPT !.pc = "decode", !.by = Owner(t)]
  <2>1. Owner(t) \in Owners
    BY DEF Owner, Signal, Signals, TypeOK
  <2>2. d \in Controls /\ d.pc = "decode" /\ d.rn = k.rn /\ d.code = k.code /\ d.at = k.at
    BY <1>1, <2>1 DEF Controls
  <2>3. Go(t, d) /\ k.code \in {"tag", "perm"} /\ k.at # "safefetch"
    BY <1>4 DEF EnterHeal
  <2>4. k.at \in {"code", "bad"}
    BY <1>1, <2>3 DEF Controls
  <2> HIDE DEF d
  <2>5. CtlOK(t, d)
    BY <1>1, <2>2, <2>3, <2>4 DEF CtlOK, InHandler
  <2> QED
    BY <1>2, <2>2, <2>3, <2>5, GoGood
<1>5. CASE PassOn(t)
  <2>1. ~ pending[t]
    BY <1>1, <1>5 DEF PassOn, CtlOK
  <2> DEFINE d == Returned(t)
  <2>2. d \in Controls /\ d.pc = "retry" /\ d.at = "code"
    BY <1>1, RunningFacts DEF Returned, Controls, Running
  <2> HIDE DEF d
  <2>3. CtlOK(t, d) /\ CtlOK(t, Running)
    BY <2>1, <2>2, RunningFacts DEF CtlOK, InHandler
  <2>4. Go(t, d) \/ Go(t, Running) \/ Die
    BY <1>5 DEF PassOn, d
  <2> QED
    BY <1>2, <2>2, <2>3, <2>4, RunningFacts, GoGood, DieGood
<1>6. CASE EnterDump(t)
  <2> DEFINE d == [k EXCEPT !.pc = "dump"]
  <2>1. d \in Controls /\ d.pc = "dump"
    BY <1>1 DEF Controls
  <2>2. Go(t, d)
    BY <1>6 DEF EnterDump
  <2> HIDE DEF d
  <2>3. CtlOK(t, d)
    BY <2>1 DEF CtlOK, InHandler
  <2> QED
    BY <1>2, <2>1, <2>2, <2>3, GoGood
<1>7. CASE Fatal(t)
  BY <1>2, <1>7, DieGood DEF Fatal
<1> QED
  BY <1>3, <1>4, <1>5, <1>6, <1>7

LEMMA SearchSteps ==
  ASSUME TypeOK, RefInv, NEW t \in Threads, Decode(t) \/ Scan(t) \/ LastResort(t)
  PROVE  Good
<1> DEFINE k == ctl[t]
<1>1. k \in Controls /\ CtlOK(t, k) /\ k.rn \in Regs
  BY ThreadFacts
<1>2. UNCHANGED <<regs, slot, pending, fwd>>
  BY DEF Decode, Scan, LastResort, Unpatched
<1>3. ASSUME (ctl \in [Threads -> Controls])' /\ RefInv' PROVE Good
  BY <1>2, <1>3 DEF Good, TypeOK
<1>4. CASE Decode(t)
  <2>1. CASE k.at = "bad" /\ Die
    BY <1>2, <2>1, DieGood
  <2>2. CASE k.at = "code" /\ Tried(t, k.rn) /\ TryReg(t, k.rn, 0)
    BY <1>1, <1>2, <1>3, <1>4, <2>2, RegsFacts, TryRegStep DEF Decode
  <2>3. CASE k.at = "code" /\ ~ Tried(t, k.rn) /\ Go(t, [k EXCEPT !.pc = "scan", !.i = 0])
    <3> DEFINE d == [k EXCEPT !.pc = "scan", !.i = 0]
    <3>1. d \in Controls /\ d.pc = "scan" /\ d.rn = k.rn /\ d.code = k.code /\ d.at = k.at
      BY <1>1, RegsFacts DEF Controls
    <3>2. Go(t, d)
      BY <2>3
    <3> HIDE DEF d
    <3>3. Revoked(regs[t][k.rn]) /\ k.code \in {"tag", "perm"}
      BY <1>1, <1>4, <2>3 DEF Decode, CtlOK, InHandler
    <3>4. Stray(t, d)
      BY <1>1, <2>3, <3>1, <3>3, RegsFacts DEF Tried, Stray
    <3>5. pending[t] => k.rn = 0 /\ regs[t][0] = slot[t]
      BY <1>1, <1>4 DEF Decode, CtlOK, InHandler
    <3>6. CtlOK(t, d)
      BY <2>3, <3>1, <3>3, <3>4, <3>5 DEF CtlOK, InHandler
    <3> QED
      BY <1>2, <3>1, <3>2, <3>6, GoGood
  <2> QED
    BY <1>4, <2>1, <2>2, <2>3 DEF Decode
<1>5. CASE Scan(t)
  <2>1. PICK i \in Candidates(t) : TryReg(t, i, i + 1)
    BY <1>5 DEF Scan
  <2>2. i \in Regs /\ Tried(t, i) /\ i + 1 \in 0 .. (MaxReg + 1)
    BY RegsFacts DEF Candidates
  <2>3. k.pc = "scan" /\ k.at = "code" /\ Stray(t, k)
    BY <1>1, <1>5 DEF Scan, CtlOK, InHandler
  <2> QED
    BY <1>2, <1>3, <2>1, <2>2, <2>3, TryRegStep
<1>6. CASE LastResort(t)
  <2> DEFINE d == [k EXCEPT !.pc = "unhealed"]
  <2>1. d \in Controls /\ d.pc = "unhealed"
    BY <1>1 DEF Controls
  <2>2. Lookup(CodeAddr) = 0
    BY HandlerAssumption DEF Lookup
  <2>3. Go(t, d)
    BY <1>6, <2>2 DEF LastResort
  <2> HIDE DEF d
  <2>4. CtlOK(t, d)
    BY <2>1 DEF CtlOK, InHandler
  <2> QED
    BY <1>2, <2>1, <2>3, <2>4, GoGood
<1> QED
  BY <1>4, <1>5, <1>6

LEMMA EndSteps ==
  ASSUME TypeOK, RefInv, NEW t \in Threads, Unhealed(t) \/ Dump(t) \/ Retry(t)
  PROVE  Good
<1> DEFINE k == ctl[t]
<1>1. k \in Controls /\ CtlOK(t, k) /\ k.rn \in Regs /\ regs[t][k.rn] \in Caps
  BY ThreadFacts
<1>2. UNCHANGED <<regs, slot, pending, fwd>>
  BY DEF Unhealed, Dump, Retry, Unpatched
<1>3. CASE Unhealed(t) \/ Dump(t)
  <2> DEFINE d == [k EXCEPT !.pc = "dump"]
             h == [k EXCEPT !.pc = "hung"]
  <2>1. d \in Controls /\ d.pc = "dump" /\ h \in Controls /\ h.pc = "hung"
    BY <1>1 DEF Controls
  <2>2. Go(t, d) \/ Go(t, h) \/ Die
    BY <1>3 DEF Unhealed, Dump
  <2> HIDE DEF d, h
  <2>3. CtlOK(t, d) /\ CtlOK(t, h)
    BY <2>1 DEF CtlOK, InHandler
  <2> QED
    BY <1>2, <2>1, <2>2, <2>3, GoGood, DieGood
<1>4. CASE Retry(t)
  <2>1. ~ pending[t] /\ k.at = "code"
    BY <1>1, <1>4 DEF Retry, CtlOK
  <2> DEFINE c == regs[t][k.rn]
             d == [k EXCEPT !.pc = "fault"]
             e == [k EXCEPT !.pc = "fault", !.code = FaultCode(c)]
  <2>2. d \in Controls /\ d.pc = "fault" /\ d.code = k.code
    BY <1>1 DEF Controls
  <2>3. e \in Controls /\ e.pc = "fault" /\ e.rn = k.rn /\ e.code \in {"tag", "perm"}
    BY <1>1, FaultCodeFacts DEF Controls
  <2>4. \/ k.code = "other" /\ Go(t, d)
        \/ Go(t, Running)
        \/ ~ Usable(c) /\ Go(t, e)
    BY <1>4 DEF Retry
  <2> HIDE DEF d, e
  <2>5. CtlOK(t, Running) /\ (k.code = "other" => CtlOK(t, d))
    BY <2>1, <2>2, RunningFacts DEF CtlOK, InHandler
  <2>6. ~ Usable(c) => CtlOK(t, e)
    BY <1>1, <2>1, <2>3, RevokedIsNotUsable DEF CtlOK, InHandler
  <2> QED
    BY <1>2, <2>2, <2>3, <2>4, <2>5, <2>6, RunningFacts, GoGood
<1> QED
  BY <1>3, <1>4

LEMMA AccessSteps ==
  ASSUME TypeOK, RefInv, NEW t \in Threads, OtherFault(t) \/ \E rn \in Regs : Access(t, rn)
  PROVE  Good
<1> DEFINE d(rn, code, at) == [Running EXCEPT !.pc = "fault", !.rn = rn, !.code = code, !.at = at]
<1>1. ASSUME NEW rn \in Regs, NEW code \in {"tag", "perm", "other", "ill"},
             NEW at \in {"code", "safefetch", "bad"}
      PROVE  /\ d(rn, code, at) \in Controls /\ d(rn, code, at).pc = "fault"
             /\ d(rn, code, at).rn = rn /\ d(rn, code, at).code = code /\ d(rn, code, at).at = at
  BY RunningFacts DEF Controls, Running
<1>2. UNCHANGED <<regs, slot, pending, fwd>> /\ ctl[t].pc = "run"
  BY DEF OtherFault, Access, Raise
<1>3. ~ pending[t]
  BY <1>2, ThreadFacts
<1>4. CASE OtherFault(t)
  <2>1. ASSUME NEW code \in {"tag", "other", "ill"}, NEW at \in {"code", "safefetch", "bad"},
               Go(t, d(0, code, at)), code # "tag" \/ at # "code"
        PROVE  Good
    <3> DEFINE e == d(0, code, at)
    <3>1. e \in Controls /\ e.pc = "fault" /\ e.code = code /\ e.at = at
      <4>1. code \in {"tag", "perm", "other", "ill"} /\ 0 \in Regs
        BY RegsFacts
      <4> HIDE DEF d
      <4> QED
        BY <1>1, <4>1
    <3>2. Go(t, e)
      BY <2>1
    <3> HIDE DEF e
    <3>3. CtlOK(t, e)
      BY <1>3, <2>1, <3>1 DEF CtlOK, InHandler
    <3> QED
      BY <1>2, <3>1, <3>2, <3>3, GoGood
  <2>2. \/ Go(t, d(0, "other", "code")) \/ Go(t, d(0, "tag", "safefetch"))
        \/ Go(t, d(0, "tag", "bad")) \/ Go(t, d(0, "ill", "code"))
    BY <1>4 DEF OtherFault, Raise
  <2> HIDE DEF d
  <2> QED
    BY <2>1, <2>2
<1>5. ASSUME NEW rn \in Regs, Access(t, rn) PROVE Good
  <2> DEFINE code == FaultCode(regs[t][rn])
             e == d(rn, code, "code")
  <2>1. code \in {"tag", "perm"} /\ Revoked(regs[t][rn]) /\ Go(t, e)
    BY <1>5, FaultCodeFacts DEF Access, Raise
  <2> HIDE DEF code
  <2>2. e \in Controls /\ e.pc = "fault" /\ e.rn = rn /\ e.code = code /\ e.at = "code"
    <3>1. code \in {"tag", "perm", "other", "ill"}
      BY <2>1
    <3> HIDE DEF d
    <3> QED
      BY <1>1, <3>1
  <2> HIDE DEF e
  <2>3. CtlOK(t, e)
    BY <1>3, <2>1, <2>2 DEF CtlOK, InHandler
  <2> QED
    BY <1>2, <2>1, <2>2, <2>3, GoGood
<1> QED
  BY <1>4, <1>5
\* The load of a slot before it is dereferenced.
LEMMA AccessSlotStep ==
  ASSUME TypeOK, RefInv, NEW t \in Threads, AccessSlot(t)
  PROVE  Good
<1> DEFINE d == [Running EXCEPT !.pc = "fault", !.code = FaultCode(slot[t])]
<1>1. d \in Controls /\ d.pc = "fault" /\ d.rn = 0 /\ d.at = "code" /\ d.code \in {"tag", "perm"}
  BY RunningFacts, FaultCodeFacts DEF Controls, Running
<1>2. /\ Revoked(slot[t]) /\ regs' = [regs EXCEPT ![t][0] = slot[t]] /\ slot' = slot
      /\ pending' = [pending EXCEPT ![t] = TRUE] /\ ctl' = [ctl EXCEPT ![t] = d] /\ fwd' = fwd
  BY DEF AccessSlot, Go
<1> HIDE DEF d
<1>3. /\ regs' \in [Threads -> [Regs -> Caps]] /\ ctl' \in [Threads -> Controls]
      /\ pending' \in [Threads -> BOOLEAN]
  BY <1>1, <1>2, RegsFacts DEF TypeOK
<1>4. /\ regs'[t][0] = slot[t] /\ \A r \in Regs : r # 0 => regs'[t][r] = regs[t][r]
      /\ \A u \in Threads : u # t => regs'[u] = regs[u]
  BY <1>2, RegsFacts DEF TypeOK
<1>5. /\ ctl'[t] = d /\ \A u \in Threads : u # t => ctl'[u] = ctl[u] /\ pending'[u] = pending[u]
  BY <1>2 DEF TypeOK
<1>6. CapInv'
  BY <1>2, <1>4 DEF RefInv, CapInv, CapOK, FirstRef, CurrentRef
<1>7. TogetherInv'
  BY <1>2, <1>4 DEF RefInv, TogetherInv, AllUsable, AllRevoked
<1>8. ASSUME NEW u \in Threads PROVE CtlOK(u, ctl[u])'
  <2>1. CASE u = t
    BY <1>1, <1>2, <1>4, <1>5, <2>1 DEF CtlOK, InHandler
  <2>2. CASE u # t
    BY <1>2, <1>4, <1>5, <2>2, CtlStable DEF RefInv, CtlInv
  <2> QED
    BY <2>1, <2>2
<1> QED
  BY <1>2, <1>3, <1>6, <1>7, <1>8 DEF Good, RefInv, CtlInv, TypeOK

\* Revoking o: references to where it was lose their use, no other changes.
LEMMA RevokeFacts ==
  ASSUME NEW c \in Caps, NEW o
  PROVE  /\ Revoke(c, o) \in Caps /\ Revoke(c, o).base = c.base /\ Revoke(c, o).addr = c.addr
         /\ c.base # o => Revoke(c, o) = c
         /\ c.base = o => ~ Usable(Revoke(c, o))
  BY DEF Revoke, Caps, Usable

LEMMA MoveStep ==
  ASSUME TypeOK, RefInv, NEW o \in Objects, Move(o)
  PROVE  Good
<1>1. /\ \A t \in Threads : ctl[t].pc = "run"
      /\ fwd[o] = 0 /\ ctl' = ctl /\ pending' = pending
      /\ \A t \in Threads : slot'[t] = Revoke(slot[t], o) /\ \A r \in Regs : regs'[t][r] = Revoke(regs[t][r], o)
  BY DEF Move, AtSafepoint, RevokeAll
<1>2. regs' \in [Threads -> [Regs -> Caps]] /\ slot' \in [Threads -> Caps]
  <2>1. /\ regs' = [t \in Threads |-> [r \in Regs |-> Revoke(regs[t][r], o)]]
        /\ slot' = [t \in Threads |-> Revoke(slot[t], o)]
    BY DEF Move, RevokeAll
  <2> QED
    BY <2>1, RevokeFacts DEF TypeOK
<1>3. /\ fwd' \in [Objects -> Nat] /\ \A p \in Objects : fwd'[p] \in CopyOf[p] \cup {0}
      /\ \A p \in Objects : p # o => fwd'[p] = fwd[p]
      /\ ~ Evacuates => fwd'[o] # 0
  <2>1. CASE \E b \in CopyOf[o] : fwd' = [fwd EXCEPT ![o] = b]
    BY <2>1, ObjectFacts DEF TypeOK
  <2>2. CASE Evacuates /\ fwd' = fwd
    BY <2>2 DEF TypeOK
  <2> QED
    BY <2>1, <2>2 DEF Move
<1>4. ASSUME NEW c \in Caps, CapOK(c)
      PROVE  \/ ~ IsRef(Revoke(c, o)) /\ ~ Usable(Revoke(c, o))
             \/ /\ Revoke(c, o).base \in Objects /\ Revoke(c, o).addr >= Revoke(c, o).base
                /\ Revoke(c, o).addr # Revoke(c, o).base => Revoke(c, o).addr \notin Objects
                /\ Usable(Revoke(c, o)) => fwd'[Revoke(c, o).base] = 0
                /\ ~ Usable(Revoke(c, o)) /\ ~ Evacuates => fwd'[Revoke(c, o).base] # 0
             \/ /\ Revoke(c, o) \in Caps /\ Usable(Revoke(c, o)) /\ Revoke(c, o).addr >= Revoke(c, o).base
                /\ \E p \in Objects : Revoke(c, o).base \in CopyOf[p] /\ fwd'[p] = Revoke(c, o).base
  <2>1. CASE ~ IsRef(c) /\ ~ Usable(c)
    BY <2>1, RevokeFacts, ObjectFacts DEF IsRef
  <2>2. CASE FirstRef(c)
    BY <1>3, <2>2, RevokeFacts DEF FirstRef
  <2>3. CASE CurrentRef(c)
    <3>1. PICK p \in Objects : c.base \in CopyOf[p] /\ fwd[p] = c.base
      BY <2>3 DEF CurrentRef
    <3>2. c.base # o /\ p # o
      BY <1>1, <3>1, ObjectFacts
    <3> QED
      BY <1>3, <2>3, <3>1, <3>2, RevokeFacts DEF CurrentRef
  <2> QED
    BY <1>4, <2>1, <2>2, <2>3 DEF CapOK
<1>5. CapInv'
  BY <1>1, <1>4, ThreadFacts DEF CapInv, CapOK, FirstRef, CurrentRef
<1>6. TogetherInv'
  <2> SUFFICES ASSUME NEW p \in Objects PROVE AllUsable(p)' \/ AllRevoked(p)'
    BY DEF TogetherInv
  <2>1. \A t \in Threads : slot[t] \in Caps /\ \A r \in Regs : regs[t][r] \in Caps
    BY DEF TypeOK
  <2>2. CASE p = o
    BY <1>1, <2>1, <2>2, RevokeFacts DEF AllRevoked
  <2>3. CASE p # o
    BY <1>1, <2>1, <2>3, RevokeFacts DEF RefInv, TogetherInv, AllUsable, AllRevoked
  <2> QED
    BY <2>2, <2>3
<1>7. CtlInv'
  BY <1>1, ThreadFacts DEF CtlInv, CtlOK, InHandler
<1> QED
  BY <1>1, <1>2, <1>3, <1>5, <1>6, <1>7 DEF Good, RefInv, TypeOK

\* The evacuation hook, beside the same in other threads.
LEMMA EvacuateStep ==
  ASSUME TypeOK, RefInv, NEW t \in Threads, Evacuate(t)
  PROVE  Good
<1> DEFINE k == ctl[t]
           c == regs[t][k.reg]
           o == c.base
<1>1. k \in Controls /\ CtlOK(t, k) /\ k.pc = "evacuate" /\ k.reg \in Regs
  BY ThreadFacts DEF Evacuate, CtlOK
<1>2. c \in Caps /\ CapOK(c) /\ Revoked(c) /\ ~ Usable(c)
  BY <1>1, ThreadFacts, RevokedIsNotUsable DEF CtlOK
<1>3. UNCHANGED <<regs, slot, pending>>
  BY DEF Evacuate
<1>4. CASE o \notin Objects
  <2> DEFINE d == [k EXCEPT !.pc = "scan", !.reg = -1]
  <2>1. d \in Controls /\ d.pc = "scan" /\ d.rn = k.rn /\ d.code = k.code /\ d.at = k.at
    BY <1>1 DEF Controls
  <2>2. Go(t, d) /\ fwd' = fwd
    BY <1>4 DEF Evacuate
  <2>3. ~ IsRef(c)
    BY <1>2, <1>4 DEF CapOK, FirstRef, CurrentRef
  <2>4. Stray(t, d)
    BY <1>1, <2>1, <2>3 DEF CtlOK, Stray
  <2> HIDE DEF d
  <2>5. CtlOK(t, d)
    BY <1>1, <2>1, <2>4 DEF CtlOK, InHandler
  <2> QED
    BY <1>3, <2>1, <2>2, <2>5, GoGood
<1>5. CASE o \in Objects
  <2>1. FirstRef(c)
    BY <1>2, <1>5, ObjectFacts DEF CapOK, CurrentRef, IsRef
  <2>2. AllRevoked(o)
    BY <1>1, <1>2, <1>5 DEF RefInv, TogetherInv, AllUsable
  <2>3. PICK b \in CopyOf[o] : fwd' = CasInsert(o, b)
    BY <1>5 DEF Evacuate
  <2>4. /\ fwd' \in [Objects -> Nat] /\ fwd'[o] \in CopyOf[o]
        /\ \A p \in Objects : p # o => fwd'[p] = fwd[p]
        /\ \A p \in Objects : fwd'[p] \in CopyOf[p] \cup {0}
        /\ \A p \in Objects : fwd[p] # 0 => fwd'[p] = fwd[p]
    <3>1. fwd \in [Objects -> Nat] /\ \A p \in Objects : fwd[p] \in CopyOf[p] \cup {0}
      BY DEF TypeOK
    <3>2. b \in Nat
      BY <1>5, <2>3, ObjectFacts
    <3>3. /\ fwd' \in [Objects -> Nat] /\ fwd'[o] = (IF fwd[o] = 0 THEN b ELSE fwd[o])
          /\ \A p \in Objects : p # o => fwd'[p] = fwd[p]
      BY <1>5, <2>3, <3>1, <3>2 DEF CasInsert
    <3> QED
      BY <1>5, <2>3, <3>1, <3>3
  <2> DEFINE new == Rebased(c, fwd'[o])
             d == [k EXCEPT !.pc = "heal", !.new = new]
  <2>5. /\ new \in Caps /\ Usable(new) /\ new.base = fwd'[o]
        /\ new.addr >= fwd'[o] /\ Denotes(new) = Denotes(c)
    BY <1>2, <1>5, <2>1, <2>4, RebasedFacts DEF FirstRef
  <2>6. ctl' = [ctl EXCEPT ![t] = d]
    BY <1>5 DEF Evacuate, Go
  <2> HIDE DEF new
  <2>7. /\ d \in Controls /\ d.pc = "heal" /\ d.reg = k.reg /\ d.new = new
        /\ d.rn = k.rn /\ d.code = k.code /\ d.at = k.at
    BY <1>1, <2>5 DEF Controls
  <2> HIDE DEF d
  <2>8. ctl' \in [Threads -> Controls] /\ ctl'[t] = d /\ \A u \in Threads : u # t => ctl'[u] = ctl[u]
    BY <2>6, <2>7 DEF TypeOK
  <2>9. CapInv'
    <3>1. ASSUME NEW x, CapOK(x), x.base = o => ~ Usable(x)
          PROVE  \/ ~ IsRef(x) /\ ~ Usable(x)
                 \/ /\ x.base \in Objects /\ x.addr >= x.base
                    /\ x.addr # x.base => x.addr \notin Objects
                    /\ Usable(x) => fwd'[x.base] = 0
                    /\ ~ Usable(x) /\ ~ Evacuates => fwd'[x.base] # 0
                 \/ /\ x \in Caps /\ Usable(x) /\ x.addr >= x.base
                    /\ \E p \in Objects : x.base \in CopyOf[p] /\ fwd'[p] = x.base
      <4>1. CASE FirstRef(x)
        BY <2>4, <3>1, <4>1 DEF FirstRef
      <4>2. CASE CurrentRef(x)
        BY <2>4, <4>2, ObjectFacts DEF CurrentRef
      <4> QED
        BY <3>1, <4>1, <4>2 DEF CapOK
    <3> QED
      BY <1>3, <2>2, <3>1 DEF RefInv, AllRevoked, CapInv, CapOK, FirstRef, CurrentRef
  <2>10. TogetherInv'
    BY <1>3 DEF RefInv, TogetherInv, AllUsable, AllRevoked
  <2>11. ASSUME NEW u \in Threads PROVE CtlOK(u, ctl[u])'
    <3>1. CASE u = t
      <4>1. CurrentRef(ctl[t].new)'
        BY <1>5, <2>4, <2>5, <2>7, <2>8 DEF CurrentRef
      <4> QED
        BY <1>1, <1>3, <2>5, <2>7, <2>8, <3>1, <4>1 DEF CtlOK, InHandler, Stray
    <3>2. CASE u # t
      BY <1>3, <2>4, <2>8, <3>2, CtlStable DEF RefInv, CtlInv
    <3> QED
      BY <3>1, <3>2
  <2> QED
    BY <1>3, <2>4, <2>8, <2>9, <2>10, <2>11 DEF Good, RefInv, CtlInv, TypeOK
<1> QED
  BY <1>4, <1>5

\* The patch: what it writes and where.
LEMMA HealFacts ==
  ASSUME TypeOK, RefInv, NEW t \in Threads, Heal(t)
  PROVE  /\ ctl[t] \in Controls /\ CtlOK(t, ctl[t]) /\ ctl[t].pc = "heal" /\ ctl[t].reg \in Regs
         /\ ctl[t].new \in Caps /\ CurrentRef(ctl[t].new) /\ ctl[t].new.base \notin Objects
         /\ IsRef(ctl[t].new)
         /\ regs' \in [Threads -> [Regs -> Caps]] /\ slot' \in [Threads -> Caps]
         /\ \A u \in Threads : u # t => regs'[u] = regs[u] /\ slot'[u] = slot[u] /\ pending'[u] = pending[u]
         /\ regs'[t][ctl[t].reg] = ctl[t].new
         /\ \A r \in Regs : r # ctl[t].reg => regs'[t][r] = regs[t][r]
         /\ slot'[t] = IF pending[t] THEN ctl[t].new ELSE slot[t]
         /\ pending' = [pending EXCEPT ![t] = FALSE] /\ fwd' = fwd
<1>1. ctl[t] \in Controls /\ CtlOK(t, ctl[t]) /\ ctl[t].pc = "heal"
  BY ThreadFacts DEF Heal
<1>2. ctl[t].reg \in Regs /\ CurrentRef(ctl[t].new) /\ ctl[t].new \in Caps
  BY <1>1 DEF CtlOK, CurrentRef
<1>3. ctl[t].new.base \notin Objects /\ IsRef(ctl[t].new)
  BY <1>2, ObjectFacts DEF CurrentRef, IsRef
<1>4. ctl[t].reg >= 0
  BY <1>2 DEF Regs
<1>5. /\ regs' = [regs EXCEPT ![t][ctl[t].reg] = ctl[t].new]
      /\ slot' = IF pending[t] THEN [slot EXCEPT ![t] = ctl[t].new] ELSE slot
      /\ pending' = [pending EXCEPT ![t] = FALSE] /\ fwd' = fwd
  BY <1>4 DEF Heal, PatchedRegs, PendingCleared
<1>6. /\ regs' \in [Threads -> [Regs -> Caps]]
      /\ \A u \in Threads : u # t => regs'[u] = regs[u]
      /\ regs'[t][ctl[t].reg] = ctl[t].new
      /\ \A r \in Regs : r # ctl[t].reg => regs'[t][r] = regs[t][r]
  BY <1>2, <1>5 DEF TypeOK
<1>7. /\ slot' \in [Threads -> Caps]
      /\ \A u \in Threads : u # t => slot'[u] = slot[u] /\ pending'[u] = pending[u]
      /\ slot'[t] = IF pending[t] THEN ctl[t].new ELSE slot[t]
  BY <1>2, <1>5 DEF TypeOK
<1> QED
  BY <1>1, <1>2, <1>3, <1>5, <1>6, <1>7

LEMMA HealStep ==
  ASSUME TypeOK, RefInv, NEW t \in Threads, Heal(t)
  PROVE  Good
<1> DEFINE d == Returned(t)
<1>1. d \in Controls /\ d.pc = "retry" /\ d.at = "code"
  BY HealFacts, RunningFacts DEF Returned, Controls, Running
<1>2. ctl' = [ctl EXCEPT ![t] = d]
  BY DEF Heal, Go
<1> HIDE DEF d
<1>3. /\ ctl' \in [Threads -> Controls] /\ ctl'[t] = d /\ \A u \in Threads : u # t => ctl'[u] = ctl[u]
      /\ pending' \in [Threads -> BOOLEAN] /\ pending'[t] = FALSE
  BY <1>1, <1>2, HealFacts DEF TypeOK
<1>4. /\ \A u \in Threads : slot'[u] \in {slot[u], ctl[t].new}
      /\ \A u \in Threads : \A r \in Regs : regs'[u][r] \in {regs[u][r], ctl[t].new}
  BY HealFacts
<1>5. fwd' = fwd /\ CurrentRef(ctl[t].new) /\ ctl[t].new.base \notin Objects
  BY HealFacts
<1>6. CapInv'
  BY <1>4, <1>5 DEF RefInv, CapInv, CapOK, FirstRef, CurrentRef
<1>7. TogetherInv'
  <2> SUFFICES ASSUME NEW o \in Objects PROVE AllUsable(o)' \/ AllRevoked(o)'
    BY DEF TogetherInv
  <2>1. \A u \in Threads : /\ slot'[u].base = o => slot'[u] = slot[u]
                           /\ \A r \in Regs : regs'[u][r].base = o => regs'[u][r] = regs[u][r]
    BY <1>4, <1>5
  <2> QED
    BY <2>1 DEF RefInv, TogetherInv, AllUsable, AllRevoked
<1>8. ASSUME NEW u \in Threads PROVE CtlOK(u, ctl[u])'
  <2>1. CASE u = t
    BY <1>1, <1>3, <2>1 DEF CtlOK, InHandler
  <2>2. CASE u # t
    BY <1>3, <2>2, HealFacts, CtlStable DEF RefInv, CtlInv
  <2> QED
    BY <2>1, <2>2
<1> QED
  BY <1>3, <1>6, <1>7, <1>8, HealFacts DEF Good, RefInv, CtlInv, TypeOK
-----------------------------------------------------------------------------
(* The inductive invariant.                                                *)

\* The steps that touch neither references nor control points.
LEMMA QuietGood ==
  ASSUME TypeOK, RefInv, UNCHANGED <<regs, slot, pending, fwd, ctl>>
  PROVE  Good
<1>1. CapInv' /\ TogetherInv'
  BY DEF RefInv, CapInv, CapOK, FirstRef, CurrentRef, TogetherInv, AllUsable, AllRevoked
<1>2. CtlInv'
  BY CtlStable DEF RefInv, CtlInv
<1> QED
  BY <1>1, <1>2 DEF Good, RefInv, TypeOK

LEMMA RefStep == TypeOK /\ RefInv /\ [Next]_vars => Good
<1> SUFFICES ASSUME TypeOK, RefInv, [Next]_vars PROVE Good
  OBVIOUS
<1>1. ASSUME NEW t \in Threads, HandlerStep(t) PROVE Good
  BY <1>1, FaultSteps, SearchSteps, EndSteps, EvacuateStep, HealStep DEF HandlerStep
<1>2. ASSUME NEW t \in Threads, OtherFault(t) \/ AccessSlot(t) PROVE Good
  BY <1>2, AccessSteps, AccessSlotStep
<1>3. ASSUME NEW t \in Threads, NEW rn \in Regs, Access(t, rn) PROVE Good
  BY <1>3, AccessSteps
<1>4. ASSUME NEW o \in Objects, Move(o) PROVE Good
  BY <1>4, MoveStep
<1>5. CASE HandlerInstall \/ HandlerRemove \/ InstallCrashDiag
  BY <1>5, QuietGood DEF HandlerInstall, HandlerRemove, InstallCrashDiag, QuietVars
<1>6. CASE UNCHANGED vars
  BY <1>6, QuietGood DEF vars
<1> QED
  BY <1>1, <1>2, <1>3, <1>4, <1>5, <1>6 DEF Next

\* Who owns the signals, and whether the process runs.
OwnersOK == /\ owner \in [Signals -> Owners] /\ prevSa \in {"unset", "none", "hotspot"}
            /\ armed \in BOOLEAN /\ alive \in BOOLEAN /\ OwnerInv

LEMMA OwnersStep == OwnersOK /\ [Next]_vars => OwnersOK'
<1> SUFFICES ASSUME OwnersOK, [Next]_vars PROVE OwnersOK'
  OBVIOUS
<1> USE DEF handlerVars, OwnersOK, OwnerInv, Signals, Owners
<1>1. ASSUME UNCHANGED <<owner, prevSa, armed>>, alive' \in BOOLEAN PROVE OwnersOK'
  BY <1>1
<1>2. ASSUME NEW t \in Threads, HandlerStep(t) PROVE OwnersOK'
  <2>1. CASE Unhealed(t)
    BY <2>1 DEF Unhealed, Die
  <2>2. CASE SafeFetchRedirect(t) \/ EnterHeal(t) \/ EnterDump(t) \/ Scan(t) \/ LastResort(t)
             \/ Evacuate(t) \/ Heal(t) \/ Retry(t)
    BY <1>1, <2>2 DEF SafeFetchRedirect, EnterHeal, EnterDump, Scan, LastResort, Evacuate, Heal, Retry
  <2>3. CASE PassOn(t) \/ Fatal(t) \/ Decode(t) \/ Dump(t)
    BY <1>1, <2>3 DEF PassOn, Fatal, Decode, Dump, Die
  <2> QED
    BY <1>2, <2>1, <2>2, <2>3 DEF HandlerStep
<1>3. ASSUME NEW t \in Threads, OtherFault(t) \/ AccessSlot(t) PROVE OwnersOK'
  BY <1>1, <1>3 DEF OtherFault, AccessSlot, Raise
<1>4. ASSUME NEW t \in Threads, NEW rn \in Regs, Access(t, rn) PROVE OwnersOK'
  BY <1>1, <1>4 DEF Access, Raise
<1>5. ASSUME NEW o \in Objects, Move(o) PROVE OwnersOK'
  BY <1>1, <1>5 DEF Move
<1>6. CASE HandlerInstall
  BY <1>6 DEF HandlerInstall, QuietVars
<1>7. CASE HandlerRemove
  BY <1>7 DEF HandlerRemove, QuietVars
<1>8. CASE InstallCrashDiag
  BY <1>8 DEF InstallCrashDiag, QuietVars
<1>9. CASE UNCHANGED vars
  BY <1>1, <1>9 DEF vars
<1> QED
  BY <1>2, <1>3, <1>4, <1>5, <1>6, <1>7, <1>8, <1>9 DEF Next

LEMMA InitInv == Init => IInv
<1> SUFFICES ASSUME Init PROVE IInv
  OBVIOUS
<1>1. \A t \in Threads : ctl[t] = Running /\ ~ pending[t] /\ slot[t] = regs[t][0]
  BY DEF Init
<1>2. regs \in [Threads -> [Regs -> Caps]] /\ slot \in [Threads -> Caps]
  BY StartAssumption, RegsFacts DEF Init
<1>3. TypeOK
  <2>1. fwd \in [Objects -> Nat] /\ \A o \in Objects : fwd[o] = 0
    BY DEF Init
  <2>2. owner \in [Signals -> Owners]
    BY HandlerAssumption DEF Init, Owners
  <2>3. ctl \in [Threads -> Controls] /\ pending \in [Threads -> BOOLEAN]
    BY RunningFacts DEF Init
  <2> QED
    BY <1>2, <2>1, <2>2, <2>3 DEF Init, TypeOK
<1>4. ASSUME NEW t \in Threads, NEW r \in Regs
      PROVE  CapOK(regs[t][r]) /\ (IsRef(regs[t][r]) => Usable(regs[t][r]))
  <2> DEFINE c == regs[t][r]
  <2>1. \/ c = Number(c.addr)
        \/ c.base \in Objects /\ c.addr >= c.base /\ c = Ref(c.base, c.addr - c.base)
           /\ (c.addr # c.base => c.addr \notin Objects)
    BY StartAssumption DEF Init
  <2> HIDE DEF c
  <2>2. CASE c = Number(c.addr)
    <3>1. c.base = 0 /\ c.tag = FALSE
      BY <2>2 DEF Number
    <3> QED
      BY <3>1 DEF c, CapOK, IsRef, Usable
  <2>3. CASE c.base \in Objects /\ c.addr >= c.base /\ c = Ref(c.base, c.addr - c.base)
             /\ (c.addr # c.base => c.addr \notin Objects)
    <3>1. c.tag = TRUE /\ c.perms = TRUE
      BY <2>3 DEF Ref
    <3>2. fwd[c.base] = 0
      BY <2>3 DEF Init
    <3> QED
      BY <2>3, <3>1, <3>2 DEF c, CapOK, FirstRef, Usable
  <2> QED
    BY <2>1, <2>2, <2>3
<1>5. CapInv
  BY <1>1, <1>4, RegsFacts DEF CapInv
<1>6. TogetherInv
  BY <1>1, <1>4, RegsFacts, ObjectFacts DEF TogetherInv, AllUsable, IsRef
<1>7. CtlInv
  BY <1>1, RunningFacts DEF CtlInv, CtlOK, InHandler
<1>8. OwnerInv
  BY HandlerAssumption DEF Init, OwnerInv, Signals
<1> QED
  BY <1>3, <1>5, <1>6, <1>7, <1>8 DEF IInv, RefInv

LEMMA Invariance == Spec => []IInv
<1>1. IInv /\ [Next]_vars => IInv'
  <2> SUFFICES ASSUME IInv, [Next]_vars PROVE IInv'
    OBVIOUS
  <2>1. Good
    BY RefStep DEF IInv
  <2>2. OwnersOK'
    BY OwnersStep DEF IInv, OwnersOK, TypeOK
  <2> QED
    BY <2>1, <2>2 DEF Good, OwnersOK, IInv, TypeOK
<1> QED
  BY InitInv, <1>1, PTL DEF Spec

\* The state of the handlers stays well formed; prev_sa is never one of this
\* library's own handlers.
THEOREM TypeCorrect == Spec => []TypeOK
  BY Invariance, PTL DEF IInv

\* stopless_try_heal patches the base register of the instruction, unless that
\* is out of its reach or holds no reference.
THEOREM HealExact == Spec => []HealIsExact
<1>1. IInv => HealIsExact
  BY DEF IInv, RefInv, CtlInv, CtlOK, Stray, HealIsExact
<1> QED
  BY Invariance, <1>1, PTL

\* Every usable reference is to the copy the forwarding table names, although
\* several threads evacuate one object from within the handler.
THEOREM UsableCurrent == Spec => []UsableIsCurrent
<1>1. IInv => UsableIsCurrent
  <2> SUFFICES ASSUME IInv, NEW t \in Threads, NEW c \in {regs[t][r] : r \in Regs} \cup {slot[t]},
                      IsRef(c), Usable(c)
               PROVE  c.base = IF fwd[ObjectAt(c.base)] = 0 THEN ObjectAt(c.base) ELSE fwd[ObjectAt(c.base)]
    BY DEF UsableIsCurrent
  <2>1. FirstRef(c) \/ CurrentRef(c)
    BY DEF IInv, RefInv, CapInv, CapOK
  <2>2. CASE FirstRef(c)
    BY <2>2, ObjectFacts DEF FirstRef
  <2>3. CASE CurrentRef(c)
    BY <2>3, ObjectFacts DEF CurrentRef
  <2> QED
    BY <2>1, <2>2, <2>3
<1> QED
  BY Invariance, <1>1, PTL

\* While a thread is in a handler its references keep their object and offset.
THEOREM HealKeeps == Spec => HealKeepsReferences
<1> DEFINE A == \A t \in Threads, r \in Regs :
                  ctl[t].pc # "run" /\ IsRef(regs[t][r]) =>
                    IsRef(regs'[t][r]) /\ Denotes(regs'[t][r]) = Denotes(regs[t][r])
<1>1. IInv /\ [Next]_vars => A
  <2> SUFFICES ASSUME IInv, [Next]_vars, NEW t \in Threads, NEW r \in Regs,
                      ctl[t].pc # "run", IsRef(regs[t][r])
               PROVE  IsRef(regs'[t][r]) /\ Denotes(regs'[t][r]) = Denotes(regs[t][r])
    OBVIOUS
  <2>1. CASE regs'[t] = regs[t]
    BY <2>1
  <2>2. ASSUME NEW u \in Threads, Heal(u)
        PROVE  IsRef(regs'[t][r]) /\ Denotes(regs'[t][r]) = Denotes(regs[t][r])
    <3>1. CASE u = t /\ r = ctl[t].reg
      <4>1. regs'[t][r] = ctl[t].new /\ IsRef(ctl[t].new) /\ CtlOK(t, ctl[t]) /\ ctl[t].pc = "heal"
        BY <2>2, <3>1, HealFacts DEF IInv
      <4>2. Denotes(ctl[t].new) = Denotes(regs[t][r])
        BY <3>1, <4>1 DEF CtlOK
      <4> QED
        BY <4>1, <4>2
    <3>2. CASE ~ (u = t /\ r = ctl[t].reg)
      <4>1. regs'[t][r] = regs[t][r]
        BY <2>2, <3>2, HealFacts DEF IInv
      <4> QED
        BY <4>1
    <3> QED
      BY <3>1, <3>2
  <2>3. ASSUME NEW u \in Threads, AccessSlot(u) PROVE regs'[t] = regs[t]
    BY <2>3 DEF AccessSlot, IInv, TypeOK
  <2>4. ASSUME NEW o \in Objects, Move(o) PROVE FALSE
    BY <2>4 DEF Move, AtSafepoint
  <2>5. ASSUME NEW u \in Threads, HandlerStep(u), ~ Heal(u) PROVE regs' = regs
    BY <2>5 DEF HandlerStep, SafeFetchRedirect, EnterHeal, PassOn, EnterDump, Fatal, Decode, Scan,
       LastResort, Evacuate, Unhealed, Dump, Retry, Unpatched
  <2>6. ASSUME NEW u \in Threads, OtherFault(u) \/ \E rn \in Regs : Access(u, rn) PROVE regs' = regs
    BY <2>6 DEF OtherFault, Access
  <2>7. CASE HandlerInstall \/ HandlerRemove \/ InstallCrashDiag \/ UNCHANGED vars
    BY <2>1, <2>7 DEF HandlerInstall, HandlerRemove, InstallCrashDiag, QuietVars, vars
  <2> QED
    BY <2>1, <2>2, <2>3, <2>4, <2>5, <2>6, <2>7 DEF Next
<1> HIDE DEF A
<1>3. Spec => [][A]_vars
  BY Invariance, <1>1, PTL DEF Spec
<1> QED
  BY <1>3 DEF HealKeepsReferences, A

\* A slot keeps the object it refers to, whatever is healed.
THEOREM SlotKeeps == Spec => SlotKeepsObject
<1> DEFINE A == \A t \in Threads :
                  IsRef(slot[t]) => IsRef(slot'[t]) /\ Denotes(slot'[t])[1] = Denotes(slot[t])[1]
<1>1. IInv /\ [Next]_vars => A
  <2> SUFFICES ASSUME IInv, [Next]_vars, NEW t \in Threads, IsRef(slot[t])
               PROVE  IsRef(slot'[t]) /\ Denotes(slot'[t])[1] = Denotes(slot[t])[1]
    OBVIOUS
  <2>1. CASE slot'[t] = slot[t]
    BY <2>1
  <2>2. ASSUME NEW u \in Threads, Heal(u)
        PROVE  IsRef(slot'[t]) /\ Denotes(slot'[t])[1] = Denotes(slot[t])[1]
    <3>1. CASE u = t /\ pending[t]
      <4>1. /\ slot'[t] = ctl[t].new /\ IsRef(ctl[t].new) /\ CtlOK(t, ctl[t])
            /\ ctl[t].pc = "heal" /\ ctl[t].reg \in Regs
        BY <2>2, <3>1, HealFacts DEF IInv
      <4>2. ctl[t].rn = 0 /\ regs[t][0] = slot[t] /\ ctl[t].reg < NTried
        BY <3>1, <4>1 DEF CtlOK, InHandler
      <4>3. ctl[t].reg = 0
        BY <4>1, <4>2, RegsFacts DEF CtlOK, Stray, Regs
      <4>4. Denotes(ctl[t].new) = Denotes(slot[t])
        BY <4>1, <4>2, <4>3 DEF CtlOK
      <4> QED
        BY <4>1, <4>4
    <3>2. CASE ~ (u = t /\ pending[t])
      <4>1. slot'[t] = slot[t]
        BY <2>2, <3>2, HealFacts DEF IInv
      <4> QED
        BY <2>1, <4>1
    <3> QED
      BY <3>1, <3>2
  <2>3. ASSUME NEW o \in Objects, Move(o)
        PROVE  IsRef(slot'[t]) /\ Denotes(slot'[t])[1] = Denotes(slot[t])[1]
    <3>1. slot'[t] = Revoke(slot[t], o) /\ slot[t] \in Caps
      BY <2>3 DEF Move, RevokeAll, IInv, TypeOK
    <3>2. slot'[t].base = slot[t].base /\ slot'[t].addr = slot[t].addr
      BY <3>1, RevokeFacts
    <3> QED
      BY <3>2 DEF IsRef, Denotes
  <2>4. ASSUME NEW u \in Threads, HandlerStep(u), ~ Heal(u) PROVE slot' = slot
    BY <2>4 DEF HandlerStep, SafeFetchRedirect, EnterHeal, PassOn, EnterDump, Fatal, Decode, Scan,
       LastResort, Evacuate, Unhealed, Dump, Retry, Unpatched
  <2>5. ASSUME NEW u \in Threads, OtherFault(u) \/ AccessSlot(u) \/ \E rn \in Regs : Access(u, rn)
        PROVE  slot' = slot
    BY <2>5 DEF OtherFault, AccessSlot, Access
  <2>6. CASE HandlerInstall \/ HandlerRemove \/ InstallCrashDiag \/ UNCHANGED vars
    BY <2>1, <2>6 DEF HandlerInstall, HandlerRemove, InstallCrashDiag, QuietVars, vars
  <2> QED
    BY <2>1, <2>2, <2>3, <2>4, <2>5, <2>6 DEF Next
<1> HIDE DEF A
<1>3. Spec => [][A]_vars
  BY Invariance, <1>1, PTL DEF Spec
<1> QED
  BY <1>3 DEF SlotKeepsObject, A

-----------------------------------------------------------------------------
(* The crash dump.  Away from both ends of the address space no sum of the *)
(* dumper wraps, so what its guards accept the hardware allows.            *)

\* The walk is the function its recursion describes.
LEMMA FramesFacts ==
  ASSUME NEW x
  PROVE  /\ Frames(x)[0] = x.fp
         /\ \A i \in 1..7 : Frames(x)[i] = NextFrame(x, Frames(x)[i - 1])
         /\ DOMAIN Frames(x) = 0..7
<1> DEFINE w0 == x.fp
           w1 == NextFrame(x, w0)
           w2 == NextFrame(x, w1)
           w3 == NextFrame(x, w2)
           w4 == NextFrame(x, w3)
           w5 == NextFrame(x, w4)
           w6 == NextFrame(x, w5)
           w7 == NextFrame(x, w6)
           F == [i \in 0..7 |-> IF i = 0 THEN w0 ELSE IF i = 1 THEN w1 ELSE IF i = 2 THEN w2
                                ELSE IF i = 3 THEN w3 ELSE IF i = 4 THEN w4 ELSE IF i = 5 THEN w5
                                ELSE IF i = 6 THEN w6 ELSE w7]
           Walk(f) == f = [i \in 0..7 |-> IF i = 0 THEN x.fp ELSE NextFrame(x, f[i - 1])]
<1>1. /\ w1 = NextFrame(x, w0) /\ w2 = NextFrame(x, w1) /\ w3 = NextFrame(x, w2) /\ w4 = NextFrame(x, w3)
      /\ w5 = NextFrame(x, w4) /\ w6 = NextFrame(x, w5) /\ w7 = NextFrame(x, w6) /\ w0 = x.fp
  OBVIOUS
<1> HIDE DEF w0, w1, w2, w3, w4, w5, w6, w7
<1>2. \A i \in 0..7 : F[i] = IF i = 0 THEN x.fp ELSE NextFrame(x, F[i - 1])
  <2>1. /\ F[0] = w0 /\ F[1] = w1 /\ F[2] = w2 /\ F[3] = w3 /\ F[4] = w4 /\ F[5] = w5 /\ F[6] = w6
        /\ F[7] = w7
    OBVIOUS
  <2> HIDE DEF F
  <2>2. SUFFICES ASSUME NEW i \in 0..7 PROVE F[i] = IF i = 0 THEN x.fp ELSE NextFrame(x, F[i - 1])
    OBVIOUS
  <2>3. /\ i \in {0, 1, 2, 3, 4, 5, 6, 7}
        /\ 1 - 1 = 0 /\ 2 - 1 = 1 /\ 3 - 1 = 2 /\ 4 - 1 = 3 /\ 5 - 1 = 4 /\ 6 - 1 = 5 /\ 7 - 1 = 6
    OBVIOUS
  <2> QED
    BY <1>1, <2>1, <2>3
<1>3. F = [i \in 0..7 |-> F[i]]
  OBVIOUS
<1> HIDE DEF F
<1>4. Walk(F)
  BY <1>2, <1>3
<1>5. Frames(x) = CHOOSE f : Walk(f)
  BY DEF Frames, MaxFrames
<1>6. Walk(Frames(x))
  BY <1>4, <1>5
<1> QED
  BY <1>6

LEMMA WrapFacts ==
  /\ \A a \in Int : 0 <= a /\ a < AddrSpace => a % AddrSpace = a
  /\ \A a \in Int : AddrSpace <= a /\ a < 2 * AddrSpace => a % AddrSpace = a - AddrSpace
<1>1. AddrSpace \in Nat \ {0}
  BY DumperAssumption
<1>2. ASSUME NEW a \in Int, 0 <= a, a < 2 * AddrSpace
      PROVE  a % AddrSpace = IF a < AddrSpace THEN a ELSE a - AddrSpace
  <2>1. a \in 0 .. (2 * AddrSpace - 1)
    BY <1>1, <1>2
  <2> QED
    BY <1>1, <2>1, ModOnce
<1> QED
  BY <1>1, <1>2

\* Only a read that starts at the very last word is accepted and not allowed.
LEMMA WordSafe ==
  ASSUME NEW lo \in Nat, NEW hi \in Nat, NEW a \in 0..(AddrSpace - 2)
  PROVE  Safe(lo, hi, a, 1)
<1>1. (a + 1) % AddrSpace = a + 1
  BY DumperAssumption, WrapFacts
<1>2. a % 1 = 0
  OBVIOUS
<1> QED
  BY <1>1, <1>2, DumperAssumption DEF Safe, Accepts, Allowed, Plus

LEMMA SlotSafe ==
  ASSUME NEW lo \in Nat, NEW hi \in Nat, NEW a \in 0..(AddrSpace - 3), a % 2 = 0
  PROVE  Safe(lo, hi, a, 2)
<1>1. (a + 2) % AddrSpace = a + 2
  BY DumperAssumption, WrapFacts
<1> QED
  BY <1>1, DumperAssumption DEF Safe, Accepts, Allowed, Plus

\* Where the walk goes from f: up, to an even word.
LEMMA NextFrameFacts ==
  ASSUME NEW x \in Crashes, NEW f \in Int
  PROVE  LET g == NextFrame(x, f)
         IN  /\ g \in 0..(AddrSpace - 1) /\ g % 2 = 0
             /\ g # 0 => g > f
<1>1. StkRd(x, f) \in 0..AddrSpace
  <2>1. x.stk \in [StackLo..(StackHi - 1) -> CrashWords]
    BY DEF Crashes
  <2>2. \A a \in StackLo..(StackHi - 1) : x.stk[a] \in 0..AddrSpace
    <3>1. \A w \in CrashWords : w \in 0..AddrSpace
      BY DumperAssumption
    <3>2. \A a \in StackLo..(StackHi - 1) : x.stk[a] \in CrashWords
      BY <2>1
    <3> QED
      BY <3>1, <3>2
  <2> QED
    BY <2>2, DumperAssumption DEF StkRd, TriesStack, BadRead
<1> QED
  BY <1>1, DumperAssumption DEF NextFrame, EndsChain, BadRead

\* Away from the edges no sum the dumper computes wraps.
LEMMA DumpComplete ==
  ASSUME NEW x \in Crashes, ~ Edge(x)
  PROVE  DumpSafe(x) /\ FramesAscend(x)
<1> DEFINE fr == Frames(x)
<1>1. x.fp \in 0..(AddrSpace - 1) /\ x.c \in 0..(AddrSpace - 1)
  BY DumperAssumption DEF Crashes
<1>2. \A a \in 0..(AddrSpace - 1) : Plus(a, 8) >= a => a + 8 < AddrSpace
  BY DumperAssumption, WrapFacts DEF Plus
<1>3. x.fp + 8 < AddrSpace /\ x.c + 8 < AddrSpace /\ x.c >= 4 /\ x.c % 2 = 0
  <2>1. \A a \in 0..(AddrSpace - 1) : Plus(a, 8) \in Int
    BY DumperAssumption DEF Plus
  <2> QED
    BY <1>1, <1>2, <2>1 DEF Edge
<1>4. fr[0] = x.fp /\ DOMAIN fr = 0..7 /\ \A i \in 1..7 : fr[i] = NextFrame(x, fr[i - 1])
  BY FramesFacts
<1> HIDE DEF fr
<1>5. \A i \in 0..7 : fr[i] \in 0..(AddrSpace - 1)
  <2>1. \A i \in 1..7 : fr[i - 1] \in Int => fr[i] \in 0..(AddrSpace - 1)
    BY <1>4, NextFrameFacts
  <2>2. fr[0] \in 0..(AddrSpace - 1)
    BY <1>1, <1>4
  <2>3. /\ fr[0] \in Int => fr[1] \in 0..(AddrSpace - 1)
        /\ fr[1] \in Int => fr[2] \in 0..(AddrSpace - 1)
        /\ fr[2] \in Int => fr[3] \in 0..(AddrSpace - 1)
        /\ fr[3] \in Int => fr[4] \in 0..(AddrSpace - 1)
        /\ fr[4] \in Int => fr[5] \in 0..(AddrSpace - 1)
        /\ fr[5] \in Int => fr[6] \in 0..(AddrSpace - 1)
        /\ fr[6] \in Int => fr[7] \in 0..(AddrSpace - 1)
    BY <2>1
  <2>4. \A a \in 0..(AddrSpace - 1) : a \in Int
    OBVIOUS
  <2>5. \A i \in 0..7 : i \in {0, 1, 2, 3, 4, 5, 6, 7}
    OBVIOUS
  <2> QED
    BY <2>2, <2>3, <2>4, <2>5
<1>6. \A i \in 1..7 : fr[i] % 2 = 0 /\ (fr[i] # 0 => fr[i] > fr[i - 1])
  <2>1. ASSUME NEW i \in 1..7 PROVE fr[i] % 2 = 0 /\ (fr[i] # 0 => fr[i] > fr[i - 1])
    <3>1. i - 1 \in 0..7
      OBVIOUS
    <3>2. fr[i - 1] \in Int
      BY <1>5, <3>1
    <3> QED
      BY <1>4, <3>2, NextFrameFacts
  <2> QED
    BY <2>1
<1>7. FramesAscend(x)
  BY <1>6 DEF FramesAscend, MaxFrames, fr
<1>8. \A a \in FrameReads(x) : a \in 0..(AddrSpace - 2)
  <2>1. ASSUME NEW i \in 0..7 PROVE fr[i] \in 0..(AddrSpace - 2) /\ Plus(fr[i], 2) \in 0..(AddrSpace - 2)
    <3>1. fr[i] \in 0..(AddrSpace - 1) /\ (fr[i] % 2 = 0 \/ fr[i] + 8 < AddrSpace)
      BY <1>3, <1>4, <1>5, <1>6
    <3>2. fr[i] \in 0..(AddrSpace - 2) /\ (fr[i] + 2 <= AddrSpace - 2 \/ fr[i] + 2 = AddrSpace)
      BY <3>1, DumperAssumption
    <3>3. Plus(fr[i], 2) \in 0..(AddrSpace - 2)
      BY <3>2, DumperAssumption, WrapFacts DEF Plus
    <3> QED
      BY <3>2, <3>3
  <2> QED
    BY <1>4, <2>1 DEF FrameReads, fr
<1>9. \A a \in WindowReads \cup {Plus(x.fp, 2)} : a \in 0..(AddrSpace - 2)
  <2>1. Plus(x.fp, 2) \in 0..(AddrSpace - 2)
    BY <1>1, <1>3, DumperAssumption, WrapFacts DEF Plus
  <2>2. ASSUME NEW d \in -2..(StackHi - StackLo) PROVE Plus(StackLo, d) \in 0..(AddrSpace - 2)
    BY DumperAssumption, WrapFacts DEF Plus
  <2> QED
    BY <2>1, <2>2 DEF WindowReads
<1>10. \A a \in CodeReads(x) \cup ProbeReads(x) : a \in 0..(AddrSpace - 2)
  <2>1. ASSUME NEW d \in -4..7 PROVE Plus(x.c, d) \in 0..(AddrSpace - 2)
    BY <1>1, <1>3, DumperAssumption, WrapFacts DEF Plus
  <2> QED
    BY <2>1 DEF CodeReads, ProbeReads
<1>11. \A a \in SlotReads(x) : a \in 0..(AddrSpace - 3) /\ a % 2 = 0
  <2>1. ASSUME NEW d \in {-4, -2, 0, 2, 4, 6}
        PROVE  Plus(x.c, d) \in 0..(AddrSpace - 3) /\ Plus(x.c, d) % 2 = 0
    <3>1. x.c + d \in 0..(AddrSpace - 3) /\ (x.c + d) % 2 = 0
      BY <1>1, <1>3, DumperAssumption
    <3>2. Plus(x.c, d) = x.c + d
      BY <3>1, DumperAssumption, WrapFacts DEF Plus
    <3> QED
      BY <3>1, <3>2
  <2> QED
    BY <2>1 DEF SlotReads
<1>12. \A b \in Bounds(x) : b[1] \in Nat /\ b[2] \in Nat
  BY DumperAssumption DEF Bounds
<1>13. StackLo \in Nat /\ StackHi \in Nat /\ (x.sp = "readable" \/ x.sp = "untagged")
  BY DumperAssumption DEF Crashes, Edge
<1>14. DumpSafe(x)
  <2>1. \A a \in StackReads(x) : StackSafe(x, a)
    <3>1. \A a \in StackReads(x) : Safe(StackLo, StackHi, a, 1)
      BY <1>8, <1>9, <1>13, WordSafe DEF StackReads
    <3> QED
      BY <1>13, <3>1 DEF StackSafe, TriesStack, Safe
  <2>2. \A a \in CodeReads(x) \cup ProbeReads(x) : CoverSafe(x, a, 1)
    BY <1>10, <1>12, WordSafe DEF CoverSafe
  <2>3. \A a \in SlotReads(x) : CoverSafe(x, a, 2)
    BY <1>11, <1>12, SlotSafe DEF CoverSafe
  <2> QED
    BY <2>1, <2>2, <2>3 DEF DumpSafe
<1> QED
  BY <1>7, <1>14

LEMMA OutcomesAtEdges == \A o \in DumpOutcomes : o.result = "cut" => o.edge
BY DumpComplete DEF DumpOutcomes

\* Only the dumper writes its outcome.
LEMMA DumpStep ==
  ASSUME [Next]_vars
  PROVE  dump' \in DumpOutcomes \/ UNCHANGED dump
<1>1. ASSUME NEW t \in Threads, HandlerStep(t) PROVE dump' \in DumpOutcomes \/ UNCHANGED dump
  BY <1>1 DEF HandlerStep, SafeFetchRedirect, EnterHeal, PassOn, EnterDump, Fatal, Decode, Scan,
              LastResort, Evacuate, Heal, Unhealed, Dump, Retry
<1>2. ASSUME NEW t \in Threads, OtherFault(t) \/ AccessSlot(t) PROVE UNCHANGED dump
  BY <1>2 DEF OtherFault, AccessSlot, Raise
<1>3. ASSUME NEW t \in Threads, NEW rn \in Regs, Access(t, rn) PROVE UNCHANGED dump
  BY <1>3 DEF Access, Raise
<1>4. ASSUME NEW o \in Objects, Move(o) PROVE UNCHANGED dump
  BY <1>4 DEF Move
<1>5. CASE HandlerInstall \/ HandlerRemove \/ InstallCrashDiag
  BY <1>5 DEF HandlerInstall, HandlerRemove, InstallCrashDiag, QuietVars
<1>6. CASE UNCHANGED vars
  BY <1>6 DEF vars
<1> QED
  BY <1>1, <1>2, <1>3, <1>4, <1>5, <1>6 DEF Next

\* stopless_crash_dumper is cut short by a fault of its own only by a number
\* near either end of the address space, or a misaligned slot address.
THEOREM DumpCuts == Spec => []DumpCutOnlyAtEdges
<1>1. Init => DumpCutOnlyAtEdges
  BY DEF Init, DumpCutOnlyAtEdges
<1>2. DumpCutOnlyAtEdges /\ [Next]_vars => DumpCutOnlyAtEdges'
  BY DumpStep, OutcomesAtEdges DEF DumpCutOnlyAtEdges
<1> QED
  BY <1>1, <1>2, PTL DEF Spec
=============================================================================
