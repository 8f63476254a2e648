-------------------------- MODULE CapRuntime_Proofs --------------------------
(***************************************************************************)
(* The safety properties of the legacy capability runtime, for any number  *)
(* of threads, keys, slots and cycles and any hash.                        *)
(*                                                                         *)
(* The argument is that of an open-addressed table.  While no clear runs, a*)
(* key sits on its own probe path with no empty slot before it (PathInv),  *)
(* and a worker that still probes has passed only slots of other keys      *)
(* (InstallInv).  So the empty slot it claims is the first of its path, and*)
(* nobody else has the key: a key has one slot, one owner and, once its    *)
(* install has returned, one destination that is never stored again        *)
(* (DoneInv), which a lookup on the same path cannot miss (LookupInv).     *)
(***************************************************************************)
EXTENDS CapRuntime, ArithmeticLemmas, FiniteSetTheorems, TLAPS

Pos(k, p) == (Hash[k] + p) % NSlots

Used   == {s \in SlotIds : slots[s].from # 0}
Owners == {t \in Threads : th[t].pc \in {"store", "count"}}

Calling(t) == th[t].pc \in {"install", "store", "count"}

\* A call in progress has a key; an install has a destination of its own.
ShapeInv ==
  /\ \A t \in Threads : th[t].pc = "idle" => th[t] = NoCall
  /\ \A t \in Threads : th[t].pc # "idle" => th[t].key \in Keys
  /\ \A t \in Threads : Calling(t) => th[t].val \in CopyOf[th[t].key] /\ th[t].expect = None

\* No install runs during a clear, which has emptied the slots behind it.
ClearInv ==
  gc.pc = "clear" =>
    /\ \A t \in Threads : ~ Calling(t)
    /\ gc.i \in 0 .. NSlots
    /\ \A s \in SlotIds : s < gc.i => slots[s].from = 0
    /\ \A k \in Keys : done[k] = None

\* Every key in the table is reached by its probe sequence.
PathInv ==
  gc.pc # "clear" =>
    \A s \in SlotIds : slots[s].from # 0 =>
      \E p \in SlotIds : /\ s = Pos(slots[s].from, p)
                         /\ \A q \in SlotIds : q < p => slots[Pos(slots[s].from, q)].from # 0

\* A probing install has passed slots of other keys only; one that has won
\* owns its slot, which has its value after the second store.
InstallOK(c) ==
  LET s == Pos(c.key, c.probe) IN
  /\ c.pc = "install" =>
       \A q \in SlotIds : q < c.probe => slots[Pos(c.key, q)].from \notin {0, c.key}
  /\ c.pc \in {"store", "count"} => slots[s].from = c.key /\ done[c.key] = None
  /\ c.pc = "count" => slots[s].to = c.val

InstallInv == \A t \in Threads : InstallOK(th[t])

\* Two winners have different keys.
OwnerInv == \A t, u \in Owners : th[t].key = th[u].key => t = u

\* A slot's destination is its key's, but between the two stores.
DestInv ==
  gc.pc # "clear" =>
    \A s \in SlotIds : slots[s].from # 0 /\ ~ HalfInstalled(slots[s].from) =>
      slots[s].to \in CopyOf[slots[s].from]

\* What a completed install has stored is there.
DoneInv ==
  \A k \in Keys : done[k] # None =>
    \E s \in SlotIds : slots[s].from = k /\ slots[s].to = done[k]

\* A lookup no clear has met; one that must find its key.
LookupOK(c) ==
  LET s == Pos(c.key, c.probe) IN
  c.pc \in {"lookup", "read", "answer"} =>
    /\ ~ c.racy =>
         /\ gc.pc # "clear"
         /\ c.pc = "read" => slots[s].from = c.key
         /\ c.pc = "answer" => c.val \in CopyOf[c.key] \cup {c.key}
    /\ c.expect # None =>
         /\ done[c.key] = c.expect
         /\ c.pc = "lookup" =>
              \A q \in SlotIds : q < c.probe => slots[Pos(c.key, q)].from # c.key
         /\ c.pc = "read" => slots[s].from = c.key
         /\ c.pc = "answer" => c.val = c.expect

LookupInv == \A t \in Threads : LookupOK(th[t])

\* The count lags behind the table by the installs not counted yet.
CountInv == gc.pc # "clear" => Cardinality(Used) = installed + Cardinality(Owners)

\* The history of stores is that of the running flip, whose colours differ.
FlipInv ==
  /\ gc.pc # "flip" => \A e \in Entries : stored[e] = -1
  /\ gc.pc = "flip" =>
       /\ gc.from # gc.to
       /\ \A e \in Entries :
            /\ stored[e] \notin {-1, gc.from} => table[e] = stored[e]
            /\ e < gc.i /\ table[e] = gc.from => stored[e] = gc.from

TableInv == /\ ShapeInv /\ ClearInv /\ PathInv /\ InstallInv /\ OwnerInv
            /\ OneSlotPerKey /\ DestInv /\ DoneInv /\ LookupInv

IInv == TypeOK /\ TableInv /\ CountInv /\ FlipInv

-----------------------------------------------------------------------------
(* The probe sequence.                                                     *)

\* The probe sequence of a key stays in the table and visits no slot twice.
LEMMA PosFacts ==
  ASSUME NEW k \in Keys
  PROVE  /\ \A p \in SlotIds : Pos(k, p) \in SlotIds
         /\ \A p, q \in SlotIds : Pos(k, p) = Pos(k, q) => p = q
<1>1. Hash[k] \in 0 .. (NSlots - 1) /\ NSlots \in Nat \ {0}
  BY RuntimeAssumption
<1>2. \A p \in SlotIds : Hash[k] + p \in 0 .. (2 * NSlots - 1)
  BY <1>1 DEF SlotIds
<1>3. \A p \in SlotIds : Pos(k, p) = IF Hash[k] + p < NSlots THEN Hash[k] + p ELSE Hash[k] + p - NSlots
  <2> SUFFICES ASSUME NEW p \in SlotIds
               PROVE  Pos(k, p) = IF Hash[k] + p < NSlots THEN Hash[k] + p ELSE Hash[k] + p - NSlots
    OBVIOUS
  <2> DEFINE a == Hash[k] + p
  <2>1. a \in 0 .. (2 * NSlots - 1)
    BY <1>2
  <2> HIDE DEF a
  <2>2. a % NSlots = IF a < NSlots THEN a ELSE a - NSlots
    BY <1>1, <2>1, ModOnce
  <2> QED
    BY <2>2, <2>1, <1>1 DEF Pos, a, SlotIds
<1> HIDE DEF Pos
<1> QED
  BY <1>1, <1>3 DEF SlotIds

LEMMA SlotIdsFacts == /\ 0 \in SlotIds /\ SlotIds \subseteq Nat
                      /\ IsFiniteSet(SlotIds)
                      /\ \A p \in SlotIds : p # NSlots - 1 => p + 1 \in SlotIds
                      /\ NSlots - 1 \in SlotIds
                      /\ \A p \in SlotIds : p <= NSlots - 1
  BY RuntimeAssumption, FS_Interval DEF SlotIds

LEMMA KeysFacts == 0 \notin Keys /\ \A k \in Keys : CopyOf[k] \subseteq Copies
  BY RuntimeAssumption DEF Copies

LEMMA AtPos == ASSUME NEW t \in Threads PROVE At(t) = Pos(th[t].key, th[t].probe)
  BY DEF At, Pos

-----------------------------------------------------------------------------
(* Types.                                                                  *)

LEMMA NoCallType == NoCall \in Calls /\ NoCall.pc = "idle"
  BY SlotIdsFacts DEF NoCall, Calls

\* What the types say of one thread.
LEMMA CallType ==
  ASSUME TypeOK, ShapeInv, NEW t \in Threads
  PROVE  /\ th[t] \in Calls /\ th[t].probe \in SlotIds
         /\ th[t].pc # "idle" => th[t].key \in Keys /\ At(t) \in SlotIds
<1>1. th[t] \in Calls
  BY DEF TypeOK
<1>2. th[t].probe \in SlotIds
  BY <1>1 DEF Calls
<1>3. th[t].pc # "idle" => th[t].key \in Keys
  BY DEF ShapeInv
<1> QED
  BY <1>1, <1>2, <1>3, AtPos, PosFacts

\* A step that changes the call of one thread only.
LEMMA GoType ==
  ASSUME TypeOK, ShapeInv, NEW t \in Threads, NEW c \in Calls, Go(t, c),
         c.pc = "idle" => c = NoCall,
         c.pc # "idle" => c.key \in Keys,
         c.pc \in {"install", "store", "count"} => c.val \in CopyOf[c.key] /\ c.expect = None
  PROVE  (th \in [Threads -> Calls])' /\ ShapeInv'
<1>1. th' \in [Threads -> Calls] /\ th'[t] = c /\ \A u \in Threads : u # t => th'[u] = th[u]
  BY DEF TypeOK, Go
<1> QED
  BY <1>1 DEF ShapeInv, Calling

LEMMA TypeStep == TypeOK /\ ShapeInv /\ [Next]_vars => TypeOK' /\ ShapeInv'
<1> SUFFICES ASSUME TypeOK, ShapeInv, [Next]_vars PROVE TypeOK' /\ ShapeInv'
  OBVIOUS
<1> USE DEF TableVars, RestVars, ColorVars
<1>1. ASSUME NEW t \in Threads, NEW k \in Keys, NEW c \in CopyOf[k], InstallBegin(t, k, c)
      PROVE TypeOK' /\ ShapeInv'
  <2> DEFINE d == [NoCall EXCEPT !.pc = "install", !.key = k, !.val = c]
  <2>1. d \in Calls /\ d.pc = "install" /\ d.key = k /\ d.val = c /\ d.expect = None
    BY KeysFacts, SlotIdsFacts DEF Calls, NoCall
  <2> HIDE DEF d
  <2>2. Go(t, d)
    BY <1>1 DEF InstallBegin, d
  <2>3. (th \in [Threads -> Calls])' /\ ShapeInv'
    BY <2>1, <2>2, GoType
  <2> QED
    BY <1>1, <2>3 DEF InstallBegin, TypeOK
<1>2. ASSUME NEW t \in Threads, InstallProbe(t) PROVE TypeOK' /\ ShapeInv'
  <2>1. th[t].key \in Keys /\ At(t) \in SlotIds /\ th[t] \in Calls /\ th[t].probe \in SlotIds
    BY <1>2, CallType DEF InstallProbe
  <2>2. th[t].val \in CopyOf[th[t].key] /\ th[t].expect = None
    BY <1>2 DEF InstallProbe, ShapeInv, Calling
  <2>3. CASE slots[At(t)].from = 0
    <3> DEFINE d == [th[t] EXCEPT !.pc = "store"]
    <3>1. d \in Calls /\ d.pc = "store" /\ d.key = th[t].key /\ d.val = th[t].val /\ d.expect = th[t].expect
      BY <2>1 DEF Calls
    <3> HIDE DEF d
    <3>2. Go(t, d) /\ slots' = [slots EXCEPT ![At(t)].from = th[t].key]
      BY <1>2, <2>3 DEF InstallProbe, d
    <3>3. (th \in [Threads -> Calls])' /\ ShapeInv'
      BY <3>1, <3>2, <2>1, <2>2, GoType
    <3>4. slots' \in [SlotIds -> Slots]
      BY <3>2, <2>1 DEF TypeOK, Slots
    <3> QED
      BY <1>2, <3>3, <3>4 DEF InstallProbe, TypeOK
  <2>4. CASE slots[At(t)].from # 0
    <3> DEFINE d == [th[t] EXCEPT !.probe = @ + 1]
               e == IF Beaten(t) \/ th[t].probe = NSlots - 1 THEN NoCall ELSE d
    <3>1. th[t].probe # NSlots - 1 =>
            d \in Calls /\ d.pc = "install" /\ d.key = th[t].key /\ d.val = th[t].val /\ d.expect = th[t].expect
      BY <1>2, <2>1, SlotIdsFacts DEF Calls, InstallProbe
    <3>2. Go(t, e) /\ slots' = slots
      BY <1>2, <2>4 DEF InstallProbe
    <3> HIDE DEF d
    <3>3. (th \in [Threads -> Calls])' /\ ShapeInv'
      <4>1. CASE e = NoCall
        BY <4>1, <3>2, NoCallType, GoType
      <4>2. CASE e # NoCall
        BY <4>2, <3>1, <3>2, <2>1, <2>2, GoType
      <4> QED
        BY <4>1, <4>2
    <3> QED
      BY <1>2, <3>3, <3>2 DEF InstallProbe, TypeOK
  <2> QED
    BY <2>3, <2>4
<1>3. ASSUME NEW t \in Threads, InstallStore(t) PROVE TypeOK' /\ ShapeInv'
  <2>1. th[t].key \in Keys /\ At(t) \in SlotIds /\ th[t] \in Calls
    BY <1>3, CallType DEF InstallStore
  <2>2. th[t].val \in CopyOf[th[t].key] /\ th[t].expect = None
    BY <1>3 DEF InstallStore, ShapeInv, Calling
  <2> DEFINE d == [th[t] EXCEPT !.pc = "count"]
  <2>3. d \in Calls /\ d.pc = "count" /\ d.key = th[t].key /\ d.val = th[t].val /\ d.expect = th[t].expect
    BY <2>1 DEF Calls
  <2> HIDE DEF d
  <2>4. Go(t, d) /\ slots' = [slots EXCEPT ![At(t)].to = th[t].val]
    BY <1>3 DEF InstallStore, d
  <2>5. (th \in [Threads -> Calls])' /\ ShapeInv'
    BY <2>1, <2>2, <2>3, <2>4, GoType
  <2>6. slots' \in [SlotIds -> Slots]
    BY <2>1, <2>2, <2>4, KeysFacts DEF TypeOK, Slots
  <2> QED
    BY <1>3, <2>5, <2>6 DEF InstallStore, TypeOK
<1>4. ASSUME NEW t \in Threads, InstallCount(t) PROVE TypeOK' /\ ShapeInv'
  <2>1. th[t].key \in Keys /\ th[t].val \in Copies
    BY <1>4, KeysFacts DEF InstallCount, ShapeInv, Calling
  <2>2. (th \in [Threads -> Calls])' /\ ShapeInv'
    BY <1>4, NoCallType, GoType DEF InstallCount
  <2> QED
    BY <1>4, <2>1, <2>2 DEF InstallCount, TypeOK, Counted
<1>5. ASSUME NEW t \in Threads, NEW k \in Keys, LookupBegin(t, k) PROVE TypeOK' /\ ShapeInv'
  <2> DEFINE d == [NoCall EXCEPT !.pc = "lookup", !.key = k, !.expect = done[k], !.racy = (gc.pc = "clear")]
  <2>1. d \in Calls /\ d.pc = "lookup" /\ d.key = k
    BY SlotIdsFacts DEF Calls, NoCall, TypeOK
  <2>2. Go(t, d)
    BY <1>5 DEF LookupBegin
  <2> HIDE DEF d
  <2>3. (th \in [Threads -> Calls])' /\ ShapeInv'
    BY <2>1, <2>2, GoType
  <2> QED
    BY <1>5, <2>3 DEF LookupBegin, TypeOK
<1>6. ASSUME NEW t \in Threads, LookupProbe(t) PROVE TypeOK' /\ ShapeInv'
  <2>1. th[t].key \in Keys /\ th[t] \in Calls /\ th[t].probe \in SlotIds
    BY <1>6, CallType DEF LookupProbe
  <2> DEFINE d == IF Hit(t) THEN [th[t] EXCEPT !.pc = "read"]
                  ELSE IF Miss(t) THEN [th[t] EXCEPT !.pc = "answer", !.val = th[t].key]
                  ELSE [th[t] EXCEPT !.probe = @ + 1]
  <2>2. d \in Calls /\ d.pc \in {"lookup", "read", "answer"} /\ d.key = th[t].key
    <3>1. ~ Miss(t) => th[t].probe + 1 \in SlotIds
      BY <2>1, SlotIdsFacts DEF Miss
    <3> QED
      BY <1>6, <2>1, <3>1 DEF Calls, LookupProbe
  <2>3. Go(t, d)
    BY <1>6 DEF LookupProbe
  <2> HIDE DEF d
  <2>4. (th \in [Threads -> Calls])' /\ ShapeInv'
    BY <2>1, <2>2, <2>3, GoType
  <2> QED
    BY <1>6, <2>4 DEF LookupProbe, TypeOK
<1>7. ASSUME NEW t \in Threads, LookupRead(t) PROVE TypeOK' /\ ShapeInv'
  <2>1. th[t].key \in Keys /\ th[t] \in Calls /\ At(t) \in SlotIds
    BY <1>7, CallType DEF LookupRead
  <2> DEFINE d == [th[t] EXCEPT !.pc = "answer", !.val = slots[At(t)].to, !.racy = @ \/ HalfInstalled(th[t].key)]
  <2>2. slots[At(t)].to \in Copies \cup {None}
    BY <2>1 DEF TypeOK, Slots
  <2>3. d \in Calls /\ d.pc = "answer" /\ d.key = th[t].key
    BY <2>1, <2>2 DEF Calls
  <2>4. Go(t, d)
    BY <1>7 DEF LookupRead
  <2> HIDE DEF d
  <2>5. (th \in [Threads -> Calls])' /\ ShapeInv'
    BY <2>1, <2>3, <2>4, GoType
  <2> QED
    BY <1>7, <2>5 DEF LookupRead, TypeOK
<1>8. ASSUME NEW t \in Threads, LookupReturn(t) PROVE TypeOK' /\ ShapeInv'
  <2>1. (th \in [Threads -> Calls])' /\ ShapeInv'
    BY <1>8, NoCallType, GoType DEF LookupReturn
  <2> QED
    BY <1>8, <2>1 DEF LookupReturn, TypeOK
<1>9. CASE ClearBegin
  <2>1. \A t \in Threads : LET d == [th[t] EXCEPT !.racy = TRUE, !.expect = None]
                           IN  d \in Calls /\ d.pc = th[t].pc /\ d.key = th[t].key /\ d.val = th[t].val /\ d.expect = None
    BY ZenonT(40) DEF TypeOK, Calls
  <2>2. th' = [t \in Threads |-> IF th[t] = NoCall THEN NoCall ELSE [th[t] EXCEPT !.racy = TRUE, !.expect = None]]
    BY <1>9 DEF ClearBegin
  <2>3. th' \in [Threads -> Calls]
    BY <2>1, <2>2, NoCallType
  <2>4. ASSUME NEW t \in Threads
        PROVE  /\ th'[t].pc = "idle" => th'[t] = NoCall
               /\ th'[t].pc # "idle" => th'[t].key \in Keys
               /\ th'[t].pc \notin {"install", "store", "count"}
    <3>1. th[t].pc \notin {"install", "store", "count"}
      BY <1>9 DEF ClearBegin, Installing
    <3>2. CASE th[t] = NoCall
      BY <2>2, <3>2, NoCallType
    <3>3. CASE th[t] # NoCall
      BY <2>1, <2>2, <3>1, <3>3 DEF ShapeInv
    <3> QED
      BY <3>2, <3>3
  <2>5. ShapeInv'
    BY <2>4 DEF ShapeInv, Calling
  <2>6. gc' \in [pc : {"idle", "clear", "flip"}, i : Nat, from : Colors, to : Colors]
    BY <1>9, RuntimeAssumption DEF ClearBegin, GcIdle
  <2>7. done' \in [Keys -> Copies \cup {None}]
    BY <1>9 DEF ClearBegin
  <2>8. cycles' = cycles + 1 /\ UNCHANGED <<heap, epoch, slots, installed, table, stored>>
    BY <1>9 DEF ClearBegin
  <2> QED
    BY <2>3, <2>5, <2>6, <2>7, <2>8 DEF TypeOK
<1>10. CASE ClearStep
  <2>1. slots' \in [SlotIds -> Slots]
    BY <1>10 DEF ClearStep, TypeOK, Slots
  <2> QED
    BY <1>10, <2>1, RuntimeAssumption DEF ClearStep, TypeOK, ShapeInv, Calling, GcIdle
<1>11. ASSUME NEW a \in Addrs, NEW c \in Colors, StoreColor(a, c) PROVE TypeOK' /\ ShapeInv'
  BY <1>11 DEF StoreColor, TypeOK, ShapeInv, Calling
<1>12. ASSUME NEW c \in Colors, NEW d \in Colors, FlipBegin(c, d) PROVE TypeOK' /\ ShapeInv'
  BY <1>12 DEF FlipBegin, TypeOK, ShapeInv, Calling
<1>13. CASE FlipStep
  BY <1>13, RuntimeAssumption DEF FlipStep, Flipped, TypeOK, ShapeInv, Calling, GcIdle
<1>14. CASE RevokeRegion
  BY <1>14 DEF RevokeRegion, TypeOK, ShapeInv, Calling
<1>15. CASE HeapCreate \/ HeapDestroy
  BY <1>15 DEF HeapCreate, HeapDestroy, TypeOK, ShapeInv, Calling
<1>16. CASE UNCHANGED vars
  BY <1>16 DEF vars, TypeOK, ShapeInv, Calling
<1> QED
  BY <1>1, <1>2, <1>3, <1>4, <1>5, <1>6, <1>7, <1>8, <1>9, <1>10, <1>11, <1>12, <1>13,
     <1>14, <1>15, <1>16 DEF Next, ThreadStep
-----------------------------------------------------------------------------
(* The table.                                                              *)

\* The empty slot an install meets is the first on its path, and no other slot
\* has its key.
LEMMA ClaimIsFirst ==
  ASSUME TypeOK, TableInv, NEW t \in Threads, th[t].pc = "install", slots[At(t)].from = 0
  PROVE  \A s \in SlotIds : slots[s].from # th[t].key
<1>1. th[t].key \in Keys /\ th[t].probe \in SlotIds /\ At(t) = Pos(th[t].key, th[t].probe)
  BY CallType, AtPos DEF TableInv
<1>2. gc.pc # "clear"
  BY DEF TableInv, ClearInv, Calling
<1> SUFFICES ASSUME NEW s \in SlotIds, slots[s].from = th[t].key PROVE FALSE
  OBVIOUS
<1>3. PICK p \in SlotIds : /\ s = Pos(th[t].key, p)
                           /\ \A q \in SlotIds : q < p => slots[Pos(th[t].key, q)].from # 0
  BY <1>1, <1>2, KeysFacts DEF TableInv, PathInv
<1>4. ~ (th[t].probe < p)
  BY <1>1, <1>3
<1>5. th[t].probe # p
  BY <1>1, <1>3, KeysFacts
<1>6. ~ (p < th[t].probe)
  BY <1>1, <1>3 DEF TableInv, InstallInv, InstallOK
<1> QED
  BY <1>1, <1>4, <1>5, <1>6 DEF SlotIds

\* A step of one thread that is no winner, before and after, and leaves the
\* table alone.
LEMMA GoTable ==
  ASSUME TypeOK, TableInv, NEW t \in Threads, NEW d \in Calls, Go(t, d), ShapeInv',
         UNCHANGED <<slots, done, gc>>,
         th[t].pc \notin {"store", "count"}, d.pc \notin {"store", "count"},
         d.pc = "install" => gc.pc # "clear",
         InstallOK(d), LookupOK(d)
  PROVE  TableInv'
<1>1. th'[t] = d /\ \A u \in Threads : u # t => th'[u] = th[u]
  BY DEF TypeOK, Go
<1>2. ClearInv'
  BY <1>1 DEF TableInv, ClearInv, Calling
<1>3. PathInv' /\ DoneInv' /\ OneSlotPerKey'
  BY DEF TableInv, PathInv, DoneInv, OneSlotPerKey
<1>4. InstallInv'
  BY <1>1 DEF TableInv, InstallInv, InstallOK
<1>5. OwnerInv'
  BY <1>1 DEF TableInv, OwnerInv, Owners
<1>6. DestInv'
  <2>1. \A k : HalfInstalled(k)' <=> HalfInstalled(k)
    BY <1>1 DEF HalfInstalled
  <2> QED
    BY <2>1 DEF TableInv, DestInv
<1>7. LookupInv'
  BY <1>1 DEF TableInv, LookupInv, LookupOK
<1> QED
  BY <1>2, <1>3, <1>4, <1>5, <1>6, <1>7 DEF TableInv
\* The compare-and-swap that claims a slot.
LEMMA ClaimTable ==
  ASSUME TypeOK, TableInv, NEW t \in Threads, InstallProbe(t), slots[At(t)].from = 0, ShapeInv'
  PROVE  TableInv'
<1> DEFINE k == th[t].key
           a == At(t)
<1>1. /\ k \in Keys /\ k # 0 /\ th[t].probe \in SlotIds /\ a \in SlotIds
      /\ a = Pos(k, th[t].probe) /\ th[t] \in Calls /\ th[t].pc = "install"
  BY CallType, AtPos, KeysFacts DEF TableInv, InstallProbe
<1>2. /\ slots' = [slots EXCEPT ![a].from = k]
      /\ th' = [th EXCEPT ![t] = [th[t] EXCEPT !.pc = "store"]]
      /\ done' = done /\ gc' = gc
  BY DEF InstallProbe, RestVars, Go
<1>3. slots[a].from = 0
  OBVIOUS
<1>4. \A s \in SlotIds : slots[s].from # k
  BY <1>1, ClaimIsFirst
<1>5. gc.pc # "clear"
  BY <1>1 DEF TableInv, ClearInv, Calling
<1>6. \A q \in SlotIds : q < th[t].probe => slots[Pos(k, q)].from # 0
  BY <1>1 DEF TableInv, InstallInv, InstallOK
<1> HIDE DEF k, a
<1>7. /\ slots'[a].from = k
      /\ \A s \in SlotIds : s # a => slots'[s] = slots[s]
      /\ \A s \in SlotIds : slots[s].from # 0 => slots'[s] = slots[s]
  BY <1>1, <1>2, <1>3 DEF TypeOK, Slots
<1>8. /\ th'[t].pc = "store" /\ th'[t].key = k /\ th'[t].probe = th[t].probe
      /\ \A u \in Threads : u # t => th'[u] = th[u]
  BY <1>1, <1>2 DEF TypeOK, Calls, k
<1>9. PathInv'
  <2> SUFFICES ASSUME NEW s \in SlotIds, slots'[s].from # 0
               PROVE  \E p \in SlotIds : /\ s = Pos(slots'[s].from, p)
                                         /\ \A q \in SlotIds : q < p => slots'[Pos(slots'[s].from, q)].from # 0
    BY DEF PathInv
  <2>1. CASE s = a
    BY <1>1, <1>6, <1>7, <2>1, PosFacts
  <2>2. CASE s # a
    <3>1. slots'[s] = slots[s] /\ slots[s].from \in Keys
      BY <1>7, <2>2 DEF TypeOK, Slots
    <3>2. PICK p \in SlotIds : /\ s = Pos(slots[s].from, p)
                               /\ \A q \in SlotIds : q < p => slots[Pos(slots[s].from, q)].from # 0
      BY <1>5, <3>1 DEF TableInv, PathInv
    <3> QED
      BY <1>7, <3>1, <3>2, PosFacts
  <2> QED
    BY <2>1, <2>2
<1>10. DoneInv'
  <2> SUFFICES ASSUME NEW j \in Keys, done[j] # None
               PROVE  \E s \in SlotIds : slots'[s].from = j /\ slots'[s].to = done[j]
    BY <1>2 DEF DoneInv
  <2>1. PICK s \in SlotIds : slots[s].from = j /\ slots[s].to = done[j]
    BY DEF TableInv, DoneInv
  <2>2. slots'[s] = slots[s]
    BY <1>7, <2>1, KeysFacts
  <2> QED
    BY <2>1, <2>2
<1>11. OneSlotPerKey'
  BY <1>4, <1>7 DEF TableInv, OneSlotPerKey
<1>12. done[k] = None
  BY <1>1, <1>4 DEF TableInv, DoneInv
<1>13. ASSUME NEW u \in Threads, u # t, th[u].pc # "idle"
       PROVE  /\ th[u].key \in Keys /\ th[u].probe \in SlotIds
              /\ \A q \in SlotIds : Pos(th[u].key, q) \in SlotIds
  BY <1>13, CallType, PosFacts DEF TableInv
<1>14. InstallInv'
  <2> SUFFICES ASSUME NEW u \in Threads PROVE InstallOK(th[u])'
    BY DEF InstallInv
  <2>1. CASE u = t
    BY <1>1, <1>2, <1>7, <1>8, <1>12, <2>1 DEF InstallOK
  <2>2. CASE u # t
    <3>1. th'[u] = th[u] /\ InstallOK(th[u])
      BY <1>8, <2>2 DEF TableInv, InstallInv
    <3>2. CASE th[u].pc = "install"
      BY <1>7, <1>13, <2>2, <3>1, <3>2 DEF InstallOK
    <3>3. CASE th[u].pc \in {"store", "count"}
      BY <1>2, <1>7, <1>13, <2>2, <3>1, <3>3, KeysFacts DEF InstallOK
    <3> QED
      BY <3>1, <3>2, <3>3 DEF InstallOK
  <2> QED
    BY <2>1, <2>2
<1>15. OwnerInv'
  <2>1. ASSUME NEW u \in Threads, th[u].pc \in {"store", "count"} PROVE th[u].key # k
    <3>1. u # t /\ slots[Pos(th[u].key, th[u].probe)].from = th[u].key
      BY <1>1, <2>1 DEF TableInv, InstallInv, InstallOK
    <3> QED
      BY <1>4, <1>13, <2>1, <3>1
  <2>2. Owners' \subseteq Owners \cup {t} /\ \A u \in Owners' : u # t => th'[u] = th[u]
    BY <1>8 DEF Owners
  <2>3. \A u \in Owners : th[u].key # k
    BY <2>1 DEF Owners
  <2> QED
    BY <1>8, <2>2, <2>3 DEF TableInv, OwnerInv
<1>16. DestInv'
  <2> SUFFICES ASSUME NEW s \in SlotIds, slots'[s].from # 0,
                      ~ \E u \in Threads : th'[u].pc = "store" /\ th'[u].key = slots'[s].from
               PROVE  slots'[s].to \in CopyOf[slots'[s].from]
    BY DEF DestInv, HalfInstalled
  <2>1. s # a
    BY <1>7, <1>8
  <2>2. slots'[s] = slots[s]
    BY <1>7, <2>1
  <2>3. ~ HalfInstalled(slots[s].from)
    <3> SUFFICES ASSUME NEW u \in Threads, th[u].pc = "store", th[u].key = slots[s].from PROVE FALSE
      BY DEF HalfInstalled
    <3>1. u # t
      BY <1>1
    <3> QED
      BY <1>8, <2>2, <3>1
  <2> QED
    BY <1>5, <2>2, <2>3 DEF TableInv, DestInv
<1>17. LookupInv'
  <2> SUFFICES ASSUME NEW u \in Threads, th'[u].pc \in {"lookup", "read", "answer"} PROVE LookupOK(th[u])'
    BY DEF LookupInv, LookupOK
  <2>1. u # t /\ th'[u] = th[u] /\ LookupOK(th[u])
    BY <1>8 DEF TableInv, LookupInv
  <2>2. th[u].pc = "read" /\ slots[Pos(th[u].key, th[u].probe)].from = th[u].key =>
          slots'[Pos(th[u].key, th[u].probe)].from = th[u].key
    BY <1>7, <1>13, <2>1, KeysFacts
  <2>3. th[u].expect # None => th[u].key # k
    BY <1>12, <2>1 DEF LookupOK
  <2>4. ASSUME th[u].expect # None, NEW q \in SlotIds, slots[Pos(th[u].key, q)].from # th[u].key
        PROVE  slots'[Pos(th[u].key, q)].from # th[u].key
    BY <1>7, <1>13, <2>1, <2>3, <2>4
  <2> QED
    BY <1>2, <2>1, <2>2, <2>4 DEF LookupOK
<1>18. ClearInv'
  BY <1>2, <1>5 DEF ClearInv
<1> QED
  BY <1>9, <1>10, <1>11, <1>14, <1>15, <1>16, <1>17, <1>18 DEF TableInv
\* The destination is stored.
LEMMA StoreTable ==
  ASSUME TypeOK, TableInv, NEW t \in Threads, InstallStore(t), ShapeInv'
  PROVE  TableInv'
<1> DEFINE k == th[t].key
           a == At(t)
<1>1. /\ k \in Keys /\ k # 0 /\ th[t].probe \in SlotIds /\ a \in SlotIds
      /\ a = Pos(k, th[t].probe) /\ th[t] \in Calls /\ th[t].pc = "store"
  BY CallType, AtPos, KeysFacts DEF TableInv, InstallStore
<1>2. /\ slots' = [slots EXCEPT ![a].to = th[t].val]
      /\ th' = [th EXCEPT ![t] = [th[t] EXCEPT !.pc = "count"]]
      /\ done' = done /\ gc' = gc
  BY DEF InstallStore, RestVars, Go
<1>3. slots[a].from = k /\ done[k] = None
  BY <1>1 DEF TableInv, InstallInv, InstallOK
<1>4. th[t].val \in CopyOf[k]
  BY <1>1 DEF TableInv, ShapeInv, Calling
<1>5. gc.pc # "clear"
  BY <1>1 DEF TableInv, ClearInv, Calling
<1> HIDE DEF k, a
<1>7. /\ slots'[a].to = th[t].val
      /\ \A s \in SlotIds : s # a => slots'[s] = slots[s]
      /\ \A s \in SlotIds : slots'[s].from = slots[s].from
  BY <1>1, <1>2 DEF TypeOK, Slots
<1>8. /\ th'[t].pc = "count" /\ th'[t].key = k /\ th'[t].probe = th[t].probe /\ th'[t].val = th[t].val
      /\ \A u \in Threads : u # t => th'[u] = th[u]
  BY <1>1, <1>2 DEF TypeOK, Calls, k
<1>9. PathInv' /\ OneSlotPerKey'
  <2>1. OneSlotPerKey'
    BY <1>7 DEF TableInv, OneSlotPerKey
  <2>2. PathInv'
    <3> SUFFICES ASSUME NEW s \in SlotIds, slots'[s].from # 0
                 PROVE  \E p \in SlotIds : /\ s = Pos(slots'[s].from, p)
                                           /\ \A q \in SlotIds : q < p => slots'[Pos(slots'[s].from, q)].from # 0
      BY DEF PathInv
    <3>1. slots'[s].from = slots[s].from /\ slots[s].from \in Keys
      BY <1>7 DEF TypeOK, Slots
    <3> QED
      BY <1>5, <1>7, <3>1, PosFacts DEF TableInv, PathInv
  <2> QED
    BY <2>1, <2>2
<1>10. DoneInv'
  BY <1>2, <1>3, <1>7 DEF TableInv, DoneInv
<1>13. ASSUME NEW u \in Threads, u # t, th[u].pc # "idle"
       PROVE  /\ th[u].key \in Keys /\ th[u].probe \in SlotIds
              /\ \A q \in SlotIds : Pos(th[u].key, q) \in SlotIds
  BY <1>13, CallType, PosFacts DEF TableInv
<1>14. InstallInv'
  <2> SUFFICES ASSUME NEW u \in Threads PROVE InstallOK(th[u])'
    BY DEF InstallInv
  <2>1. CASE u = t
    BY <1>1, <1>2, <1>3, <1>7, <1>8, <2>1 DEF InstallOK
  <2>2. CASE u # t
    <3>1. th'[u] = th[u] /\ InstallOK(th[u])
      BY <1>8, <2>2 DEF TableInv, InstallInv
    <3>2. CASE th[u].pc \in {"install", "store"}
      BY <1>2, <1>7, <1>13, <2>2, <3>1, <3>2 DEF InstallOK
    <3>3. CASE th[u].pc = "count"
      <4>1. th[u].key # k
        BY <1>1, <2>2, <3>3 DEF TableInv, OwnerInv, Owners, k
      <4>2. Pos(th[u].key, th[u].probe) # a
        BY <1>3, <3>1, <3>3, <4>1 DEF InstallOK
      <4> QED
        BY <1>2, <1>7, <1>13, <2>2, <3>1, <3>3, <4>2 DEF InstallOK
    <3> QED
      BY <3>1, <3>2, <3>3 DEF InstallOK
  <2> QED
    BY <2>1, <2>2
<1>15. OwnerInv'
  <2>2. Owners' = Owners /\ \A u \in Owners : th'[u].key = th[u].key
    BY <1>1, <1>8 DEF Owners, k
  <2> QED
    BY <2>2 DEF TableInv, OwnerInv
<1>16. DestInv'
  <2> SUFFICES ASSUME NEW s \in SlotIds, slots'[s].from # 0,
                      ~ \E u \in Threads : th'[u].pc = "store" /\ th'[u].key = slots'[s].from
               PROVE  slots'[s].to \in CopyOf[slots'[s].from]
    BY DEF DestInv, HalfInstalled
  <2>1. CASE s = a
    BY <1>3, <1>4, <1>7, <2>1
  <2>2. CASE s # a
    <3>1. slots'[s] = slots[s]
      BY <1>7, <2>2
    <3>2. slots[s].from # k
      BY <1>1, <1>3, <2>2 DEF TableInv, OneSlotPerKey
    <3>3. ~ HalfInstalled(slots[s].from)
      BY <1>8, <3>1, <3>2 DEF HalfInstalled, k
    <3> QED
      BY <1>5, <3>1, <3>3 DEF TableInv, DestInv
  <2> QED
    BY <2>1, <2>2
<1>17. LookupInv'
  <2> SUFFICES ASSUME NEW u \in Threads, th'[u].pc \in {"lookup", "read", "answer"} PROVE LookupOK(th[u])'
    BY DEF LookupInv, LookupOK
  <2>1. u # t /\ th'[u] = th[u] /\ LookupOK(th[u])
    BY <1>8 DEF TableInv, LookupInv
  <2>2. \A q \in SlotIds : slots'[Pos(th[u].key, q)].from = slots[Pos(th[u].key, q)].from
    BY <1>7, <1>13, <2>1
  <2> QED
    BY <1>2, <1>13, <2>1, <2>2 DEF LookupOK
<1>18. ClearInv'
  BY <1>2, <1>5 DEF ClearInv
<1> QED
  BY <1>9, <1>10, <1>14, <1>15, <1>16, <1>17, <1>18 DEF TableInv

\* The install is counted and returns.
LEMMA CountTable ==
  ASSUME TypeOK, TableInv, NEW t \in Threads, InstallCount(t), ShapeInv'
  PROVE  TableInv'
<1> DEFINE k == th[t].key
           a == At(t)
<1>1. /\ k \in Keys /\ th[t].probe \in SlotIds /\ a \in SlotIds
      /\ a = Pos(k, th[t].probe) /\ th[t].pc = "count"
  BY CallType, AtPos DEF TableInv, InstallCount
<1>2. /\ done' = [done EXCEPT ![k] = th[t].val]
      /\ th'[t] = NoCall /\ \A u \in Threads : u # t => th'[u] = th[u]
      /\ slots' = slots /\ gc' = gc
  BY DEF InstallCount, RestVars, Go, TypeOK
<1>3. slots[a].from = k /\ slots[a].to = th[t].val /\ done[k] = None
  BY <1>1 DEF TableInv, InstallInv, InstallOK
<1>4. gc.pc # "clear"
  BY <1>1 DEF TableInv, ClearInv, Calling
<1> HIDE DEF k, a
<1>5. done'[k] = th[t].val /\ \A j \in Keys : j # k => done'[j] = done[j]
  BY <1>1, <1>2 DEF TypeOK
<1>6. PathInv' /\ OneSlotPerKey'
  BY <1>2 DEF TableInv, PathInv, OneSlotPerKey
<1>7. DoneInv'
  BY <1>1, <1>2, <1>3, <1>5 DEF TableInv, DoneInv
<1>8. InstallInv'
  <2> SUFFICES ASSUME NEW u \in Threads, u # t PROVE InstallOK(th[u])'
    BY <1>2, NoCallType DEF InstallInv, InstallOK
  <2>1. th'[u] = th[u] /\ InstallOK(th[u])
    BY <1>2 DEF TableInv, InstallInv
  <2>2. th[u].pc \in {"store", "count"} => th[u].key # k /\ th[u].key \in Keys
    BY <1>1 DEF TableInv, OwnerInv, Owners, ShapeInv, k
  <2> QED
    BY <1>2, <1>5, <2>1, <2>2 DEF InstallOK
<1>9. OwnerInv'
  BY <1>2, NoCallType DEF TableInv, OwnerInv, Owners
<1>10. DestInv'
  <2>1. \A j : HalfInstalled(j)' <=> HalfInstalled(j)
    BY <1>1, <1>2, NoCallType DEF HalfInstalled
  <2> QED
    BY <1>2, <2>1 DEF TableInv, DestInv
<1>11. LookupInv'
  <2> SUFFICES ASSUME NEW u \in Threads, th'[u].pc \in {"lookup", "read", "answer"} PROVE LookupOK(th[u])'
    BY DEF LookupInv, LookupOK
  <2>1. u # t /\ th'[u] = th[u] /\ LookupOK(th[u]) /\ th[u].key \in Keys
    BY <1>2, NoCallType DEF TableInv, LookupInv, ShapeInv
  <2>2. th[u].expect # None => done'[th[u].key] = th[u].expect
    BY <1>3, <1>5, <2>1 DEF LookupOK
  <2> QED
    BY <1>2, <2>1, <2>2 DEF LookupOK
<1>12. ClearInv'
  BY <1>2, <1>4 DEF ClearInv
<1> QED
  BY <1>6, <1>7, <1>8, <1>9, <1>10, <1>11, <1>12 DEF TableInv
LEMMA ClearBeginTable ==
  ASSUME TypeOK, TableInv, ClearBegin, ShapeInv'
  PROVE  TableInv'
<1>1. /\ gc'.pc = "clear" /\ gc'.i = 0 /\ slots' = slots
      /\ \A k \in Keys : done'[k] = None
  BY DEF ClearBegin, GcIdle
<1>2. ASSUME NEW t \in Threads
      PROVE  /\ th'[t].pc \notin {"install", "store", "count"}
             /\ th'[t].pc # "idle" => th'[t].racy /\ th'[t].expect = None
  <2>1. th'[t] = IF th[t] = NoCall THEN NoCall ELSE [th[t] EXCEPT !.racy = TRUE, !.expect = None]
    BY DEF ClearBegin
  <2>2. th[t].pc \notin {"install", "store", "count"} /\ th[t] \in Calls
    BY DEF ClearBegin, Installing, TypeOK
  <2> QED
    BY <2>1, <2>2, NoCallType DEF Calls
<1>3. ClearInv'
  BY <1>1, <1>2, RuntimeAssumption DEF ClearInv, Calling, SlotIds
<1>4. PathInv' /\ DestInv' /\ DoneInv' /\ OneSlotPerKey'
  BY <1>1 DEF PathInv, DestInv, DoneInv, TableInv, OneSlotPerKey
<1>5. InstallInv' /\ OwnerInv' /\ LookupInv'
  BY <1>2 DEF InstallInv, InstallOK, OwnerInv, Owners, LookupInv, LookupOK
<1> QED
  BY <1>3, <1>4, <1>5 DEF TableInv

LEMMA ClearStepTable ==
  ASSUME TypeOK, TableInv, ClearStep, ShapeInv'
  PROVE  TableInv'
<1>1. /\ gc.pc = "clear" /\ th' = th /\ done' = done /\ gc.i \in 0 .. NSlots
      /\ \A s \in SlotIds : s < gc.i => slots[s].from = 0
      /\ \A k \in Keys : done[k] = None
      /\ \A t \in Threads : th[t].pc \notin {"install", "store", "count"}
  BY DEF ClearStep, TableInv, ClearInv, Calling
<1>2. ASSUME NEW t \in Threads, th[t].pc # "idle" PROVE th[t].racy /\ th[t].expect = None
  <2>1. LookupOK(th[t]) /\ th[t].key \in Keys /\ th[t] \in Calls
    BY <1>2 DEF TableInv, LookupInv, ShapeInv, TypeOK
  <2>2. th[t].pc \in {"lookup", "read", "answer"}
    BY <1>1, <1>2, <2>1 DEF Calls
  <2> QED
    BY <1>1, <2>1, <2>2 DEF LookupOK
<1>3. InstallInv' /\ OwnerInv' /\ LookupInv' /\ DoneInv'
  BY <1>1, <1>2 DEF InstallInv, InstallOK, OwnerInv, Owners, LookupInv, LookupOK, DoneInv
<1>4. CASE gc.i < NSlots
  <2>1. slots' = [slots EXCEPT ![gc.i].from = 0] /\ gc' = [gc EXCEPT !.i = @ + 1]
    BY <1>4, <1>1 DEF ClearStep
  <2>2. gc'.pc = "clear" /\ gc'.i = gc.i + 1
    BY <1>1, <2>1 DEF TypeOK
  <2>3. gc.i \in SlotIds
    BY <1>1, <1>4, RuntimeAssumption DEF SlotIds
  <2>4. slots'[gc.i].from = 0 /\ \A s \in SlotIds : s # gc.i => slots'[s] = slots[s]
    BY <2>1, <2>3 DEF TypeOK, Slots
  <2>5. \A s \in SlotIds : s < gc.i + 1 => slots'[s].from = 0
    BY <1>1, <2>3, <2>4 DEF SlotIds
  <2>6. ClearInv'
    BY <1>1, <1>4, <2>2, <2>5, RuntimeAssumption DEF ClearInv, Calling
  <2>7. OneSlotPerKey'
    BY <2>4 DEF TableInv, OneSlotPerKey
  <2> QED
    BY <1>3, <2>2, <2>6, <2>7 DEF TableInv, PathInv, DestInv
<1>5. CASE gc.i = NSlots
  <2>1. gc'.pc = "idle" /\ slots' = slots
    BY <1>5, <1>1, RuntimeAssumption DEF ClearStep, GcIdle
  <2>2. \A s \in SlotIds : slots[s].from = 0
    BY <1>1, <1>5 DEF SlotIds
  <2>3. PathInv' /\ DestInv' /\ OneSlotPerKey' /\ ClearInv'
    BY <2>1, <2>2 DEF PathInv, DestInv, OneSlotPerKey, ClearInv
  <2> QED
    BY <1>3, <2>3 DEF TableInv
<1> QED
  BY <1>1, <1>4, <1>5, RuntimeAssumption

\* A step that leaves the table and the calls alone and is not of a clear.
LEMMA OtherTable ==
  ASSUME TableInv, UNCHANGED <<th, slots, done>>, ShapeInv',
         gc' = gc \/ (gc.pc # "clear" /\ gc'.pc # "clear")
  PROVE  TableInv'
<1>1. ClearInv' /\ PathInv' /\ OneSlotPerKey' /\ DoneInv' /\ OwnerInv'
  BY DEF TableInv, ClearInv, Calling, PathInv, OneSlotPerKey, DoneInv, OwnerInv, Owners
<1>2. InstallInv' /\ LookupInv'
  BY DEF TableInv, InstallInv, InstallOK, LookupInv, LookupOK
<1>3. DestInv'
  BY DEF TableInv, DestInv, HalfInstalled
<1> QED
  BY <1>1, <1>2, <1>3 DEF TableInv

LEMMA TableStep == TypeOK /\ TableInv /\ [Next]_vars => TableInv'
<1> SUFFICES ASSUME TypeOK, TableInv, [Next]_vars PROVE TableInv'
  OBVIOUS
<1>0. ShapeInv' /\ TypeOK'
  BY TypeStep DEF TableInv
<1> USE DEF TableVars, RestVars, ColorVars
<1>1. ASSUME NEW t \in Threads, NEW k \in Keys, NEW c \in CopyOf[k], InstallBegin(t, k, c)
      PROVE TableInv'
  <2> DEFINE d == [NoCall EXCEPT !.pc = "install", !.key = k, !.val = c]
  <2>1. d \in Calls /\ d.pc = "install" /\ d.key = k /\ d.probe = 0
    BY KeysFacts, SlotIdsFacts DEF Calls, NoCall
  <2> HIDE DEF d
  <2>2. Go(t, d) /\ UNCHANGED <<slots, done, gc>> /\ gc.pc # "clear" /\ th[t].pc = "idle"
    BY <1>1, NoCallType DEF InstallBegin, d
  <2>3. InstallOK(d) /\ LookupOK(d)
    BY <2>1 DEF InstallOK, LookupOK, SlotIds
  <2> QED
    BY <1>0, <2>1, <2>2, <2>3, GoTable
<1>2. ASSUME NEW t \in Threads, InstallProbe(t) PROVE TableInv'
  <2>1. CASE slots[At(t)].from = 0
    BY <1>0, <1>2, <2>1, ClaimTable
  <2>2. CASE slots[At(t)].from # 0
    <3>1. /\ th[t].key \in Keys /\ th[t] \in Calls /\ th[t].probe \in SlotIds
          /\ At(t) = Pos(th[t].key, th[t].probe) /\ th[t].pc = "install" /\ gc.pc # "clear"
      BY <1>2, CallType, AtPos DEF InstallProbe, TableInv, ClearInv, Calling
    <3> DEFINE d == [th[t] EXCEPT !.probe = @ + 1]
               e == IF Beaten(t) \/ th[t].probe = NSlots - 1 THEN NoCall ELSE d
    <3>2. th[t].probe # NSlots - 1 =>
            d \in Calls /\ d.pc = "install" /\ d.key = th[t].key /\ d.probe = th[t].probe + 1
      BY <3>1, SlotIdsFacts DEF Calls
    <3>3. Go(t, e) /\ UNCHANGED <<slots, done, gc>>
      BY <1>2, <2>2 DEF InstallProbe
    <3> HIDE DEF d
    <3>4. CASE e = NoCall
      <4>1. InstallOK(e) /\ LookupOK(e)
        BY <3>4, NoCallType DEF InstallOK, LookupOK
      <4> QED
        BY <1>0, <3>1, <3>3, <3>4, <4>1, NoCallType, GoTable
    <3>5. CASE e # NoCall
      <4>1. e = d /\ slots[At(t)].from \notin {0, th[t].key} /\ th[t].probe # NSlots - 1
        BY <2>2, <3>5 DEF Beaten
      <4>2. \A q \in SlotIds : q < d.probe => slots[Pos(d.key, q)].from \notin {0, d.key}
        <5>1. \A q \in SlotIds : q < th[t].probe => slots[Pos(th[t].key, q)].from \notin {0, th[t].key}
          BY <3>1 DEF TableInv, InstallInv, InstallOK
        <5>2. \A q \in SlotIds : q < d.probe => q < th[t].probe \/ q = th[t].probe
          BY <3>1, <3>2, <4>1 DEF SlotIds
        <5> QED
          BY <3>1, <3>2, <4>1, <5>1, <5>2
      <4>3. InstallOK(e) /\ LookupOK(e)
        BY <3>2, <4>1, <4>2 DEF InstallOK, LookupOK
      <4> QED
        BY <1>0, <3>1, <3>2, <3>3, <4>1, <4>3, GoTable
    <3> QED
      BY <3>4, <3>5
  <2> QED
    BY <2>1, <2>2
<1>3. ASSUME NEW t \in Threads, InstallStore(t) PROVE TableInv'
  BY <1>0, <1>3, StoreTable
<1>4. ASSUME NEW t \in Threads, InstallCount(t) PROVE TableInv'
  BY <1>0, <1>4, CountTable
<1>5. ASSUME NEW t \in Threads, NEW k \in Keys, LookupBegin(t, k) PROVE TableInv'
  <2> DEFINE d == [NoCall EXCEPT !.pc = "lookup", !.key = k, !.expect = done[k], !.racy = (gc.pc = "clear")]
  <2>1. /\ d \in Calls /\ d.pc = "lookup" /\ d.key = k /\ d.probe = 0
        /\ (d.racy <=> gc.pc = "clear") /\ d.expect = done[k]
    BY SlotIdsFacts DEF Calls, NoCall, TypeOK
  <2>2. Go(t, d) /\ UNCHANGED <<slots, done, gc>> /\ th[t].pc = "idle"
    BY <1>5, NoCallType DEF LookupBegin
  <2> HIDE DEF d
  <2>3. InstallOK(d) /\ LookupOK(d)
    <3>1. \A q \in SlotIds : ~ (q < d.probe)
      BY <2>1 DEF SlotIds
    <3> QED
      BY <2>1, <3>1 DEF InstallOK, LookupOK
  <2> QED
    BY <1>0, <2>1, <2>2, <2>3, GoTable
<1>6. ASSUME NEW t \in Threads, LookupProbe(t) PROVE TableInv'
  <2>1. /\ th[t].key \in Keys /\ th[t] \in Calls /\ th[t].probe \in SlotIds
        /\ At(t) = Pos(th[t].key, th[t].probe) /\ At(t) \in SlotIds /\ th[t].pc = "lookup" /\ LookupOK(th[t])
    BY <1>6, CallType, AtPos DEF LookupProbe, TableInv, LookupInv
  <2>2. UNCHANGED <<slots, done, gc>>
    BY <1>6 DEF LookupProbe
  <2>3. CASE Hit(t)
    <3> DEFINE d == [th[t] EXCEPT !.pc = "read"]
    <3>1. /\ d \in Calls /\ d.pc = "read" /\ d.key = th[t].key /\ d.probe = th[t].probe
          /\ d.racy = th[t].racy /\ d.expect = th[t].expect
      BY <2>1 DEF Calls
    <3>2. Go(t, d)
      BY <1>6, <2>3 DEF LookupProbe
    <3> HIDE DEF d
    <3>3. InstallOK(d) /\ LookupOK(d)
      BY <2>1, <2>3, <3>1 DEF InstallOK, LookupOK, Hit
    <3> QED
      BY <1>0, <2>1, <2>2, <3>1, <3>2, <3>3, GoTable
  <2>4. CASE ~ Hit(t) /\ Miss(t)
    <3> DEFINE d == [th[t] EXCEPT !.pc = "answer", !.val = th[t].key]
    <3>1. /\ d \in Calls /\ d.pc = "answer" /\ d.key = th[t].key /\ d.val = th[t].key
          /\ d.racy = th[t].racy /\ d.expect = th[t].expect
      BY <2>1 DEF Calls
    <3>2. Go(t, d)
      BY <1>6, <2>4 DEF LookupProbe
    <3> HIDE DEF d
    \* The key is on its path, at or behind the slot just probed.
    <3>3. th[t].expect = None
      <4> SUFFICES ASSUME th[t].expect # None PROVE FALSE
        OBVIOUS
      <4>1. /\ done[th[t].key] = th[t].expect
            /\ \A q \in SlotIds : q < th[t].probe => slots[Pos(th[t].key, q)].from # th[t].key
        BY <2>1 DEF LookupOK
      <4>2. PICK s \in SlotIds : slots[s].from = th[t].key
        BY <2>1, <4>1 DEF TableInv, DoneInv
      <4>3. gc.pc # "clear"
        BY <2>1, <4>1 DEF TableInv, ClearInv
      <4>4. PICK p \in SlotIds : /\ s = Pos(th[t].key, p)
                                 /\ \A q \in SlotIds : q < p => slots[Pos(th[t].key, q)].from # 0
        BY <2>1, <4>2, <4>3, KeysFacts DEF TableInv, PathInv
      <4>5. ~ (p < th[t].probe) /\ p # th[t].probe
        BY <2>1, <2>4, <4>1, <4>2, <4>4 DEF Hit
      <4>6. th[t].probe < p
        BY <2>1, <4>5 DEF SlotIds
      <4>7. th[t].probe # NSlots - 1
        BY <4>6, RuntimeAssumption DEF SlotIds
      <4> QED
        BY <2>1, <2>4, <4>4, <4>6, <4>7 DEF Miss
    <3>4. InstallOK(d) /\ LookupOK(d)
      BY <2>1, <3>1, <3>3 DEF InstallOK, LookupOK
    <3> QED
      BY <1>0, <2>1, <2>2, <3>1, <3>2, <3>4, GoTable
  <2>5. CASE ~ Hit(t) /\ ~ Miss(t)
    <3> DEFINE d == [th[t] EXCEPT !.probe = @ + 1]
    <3>1. /\ d \in Calls /\ d.pc = "lookup" /\ d.key = th[t].key /\ d.probe = th[t].probe + 1
          /\ d.racy = th[t].racy /\ d.expect = th[t].expect
      BY <2>1, <2>5, SlotIdsFacts DEF Calls, Miss
    <3>2. Go(t, d)
      BY <1>6, <2>5 DEF LookupProbe
    <3> HIDE DEF d
    <3>3. \A q \in SlotIds : q < d.probe => q < th[t].probe \/ q = th[t].probe
      BY <2>1, <3>1 DEF SlotIds
    <3>4. InstallOK(d) /\ LookupOK(d)
      BY <2>1, <2>5, <3>1, <3>3 DEF InstallOK, LookupOK, Hit
    <3> QED
      BY <1>0, <2>1, <2>2, <3>1, <3>2, <3>4, GoTable
  <2> QED
    BY <2>3, <2>4, <2>5
<1>7. ASSUME NEW t \in Threads, LookupRead(t) PROVE TableInv'
  <2>1. /\ th[t].key \in Keys /\ th[t] \in Calls /\ th[t].probe \in SlotIds
        /\ At(t) = Pos(th[t].key, th[t].probe) /\ At(t) \in SlotIds /\ th[t].pc = "read" /\ LookupOK(th[t])
    BY <1>7, CallType, AtPos DEF LookupRead, TableInv, LookupInv
  <2> DEFINE d == [th[t] EXCEPT !.pc = "answer", !.val = slots[At(t)].to, !.racy = @ \/ HalfInstalled(th[t].key)]
  <2>2. slots[At(t)].to \in Copies \cup {None}
    BY <2>1 DEF TypeOK, Slots
  <2>3. /\ d \in Calls /\ d.pc = "answer" /\ d.key = th[t].key /\ d.val = slots[At(t)].to
        /\ d.expect = th[t].expect
    BY <2>1, <2>2 DEF Calls
  <2>4. d.racy <=> th[t].racy \/ HalfInstalled(th[t].key)
    BY <2>1 DEF Calls
  <2>5. Go(t, d) /\ UNCHANGED <<slots, done, gc>>
    BY <1>7 DEF LookupRead
  <2> HIDE DEF d
  <2>6. ~ d.racy => gc.pc # "clear" /\ d.val \in CopyOf[d.key]
    <3> SUFFICES ASSUME ~ d.racy PROVE gc.pc # "clear" /\ d.val \in CopyOf[d.key]
      OBVIOUS
    <3>1. gc.pc # "clear" /\ slots[At(t)].from = th[t].key /\ ~ HalfInstalled(th[t].key)
      BY <2>1, <2>4 DEF LookupOK
    <3> QED
      BY <2>1, <2>3, <3>1, KeysFacts DEF TableInv, DestInv
  <2>7. d.expect # None => done[d.key] = d.expect /\ d.val = d.expect
    <3> SUFFICES ASSUME th[t].expect # None PROVE done[th[t].key] = th[t].expect /\ slots[At(t)].to = th[t].expect
      BY <2>3
    <3>1. done[th[t].key] = th[t].expect /\ slots[At(t)].from = th[t].key
      BY <2>1 DEF LookupOK
    <3>2. PICK s \in SlotIds : slots[s].from = th[t].key /\ slots[s].to = th[t].expect
      BY <2>1, <3>1 DEF TableInv, DoneInv
    <3>3. s = At(t)
      BY <2>1, <3>1, <3>2, KeysFacts DEF TableInv, OneSlotPerKey
    <3> QED
      BY <3>1, <3>2, <3>3
  <2>8. InstallOK(d) /\ LookupOK(d)
    BY <2>3, <2>6, <2>7 DEF InstallOK, LookupOK
  <2> QED
    BY <1>0, <2>1, <2>3, <2>5, <2>8, GoTable
<1>8. ASSUME NEW t \in Threads, LookupReturn(t) PROVE TableInv'
  <2>1. InstallOK(NoCall) /\ LookupOK(NoCall)
    BY NoCallType DEF InstallOK, LookupOK
  <2>2. Go(t, NoCall) /\ UNCHANGED <<slots, done, gc>> /\ th[t].pc = "answer"
    BY <1>8 DEF LookupReturn
  <2> QED
    BY <1>0, <2>1, <2>2, NoCallType, GoTable
<1>9. CASE ClearBegin
  BY <1>0, <1>9, ClearBeginTable
<1>10. CASE ClearStep
  BY <1>0, <1>10, ClearStepTable
<1>11. ASSUME NEW a \in Addrs, NEW c \in Colors, StoreColor(a, c) PROVE TableInv'
  BY <1>0, <1>11, OtherTable DEF StoreColor
<1>12. ASSUME NEW c \in Colors, NEW d \in Colors, FlipBegin(c, d) PROVE TableInv'
  BY <1>0, <1>12, OtherTable DEF FlipBegin, GcIdle
<1>13. CASE FlipStep
  <2>1. gc.pc = "flip" /\ gc'.pc # "clear" /\ UNCHANGED <<th, slots, done>>
    BY <1>13 DEF FlipStep, GcIdle, TypeOK
  <2> QED
    BY <1>0, <2>1, OtherTable
<1>14. CASE RevokeRegion \/ HeapCreate \/ HeapDestroy
  BY <1>0, <1>14, OtherTable DEF RevokeRegion, HeapCreate, HeapDestroy
<1>15. CASE UNCHANGED vars
  BY <1>0, <1>15, OtherTable DEF vars
<1> QED
  BY <1>1, <1>2, <1>3, <1>4, <1>5, <1>6, <1>7, <1>8, <1>9, <1>10, <1>11, <1>12, <1>13,
     <1>14, <1>15 DEF Next, ThreadStep
-----------------------------------------------------------------------------
(* The count.                                                              *)

LEMMA UsedOwnersFinite ==
  /\ IsFiniteSet(Used) /\ Cardinality(Used) \in Nat
  /\ IsFiniteSet(Owners) /\ Cardinality(Owners) \in Nat
<1>1. Used \subseteq SlotIds /\ Owners \subseteq Threads
  BY DEF Used, Owners
<1> QED
  BY <1>1, SlotIdsFacts, RuntimeAssumption, FS_Subset, FS_CardinalityType

LEMMA CountStep == TypeOK /\ TableInv /\ CountInv /\ [Next]_vars => CountInv'
<1> SUFFICES ASSUME TypeOK, TableInv, CountInv, [Next]_vars PROVE CountInv'
  OBVIOUS
<1> USE DEF TableVars, RestVars, ColorVars
\* Most steps change neither the table, nor its owners, nor the count.
<1>0. ASSUME slots' = slots, installed' = installed, gc'.pc # "clear" => gc.pc # "clear",
             \A t \in Threads : th'[t].pc \in {"store", "count"} <=> th[t].pc \in {"store", "count"}
      PROVE  CountInv'
  <2>1. Used' = Used /\ Owners' = Owners
    BY <1>0 DEF Used, Owners
  <2> QED
    BY <1>0, <2>1 DEF CountInv
<1>1. ASSUME NEW t \in Threads, NEW d, Go(t, d), UNCHANGED <<slots, installed, gc>>,
             th[t].pc \notin {"store", "count"}, d.pc \notin {"store", "count"}
      PROVE  CountInv'
  <2>1. th'[t] = d /\ \A u \in Threads : u # t => th'[u] = th[u]
    BY <1>1 DEF TypeOK, Go
  <2> QED
    BY <1>0, <1>1, <2>1
<1>2. ASSUME NEW t \in Threads, NEW k \in Keys, NEW c \in CopyOf[k], InstallBegin(t, k, c)
      PROVE CountInv'
  <2> DEFINE d == [NoCall EXCEPT !.pc = "install", !.key = k, !.val = c]
  <2>1. d.pc = "install"
    BY DEF NoCall
  <2> HIDE DEF d
  <2>2. Go(t, d) /\ UNCHANGED <<slots, installed, gc>> /\ th[t].pc = "idle"
    BY <1>2, NoCallType DEF InstallBegin, d
  <2> QED
    BY <1>1, <2>1, <2>2
<1>3. ASSUME NEW t \in Threads, InstallProbe(t) PROVE CountInv'
  <2>1. th[t] \in Calls /\ th[t].key \in Keys /\ At(t) \in SlotIds /\ th[t].pc = "install"
    BY <1>3, CallType DEF InstallProbe, TableInv
  <2>2. CASE slots[At(t)].from = 0
    <3>1. /\ slots' = [slots EXCEPT ![At(t)].from = th[t].key]
          /\ th' = [th EXCEPT ![t] = [th[t] EXCEPT !.pc = "store"]]
          /\ installed' = installed /\ gc' = gc
      BY <1>3, <2>2 DEF InstallProbe, Go
    <3>2. /\ slots'[At(t)].from = th[t].key
          /\ \A s \in SlotIds : s # At(t) => slots'[s] = slots[s]
      BY <2>1, <3>1 DEF TypeOK, Slots
    <3>3. th'[t].pc = "store" /\ \A u \in Threads : u # t => th'[u] = th[u]
      BY <2>1, <3>1 DEF TypeOK, Calls
    <3>4. Used' = Used \cup {At(t)} /\ At(t) \notin Used
      BY <2>1, <2>2, <3>2, KeysFacts DEF Used
    <3>5. Owners' = Owners \cup {t} /\ t \notin Owners
      BY <2>1, <3>3 DEF Owners
    <3>6. Cardinality(Used') = Cardinality(Used) + 1 /\ Cardinality(Owners') = Cardinality(Owners) + 1
      BY <3>4, <3>5, UsedOwnersFinite, FS_AddElement
    <3> QED
      BY <3>1, <3>6, UsedOwnersFinite DEF CountInv, TypeOK
  <2>3. CASE slots[At(t)].from # 0
    <3> DEFINE d == [th[t] EXCEPT !.probe = @ + 1]
               e == IF Beaten(t) \/ th[t].probe = NSlots - 1 THEN NoCall ELSE d
    <3>1. e.pc \in {"idle", "install"}
      BY <2>1, NoCallType DEF Calls
    <3>2. Go(t, e) /\ UNCHANGED <<slots, installed, gc>>
      BY <1>3, <2>3 DEF InstallProbe
    <3> HIDE DEF e
    <3> QED
      BY <1>1, <2>1, <3>1, <3>2
  <2> QED
    BY <2>2, <2>3
<1>4. ASSUME NEW t \in Threads, InstallStore(t) PROVE CountInv'
  <2>1. th[t] \in Calls /\ At(t) \in SlotIds /\ th[t].pc = "store"
    BY <1>4, CallType DEF InstallStore, TableInv
  <2>2. /\ slots' = [slots EXCEPT ![At(t)].to = th[t].val]
        /\ th' = [th EXCEPT ![t] = [th[t] EXCEPT !.pc = "count"]]
        /\ installed' = installed /\ gc' = gc
    BY <1>4 DEF InstallStore, Go
  <2>3. \A s \in SlotIds : slots'[s].from = slots[s].from
    BY <2>1, <2>2 DEF TypeOK, Slots
  <2>4. th'[t].pc = "count" /\ \A u \in Threads : u # t => th'[u] = th[u]
    BY <2>1, <2>2 DEF TypeOK, Calls
  <2>5. Used' = Used
    BY <2>3 DEF Used
  <2>6. Owners' = Owners
    BY <2>1, <2>4 DEF Owners
  <2> QED
    BY <2>2, <2>5, <2>6 DEF CountInv
<1>5. ASSUME NEW t \in Threads, InstallCount(t) PROVE CountInv'
  <2>1. /\ th[t].pc = "count" /\ th'[t] = NoCall /\ \A u \in Threads : u # t => th'[u] = th[u]
        /\ slots' = slots /\ installed' = installed + 1 /\ gc' = gc
    BY <1>5 DEF InstallCount, Counted, Go, TypeOK
  <2>2. Used' = Used
    BY <2>1 DEF Used
  <2>3. Owners' = Owners \ {t} /\ t \in Owners
    BY <2>1, NoCallType DEF Owners
  <2>4. Cardinality(Owners') = Cardinality(Owners) - 1
    BY <2>3, UsedOwnersFinite, FS_RemoveElement
  <2> QED
    BY <2>1, <2>2, <2>4, UsedOwnersFinite DEF CountInv, TypeOK
<1>6. ASSUME NEW t \in Threads, NEW k \in Keys, LookupBegin(t, k) PROVE CountInv'
  <2> DEFINE d == [NoCall EXCEPT !.pc = "lookup", !.key = k, !.expect = done[k], !.racy = (gc.pc = "clear")]
  <2>1. d.pc = "lookup"
    BY DEF NoCall
  <2>2. Go(t, d) /\ UNCHANGED <<slots, installed, gc>> /\ th[t].pc = "idle"
    BY <1>6, NoCallType DEF LookupBegin
  <2> HIDE DEF d
  <2> QED
    BY <1>1, <2>1, <2>2
<1>7. ASSUME NEW t \in Threads, LookupProbe(t) \/ LookupRead(t) \/ LookupReturn(t) PROVE CountInv'
  <2>1. th[t] \in Calls /\ th[t].pc \in {"lookup", "read", "answer"} /\ UNCHANGED <<slots, installed, gc>>
    BY <1>7 DEF LookupProbe, LookupRead, LookupReturn, TypeOK
  <2>2. th'[t].pc \in {"idle", "lookup", "read", "answer"} /\ \A u \in Threads : u # t => th'[u] = th[u]
    <3>1. CASE LookupProbe(t)
      BY <2>1, <3>1 DEF LookupProbe, Go, TypeOK, Calls
    <3>2. CASE LookupRead(t)
      BY <2>1, <3>2 DEF LookupRead, Go, TypeOK, Calls
    <3>3. CASE LookupReturn(t)
      BY <2>1, <3>3, NoCallType DEF LookupReturn, Go, TypeOK
    <3> QED
      BY <1>7, <3>1, <3>2, <3>3
  <2> QED
    BY <1>0, <2>1, <2>2
<1>8. CASE ClearBegin
  BY <1>8 DEF ClearBegin, GcIdle, CountInv
<1>9. CASE ClearStep
  <2>1. gc.pc = "clear" /\ gc.i \in 0 .. NSlots /\ th' = th
    BY <1>9 DEF ClearStep, TableInv, ClearInv
  <2>2. CASE gc.i < NSlots
    <3>1. gc'.pc = "clear"
      BY <1>9, <2>1, <2>2 DEF ClearStep, TypeOK
    <3> QED
      BY <3>1 DEF CountInv
  <2>3. CASE gc.i = NSlots
    <3>1. slots' = slots /\ installed' = 0
      BY <1>9, <2>3, RuntimeAssumption DEF ClearStep
    <3>2. Used' = {}
      BY <2>1, <2>3, <3>1 DEF TableInv, ClearInv, Used, SlotIds
    <3>3. Owners' = {}
      BY <2>1 DEF TableInv, ClearInv, Owners, Calling
    <3> QED
      BY <3>1, <3>2, <3>3, FS_EmptySet DEF CountInv
  <2> QED
    BY <2>1, <2>2, <2>3, RuntimeAssumption
<1>10. ASSUME NEW a \in Addrs, NEW c \in Colors, StoreColor(a, c) PROVE CountInv'
  BY <1>0, <1>10 DEF StoreColor
<1>11. ASSUME NEW c \in Colors, NEW d \in Colors, FlipBegin(c, d) PROVE CountInv'
  BY <1>0, <1>11 DEF FlipBegin, GcIdle
<1>12. CASE FlipStep
  BY <1>0, <1>12 DEF FlipStep
<1>13. CASE RevokeRegion \/ HeapCreate \/ HeapDestroy
  BY <1>0, <1>13 DEF RevokeRegion, HeapCreate, HeapDestroy
<1>14. CASE UNCHANGED vars
  BY <1>0, <1>14 DEF vars
<1> QED
  BY <1>2, <1>3, <1>4, <1>5, <1>6, <1>7, <1>8, <1>9, <1>10, <1>11, <1>12, <1>13, <1>14
     DEF Next, ThreadStep

-----------------------------------------------------------------------------
(* The flip.                                                               *)

LEMMA FlipInvStep == TypeOK /\ FlipInv /\ [Next]_vars => FlipInv'
<1> SUFFICES ASSUME TypeOK, FlipInv, [Next]_vars PROVE FlipInv'
  OBVIOUS
<1> USE DEF TableVars, RestVars, ColorVars
<1>0. ASSUME UNCHANGED <<table, stored>>, gc' = gc \/ (gc.pc # "flip" /\ gc'.pc # "flip")
      PROVE  FlipInv'
  BY <1>0 DEF FlipInv
<1>1. ASSUME NEW t \in Threads, ThreadStep(t) PROVE FlipInv'
  BY <1>0, <1>1 DEF ThreadStep, InstallBegin, InstallProbe, InstallStore, InstallCount,
     LookupBegin, LookupProbe, LookupRead, LookupReturn
<1>2. CASE ClearBegin
  BY <1>0, <1>2 DEF ClearBegin, GcIdle
<1>3. CASE ClearStep
  <2>1. gc.pc = "clear" /\ gc'.pc # "flip" /\ UNCHANGED <<table, stored>>
    BY <1>3 DEF ClearStep, GcIdle, TypeOK
  <2> QED
    BY <1>0, <2>1
<1>4. ASSUME NEW a \in Addrs, NEW c \in Colors, StoreColor(a, c) PROVE FlipInv'
  BY <1>4 DEF StoreColor, FlipInv, TypeOK
<1>5. ASSUME NEW c \in Colors, NEW d \in Colors, c # d, FlipBegin(c, d) PROVE FlipInv'
  BY <1>5 DEF FlipBegin, FlipInv, GcIdle, TypeOK, Entries
<1>6. CASE FlipStep
  <2>1. CASE gc.i \in Entries
    <3>1. /\ gc.pc = "flip" /\ gc' = [gc EXCEPT !.i = @ + 1]
          /\ table' = [table EXCEPT ![gc.i] = Flipped(gc.i)]
          /\ stored' = [stored EXCEPT ![gc.i] = IF @ = gc.from THEN -1 ELSE @]
      BY <1>6, <2>1 DEF FlipStep
    <3>2. gc'.pc = "flip" /\ gc'.i = gc.i + 1 /\ gc'.from = gc.from /\ gc'.to = gc.to
      BY <3>1 DEF TypeOK
    <3>3. /\ table'[gc.i] = Flipped(gc.i) /\ stored'[gc.i] = IF stored[gc.i] = gc.from THEN -1 ELSE stored[gc.i]
          /\ \A e \in Entries : e # gc.i => table'[e] = table[e] /\ stored'[e] = stored[e]
      BY <2>1, <3>1 DEF TypeOK
    <3>4. \A e \in Entries : e < gc.i + 1 => e < gc.i \/ e = gc.i
      BY <2>1 DEF Entries
    <3> QED
      BY <3>1, <3>2, <3>3, <3>4 DEF FlipInv, Flipped
  <2>2. CASE gc.i \notin Entries
    BY <1>6, <2>2 DEF FlipStep, FlipInv, GcIdle
  <2> QED
    BY <2>1, <2>2
<1>7. CASE RevokeRegion \/ HeapCreate \/ HeapDestroy
  BY <1>0, <1>7 DEF RevokeRegion, HeapCreate, HeapDestroy
<1>8. CASE UNCHANGED vars
  BY <1>0, <1>8 DEF vars
<1> QED
  BY <1>1, <1>2, <1>3, <1>4, <1>5, <1>6, <1>7, <1>8 DEF Next

-----------------------------------------------------------------------------

LEMMA InitInv == Init => IInv
<1> SUFFICES ASSUME Init PROVE IInv
  OBVIOUS
<1>1. \A t \in Threads : th[t] = NoCall /\ th[t].pc = "idle"
  BY NoCallType DEF Init
<1>2. gc.pc = "idle" /\ \A s \in SlotIds : slots[s].from = 0
  BY DEF Init, GcIdle
<1>3. TypeOK
  BY NoCallType, RuntimeAssumption DEF Init, TypeOK, Slots, GcIdle
<1>4. ShapeInv /\ ClearInv /\ PathInv /\ OwnerInv /\ OneSlotPerKey /\ DestInv
  BY <1>1, <1>2 DEF ShapeInv, Calling, ClearInv, PathInv, OwnerInv, Owners, OneSlotPerKey, DestInv
<1>5. InstallInv /\ LookupInv
  BY <1>1 DEF InstallInv, InstallOK, LookupInv, LookupOK
<1>6. DoneInv
  BY DEF Init, DoneInv
<1>7. CountInv
  <2>1. Used = {} /\ Owners = {}
    BY <1>1, <1>2 DEF Used, Owners
  <2> QED
    BY <2>1, FS_EmptySet DEF Init, CountInv
<1>8. FlipInv
  BY <1>2 DEF Init, FlipInv
<1> QED
  BY <1>3, <1>4, <1>5, <1>6, <1>7, <1>8 DEF IInv, TableInv

\* The inductive invariant.
LEMMA Invariance == Spec => []IInv
<1>1. IInv /\ [Next]_vars => IInv'
  BY TypeStep, TableStep, CountStep, FlipInvStep DEF IInv, TableInv
<1> QED
  BY InitInv, <1>1, PTL DEF Spec

\* The state of the runtime stays well formed: no probe leaves the table, for
\* any number of slots (ForwardingTable, SideTable).
THEOREM TypeCorrect == Spec => []TypeOK
  BY Invariance, PTL DEF IInv

\* However many relocation workers install one object at once, its key takes
\* one slot (ForwardingTable::install).
THEOREM InstallOnce == Spec => []OneSlotPerKey
  BY Invariance, PTL DEF IInv, TableInv

\* installed_count() is the number of entries whenever nothing is half done.
THEOREM CountExact == Spec => []CountIsExact
<1>1. IInv => CountIsExact
  <2> SUFFICES ASSUME IInv, ~ Installing, gc.pc # "clear" PROVE installed = Cardinality(Used)
    BY DEF CountIsExact, Used
  <2>1. Owners = {}
    BY DEF Installing, Owners
  <2> QED
    BY <2>1, FS_EmptySet DEF IInv, CountInv, TypeOK
<1> QED
  BY Invariance, <1>1, PTL

\* ForwardingTable::lookup answers its argument or a copy of that very object,
\* but for a read between the two stores of an install or across a clear.
THEOREM AnswerForwards == Spec => []AnswerIsForwarding
<1>1. IInv => AnswerIsForwarding
  BY DEF IInv, TableInv, LookupInv, LookupOK, AnswerIsForwarding
<1> QED
  BY Invariance, <1>1, PTL

\* A forwarding whose install has returned is found by every later lookup until
\* the table is cleared, with the destination that was installed.
THEOREM InstalledFound == Spec => []InstalledIsFound
<1>1. IInv => InstalledIsFound
  BY DEF IInv, TableInv, LookupInv, LookupOK, InstalledIsFound
<1> QED
  BY Invariance, <1>1, PTL

\* SideTable::flip_region beside store_color loses no store of another colour
\* and leaves the old colour only where it was stored behind the flip.
THEOREM FlipPerEntry == Spec => []FlipIsPerEntry
<1>1. IInv => FlipIsPerEntry
  BY DEF IInv, FlipInv, FlipIsPerEntry, LoadColor
<1> QED
  BY Invariance, <1>1, PTL
=============================================================================
