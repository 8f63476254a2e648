----------------------------- MODULE CapRuntime -----------------------------
(***************************************************************************)
(* The legacy capability runtime (cap_runtime.h): the bookkeeping of one   *)
(* heap for the ZGC port, before stopless_gc.  Relocation workers install  *)
(* forwardings while mutators look them up; the collector thread flips     *)
(* colours and clears the forwardings at its phase boundaries.             *)
(*                                                                         *)
(* A slot's key is an atomic, its to_cap is not: a reader sees the old     *)
(* value or the new one (capability stores are single-copy atomic).        *)
(***************************************************************************)
EXTENDS Integers, FiniteSets

CONSTANTS
  Threads,     \* relocation workers and mutators
  Keys,        \* from-addresses
  CopyOf,      \* CopyOf[k]: capabilities a forwarding of k may be to
  NSlots,      \* slots_count_
  Hash,        \* hash_addr
  None,        \* the null capability
  HeapBytes,
  Addrs,       \* addresses colours are asked for
  Colors,
  MaxCycles    \* bound: clears and flips together

ASSUME RuntimeAssumption ==
  /\ IsFiniteSet(Threads)
  /\ NSlots \in Nat \ {0} /\ HeapBytes \in Nat \ {0} /\ MaxCycles \in Nat
  /\ 0 \notin Keys /\ Hash \in [Keys -> 0..(NSlots - 1)]
  /\ Addrs \subseteq Nat
  /\ 0 \in Colors
  /\ \A j, k \in Keys : j # k => CopyOf[j] \cap CopyOf[k] = {}
  /\ \A k \in Keys : None \notin CopyOf[k]

VARIABLES
  heap,      \* "none", "live" once it is created, "gone"
  slots,     \* slots_: from_addr, 0 if empty, and to_cap
  installed, \* installed_
  table,     \* table_: a colour per 8 bytes
  epoch,     \* the revocation epoch
  th,        \* each thread's call
  gc,        \* the collector thread's call
  cycles,    \* calls of the collector so far
  done,      \* history: the forwarding of k whose install has returned, or None
  stored     \* history: colour stored to an entry during the flip, or -1

vars == <<heap, slots, installed, table, epoch, th, gc, cycles, done, stored>>

SlotIds == 0..(NSlots - 1)
Entries == 0..((HeapBytes \div 8) - 1)

\* The thread's control point, key, destination (installing) or answer
\* (looking up), and probe; history: what the lookup must answer, and whether
\* it met a half-made install of its key or a clear.
NoCall == [pc |-> "idle", key |-> 0, val |-> None, probe |-> 0, expect |-> None, racy |-> FALSE]
GcIdle == [pc |-> "idle", i |-> 0, from |-> 0, to |-> 0]

Copies == UNION {CopyOf[k] : k \in Keys}

Live == heap = "live"
At(t) == (Hash[th[t].key] + th[t].probe) % NSlots
Go(t, c) == th' = [th EXCEPT ![t] = c]

TableVars == <<slots, installed, done>>
ColorVars == <<table, stored>>
RestVars  == <<heap, epoch, gc, cycles, ColorVars>>

-----------------------------------------------------------------------------
(* ForwardingTable::install.                                               *)

InstallBegin(t, k, c) ==
  /\ Live /\ th[t] = NoCall
  /\ gc.pc # "clear"  \* a region is cleared once its evacuation is complete, and
                      \* one region is evacuated at a time: the clear takes all
  /\ Go(t, [NoCall EXCEPT !.pc = "install", !.key = k, !.val = c])
  /\ UNCHANGED <<TableVars, RestVars>>

\* Mutant: another writer's slot with the same key is passed over.
TakenByAnother(t) == FALSE

\* The slot has this key already: another writer beat us.
Beaten(t) == slots[At(t)].from = th[t].key

\* One probe: claim an empty slot; return if the key is there or the table
\* is full; else go to the next slot.
InstallProbe(t) ==
  /\ th[t].pc = "install"
  /\ \/ /\ slots[At(t)].from = 0
        /\ slots' = [slots EXCEPT ![At(t)].from = th[t].key]
        /\ Go(t, [th[t] EXCEPT !.pc = "store"])
     \/ /\ slots[At(t)].from # 0
        /\ Go(t, IF Beaten(t) \/ th[t].probe = NSlots - 1 THEN NoCall
                 ELSE [th[t] EXCEPT !.probe = @ + 1])
        /\ UNCHANGED slots
  /\ UNCHANGED <<installed, done, RestVars>>

InstallStore(t) ==
  /\ th[t].pc = "store"
  /\ slots' = [slots EXCEPT ![At(t)].to = th[t].val]
  /\ Go(t, [th[t] EXCEPT !.pc = "count"])
  /\ UNCHANGED <<installed, done, RestVars>>

\* Mutant: the install is not counted.
Uncounted == installed

Counted == installed + 1

InstallCount(t) ==
  /\ th[t].pc = "count"
  /\ installed' = Counted
  /\ done' = [done EXCEPT ![th[t].key] = th[t].val]
  /\ Go(t, NoCall)
  /\ UNCHANGED <<slots, RestVars>>

-----------------------------------------------------------------------------
(* ForwardingTable::lookup.                                                *)

LookupBegin(t, k) ==
  /\ Live /\ th[t] = NoCall
  /\ Go(t, [NoCall EXCEPT !.pc = "lookup", !.key = k, !.expect = done[k],
                          !.racy = gc.pc = "clear"])
  /\ UNCHANGED <<TableVars, RestVars>>

\* Mutant: a slot in use is taken for a hit.
HitAny(t) == slots[At(t)].from # 0

Hit(t) == slots[At(t)].from = th[t].key

\* Mutant: the search ends at the first slot.
MissAtOnce(t) == TRUE

\* Mutant: a full table is searched for an empty slot for ever.
MissAtEmpty(t) == slots[At(t)].from = 0

\* No forwarding: an empty slot, or every slot probed.
Miss(t) == slots[At(t)].from = 0 \/ th[t].probe = NSlots - 1

LookupProbe(t) ==
  /\ th[t].pc = "lookup"
  /\ Go(t, IF Hit(t) THEN [th[t] EXCEPT !.pc = "read"]
           ELSE IF Miss(t) THEN [th[t] EXCEPT !.pc = "answer", !.val = th[t].key]
           ELSE [th[t] EXCEPT !.probe = @ + 1])
  /\ UNCHANGED <<TableVars, RestVars>>

\* An install of k is between its two stores.
HalfInstalled(k) == \E u \in Threads : th[u].pc = "store" /\ th[u].key = k

LookupRead(t) ==
  /\ th[t].pc = "read"
  /\ Go(t, [th[t] EXCEPT !.pc = "answer", !.val = slots[At(t)].to,
                         !.racy = @ \/ HalfInstalled(th[t].key)])
  /\ UNCHANGED <<TableVars, RestVars>>

LookupReturn(t) ==
  /\ th[t].pc = "answer"
  /\ Go(t, NoCall)
  /\ UNCHANGED <<TableVars, RestVars>>

-----------------------------------------------------------------------------
(* The collector thread.                                                   *)

Installing == \E t \in Threads : th[t].pc \in {"install", "store", "count"}

\* ForwardingTable::clear_region, whatever the region: every slot's key, one
\* after another, and the count.
ClearBegin ==
  /\ Live /\ gc = GcIdle /\ ~ Installing /\ cycles < MaxCycles
  /\ gc' = [GcIdle EXCEPT !.pc = "clear"]
  /\ cycles' = cycles + 1
  /\ done' = [k \in Keys |-> None]
  /\ th' = [t \in Threads |-> IF th[t] = NoCall THEN NoCall
                              ELSE [th[t] EXCEPT !.racy = TRUE, !.expect = None]]
  /\ UNCHANGED <<heap, epoch, slots, installed, ColorVars>>

ClearStep ==
  /\ gc.pc = "clear"
  /\ \/ /\ gc.i < NSlots
        /\ slots' = [slots EXCEPT ![gc.i].from = 0]
        /\ gc' = [gc EXCEPT !.i = @ + 1]
        /\ UNCHANGED installed
     \/ /\ gc.i = NSlots
        /\ installed' = 0 /\ gc' = GcIdle
        /\ UNCHANGED slots
  /\ UNCHANGED <<heap, epoch, th, cycles, done, ColorVars>>

\* SideTable: the entry of an address; there is none beyond the heap's size
\* (heap_base_ is 0).
Idx(a) == a \div 8

LoadColor(a) == IF Idx(a) \in Entries THEN table[Idx(a)] ELSE 0

StoreColor(a, c) ==
  /\ Live /\ Idx(a) \in Entries
  /\ table' = [table EXCEPT ![Idx(a)] = c]
  /\ stored' = IF gc.pc = "flip" THEN [stored EXCEPT ![Idx(a)] = c] ELSE stored
  /\ UNCHANGED <<heap, TableVars, epoch, th, gc, cycles>>

\* SideTable::flip_region, whatever the region: every entry of colour c.
FlipBegin(c, d) ==
  /\ Live /\ gc = GcIdle /\ cycles < MaxCycles
  /\ gc' = [pc |-> "flip", i |-> 0, from |-> c, to |-> d]
  /\ cycles' = cycles + 1
  /\ UNCHANGED <<heap, epoch, th, TableVars, ColorVars>>

\* Mutant: the colour is not compared.
FlippedAnyway(e) == gc.to

\* compare_exchange_strong
Flipped(e) == IF table[e] = gc.from THEN gc.to ELSE table[e]

FlipStep ==
  /\ gc.pc = "flip"
  /\ \/ /\ gc.i \in Entries
        /\ table' = [table EXCEPT ![gc.i] = Flipped(gc.i)]
        /\ stored' = [stored EXCEPT ![gc.i] = IF @ = gc.from THEN -1 ELSE @]
        /\ gc' = [gc EXCEPT !.i = @ + 1]
     \/ /\ gc.i \notin Entries
        /\ gc' = GcIdle /\ stored' = [e \in Entries |-> -1]
        /\ UNCHANGED table
  /\ UNCHANGED <<heap, epoch, th, cycles, TableVars>>

\* RevokeDriver::revoke_region; quiesce does nothing.
RevokeRegion ==
  /\ Live /\ gc = GcIdle /\ cycles < MaxCycles
  /\ epoch' = epoch + 1 /\ cycles' = cycles + 1
  /\ UNCHANGED <<heap, th, gc, TableVars, ColorVars>>

-----------------------------------------------------------------------------

Init ==
  /\ heap = "none" /\ cycles = 0
  /\ th = [t \in Threads |-> NoCall] /\ gc = GcIdle
  /\ slots = [s \in SlotIds |-> [from |-> 0, to |-> None]]
  /\ installed = 0 /\ epoch = 0
  /\ table = [e \in Entries |-> 0]
  /\ done = [k \in Keys |-> None] /\ stored = [e \in Entries |-> -1]

\* stopless_heap_create (of more than 0 bytes) and stopless_heap_destroy
HeapCreate ==
  /\ heap = "none"
  /\ heap' = "live"
  /\ UNCHANGED <<TableVars, ColorVars, epoch, th, gc, cycles>>

HeapDestroy ==
  /\ Live /\ gc = GcIdle /\ \A t \in Threads : th[t] = NoCall
  /\ heap' = "gone"
  /\ UNCHANGED <<TableVars, ColorVars, epoch, th, gc, cycles>>

ThreadStep(t) ==
  \/ \E k \in Keys : LookupBegin(t, k) \/ \E c \in CopyOf[k] : InstallBegin(t, k, c)
  \/ InstallProbe(t) \/ InstallStore(t) \/ InstallCount(t)
  \/ LookupProbe(t) \/ LookupRead(t) \/ LookupReturn(t)

Next ==
  \/ \E t \in Threads : ThreadStep(t)
  \/ \E a \in Addrs, c \in Colors : StoreColor(a, c)
  \/ \E c, d \in Colors : c # d /\ FlipBegin(c, d)
  \/ ClearBegin \/ ClearStep \/ FlipStep \/ RevokeRegion
  \/ HeapCreate \/ HeapDestroy

Spec == Init /\ [][Next]_vars

-----------------------------------------------------------------------------
(* Properties.                                                             *)

Calls == [pc : {"idle", "install", "store", "count", "lookup", "read", "answer"},
          key : Keys \cup {0}, val : Copies \cup Keys \cup {None},
          probe : SlotIds, expect : Copies \cup {None}, racy : BOOLEAN]
Slots == [from : Keys \cup {0}, to : Copies \cup {None}]

\* The state is well formed; a probe never leaves the table.
TypeOK ==
  /\ heap \in {"none", "live", "gone"}
  /\ slots \in [SlotIds -> Slots]
  /\ installed \in Nat /\ epoch \in Nat /\ cycles \in Nat
  /\ table \in [Entries -> Colors] /\ stored \in [Entries -> Colors \cup {-1}]
  /\ th \in [Threads -> Calls]
  /\ gc \in [pc : {"idle", "clear", "flip"}, i : Nat, from : Colors, to : Colors]
  /\ done \in [Keys -> Copies \cup {None}]

\* However many workers install a forwarding of one object at the same time,
\* it takes one slot.
OneSlotPerKey ==
  \A s, u \in SlotIds : slots[s].from # 0 /\ slots[s].from = slots[u].from => s = u

\* While no install and no clear is under way, installed_count() is the number
\* of forwardings in the table.
CountIsExact ==
  ~ Installing /\ gc.pc # "clear" =>
    installed = Cardinality({s \in SlotIds : slots[s].from # 0})

\* A lookup answers its argument or a copy of the object asked for; null, or a
\* copy of another object left behind in the slot, only if it read the slot
\* between the two stores of an install of its key, or the table was cleared
\* under it.
AnswerIsForwarding ==
  \A t \in Threads : th[t].pc = "answer" =>
    th[t].val \in CopyOf[th[t].key] \cup {th[t].key} \/ th[t].racy

\* A lookup that begins after an install that won its key has returned answers
\* what was installed, unless the table is cleared meanwhile: losers of a race
\* for the key do not change it, and colliding keys do not hide it.  cap_runtime.h
\* promises it of every install; one that lost the race may return before the
\* winner has stored the capability, and one dropped by a full table leaves none.
InstalledIsFound ==
  \A t \in Threads : th[t].pc = "answer" /\ th[t].expect # None => th[t].val = th[t].expect

\* A flip that runs beside stores loses none of another colour, and leaves the
\* old colour only where it was stored after the flip had passed.
FlipIsPerEntry ==
  gc.pc = "flip" =>
    \A a \in Addrs : Idx(a) \in Entries =>
      /\ stored[Idx(a)] \notin {-1, gc.from} => LoadColor(a) = stored[Idx(a)]
      /\ Idx(a) < gc.i /\ LoadColor(a) = gc.from => stored[Idx(a)] = gc.from
=============================================================================
