-------------------------- MODULE ForwardTable_Proofs --------------------------
(***************************************************************************)
(* The safety properties of the forwarding table, for any number of        *)
(* threads, keys and copies, any hash, any initial capacity and any number *)
(* of growths.                                                             *)
(*                                                                         *)
(* In the table in force every key sits on its own probe sequence with no  *)
(* free slot before it, once (GoodTable), and a writer that still probes   *)
(* has passed only slots of other keys (ProbeOK).  So the free slot that   *)
(* its compare-and-swap claims is the first of its sequence, and nobody    *)
(* else has the key.  A slot is stored to only by its owner and only until *)
(* its address is there (HoldOK), so a mapping is permanent, and a lookup  *)
(* that must find a key (Due) cannot pass it (LookupOK).  The new table of *)
(* a growth is a good table of the entries copied so far (GrowInv).        *)
(***************************************************************************)
EXTENDS ForwardTable, ArithmeticLemmas, FiniteSetTheorems, SequenceTheorems, TLAPS

\* What the collector guarantees: the table grows at a safepoint, when no
\* handler is inside it, and nothing deletes.
SoundConfig == GrowQuiesced /\ ~ Deletes

Ids(cap) == 0 .. cap - 1
CurCap   == Cardinality(DOMAIN Current)

Used(tb, n) == {j \in 0 .. n - 1 : tb[j].key # 0}

\* Key k has its address in table tb.
Mapped(tb, k) == \E j \in DOMAIN tb : tb[j].key = k /\ tb[j].addr # 0

-----------------------------------------------------------------------------
(* A table of capacity cap, alone.                                         *)

\* Every key is reached by its probe sequence.
PathOK(tb, cap) ==
  \A s \in Ids(cap) : tb[s].key # 0 =>
    \E p \in Ids(cap) : /\ s = Pos(tb[s].key, cap, p)
                        /\ \A q \in Ids(cap) : q < p => tb[Pos(tb[s].key, cap, q)].key # 0

Unique(tb, cap) ==
  \A i, j \in Ids(cap) : tb[i].key = tb[j].key /\ tb[i].key # 0 => i = j

\* An address is a copy of the key's object, with its own length.
ValueOK(s) == s.key # 0 /\ s.addr # 0 => s.len = s.addr /\ s.addr \in Copies[s.key]

GoodTable(tb, cap) ==
  /\ tb \in [Ids(cap) -> Slots]
  /\ PathOK(tb, cap)
  /\ Unique(tb, cap)
  /\ \A j \in Ids(cap) : ValueOK(tb[j])

-----------------------------------------------------------------------------
(* The calls.                                                              *)

Holding(c) == c.pc \in {"len", "addr", "key", "count"}

\* What a call has whatever the table.
ShapeOK(c) ==
  /\ c.pc = "idle" => c = Idle
  /\ c.pc # "idle" =>
       /\ c.key \in Keys /\ c.at \in Keys /\ c.op # "none"
       /\ c.op \in {"cas", "insert"} =>
            /\ c.at = c.key /\ c.new \in Copies[c.key]
            /\ c.pc # "done" => c.addr = 0 /\ c.len = 0
       /\ c.op = "insert" => c.key \in PlainKeys
       /\ c.op = "cas" => c.key \notin PlainKeys /\ c.new \notin c.before
       /\ c.pc \in {"cas", "spin"} => c.op = "cas"
       /\ c.pc \in {"len", "addr", "count"} => c.op \in {"cas", "insert"}
       /\ c.pc = "key" => c.op = "insert"
       /\ c.pc \in {"readAddr", "readLen"} => c.op \in {"lookup", "chase"}

\* The table, capacity and slot it has loaded are those in force.
PlaceOK(c) ==
  /\ c.pc \notin {"idle", "table"} => c.tab = gTable
  /\ c.pc \notin {"idle", "table", "capacity", "done"} =>
       /\ c.cap = gCapacity /\ c.n \in 0 .. gCapacity
       /\ c.pc # "probe" => c.n < gCapacity
       /\ c.i = Pos(c.at, gCapacity, c.n)

\* A writer has passed slots of other keys only; the single writer's key is
\* not there at all; a loser has found the key.
ProbeOK(c) ==
  /\ c.op \in {"cas", "insert"} /\ c.pc \in {"probe", "cas", "len", "addr", "key"} =>
       \A q \in Ids(gCapacity) : q < c.n => Current[Pos(c.key, gCapacity, q)].key \notin {0, c.key}
  /\ c.op = "insert" /\ c.pc \notin {"count", "done"} =>
       \A j \in DOMAIN Current : Current[j].key # c.key
  /\ c.pc = "spin" => Current[c.i].key = c.key

\* The slot of a writer that has one.
HoldOK(c) ==
  Holding(c) =>
    LET s == Current[c.i] IN
    /\ s.key = IF c.op = "cas" \/ c.pc = "count" THEN c.key ELSE 0
    /\ c.op = "insert" => c.fresh
    /\ c.pc \in {"len", "addr"} => s.addr = 0
    /\ c.pc \in {"addr", "key", "count"} => s.len = c.new
    /\ c.pc \in {"key", "count"} => s.addr = c.new

\* What a writer returns.
WriteOK(c) ==
  c.pc = "done" /\ c.op \in {"cas", "insert"} =>
    IF c.addr = 0 THEN \A j \in DOMAIN Current : Current[j].key \notin {0, c.key}
    ELSE /\ c.addr = c.new /\ c.len = c.new
         /\ \E j \in DOMAIN Current : Current[j].key = c.key /\ Current[j].addr = c.new

\* The keys a call must find: the ones known when it was made, and a loser's.
Due(c) == c.before \cup (IF c.op = "chase" THEN {c.key} ELSE {})

\* A lookup is at the end of a prefix of the chain.
LookupOK(c) ==
  /\ c.pc # "idle" => c.before \subseteq known
  /\ c.pc # "idle" /\ c.op = "chase" => Mapped(Current, c.key)
  /\ c.pc # "idle" /\ c.op \in {"lookup", "chase"} =>
       /\ c.addr # 0 => c.addr \in Chain(Current, c.key)
       /\ c.addr = 0 /\ c.pc # "done" => c.at = c.key
       /\ c.addr # 0 /\ c.pc \notin {"readLen", "done"} => c.at = c.addr
       /\ c.addr # 0 /\ c.pc # "readLen" => c.len = c.addr
       /\ c.pc = "probe" /\ c.at \in Due(c) =>
            \A q \in Ids(gCapacity) : q < c.n => Current[Pos(c.at, gCapacity, q)].key # c.at
       /\ c.pc \in {"readAddr", "readLen"} => Current[c.i].key = c.at
       /\ c.pc = "readLen" => c.addr # 0 /\ Current[c.i].addr = c.addr
       /\ c.pc = "done" => (c.addr = 0 => c.key \notin Due(c)) /\ c.addr \notin c.before

CallOK(c) == ShapeOK(c) /\ PlaceOK(c) /\ ProbeOK(c) /\ HoldOK(c) /\ WriteOK(c) /\ LookupOK(c)

-----------------------------------------------------------------------------
(* The inductive invariant.                                                *)

\* The winners of a slot that g_size does not count yet.
Owners == {t \in Threads : /\ th[t].pc \in {"len", "addr", "count"}
                           /\ th[t].op = "cas" \/ th[t].pc = "count"}

CallInv == \A t \in Threads : CallOK(th[t])

\* Two winners have different keys; a plain insertion is the only writer.
OwnerInv ==
  /\ \A t, u \in Owners : th[t].key = th[u].key => t = u
  /\ \A t, u \in Threads : th[t].op = "insert" /\ Writing(u) => t = u

\* A free slot has no address, but for the one the single writer fills.
FreeInv ==
  \A j \in DOMAIN Current : Current[j].key = 0 /\ Current[j].addr # 0 =>
    \E t \in Threads : th[t].op = "insert" /\ th[t].pc = "key" /\ th[t].i = j

\* A known key has its address; a plain key in the table is known, or its
\* insertion is about to return.
KnownInv ==
  /\ \A k \in known : Mapped(Current, k)
  /\ \A j \in DOMAIN Current : Current[j].key \in PlainKeys =>
       \/ Current[j].key \in known
       \/ \E t \in Threads : /\ th[t].op = "insert" /\ th[t].pc \in {"count", "done"}
                             /\ th[t].key = Current[j].key

TableInv == GoodTable(Current, CurCap) /\ FreeInv /\ KnownInv

\* The entries counted, and the ones about to be.
CountInv == Cardinality(Used(Current, CurCap)) = gSize + Cardinality(Owners)

\* Nobody is inside a table that grows.  The new one is a good table of the
\* entries copied so far.
GrowInv ==
  /\ grow = "no" => CurCap = gCapacity
  /\ grow # "no" =>
       /\ \A t \in Threads : th[t].pc = "idle"
       /\ gTable # Len(tables)
       /\ gCapacity = IF grow = "table" THEN 2 * CurCap ELSE CurCap
       /\ copied \in 0 .. CurCap /\ (grow = "table" => copied = CurCap)
       /\ 2 * CurCap <= MaxCap
       /\ GoodTable(NewTable, 2 * CurCap)
       /\ \A s \in Ids(2 * CurCap) :
            IF NewTable[s].key = 0 THEN NewTable[s] = EmptySlot
            ELSE \E j \in 0 .. copied - 1 : NewTable[s] = Current[j]
       /\ \A j \in 0 .. copied - 1 : Current[j].key # 0 =>
            \E s \in Ids(2 * CurCap) : NewTable[s] = Current[j]
       /\ Cardinality(Used(NewTable, 2 * CurCap)) = Cardinality(Used(Current, copied))

\* The tables themselves.
Tables == UNION {[Ids(cap) -> Slots] : cap \in 1 .. MaxCap}
SeqInv == tables \in Seq(Tables) /\ gTable \in 1 .. Len(tables)

IInv == TypeOK /\ SeqInv /\ CallInv /\ OwnerInv /\ TableInv /\ CountInv /\ GrowInv

-----------------------------------------------------------------------------
(* The probe sequence.                                                     *)

LEMMA KeysFacts ==
  /\ 0 \notin Keys /\ Keys \subseteq Nat /\ Keys \subseteq Addresses /\ 0 \notin Addresses
  /\ \A k \in Keys : Copies[k] \subseteq Addresses /\ \A a \in Copies[k] : a # 0 /\ a # k
<1>1. \A k \in Keys : \A a \in Copies[k] : a \in Nat /\ a > k /\ k \in Nat \ {0}
  BY TableAssumption
<1>2. \A k \in Keys : Copies[k] \subseteq Addresses /\ \A a \in Copies[k] : a # 0 /\ a # k
  BY <1>1 DEF Addresses
<1> QED
  BY <1>2, TableAssumption DEF Addresses

\* The probe sequence of a key stays in the table, visits no slot twice, and
\* advances to the next slot.
LEMMA PosFacts ==
  ASSUME NEW k \in Keys, NEW cap \in Nat \ {0}
  PROVE  /\ \A n \in 0 .. cap : Pos(k, cap, n) \in Ids(cap)
         /\ \A m, n \in Ids(cap) : Pos(k, cap, m) = Pos(k, cap, n) => m = n
         /\ \A n \in Ids(cap) : (Pos(k, cap, n) + 1) % cap = Pos(k, cap, n + 1)
         /\ \A s \in Ids(cap) : \E n \in Ids(cap) : Pos(k, cap, n) = s
<1> DEFINE h == Hash[k] % cap
<1>1. h \in 0 .. (cap - 1)
  BY TableAssumption, DivMod
<1> HIDE DEF h
<1>2. \A n \in 0 .. cap : Pos(k, cap, n) = IF h + n < cap THEN h + n ELSE h + n - cap
  <2> SUFFICES ASSUME NEW n \in 0 .. cap
               PROVE  Pos(k, cap, n) = IF h + n < cap THEN h + n ELSE h + n - cap
    OBVIOUS
  <2> DEFINE a == h + n
  <2>1. a \in 0 .. (2 * cap - 1)
    BY <1>1
  <2> HIDE DEF a
  <2>2. a % cap = IF a < cap THEN a ELSE a - cap
    BY <2>1, ModOnce
  <2>3. Pos(k, cap, n) = a % cap
    BY DEF Pos, a, h
  <2> QED
    BY <1>1, <2>1, <2>2, <2>3 DEF a
<1>3. \A n \in 0 .. cap : Pos(k, cap, n) \in Ids(cap)
  BY <1>1, <1>2 DEF Ids
<1>4. \A m, n \in Ids(cap) : Pos(k, cap, m) = Pos(k, cap, n) => m = n
  BY <1>1, <1>2 DEF Ids
<1>5. ASSUME NEW n \in Ids(cap) PROVE (Pos(k, cap, n) + 1) % cap = Pos(k, cap, n + 1)
  <2> DEFINE a == Pos(k, cap, n) + 1
  <2>1. a \in 0 .. (2 * cap - 1) /\ a = IF h + n < cap THEN h + n + 1 ELSE h + n - cap + 1
    BY <1>1, <1>2, <1>5 DEF Ids
  <2>2. Pos(k, cap, n + 1) = IF h + (n + 1) < cap THEN h + (n + 1) ELSE h + (n + 1) - cap
    BY <1>2, <1>5 DEF Ids
  <2> HIDE DEF a
  <2>3. a % cap = IF a < cap THEN a ELSE a - cap
    BY <2>1, ModOnce
  <2>4. a % cap = Pos(k, cap, n + 1)
    BY <1>1, <1>5, <2>1, <2>2, <2>3 DEF Ids
  <2> QED
    BY <2>4 DEF a
<1>6. ASSUME NEW s \in Ids(cap) PROVE \E n \in Ids(cap) : Pos(k, cap, n) = s
  <2> DEFINE n == IF s >= h THEN s - h ELSE s - h + cap
  <2>1. n \in Ids(cap) /\ n \in 0 .. cap
    BY <1>1, <1>6 DEF Ids
  <2>2. Pos(k, cap, n) = s
    BY <1>1, <1>2, <1>6, <2>1 DEF Ids
  <2> QED
    BY <2>1, <2>2
<1> QED
  BY <1>3, <1>4, <1>5, <1>6

LEMMA IdsFacts ==
  ASSUME NEW cap \in Nat
  PROVE  IsFiniteSet(Ids(cap)) /\ Cardinality(Ids(cap)) = cap
<1>1. CASE cap = 0
  <2>1. Ids(cap) = {}
    BY <1>1 DEF Ids
  <2> QED
    BY <1>1, <2>1, FS_EmptySet
<1>2. CASE cap # 0
  BY <1>2, FS_Interval DEF Ids
<1> QED
  BY <1>1, <1>2

-----------------------------------------------------------------------------
(* Tables.                                                                 *)

\* An entry put into the first free slot of its probe sequence.
LEMMA PutGood ==
  ASSUME NEW cap \in Nat \ {0}, NEW tb, GoodTable(tb, cap),
         NEW k \in Keys, NEW n \in Ids(cap), NEW s \in Slots, s.key = k, ValueOK(s),
         \A q \in Ids(cap) : q < n => tb[Pos(k, cap, q)].key # 0,
         tb[Pos(k, cap, n)].key = 0,
         \A j \in Ids(cap) : tb[j].key # k
  PROVE  GoodTable([tb EXCEPT ![Pos(k, cap, n)] = s], cap)
<1> DEFINE i == Pos(k, cap, n)
           nt == [tb EXCEPT ![i] = s]
<1>0. n \in 0 .. cap
  BY DEF Ids
<1>1. i \in Ids(cap) /\ k # 0
  BY <1>0, PosFacts, KeysFacts
<1>2. tb[i].key = 0
  OBVIOUS
<1>3. nt \in [Ids(cap) -> Slots] /\ nt[i] = s /\ \A j \in Ids(cap) : j # i => nt[j] = tb[j]
  BY <1>1 DEF GoodTable
<1>4. \A q \in Ids(cap) : q < n => tb[Pos(k, cap, q)].key # 0
  OBVIOUS
<1> HIDE DEF nt
<1>5. PathOK(nt, cap)
  <2> SUFFICES ASSUME NEW x \in Ids(cap), nt[x].key # 0
               PROVE  \E p \in Ids(cap) : /\ x = Pos(nt[x].key, cap, p)
                                           /\ \A q \in Ids(cap) : q < p => nt[Pos(nt[x].key, cap, q)].key # 0
    BY DEF PathOK
  <2>1. \A j \in Ids(cap) : tb[j].key # 0 => nt[j].key # 0
    BY <1>2, <1>3
  <2>0. \A q \in Ids(cap) : q \in 0 .. cap
    BY DEF Ids
  <2>2. CASE x = i
    <3>1. nt[x].key = k
      BY <1>3, <2>2
    <3>2. \A q \in Ids(cap) : q < n => nt[Pos(k, cap, q)].key # 0
      BY <1>4, <2>0, <2>1, PosFacts
    <3> QED
      BY <2>2, <3>1, <3>2
  <2>3. CASE x # i
    <3>1. nt[x] = tb[x] /\ tb[x].key \in Keys
      BY <1>3, <2>3 DEF GoodTable, Slots
    <3>2. PICK p \in Ids(cap) : /\ x = Pos(tb[x].key, cap, p)
                                /\ \A q \in Ids(cap) : q < p => tb[Pos(tb[x].key, cap, q)].key # 0
      BY <3>1 DEF GoodTable, PathOK
    <3>3. \A q \in Ids(cap) : q < p => nt[Pos(tb[x].key, cap, q)].key # 0
      BY <2>0, <2>1, <3>1, <3>2, PosFacts
    <3> QED
      BY <3>1, <3>2, <3>3
  <2> QED
    BY <2>2, <2>3
<1>6. Unique(nt, cap)
  BY <1>1, <1>3 DEF GoodTable, Unique
<1>7. \A j \in Ids(cap) : ValueOK(nt[j])
  BY <1>3 DEF GoodTable
<1> QED
  BY <1>3, <1>5, <1>6, <1>7 DEF GoodTable, nt

\* A slot stored to without a change of its key.
LEMMA SetGood ==
  ASSUME NEW cap \in Nat \ {0}, NEW tb, GoodTable(tb, cap),
         NEW i \in Ids(cap), NEW s \in Slots, s.key = tb[i].key, ValueOK(s)
  PROVE  GoodTable([tb EXCEPT ![i] = s], cap)
<1> DEFINE nt == [tb EXCEPT ![i] = s]
<1>1. /\ nt \in [Ids(cap) -> Slots] /\ \A j \in Ids(cap) : nt[j].key = tb[j].key
      /\ nt[i] = s /\ \A j \in Ids(cap) : j # i => nt[j] = tb[j]
  BY DEF GoodTable
<1> HIDE DEF nt
<1>2. PathOK(nt, cap)
  <2> SUFFICES ASSUME NEW x \in Ids(cap), nt[x].key # 0
               PROVE  \E p \in Ids(cap) : /\ x = Pos(nt[x].key, cap, p)
                                           /\ \A q \in Ids(cap) : q < p => nt[Pos(nt[x].key, cap, q)].key # 0
    BY DEF PathOK
  <2>0. \A q \in Ids(cap) : q \in 0 .. cap
    BY DEF Ids
  <2>1. nt[x].key = tb[x].key /\ tb[x].key \in Keys
    BY <1>1 DEF GoodTable, Slots
  <2>2. PICK p \in Ids(cap) : /\ x = Pos(tb[x].key, cap, p)
                              /\ \A q \in Ids(cap) : q < p => tb[Pos(tb[x].key, cap, q)].key # 0
    BY <2>1 DEF GoodTable, PathOK
  <2>3. \A q \in Ids(cap) : q < p => nt[Pos(tb[x].key, cap, q)].key # 0
    BY <1>1, <2>0, <2>1, <2>2, PosFacts
  <2> QED
    BY <2>1, <2>2, <2>3
<1>3. Unique(nt, cap)
  BY <1>1 DEF GoodTable, Unique
<1>4. \A j \in Ids(cap) : ValueOK(nt[j])
  BY <1>1 DEF GoodTable
<1> QED
  BY <1>1, <1>2, <1>3, <1>4 DEF GoodTable, nt

LEMMA UsedFinite ==
  ASSUME NEW tb, NEW n \in Nat
  PROVE  /\ IsFiniteSet(Used(tb, n)) /\ Cardinality(Used(tb, n)) \in Nat
         /\ Cardinality(Used(tb, n)) <= n
<1>1. Used(tb, n) \subseteq Ids(n)
  BY DEF Used, Ids
<1> QED
  BY <1>1, IdsFacts, FS_Subset, FS_CardinalityType

\* A table with a free slot has a first one on every probe sequence.
LEMMA FreeSlotFacts ==
  ASSUME NEW cap \in Nat \ {0}, NEW tb, tb \in [Ids(cap) -> Slots], NEW k \in Keys,
         Cardinality(Used(tb, cap)) < cap
  PROVE  \E n \in Ids(cap) : /\ FreeSlot(tb, k) = Pos(k, cap, n)
                             /\ tb[Pos(k, cap, n)].key = 0
                             /\ \A q \in Ids(cap) : q < n => tb[Pos(k, cap, q)].key # 0
<1> DEFINE Free(n) == tb[Pos(k, cap, n)].key = 0
           First(n) == Free(n) /\ \A m \in 0 .. n - 1 : ~ Free(m)
           S == {n \in Ids(cap) : Free(n)}
<1>1. DOMAIN tb = Ids(cap) /\ Cardinality(DOMAIN tb) = cap
  BY IdsFacts
<1>2. PICK s \in Ids(cap) : tb[s].key = 0
  <2> SUFFICES ASSUME \A s \in Ids(cap) : tb[s].key # 0 PROVE FALSE
    OBVIOUS
  <2>1. Used(tb, cap) = Ids(cap)
    BY DEF Used, Ids
  <2> QED
    BY <2>1, IdsFacts
<1>3. S # {} /\ S \in SUBSET Nat
  <2>1. PICK n \in Ids(cap) : Pos(k, cap, n) = s
    BY <1>2, PosFacts
  <2>2. Ids(cap) \subseteq Nat
    BY DEF Ids
  <2> QED
    BY <1>2, <2>1, <2>2
<1> HIDE DEF S
<1>4. PICK m \in S : \A n \in S : m <= n
  BY <1>3, LeastNat
<1>5. m \in Ids(cap) /\ First(m)
  BY <1>4 DEF S, Ids
<1> DEFINE n == CHOOSE x \in Ids(cap) : First(x)
<1>6. n \in Ids(cap) /\ First(n)
  BY <1>5
<1>7. FreeSlot(tb, k) = Pos(k, cap, n)
  BY <1>1 DEF FreeSlot, Ids
<1> HIDE DEF n
<1>8. \A q \in Ids(cap) : q < n => ~ Free(q)
  BY <1>6 DEF Ids
<1> QED
  BY <1>6, <1>7, <1>8

LEMMA UsedPut ==
  ASSUME NEW cap \in Nat, NEW tb, tb \in [Ids(cap) -> Slots], NEW i \in Ids(cap), NEW s \in Slots,
         tb[i].key = 0, s.key # 0
  PROVE  Cardinality(Used([tb EXCEPT ![i] = s], cap)) = Cardinality(Used(tb, cap)) + 1
<1>1. Used([tb EXCEPT ![i] = s], cap) = Used(tb, cap) \cup {i} /\ i \notin Used(tb, cap)
  BY DEF Used, Ids
<1> QED
  BY <1>1, UsedFinite, FS_AddElement, ZenonT(40)

LEMMA UsedSet ==
  ASSUME NEW cap \in Nat, NEW tb, tb \in [Ids(cap) -> Slots], NEW i \in Ids(cap), NEW s \in Slots,
         s.key = tb[i].key
  PROVE  Used([tb EXCEPT ![i] = s], cap) = Used(tb, cap)
  BY DEF Used, Ids

-----------------------------------------------------------------------------
(* The table in force.                                                     *)

LEMMA TablesCap ==
  ASSUME NEW tb \in Tables
  PROVE  /\ Cardinality(DOMAIN tb) \in 1 .. MaxCap
         /\ tb \in [Ids(Cardinality(DOMAIN tb)) -> Slots]
<1>1. PICK cap \in 1 .. MaxCap : tb \in [Ids(cap) -> Slots]
  BY DEF Tables
<1>2. DOMAIN tb = Ids(cap) /\ cap \in Nat
  BY <1>1
<1> QED
  BY <1>1, <1>2, IdsFacts

LEMMA CurrentFacts ==
  ASSUME SeqInv
  PROVE  /\ CurCap \in Nat \ {0} /\ CurCap \in 1 .. MaxCap
         /\ DOMAIN Current = Ids(CurCap)
         /\ Current \in [Ids(CurCap) -> Slots]
<1>1. Current \in Tables
  BY DEF SeqInv, Current
<1> QED
  BY <1>1, TablesCap, TableAssumption DEF CurCap

\* A key's slot is the one that says what it maps to.
LEMMA MapIs ==
  ASSUME NEW tb, NEW cap, DOMAIN tb = Ids(cap), Unique(tb, cap),
         NEW j \in Ids(cap), tb[j].key # 0
  PROVE  Map(tb, tb[j].key) = tb[j].addr
<1> DEFINE k == tb[j].key
           i == CHOOSE x \in DOMAIN tb : tb[x].key = k
<1>1. i \in DOMAIN tb /\ tb[i].key = k
  OBVIOUS
<1>2. Map(tb, k) = tb[i].addr
  BY DEF Map
<1> HIDE DEF i
<1>3. i = j
  BY <1>1 DEF Unique
<1> QED
  BY <1>2, <1>3

LEMMA MapNone ==
  ASSUME NEW tb, NEW k, \A j \in DOMAIN tb : tb[j].key # k
  PROVE  Map(tb, k) = 0
  BY DEF Map

LEMMA MapMapped ==
  ASSUME NEW tb, NEW cap, DOMAIN tb = Ids(cap), Unique(tb, cap), NEW k \in Keys
  PROVE  Mapped(tb, k) <=> Map(tb, k) # 0
<1>1. ASSUME NEW j \in DOMAIN tb, tb[j].key = k PROVE Map(tb, k) = tb[j].addr
  BY <1>1, MapIs, KeysFacts
<1> QED
  BY <1>1, MapNone DEF Mapped

LEMMA MapType ==
  ASSUME NEW tb, NEW cap, tb \in [Ids(cap) -> Slots], NEW k
  PROVE  Map(tb, k) \in Addresses \cup {0}
<1> DEFINE i == CHOOSE x \in DOMAIN tb : tb[x].key = k
<1>1. CASE \E x \in DOMAIN tb : tb[x].key = k
  <2>1. i \in Ids(cap)
    BY <1>1
  <2>2. Map(tb, k) = tb[i].addr
    BY <1>1 DEF Map
  <2> HIDE DEF i
  <2>3. tb[i] \in Slots
    BY <2>1
  <2> QED
    BY <2>2, <2>3 DEF Slots
<1>2. CASE ~ \E x \in DOMAIN tb : tb[x].key = k
  BY <1>2 DEF Map
<1> QED
  BY <1>1, <1>2

-----------------------------------------------------------------------------
(* Chains.                                                                 *)

LEMMA ChainStart ==
  ASSUME NEW tb, NEW cap, tb \in [Ids(cap) -> Slots], NEW k, Map(tb, k) # 0
  PROVE  Map(tb, k) \in Chain(tb, k)
  BY MapType DEF Chain, Closed

LEMMA ChainNext ==
  ASSUME NEW tb, NEW cap, tb \in [Ids(cap) -> Slots], NEW k,
         NEW a \in Chain(tb, k), a \in Keys, Map(tb, a) # 0
  PROVE  Map(tb, a) \in Chain(tb, k)
  BY MapType DEF Chain, Closed

\* A chain only grows, because a mapping stays.
LEMMA ChainGrows ==
  ASSUME NEW tb, NEW nt, \A k \in Keys : Map(tb, k) # 0 => Map(nt, k) = Map(tb, k), NEW k \in Keys
  PROVE  Chain(tb, k) \subseteq Chain(nt, k)
<1>1. ASSUME NEW S, Closed(nt, S, k) PROVE Closed(tb, S, k)
  BY <1>1 DEF Closed
<1> QED
  BY <1>1 DEF Chain

-----------------------------------------------------------------------------
(* Steps that leave the table alone.                                       *)

LEMMA IdleFacts == /\ Idle \in Calls /\ Idle.pc = "idle" /\ Idle.op = "none"
                   /\ CallOK(Idle)
<1>1. Idle \in Calls /\ Idle.pc = "idle" /\ Idle.op = "none"
  BY DEF Idle, Calls
<1> QED
  BY <1>1 DEF CallOK, ShapeOK, PlaceOK, ProbeOK, HoldOK, Holding, WriteOK, LookupOK

LEMMA OwnersFinite == IsFiniteSet(Owners) /\ Cardinality(Owners) \in Nat
<1>1. Owners \subseteq Threads
  BY DEF Owners
<1> QED
  BY <1>1, TableAssumption, FS_Subset, FS_CardinalityType

\* The calls depend on nothing but the table in force and what is known.
LEMMA SameCall ==
  ASSUME UNCHANGED <<tables, gTable, gCapacity, known>>, NEW u, th'[u] = th[u], CallOK(th[u])
  PROVE  CallOK(th[u])'
<1>1. Current' = Current
  BY DEF Current
<1>2. ShapeOK(th[u])' /\ PlaceOK(th[u])'
  BY DEF CallOK, ShapeOK, PlaceOK
<1>3. ProbeOK(th[u])' /\ HoldOK(th[u])' /\ WriteOK(th[u])'
  BY <1>1 DEF CallOK, ProbeOK, HoldOK, Holding, WriteOK
<1>4. LookupOK(th[u])'
  BY <1>1 DEF CallOK, LookupOK, Due
<1> QED
  BY <1>2, <1>3, <1>4 DEF CallOK

LEMMA GotoStep ==
  ASSUME IInv, grow = "no", NEW t \in Threads, NEW d \in Calls, Goto(t, d), CallOK(d),
         th[t].pc \notin {"key", "count", "done"}, t \notin Owners,
         d.pc \notin {"addr", "count"}, d.pc = "len" => d.op = "insert",
         d.op = "insert" => th[t].op = "insert" \/ \A u \in Threads : ~ Writing(u),
         d.pc # "idle" /\ d.op # "lookup" => Writing(t) \/ \A u \in Threads : th[u].op # "insert"
  PROVE  IInv'
<1>1. /\ th' \in [Threads -> Calls] /\ th'[t] = d /\ \A u \in Threads : u # t => th'[u] = th[u]
      /\ UNCHANGED <<tables, gTable, gCapacity, gSize, grow, copied, known>>
  BY DEF Goto, sharedVars, growVars, IInv, TypeOK
<1>2. Current' = Current /\ CurCap' = CurCap
  BY <1>1 DEF Current, CurCap
<1>3. TypeOK' /\ SeqInv'
  BY <1>1 DEF IInv, TypeOK, SeqInv
<1>4. CallOK(th[t])'
  <2>1. ShapeOK(th[t])' /\ PlaceOK(th[t])'
    BY <1>1 DEF CallOK, ShapeOK, PlaceOK
  <2>2. ProbeOK(th[t])' /\ HoldOK(th[t])' /\ WriteOK(th[t])'
    BY <1>1, <1>2 DEF CallOK, ProbeOK, HoldOK, Holding, WriteOK
  <2>3. LookupOK(th[t])'
    BY <1>1, <1>2 DEF CallOK, LookupOK, Due
  <2> QED
    BY <2>1, <2>2, <2>3 DEF CallOK
<1>5. CallInv'
  <2> SUFFICES ASSUME NEW u \in Threads PROVE CallOK(th[u])'
    BY DEF CallInv
  <2>1. CASE u # t
    BY <1>1, <2>1, SameCall DEF IInv, CallInv
  <2> QED
    BY <1>4, <2>1
<1>6. Owners' = Owners
  BY <1>1 DEF Owners
<1>7. OwnerInv'
  <2>1. \A u, v \in Owners' : th'[u].key = th'[v].key => u = v
    BY <1>1, <1>6 DEF IInv, OwnerInv, Owners
  <2>2. ASSUME NEW u \in Threads, NEW v \in Threads, th'[u].op = "insert",
               th'[v].pc # "idle", th'[v].op # "lookup"
        PROVE  u = v
    <3>1. CASE u # t /\ v # t
      BY <1>1, <2>2, <3>1 DEF IInv, OwnerInv, Writing
    <3>2. CASE u = t /\ v # t
      BY <1>1, <2>2, <3>2 DEF IInv, OwnerInv, Writing
    <3>3. CASE u # t /\ v = t
      BY <1>1, <2>2, <3>3 DEF IInv, OwnerInv
    <3> QED
      BY <3>1, <3>2, <3>3
  <2> QED
    BY <2>1, <2>2 DEF OwnerInv, Writing
<1>8. TableInv'
  <2>1. GoodTable(Current, CurCap)'
    BY <1>2 DEF IInv, TableInv
  <2>2. FreeInv'
    BY <1>1, <1>2 DEF IInv, TableInv, FreeInv
  <2>3. KnownInv'
    BY <1>1, <1>2 DEF IInv, TableInv, KnownInv
  <2> QED
    BY <2>1, <2>2, <2>3 DEF TableInv
<1>9. CountInv'
  BY <1>1, <1>2, <1>6 DEF IInv, CountInv
<1>10. GrowInv'
  BY <1>1, <1>2 DEF IInv, GrowInv
<1> QED
  BY <1>3, <1>5, <1>7, <1>8, <1>9, <1>10 DEF IInv

-----------------------------------------------------------------------------
(* The calls' steps through the table.                                     *)

LEMMA ThreadFacts ==
  ASSUME IInv, NEW t \in Threads, th[t].pc # "idle"
  PROVE  /\ grow = "no" /\ CurCap = gCapacity /\ gCapacity \in Nat \ {0}
         /\ DOMAIN Current = Ids(gCapacity)
         /\ th[t] \in Calls /\ th[t].key \in Keys /\ th[t].at \in Keys
         /\ CallOK(th[t]) /\ GoodTable(Current, gCapacity)
<1>1. grow = "no" /\ CurCap = gCapacity
  BY DEF IInv, GrowInv
<1>2. CallOK(th[t]) /\ th[t] \in Calls
  BY DEF IInv, CallInv, TypeOK
<1> QED
  BY <1>1, <1>2, CurrentFacts DEF IInv, TableInv, CallOK, ShapeOK

LEMMA SlotFacts ==
  ASSUME IInv, NEW t \in Threads, th[t].pc \notin {"idle", "table", "capacity", "done"}
  PROVE  /\ th[t].tab = gTable /\ th[t].cap = gCapacity
         /\ th[t].n \in 0 .. gCapacity /\ (th[t].n < th[t].cap => th[t].n \in Ids(gCapacity))
         /\ th[t].pc # "probe" => th[t].n \in Ids(gCapacity)
         /\ th[t].i = Pos(th[t].at, gCapacity, th[t].n) /\ th[t].i \in Ids(gCapacity)
         /\ Slot(t) = Current[th[t].i] /\ Slot(t) \in Slots
         /\ KeysRead(t) = {Slot(t).key} /\ AddrsRead(t) = {Slot(t).addr} /\ LensRead(t) = {Slot(t).len}
<1>1. /\ th[t].tab = gTable /\ th[t].cap = gCapacity /\ th[t].n \in 0 .. gCapacity
      /\ th[t].pc # "probe" => th[t].n < gCapacity
      /\ th[t].i = Pos(th[t].at, gCapacity, th[t].n)
  BY ThreadFacts DEF CallOK, PlaceOK
<1>2. th[t].i \in Ids(gCapacity)
  BY <1>1, ThreadFacts, PosFacts
<1>3. Slot(t) = Current[th[t].i] /\ Slot(t) \in Slots
  BY <1>1, <1>2, ThreadFacts DEF Slot, Current, GoodTable
<1>4. InTable(t)
  <2>1. Cardinality(DOMAIN tables[th[t].tab]) = gCapacity
    BY <1>1, ThreadFacts DEF CurCap, Current
  <2> QED
    BY <1>2, <2>1, ThreadFacts DEF InTable, Ids
<1>5. \A n \in 0 .. gCapacity : n < gCapacity => n \in Ids(gCapacity)
  BY ThreadFacts DEF Ids
<1> QED
  BY <1>1, <1>2, <1>3, <1>4, <1>5 DEF KeysRead, AddrsRead, LensRead

\* Reading the table pointer.
LEMMA LoadTableStep == ASSUME IInv, NEW t \in Threads, LoadTable(t) PROVE IInv'
<1> DEFINE d == [th[t] EXCEPT !.pc = "capacity", !.tab = gTable]
<1>1. th[t].pc = "table" /\ Goto(t, d)
  BY DEF LoadTable
<1>2. th[t] \in Calls /\ grow = "no" /\ CallOK(th[t])
  BY <1>1, ThreadFacts
<1>3. /\ d \in Calls /\ d.pc = "capacity" /\ d.tab = gTable /\ d.op = th[t].op /\ d.key = th[t].key
      /\ d.new = th[t].new /\ d.at = th[t].at /\ d.addr = th[t].addr /\ d.len = th[t].len
      /\ d.before = th[t].before
  <2>1. gTable \in Nat
    BY DEF IInv, SeqInv
  <2> QED
    BY <1>2, <2>1 DEF Calls
<1> HIDE DEF d
<1>4. ShapeOK(d) /\ PlaceOK(d) /\ ProbeOK(d) /\ HoldOK(d) /\ WriteOK(d)
  BY <1>1, <1>2, <1>3 DEF CallOK, ShapeOK, PlaceOK, ProbeOK, HoldOK, Holding, WriteOK
<1>5. LookupOK(d)
  BY <1>1, <1>2, <1>3 DEF CallOK, LookupOK, Due
<1> QED
  BY <1>1, <1>2, <1>3, <1>4, <1>5, GotoStep DEF CallOK, Owners, Writing

\* Reading the capacity: the probe starts.
LEMMA LoadCapacityStep == ASSUME IInv, NEW t \in Threads, LoadCapacity(t) PROVE IInv'
<1> DEFINE d == [th[t] EXCEPT !.pc = "probe", !.cap = gCapacity,
                              !.i = Pos(th[t].at, gCapacity, 0), !.n = 0]
<1>1. th[t].pc = "capacity" /\ Goto(t, d)
  BY DEF LoadCapacity
<1>2. /\ th[t] \in Calls /\ grow = "no" /\ CallOK(th[t]) /\ gCapacity \in Nat \ {0}
      /\ th[t].at \in Keys
  BY <1>1, ThreadFacts
<1>3. Pos(th[t].at, gCapacity, 0) \in Nat /\ Ids(gCapacity) \subseteq Nat
  BY <1>2, PosFacts DEF Ids
<1>4. /\ d \in Calls /\ d.pc = "probe" /\ d.tab = th[t].tab /\ d.op = th[t].op /\ d.key = th[t].key
      /\ d.new = th[t].new /\ d.at = th[t].at /\ d.addr = th[t].addr /\ d.len = th[t].len
      /\ d.before = th[t].before /\ d.cap = gCapacity /\ d.n = 0 /\ d.i = Pos(d.at, gCapacity, 0)
  BY <1>2, <1>3 DEF Calls
<1> HIDE DEF d
<1>5. ShapeOK(d) /\ PlaceOK(d)
  BY <1>1, <1>2, <1>4 DEF CallOK, ShapeOK, PlaceOK
<1>6. \A q \in Ids(gCapacity) : ~ (q < d.n)
  BY <1>4 DEF Ids
<1>7. ProbeOK(d) /\ HoldOK(d) /\ WriteOK(d)
  BY <1>1, <1>2, <1>4, <1>6 DEF CallOK, ProbeOK, HoldOK, Holding, WriteOK
<1>8. LookupOK(d)
  BY <1>1, <1>2, <1>4, <1>6 DEF CallOK, LookupOK, Due
<1> QED
  BY <1>1, <1>2, <1>4, <1>5, <1>7, <1>8, GotoStep DEF CallOK, Owners, Writing

\* The slot belongs to another key: to the next one.
LEMMA AdvanceStep ==
  ASSUME IInv, NEW t \in Threads, th[t].pc \in {"probe", "cas"}, th[t].n < th[t].cap,
         Slot(t).key \notin {0, th[t].at}, Goto(t, Advanced(t))
  PROVE  IInv'
<1> DEFINE d == Advanced(t)
<1>1. /\ th[t] \in Calls /\ grow = "no" /\ CallOK(th[t]) /\ gCapacity \in Nat \ {0}
      /\ th[t].at \in Keys /\ DOMAIN Current = Ids(gCapacity)
  BY ThreadFacts
<1>2. /\ th[t].cap = gCapacity /\ th[t].n \in Ids(gCapacity) /\ th[t].tab = gTable
      /\ th[t].i = Pos(th[t].at, gCapacity, th[t].n)
      /\ Current[Pos(th[t].at, gCapacity, th[t].n)].key \notin {0, th[t].at}
  BY SlotFacts
<1>3. (th[t].i + 1) % gCapacity = Pos(th[t].at, gCapacity, th[t].n + 1)
  BY <1>1, <1>2, PosFacts
<1>4. th[t].n + 1 \in 0 .. gCapacity /\ Pos(th[t].at, gCapacity, th[t].n + 1) \in Nat
  <2>1. th[t].n + 1 \in 0 .. gCapacity
    BY <1>1, <1>2 DEF Ids
  <2>2. Ids(gCapacity) \subseteq Nat
    BY <1>1 DEF Ids
  <2> QED
    BY <1>1, <2>1, <2>2, PosFacts
<1>5. /\ d \in Calls /\ d.pc = "probe" /\ d.tab = gTable /\ d.op = th[t].op /\ d.key = th[t].key
      /\ d.new = th[t].new /\ d.at = th[t].at /\ d.addr = th[t].addr /\ d.len = th[t].len
      /\ d.before = th[t].before /\ d.cap = gCapacity /\ d.n = th[t].n + 1
      /\ d.i = Pos(d.at, gCapacity, d.n)
  <2> DEFINE m == th[t].n + 1
             j == Pos(th[t].at, gCapacity, m)
  <2>1. m \in Nat /\ j \in Nat
    BY <1>4
  <2>2. d = [th[t] EXCEPT !.i = j, !.n = m, !.pc = "probe"]
    BY <1>1, <1>2, <1>3 DEF Advanced, Calls
  <2>3. j = Pos(th[t].at, gCapacity, m)
    OBVIOUS
  <2> HIDE DEF d, j
  <2>4. m = th[t].n + 1
    OBVIOUS
  <2> HIDE DEF m
  <2> QED
    BY <1>1, <1>2, <2>1, <2>2, <2>3, <2>4 DEF Calls
<1> HIDE DEF d
<1>6. ShapeOK(d) /\ PlaceOK(d)
  BY <1>1, <1>4, <1>5 DEF CallOK, ShapeOK, PlaceOK
<1>7. \A q \in Ids(gCapacity) : q < d.n => q < th[t].n \/ q = th[t].n
  BY <1>2, <1>5 DEF Ids
<1>8. ProbeOK(d) /\ HoldOK(d) /\ WriteOK(d)
  BY <1>1, <1>2, <1>5, <1>7 DEF CallOK, ShapeOK, ProbeOK, HoldOK, Holding, WriteOK
<1>9. LookupOK(d)
  BY <1>1, <1>2, <1>5, <1>7 DEF CallOK, ShapeOK, LookupOK, Due
<1> QED
  BY <1>1, <1>5, <1>6, <1>8, <1>9, GotoStep DEF CallOK, Owners, Writing, d

LEMMA ProbeOtherStep == ASSUME IInv, NEW t \in Threads, ProbeOther(t) PROVE IInv'
<1>1. th[t].pc = "probe" /\ th[t].n < th[t].cap /\ Goto(t, Advanced(t))
  BY DEF ProbeOther
<1>2. Slot(t).key \notin {0, th[t].at}
  BY <1>1, SlotFacts DEF ProbeOther
<1> QED
  BY <1>1, <1>2, AdvanceStep

-----------------------------------------------------------------------------
(* Lookups.                                                                *)

LEMMA BeforeKeys == ASSUME IInv, NEW t \in Threads, th[t].pc # "idle"
                    PROVE  th[t].before \subseteq Keys /\ 0 \notin th[t].before
  BY ThreadFacts, KeysFacts DEF Calls

\* A key that is due is there, with its address.
LEMMA DueMapped ==
  ASSUME IInv, NEW t \in Threads, th[t].pc # "idle", NEW k \in Due(th[t])
  PROVE  Mapped(Current, k)
<1>1. LookupOK(th[t])
  BY ThreadFacts DEF CallOK
<1> QED
  BY <1>1 DEF LookupOK, Due, IInv, TableInv, KnownInv

\* A lookup that ends at an address that is not due.
LEMMA MissStep ==
  ASSUME IInv, NEW t \in Threads, th[t].pc \in {"probe", "readAddr"}, th[t].op \in {"lookup", "chase"},
         th[t].at \notin Due(th[t]), Goto(t, Missed(t))
  PROVE  IInv'
<1> DEFINE d == Missed(t)
<1>1. th[t] \in Calls /\ grow = "no" /\ CallOK(th[t])
  BY ThreadFacts
<1>2. /\ d \in Calls /\ d.pc = "done" /\ d.tab = th[t].tab /\ d.op = th[t].op /\ d.key = th[t].key
      /\ d.new = th[t].new /\ d.at = th[t].at /\ d.addr = th[t].addr /\ d.len = th[t].len
      /\ d.before = th[t].before
  BY <1>1 DEF Calls, Missed, Returned
<1> HIDE DEF d
<1>3. ShapeOK(d) /\ PlaceOK(d) /\ ProbeOK(d) /\ HoldOK(d) /\ WriteOK(d)
  BY <1>1, <1>2 DEF CallOK, ShapeOK, PlaceOK, ProbeOK, HoldOK, Holding, WriteOK
<1>4. LookupOK(d)
  BY <1>1, <1>2, BeforeKeys DEF CallOK, LookupOK, Due
<1> QED
  BY <1>1, <1>2, <1>3, <1>4, GotoStep DEF CallOK, Owners, Writing, d

LEMMA ProbeMissStep == ASSUME IInv, NEW t \in Threads, ProbeMiss(t) PROVE IInv'
<1> DEFINE k == th[t].at
           n == th[t].n
<1>1. /\ th[t].pc = "probe" /\ th[t].op \in {"lookup", "chase"} /\ Goto(t, Missed(t))
      /\ n >= th[t].cap \/ 0 \in KeysRead(t)
  BY DEF ProbeMiss
<1>2. /\ GoodTable(Current, gCapacity) /\ DOMAIN Current = Ids(gCapacity) /\ gCapacity \in Nat \ {0}
      /\ k \in Keys /\ k # 0 /\ CallOK(th[t])
  BY <1>1, ThreadFacts, KeysFacts
<1>3. n \in 0 .. gCapacity /\ (n < gCapacity => Current[Pos(k, gCapacity, n)].key = 0)
  <2>1. /\ n \in 0 .. gCapacity /\ th[t].cap = gCapacity /\ KeysRead(t) = {Slot(t).key}
        /\ Slot(t) = Current[Pos(k, gCapacity, n)]
    BY <1>1, SlotFacts
  <2>2. n >= gCapacity \/ Slot(t).key = 0
    BY <1>1, <2>1
  <2> QED
    BY <1>2, <2>1, <2>2
<1>4. k \notin Due(th[t])
  <2> SUFFICES ASSUME k \in Due(th[t]) PROVE FALSE
    OBVIOUS
  <2>1. PICK j \in Ids(gCapacity) : Current[j].key = k
    BY <1>1, <1>2, DueMapped DEF Mapped
  <2>2. PICK p \in Ids(gCapacity) : /\ j = Pos(k, gCapacity, p)
                                    /\ \A q \in Ids(gCapacity) : q < p => Current[Pos(k, gCapacity, q)].key # 0
    BY <1>2, <2>1 DEF GoodTable, PathOK
  <2>3. ~ (p < n)
    BY <1>1, <1>2, <2>1, <2>2 DEF CallOK, LookupOK
  <2>4. n \in Ids(gCapacity) /\ ~ (n < p) /\ n # p
    <3>1. n \in Ids(gCapacity)
      BY <1>2, <1>3, <2>3 DEF Ids
    <3>2. n < gCapacity
      BY <1>2, <3>1 DEF Ids
    <3> QED
      BY <1>2, <1>3, <2>1, <2>2, <3>1, <3>2
  <2> QED
    BY <2>3, <2>4 DEF Ids
<1> QED
  BY <1>1, <1>4, MissStep

LEMMA ProbeHitStep == ASSUME IInv, NEW t \in Threads, ProbeHit(t) PROVE IInv'
<1> DEFINE d == [th[t] EXCEPT !.pc = "readAddr"]
<1>1. th[t].pc = "probe" /\ th[t].op \in {"lookup", "chase"} /\ th[t].n < th[t].cap /\ Goto(t, d)
  BY DEF ProbeHit
<1>2. th[t] \in Calls /\ grow = "no" /\ CallOK(th[t]) /\ gCapacity \in Nat \ {0}
  BY <1>1, ThreadFacts
<1>3. Current[th[t].i].key = th[t].at /\ th[t].n < gCapacity
  BY <1>1, SlotFacts DEF ProbeHit
<1>4. /\ d \in Calls /\ d.pc = "readAddr" /\ d.tab = th[t].tab /\ d.op = th[t].op /\ d.key = th[t].key
      /\ d.new = th[t].new /\ d.at = th[t].at /\ d.addr = th[t].addr /\ d.len = th[t].len
      /\ d.before = th[t].before /\ d.cap = th[t].cap /\ d.n = th[t].n /\ d.i = th[t].i
  BY <1>2 DEF Calls
<1> HIDE DEF d
<1>5. ShapeOK(d) /\ PlaceOK(d) /\ ProbeOK(d) /\ HoldOK(d) /\ WriteOK(d)
  BY <1>1, <1>2, <1>3, <1>4 DEF CallOK, ShapeOK, PlaceOK, ProbeOK, HoldOK, Holding, WriteOK
<1>6. LookupOK(d)
  BY <1>1, <1>2, <1>3, <1>4 DEF CallOK, LookupOK, Due
<1> QED
  BY <1>1, <1>2, <1>4, <1>5, <1>6, GotoStep DEF CallOK, Owners, Writing

LEMMA ReadAddrStep == ASSUME IInv, NEW t \in Threads, ReadAddr(t) PROVE IInv'
<1> DEFINE a == Slot(t).addr
           d == [th[t] EXCEPT !.pc = "readLen", !.addr = a]
<1>1. th[t].pc = "readAddr" /\ Goto(t, IF a \in {0, th[t].addr} THEN Missed(t) ELSE d)
  BY SlotFacts DEF ReadAddr
<1>2. /\ th[t] \in Calls /\ grow = "no" /\ CallOK(th[t]) /\ gCapacity \in Nat \ {0}
      /\ GoodTable(Current, gCapacity) /\ DOMAIN Current = Ids(gCapacity)
      /\ th[t].at \in Keys /\ th[t].at # 0 /\ th[t].key \in Keys
  BY <1>1, ThreadFacts, KeysFacts
<1>3. /\ th[t].i \in Ids(gCapacity) /\ Current[th[t].i].addr = a /\ Current[th[t].i] \in Slots
      /\ th[t].n < gCapacity
  BY <1>1, <1>2, SlotFacts DEF CallOK, PlaceOK
<1>4. Current[th[t].i].key = th[t].at /\ th[t].op \in {"lookup", "chase"}
  BY <1>1, <1>2 DEF CallOK, ShapeOK, LookupOK
<1>5. a \in Addresses \cup {0}
  BY <1>3 DEF Slots
<1>6. a # 0 => a \in Copies[th[t].at] /\ a # th[t].at
  BY <1>2, <1>3, <1>4, KeysFacts DEF GoodTable, ValueOK
<1>7. CASE a \in {0, th[t].addr}
  <2>1. a = 0
    BY <1>1, <1>2, <1>4, <1>6, <1>7 DEF CallOK, LookupOK
  <2>2. th[t].at \notin Due(th[t])
    <3> SUFFICES ASSUME th[t].at \in Due(th[t]) PROVE FALSE
      OBVIOUS
    <3>1. PICK j \in Ids(gCapacity) : Current[j].key = th[t].at /\ Current[j].addr # 0
      BY <1>1, <1>2, DueMapped DEF Mapped
    <3>2. j = th[t].i
      BY <1>2, <1>3, <1>4, <3>1 DEF GoodTable, Unique
    <3> QED
      BY <1>3, <2>1, <3>1, <3>2
  <2> QED
    BY <1>1, <1>4, <1>7, <2>2, MissStep
<1>8. CASE a \notin {0, th[t].addr}
  <2>1. /\ d \in Calls /\ d.pc = "readLen" /\ d.tab = th[t].tab /\ d.op = th[t].op /\ d.key = th[t].key
        /\ d.new = th[t].new /\ d.at = th[t].at /\ d.addr = a /\ d.len = th[t].len
        /\ d.before = th[t].before /\ d.cap = th[t].cap /\ d.n = th[t].n /\ d.i = th[t].i
    BY <1>2, <1>5 DEF Calls
  <2>2. Map(Current, th[t].at) = a
    BY <1>2, <1>3, <1>4, MapIs DEF GoodTable
  <2>3. a \in Chain(Current, th[t].key)
    <3>1. Current \in [Ids(gCapacity) -> Slots]
      BY <1>2 DEF GoodTable
    <3>2. CASE th[t].addr = 0
      BY <1>1, <1>2, <1>4, <1>8, <2>2, <3>1, <3>2, ChainStart DEF CallOK, LookupOK
    <3>3. CASE th[t].addr # 0
      <4>1. th[t].at \in Chain(Current, th[t].key)
        BY <1>1, <1>2, <1>4, <3>3 DEF CallOK, LookupOK
      <4> QED
        BY <1>2, <1>8, <2>2, <3>1, <4>1, ChainNext
    <3> QED
      BY <3>2, <3>3
  <2>4. Goto(t, d)
    BY <1>1, <1>8
  <2> HIDE DEF d, a
  <2>5. ShapeOK(d) /\ PlaceOK(d) /\ ProbeOK(d) /\ HoldOK(d) /\ WriteOK(d)
    BY <1>1, <1>2, <1>3, <1>4, <2>1 DEF CallOK, ShapeOK, PlaceOK, ProbeOK, HoldOK, Holding, WriteOK
  <2>6. LookupOK(d)
    BY <1>1, <1>2, <1>3, <1>4, <1>8, <2>1, <2>3 DEF CallOK, LookupOK, Due
  <2> QED
    BY <1>1, <1>2, <1>4, <2>1, <2>4, <2>5, <2>6, GotoStep DEF CallOK, Owners, Writing
<1> QED
  BY <1>7, <1>8

LEMMA ReadLenStep == ASSUME IInv, NEW t \in Threads, ReadLen(t) PROVE IInv'
<1> DEFINE l == Slot(t).len
           d == IF th[t].addr \in Keys
                THEN [th[t] EXCEPT !.pc = "table", !.len = l, !.at = th[t].addr]
                ELSE Returned(t, th[t].addr, l)
<1>1. th[t].pc = "readLen" /\ Goto(t, d)
  BY SlotFacts DEF ReadLen
<1>2. /\ th[t] \in Calls /\ grow = "no" /\ CallOK(th[t]) /\ gCapacity \in Nat \ {0}
      /\ GoodTable(Current, gCapacity) /\ th[t].at \in Keys /\ th[t].at # 0
  BY <1>1, ThreadFacts, KeysFacts
<1>3. /\ Current[th[t].i].key = th[t].at /\ th[t].op \in {"lookup", "chase"}
      /\ th[t].addr # 0 /\ Current[th[t].i].addr = th[t].addr
      /\ th[t].addr \in Chain(Current, th[t].key)
  BY <1>1, <1>2 DEF CallOK, ShapeOK, LookupOK
<1>4. th[t].i \in Ids(gCapacity) /\ Current[th[t].i].len = l
  BY <1>1, SlotFacts
<1>5. l = th[t].addr
  BY <1>2, <1>3, <1>4 DEF GoodTable, ValueOK
<1>6. th[t].addr \notin Keys => th[t].addr \notin th[t].before
  BY <1>1, BeforeKeys
<1> HIDE DEF l
<1>7. /\ d \in Calls /\ d.pc = IF th[t].addr \in Keys THEN "table" ELSE "done"
      /\ d.tab = th[t].tab /\ d.op = th[t].op /\ d.key = th[t].key
      /\ d.new = th[t].new /\ d.at = (IF th[t].addr \in Keys THEN th[t].addr ELSE th[t].at)
      /\ d.addr = th[t].addr /\ d.len = th[t].addr /\ d.before = th[t].before
  BY <1>2, <1>5 DEF Calls, Returned
<1> HIDE DEF d
<1>8. ShapeOK(d) /\ PlaceOK(d) /\ ProbeOK(d) /\ HoldOK(d) /\ WriteOK(d)
  BY <1>1, <1>2, <1>3, <1>7 DEF CallOK, ShapeOK, PlaceOK, ProbeOK, HoldOK, Holding, WriteOK
<1>9. LookupOK(d)
  BY <1>1, <1>2, <1>3, <1>6, <1>7 DEF CallOK, LookupOK, Due
<1> QED
  BY <1>1, <1>2, <1>3, <1>7, <1>8, <1>9, GotoStep DEF CallOK, Owners, Writing

-----------------------------------------------------------------------------
(* Writers, before they have a slot.                                       *)

\* Every slot was probed.
LEMMA InsertFullStep == ASSUME IInv, NEW t \in Threads, InsertFull(t) PROVE IInv'
<1> DEFINE d == Returned(t, 0, 0)
           k == th[t].key
<1>1. /\ th[t].pc = "probe" /\ th[t].op \in {"cas", "insert"} /\ th[t].n >= th[t].cap /\ Goto(t, d)
  BY DEF InsertFull
<1>2. /\ th[t] \in Calls /\ grow = "no" /\ CallOK(th[t]) /\ gCapacity \in Nat \ {0}
      /\ DOMAIN Current = Ids(gCapacity) /\ k \in Keys
  BY <1>1, ThreadFacts
<1>3. th[t].n = gCapacity
  <2>1. th[t].cap = gCapacity /\ th[t].n \in 0 .. gCapacity
    BY <1>1, SlotFacts
  <2> QED
    BY <1>1, <1>2, <2>1
<1>4. \A j \in DOMAIN Current : Current[j].key \notin {0, k}
  <2> SUFFICES ASSUME NEW j \in Ids(gCapacity) PROVE Current[j].key \notin {0, k}
    BY <1>2
  <2>1. PICK q \in Ids(gCapacity) : Pos(k, gCapacity, q) = j
    BY <1>2, PosFacts
  <2>2. q < th[t].n
    BY <1>2, <1>3, <2>1 DEF Ids
  <2> QED
    BY <1>1, <1>2, <2>1, <2>2 DEF CallOK, ProbeOK
<1>5. /\ d \in Calls /\ d.pc = "done" /\ d.tab = th[t].tab /\ d.op = th[t].op /\ d.key = th[t].key
      /\ d.new = th[t].new /\ d.at = th[t].at /\ d.addr = 0 /\ d.len = 0
      /\ d.before = th[t].before
  BY <1>2 DEF Calls, Returned
<1> HIDE DEF d
<1>6. ShapeOK(d) /\ PlaceOK(d) /\ ProbeOK(d) /\ HoldOK(d) /\ LookupOK(d)
  BY <1>1, <1>2, <1>5 DEF CallOK, ShapeOK, PlaceOK, ProbeOK, HoldOK, Holding, LookupOK
<1>7. WriteOK(d)
  BY <1>4, <1>5 DEF WriteOK
<1> QED
  BY <1>1, <1>2, <1>5, <1>6, <1>7, GotoStep DEF CallOK, Owners, Writing

\* The key is there already.
LEMMA ToSpin ==
  ASSUME IInv, NEW t \in Threads, th[t].pc \in {"probe", "cas"}, th[t].op = "cas",
         th[t].n < th[t].cap, Slot(t).key = th[t].key, Goto(t, [th[t] EXCEPT !.pc = "spin"])
  PROVE  IInv'
<1> DEFINE d == [th[t] EXCEPT !.pc = "spin"]
<1>1. th[t] \in Calls /\ grow = "no" /\ CallOK(th[t]) /\ gCapacity \in Nat \ {0}
  BY ThreadFacts
<1>2. Current[th[t].i].key = th[t].key /\ th[t].n < gCapacity
  BY SlotFacts
<1>3. /\ d \in Calls /\ d.pc = "spin" /\ d.tab = th[t].tab /\ d.op = "cas" /\ d.key = th[t].key
      /\ d.new = th[t].new /\ d.at = th[t].at /\ d.addr = th[t].addr /\ d.len = th[t].len
      /\ d.before = th[t].before /\ d.cap = th[t].cap /\ d.n = th[t].n /\ d.i = th[t].i
  BY <1>1 DEF Calls
<1> HIDE DEF d
<1>4. ShapeOK(d) /\ PlaceOK(d) /\ ProbeOK(d) /\ HoldOK(d) /\ WriteOK(d) /\ LookupOK(d)
  BY <1>1, <1>2, <1>3 DEF CallOK, ShapeOK, PlaceOK, ProbeOK, HoldOK, Holding, WriteOK, LookupOK
<1> QED
  BY <1>1, <1>3, <1>4, GotoStep DEF CallOK, Owners, Writing, d

LEMMA CasFoundStep == ASSUME IInv, NEW t \in Threads, CasFound(t) PROVE IInv'
  BY ToSpin DEF CasFound

LEMMA CasFreeStep == ASSUME IInv, NEW t \in Threads, CasFree(t) PROVE IInv'
<1> DEFINE d == [th[t] EXCEPT !.pc = "cas"]
<1>1. th[t].pc = "probe" /\ th[t].op = "cas" /\ th[t].n < th[t].cap /\ Goto(t, d)
  BY DEF CasFree
<1>2. th[t] \in Calls /\ grow = "no" /\ CallOK(th[t]) /\ gCapacity \in Nat \ {0}
  BY <1>1, ThreadFacts
<1>3. th[t].n < gCapacity
  BY <1>1, SlotFacts
<1>4. /\ d \in Calls /\ d.pc = "cas" /\ d.tab = th[t].tab /\ d.op = "cas" /\ d.key = th[t].key
      /\ d.new = th[t].new /\ d.at = th[t].at /\ d.addr = th[t].addr /\ d.len = th[t].len
      /\ d.before = th[t].before /\ d.cap = th[t].cap /\ d.n = th[t].n /\ d.i = th[t].i
  BY <1>1, <1>2 DEF Calls
<1> HIDE DEF d
<1>5. ShapeOK(d) /\ PlaceOK(d) /\ ProbeOK(d) /\ HoldOK(d) /\ WriteOK(d) /\ LookupOK(d)
  BY <1>1, <1>2, <1>3, <1>4 DEF CallOK, ShapeOK, PlaceOK, ProbeOK, HoldOK, Holding, WriteOK, LookupOK
<1> QED
  BY <1>1, <1>2, <1>4, <1>5, GotoStep DEF CallOK, Owners, Writing

\* The CAS fails: to the same key the loser waits, to another it advances.
LEMMA CasLoseStep == ASSUME IInv, NEW t \in Threads, CasLose(t) PROVE IInv'
<1>1. /\ th[t].pc = "cas" /\ Slot(t).key # 0
      /\ Goto(t, IF Slot(t).key = th[t].key THEN [th[t] EXCEPT !.pc = "spin"] ELSE Advanced(t))
  BY DEF CasLose
<1>2. th[t].op = "cas" /\ th[t].at = th[t].key /\ th[t].n < th[t].cap
  <2>1. CallOK(th[t])
    BY <1>1, ThreadFacts
  <2> QED
    BY <1>1, <2>1 DEF CallOK, ShapeOK, PlaceOK
<1> QED
  BY <1>1, <1>2, ToSpin, AdvanceStep

\* The winner's address is there: the loser looks the key up.
LEMMA SpinStep == ASSUME IInv, NEW t \in Threads, Spin(t) PROVE IInv'
<1> DEFINE d == [th[t] EXCEPT !.pc = "table", !.op = "chase", !.at = th[t].key]
<1>1. th[t].pc = "spin" /\ Slot(t).addr # 0 /\ Goto(t, d)
  BY DEF Spin
<1>2. /\ th[t] \in Calls /\ grow = "no" /\ CallOK(th[t]) /\ th[t].key \in Keys
      /\ DOMAIN Current = Ids(gCapacity)
  BY <1>1, ThreadFacts
<1>3. th[t].op = "cas" /\ th[t].addr = 0 /\ th[t].len = 0 /\ Current[th[t].i].key = th[t].key
  BY <1>1, <1>2 DEF CallOK, ShapeOK, ProbeOK
<1>4. Mapped(Current, th[t].key)
  BY <1>1, <1>2, <1>3, SlotFacts DEF Mapped
<1>5. /\ d \in Calls /\ d.pc = "table" /\ d.op = "chase" /\ d.key = th[t].key
      /\ d.new = th[t].new /\ d.at = th[t].key /\ d.addr = 0 /\ d.len = 0
      /\ d.before = th[t].before
  BY <1>2, <1>3 DEF Calls
<1> HIDE DEF d
<1>6. ShapeOK(d) /\ PlaceOK(d) /\ ProbeOK(d) /\ HoldOK(d) /\ WriteOK(d)
  BY <1>2, <1>5 DEF CallOK, ShapeOK, PlaceOK, ProbeOK, HoldOK, Holding, WriteOK
<1>7. LookupOK(d)
  BY <1>1, <1>2, <1>4, <1>5 DEF CallOK, LookupOK
<1> QED
  BY <1>1, <1>2, <1>3, <1>5, <1>6, <1>7, GotoStep DEF CallOK, Owners, Writing

\* The single writer takes a free slot, since its key is not in the table.
LEMMA InsertSlotStep == ASSUME IInv, NEW t \in Threads, InsertSlot(t) PROVE IInv'
<1> DEFINE d == [th[t] EXCEPT !.pc = "len", !.fresh = (Slot(t).key = 0)]
<1>1. /\ th[t].pc = "probe" /\ th[t].op = "insert" /\ th[t].n < th[t].cap /\ Goto(t, d)
      /\ Slot(t).key \in {0, th[t].key}
  BY DEF InsertSlot
<1>2. /\ th[t] \in Calls /\ grow = "no" /\ CallOK(th[t]) /\ gCapacity \in Nat \ {0}
      /\ DOMAIN Current = Ids(gCapacity)
  BY <1>1, ThreadFacts
<1>3. /\ th[t].i \in Ids(gCapacity) /\ Current[th[t].i].key \in {0, th[t].key} /\ th[t].n < gCapacity
      /\ Slot(t) = Current[th[t].i]
  BY <1>1, SlotFacts
<1>4. Current[th[t].i].key = 0
  BY <1>1, <1>2, <1>3 DEF CallOK, ProbeOK
<1>5. Current[th[t].i].addr = 0
  <2> SUFFICES ASSUME Current[th[t].i].addr # 0 PROVE FALSE
    OBVIOUS
  <2>1. PICK u \in Threads : th[u].op = "insert" /\ th[u].pc = "key"
    BY <1>2, <1>3, <1>4 DEF IInv, TableInv, FreeInv
  <2>2. u = t
    BY <1>1, <2>1 DEF IInv, OwnerInv, Writing
  <2> QED
    BY <1>1, <2>1, <2>2
<1>6. /\ d \in Calls /\ d.pc = "len" /\ d.tab = th[t].tab /\ d.op = "insert" /\ d.key = th[t].key
      /\ d.new = th[t].new /\ d.at = th[t].at /\ d.addr = th[t].addr /\ d.len = th[t].len
      /\ d.before = th[t].before /\ d.cap = th[t].cap /\ d.n = th[t].n /\ d.i = th[t].i
  <2>1. d \in Calls
    <3>1. (Slot(t).key = 0) = TRUE
      BY <1>3, <1>4
    <3>2. [th[t] EXCEPT !.pc = "len", !.fresh = TRUE] \in Calls
      BY <1>2 DEF Calls
    <3> QED
      BY <3>1, <3>2
  <2>2. /\ d.pc = "len" /\ d.tab = th[t].tab /\ d.op = th[t].op /\ d.key = th[t].key /\ d.new = th[t].new
        /\ d.at = th[t].at
    BY <1>2 DEF Calls
  <2>3. /\ d.addr = th[t].addr /\ d.len = th[t].len /\ d.before = th[t].before /\ d.cap = th[t].cap
        /\ d.n = th[t].n /\ d.i = th[t].i
    BY <1>2 DEF Calls
  <2> QED
    BY <1>1, <2>1, <2>2, <2>3
<1>7. d.fresh
  BY <1>2, <1>3, <1>4 DEF Calls
<1> HIDE DEF d
<1>8. ShapeOK(d) /\ PlaceOK(d)
  BY <1>1, <1>2, <1>3, <1>6 DEF CallOK, ShapeOK, PlaceOK
<1>9. ProbeOK(d) /\ WriteOK(d) /\ LookupOK(d)
  BY <1>1, <1>2, <1>6 DEF CallOK, ProbeOK, WriteOK, LookupOK
<1>10. HoldOK(d)
  BY <1>4, <1>5, <1>6, <1>7 DEF HoldOK, Holding
<1> QED
  BY <1>1, <1>2, <1>6, <1>8, <1>9, <1>10, GotoStep DEF CallOK, Owners, Writing

-----------------------------------------------------------------------------
(* Calls.                                                                  *)

LEMMA BeginStep ==
  ASSUME SoundConfig, IInv, NEW t \in Threads, NEW op \in {"lookup", "cas", "insert"}, NEW k \in Keys,
         NEW new \in Addresses \cup {0}, Begin(t, op, k, new),
         op \in {"cas", "insert"} => new \in Copies[k],
         op = "cas" => k \notin PlainKeys /\ new \notin known /\ \A u \in Threads : th[u].op # "insert",
         op = "insert" => k \in PlainKeys /\ k \notin known /\ \A u \in Threads : ~ Writing(u)
  PROVE  IInv'
<1> DEFINE d == [Idle EXCEPT !.pc = "table", !.op = op, !.key = k, !.new = new, !.at = k, !.before = known]
<1>1. th[t].pc = "idle" /\ grow = "no" /\ Goto(t, d)
  BY DEF Begin, SoundConfig, Goto
<1>2. /\ d \in Calls /\ d.pc = "table" /\ d.op = op /\ d.key = k /\ d.new = new /\ d.at = k
      /\ d.addr = 0 /\ d.len = 0 /\ d.before = known
  BY DEF Calls, Idle, IInv, TypeOK
<1> HIDE DEF d
<1>3. ShapeOK(d) /\ PlaceOK(d) /\ HoldOK(d) /\ WriteOK(d) /\ LookupOK(d)
  BY <1>2 DEF ShapeOK, PlaceOK, HoldOK, Holding, WriteOK, LookupOK
<1>4. op = "insert" => \A j \in DOMAIN Current : Current[j].key # k
  BY DEF IInv, TableInv, KnownInv, Writing
<1>5. ProbeOK(d)
  BY <1>2, <1>4 DEF ProbeOK
<1>6. (\A u \in Threads : ~ Writing(u)) => \A u \in Threads : th[u].op # "insert"
  BY IdleFacts DEF IInv, CallInv, CallOK, ShapeOK, Writing
<1>7. op # "lookup" => \A u \in Threads : th[u].op # "insert"
  BY <1>6
<1>8. t \notin Owners
  BY <1>1 DEF Owners
<1>9. CallOK(d)
  BY <1>3, <1>5 DEF CallOK
<1> QED
  BY <1>1, <1>2, <1>7, <1>8, <1>9, GotoStep

LEMMA CallStep ==
  ASSUME SoundConfig, IInv, NEW t \in Threads, Call(t)
  PROVE  IInv'
<1>1. PICK k \in Keys : \/ Lookup(t, k)
                        \/ \E a \in Copies[k] : CasInsert(t, k, a)
                        \/ \E a \in NewCaps(k) : Insert(t, k, a)
  BY DEF Call
<1>2. CASE Lookup(t, k)
  BY <1>2, BeginStep DEF Lookup
<1>3. ASSUME NEW a \in Copies[k], CasInsert(t, k, a) PROVE IInv'
  <2>1. a \in Addresses /\ a # 0
    BY <1>3, KeysFacts
  <2>2. a \notin known
    <3> SUFFICES ASSUME a \in known PROVE FALSE
      OBVIOUS
    <3>1. PICK j \in DOMAIN Current : Current[j].key = a
      BY DEF IInv, TableInv, KnownInv, Mapped
    <3>2. gTable \in DOMAIN tables
      BY DEF IInv, TypeOK
    <3> QED
      BY <1>3, <3>1, <3>2 DEF CasInsert, Fresh, Current
  <2> QED
    BY <1>3, <2>1, <2>2, BeginStep DEF CasInsert
<1>4. ASSUME NEW a \in NewCaps(k), Insert(t, k, a) PROVE IInv'
  <2>1. k \in PlainKeys /\ a \in Copies[k]
    BY <1>4 DEF NewCaps, SoundConfig
  <2>2. a \in Addresses /\ a # 0
    BY <2>1, KeysFacts
  <2> QED
    BY <1>4, <2>1, <2>2, BeginStep DEF Insert
<1> QED
  BY <1>1, <1>2, <1>3, <1>4

-----------------------------------------------------------------------------
(* Stores.                                                                 *)

\* Table nt has every entry of tb, and every address.
Extends(tb, nt, cap) ==
  \A j \in Ids(cap) : tb[j].key # 0 =>
    nt[j].key = tb[j].key /\ (tb[j].addr # 0 => nt[j] = tb[j])

LEMMA ExtendsMap ==
  ASSUME NEW cap, NEW tb, NEW nt, GoodTable(tb, cap), GoodTable(nt, cap), Extends(tb, nt, cap)
  PROVE  \A k \in Keys : /\ Map(tb, k) # 0 => Map(nt, k) = Map(tb, k)
                         /\ Mapped(tb, k) => Mapped(nt, k)
                         /\ Chain(tb, k) \subseteq Chain(nt, k)
<1>0. DOMAIN tb = Ids(cap) /\ DOMAIN nt = Ids(cap) /\ Unique(tb, cap) /\ Unique(nt, cap)
  BY DEF GoodTable
<1>1. ASSUME NEW k \in Keys, Mapped(tb, k) PROVE Mapped(nt, k) /\ Map(nt, k) = Map(tb, k)
  <2>1. PICK j \in Ids(cap) : tb[j].key = k /\ tb[j].addr # 0
    BY <1>0, <1>1 DEF Mapped
  <2>2. nt[j] = tb[j] /\ k # 0
    BY <2>1, KeysFacts DEF Extends
  <2>3. Map(tb, k) = tb[j].addr /\ Map(nt, k) = nt[j].addr
    BY <1>0, <2>1, <2>2, MapIs
  <2> QED
    BY <1>0, <2>1, <2>2, <2>3 DEF Mapped
<1>2. \A k \in Keys : Map(tb, k) # 0 => Map(nt, k) = Map(tb, k)
  BY <1>0, <1>1, MapMapped
<1>3. \A k \in Keys : Chain(tb, k) \subseteq Chain(nt, k)
  BY <1>2, ChainGrows
<1> QED
  BY <1>1, <1>2, <1>3

\* The other calls, when a writer has stored to a slot they do not own.
LEMMA OtherCall ==
  ASSUME IInv, NEW t \in Threads, Writing(t), NEW u \in Threads, u # t, th'[u] = th[u],
         GoodTable(Current', gCapacity), Extends(Current, Current', gCapacity),
         UNCHANGED <<gTable, gCapacity, known>>,
         Holding(th[u]) => Current'[th[u].i] = Current[th[u].i]
  PROVE  CallOK(th[u])'
<1> DEFINE c == th[u]
<1>1. /\ grow = "no" /\ gCapacity \in Nat \ {0} /\ GoodTable(Current, gCapacity)
      /\ DOMAIN Current = Ids(gCapacity)
  BY ThreadFacts DEF Writing
<1>2. CallOK(c) /\ c \in Calls
  BY DEF IInv, CallInv, TypeOK
<1>3. c.op # "insert"
  BY DEF IInv, OwnerInv
<1>4. DOMAIN Current' = Ids(gCapacity)
  BY DEF GoodTable
<1>5. c.pc # "idle" => c.key \in Keys /\ c.at \in Keys
  BY <1>2 DEF CallOK, ShapeOK
<1>6. c.pc \notin {"idle", "table", "capacity", "done"} => c.i \in Ids(gCapacity)
  BY SlotFacts
<1>7. \A q \in Ids(gCapacity) : q \in 0 .. gCapacity
  BY <1>1 DEF Ids
<1>8. \A k \in Keys : \A q \in Ids(gCapacity) : Pos(k, gCapacity, q) \in Ids(gCapacity)
  BY <1>1, <1>7, PosFacts
<1>9. \A j \in Ids(gCapacity) : Current[j].key # 0 => Current'[j].key = Current[j].key
  BY DEF Extends
<1>10. \A j \in Ids(gCapacity) : Current[j].key # 0 /\ Current[j].addr # 0 => Current'[j] = Current[j]
  BY DEF Extends
<1>11. \A k \in Keys : /\ Mapped(Current, k) => Mapped(Current', k)
                       /\ Chain(Current, k) \subseteq Chain(Current', k)
  BY <1>1, ExtendsMap
<1>12. ShapeOK(c)' /\ PlaceOK(c)'
  BY <1>2 DEF CallOK, ShapeOK, PlaceOK
<1>13. ProbeOK(c)'
  <2>1. ASSUME c.op = "cas", c.pc \in {"probe", "cas", "len", "addr", "key"}, NEW q \in Ids(gCapacity), q < c.n
        PROVE  Current'[Pos(c.key, gCapacity, q)].key \notin {0, c.key}
    BY <1>2, <1>5, <1>8, <1>9, <2>1 DEF CallOK, ProbeOK
  <2>2. c.pc = "spin" => Current'[c.i].key = c.key
    BY <1>2, <1>5, <1>6, <1>9, KeysFacts DEF CallOK, ProbeOK
  <2> QED
    BY <1>3, <2>1, <2>2 DEF ProbeOK
<1>14. HoldOK(c)'
  BY <1>2 DEF CallOK, HoldOK, Holding
<1>15. WriteOK(c)'
  <2> SUFFICES ASSUME c.pc = "done", c.op = "cas"
               PROVE  IF c.addr = 0 THEN \A j \in Ids(gCapacity) : Current'[j].key \notin {0, c.key}
                      ELSE /\ c.addr = c.new /\ c.len = c.new
                           /\ \E j \in Ids(gCapacity) : Current'[j].key = c.key /\ Current'[j].addr = c.new
    BY <1>3, <1>4 DEF WriteOK
  <2>1. CASE c.addr = 0
    BY <1>1, <1>2, <1>9, <2>1 DEF CallOK, WriteOK
  <2>2. CASE c.addr # 0
    <3>1. /\ c.addr = c.new /\ c.len = c.new
          /\ \E j \in Ids(gCapacity) : Current[j].key = c.key /\ Current[j].addr = c.new
      BY <1>1, <1>2, <2>2 DEF CallOK, WriteOK
    <3> QED
      BY <1>5, <1>10, <2>2, <3>1, KeysFacts
  <2> QED
    BY <2>1, <2>2
<1>16. LookupOK(c)'
  <2>1. ASSUME c.pc = "probe", c.op \in {"lookup", "chase"}, c.at \in Due(c), NEW q \in Ids(gCapacity), q < c.n
        PROVE  Current'[Pos(c.at, gCapacity, q)].key # c.at
    <3>1. PICK j \in Ids(gCapacity) : Current[j].key = c.at
      BY <1>1, <2>1, DueMapped DEF Mapped
    <3>2. Current'[j].key = c.at /\ c.at # 0
      BY <1>5, <1>9, <2>1, <3>1, KeysFacts
    <3>3. Current[Pos(c.at, gCapacity, q)].key # c.at /\ Pos(c.at, gCapacity, q) \in Ids(gCapacity)
      BY <1>2, <1>5, <1>8, <2>1 DEF CallOK, LookupOK
    <3> QED
      BY <3>1, <3>2, <3>3 DEF GoodTable, Unique
  <2>2. ASSUME c.pc \in {"readAddr", "readLen"}
        PROVE  Current'[c.i].key = c.at /\ (c.pc = "readLen" => Current'[c.i].addr = c.addr /\ c.addr # 0)
    <3>1. /\ c.op \in {"lookup", "chase"} /\ Current[c.i].key = c.at /\ c.at # 0 /\ c.i \in Ids(gCapacity)
          /\ c.pc = "readLen" => Current[c.i].addr = c.addr /\ c.addr # 0
      BY <1>2, <1>5, <1>6, <2>2, KeysFacts DEF CallOK, ShapeOK, LookupOK
    <3> QED
      BY <1>9, <1>10, <3>1
  <2> QED
    BY <1>2, <1>5, <1>11, <2>1, <2>2 DEF CallOK, LookupOK, Due
<1> QED
  BY <1>12, <1>13, <1>14, <1>15, <1>16 DEF CallOK

LEMMA SeqType ==
  ASSUME NEW ts \in Seq(Tables), NEW g \in 1 .. Len(ts)
  PROVE  /\ \A s \in DOMAIN ts : \E cap \in 1 .. MaxCap : ts[s] \in [0 .. cap - 1 -> Slots]
         /\ g \in DOMAIN ts
<1>1. DOMAIN ts = 1 .. Len(ts) /\ \A s \in 1 .. Len(ts) : ts[s] \in Tables
  OBVIOUS
<1>2. \A tb \in Tables : \E cap \in 1 .. MaxCap : tb \in [0 .. cap - 1 -> Slots]
  BY DEF Tables, Ids
<1> QED
  BY <1>1, <1>2

\* What a store does to the tables.
LEMMA TablesReplace ==
  ASSUME SeqInv, NEW s \in 1 .. Len(tables), NEW cap \in 1 .. MaxCap, NEW nt \in [Ids(cap) -> Slots],
         tables' = [tables EXCEPT ![s] = nt], gTable' = gTable
  PROVE  /\ SeqInv' /\ Len(tables') = Len(tables) /\ tables'[s] = nt
         /\ \A r \in 1 .. Len(tables) : r # s => tables'[r] = tables[r]
<1>1. nt \in Tables
  BY DEF Tables
<1> QED
  BY <1>1, ExceptSeq DEF SeqInv

\* The slot a writer stores to belongs to no other writer.
LEMMA OthersElsewhere ==
  ASSUME IInv, NEW t \in Threads, Writing(t), th[t].pc \notin {"table", "capacity", "done"},
         Slot(t).key = 0 \/ t \in Owners, NEW u \in Threads, u # t, Holding(th[u])
  PROVE  th[u].i # th[t].i
<1>1. th[t].op # "insert" /\ th[u].op # "insert"
  <2>1. Writing(u)
    <3>1. th[u].pc # "idle" /\ CallOK(th[u])
      BY DEF Holding, IInv, CallInv
    <3> QED
      BY <3>1 DEF CallOK, ShapeOK, Holding, Writing
  <2> QED
    BY <2>1 DEF IInv, OwnerInv
<1>2. Current[th[u].i].key = th[u].key /\ th[u].key \in Keys /\ u \in Owners
  <2>1. CallOK(th[u]) /\ th[u].pc # "idle"
    BY DEF IInv, CallInv, Holding
  <2>2. th[u].op = "cas"
    BY <1>1, <2>1 DEF CallOK, ShapeOK, Holding
  <2>3. th[u].pc # "key"
    BY <1>1, <2>1 DEF CallOK, ShapeOK
  <2> QED
    BY <2>1, <2>2, <2>3 DEF CallOK, HoldOK, Holding, ShapeOK, Owners
<1>3. Slot(t) = Current[th[t].i]
  BY SlotFacts DEF Writing
<1>4. CASE Slot(t).key = 0
  BY <1>2, <1>3, <1>4, KeysFacts
<1>5. CASE t \in Owners
  <2>1. Current[th[t].i].key = th[t].key
    BY <1>5, ThreadFacts DEF Owners, CallOK, HoldOK, Holding, Writing
  <2> QED
    BY <1>2, <1>5, <2>1 DEF IInv, OwnerInv
<1> QED
  BY <1>4, <1>5

\* What a store of s by writer t, which goes on to pc, does to the table and
\* leaves to the other calls.
StoreEffect(t, s, pc) ==
  /\ Current' = [Current EXCEPT ![th[t].i] = s] /\ CurCap' = gCapacity
  /\ th' = [th EXCEPT ![t].pc = pc] /\ th'[t] \in Calls /\ th'[t] = [th[t] EXCEPT !.pc = pc]
  /\ \A u \in Threads : u # t => th'[u] = th[u]
  /\ UNCHANGED <<gTable, gCapacity, gSize, grow, copied, known>>
  /\ Extends(Current, Current', gCapacity)
  /\ TypeOK' /\ SeqInv' /\ GrowInv'
  /\ \A u \in Threads : u # t => CallOK(th[u])'
  /\ \A k \in known : Mapped(Current', k)

\* A store by a writer to its own slot, which had no address.
LEMMA StoreFacts ==
  ASSUME IInv, NEW t \in Threads, th[t].pc \in {"cas", "len", "addr", "key"},
         NEW s \in Slots, NEW pc \in {"len", "addr", "key", "count"}, Store(t, s, pc),
         Slot(t).key = 0 \/ t \in Owners,
         Slot(t).key # 0 => s.key = Slot(t).key /\ Slot(t).addr = 0,
         GoodTable([Current EXCEPT ![th[t].i] = s], gCapacity)
  PROVE  StoreEffect(t, s, pc)
<1> DEFINE i == th[t].i
           nt == [Current EXCEPT ![i] = s]
<1>1. /\ grow = "no" /\ CurCap = gCapacity /\ gCapacity \in Nat \ {0} /\ GoodTable(Current, gCapacity)
      /\ DOMAIN Current = Ids(gCapacity) /\ th[t] \in Calls
  BY ThreadFacts
<1>2. th[t].tab = gTable /\ i \in Ids(gCapacity) /\ Slot(t) = Current[i]
  BY SlotFacts
<1>3. /\ tables' = [tables EXCEPT ![gTable] = nt] /\ th' = [th EXCEPT ![t].pc = pc]
      /\ UNCHANGED <<gTable, gCapacity, gSize, grow, copied, known>>
  BY <1>2 DEF Store, Stored, Current, growVars
<1>4. gCapacity \in 1 .. MaxCap /\ SeqInv
  BY <1>1, CurrentFacts DEF IInv
<1>5. nt \in [Ids(gCapacity) -> Slots] /\ nt[i] = s /\ \A j \in Ids(gCapacity) : j # i => nt[j] = Current[j]
  BY <1>1, <1>2 DEF GoodTable
<1> HIDE DEF nt
<1>6. SeqInv' /\ tables'[gTable] = nt
  <2>1. gTable \in 1 .. Len(tables)
    BY <1>4 DEF SeqInv
  <2>2. gTable' = gTable /\ tables' = [tables EXCEPT ![gTable] = nt]
    BY <1>3
  <2> QED
    BY <1>4, <1>5, <2>1, <2>2, TablesReplace
<1>7. Current' = nt
  BY <1>3, <1>6 DEF Current
<1>8. CurCap' = gCapacity
  <2>1. DOMAIN Current' = Ids(gCapacity)
    BY <1>5, <1>7
  <2> QED
    BY <1>1, <2>1, IdsFacts DEF CurCap
<1>9. /\ th'[t] = [th[t] EXCEPT !.pc = pc] /\ th' \in [Threads -> Calls]
      /\ \A u \in Threads : u # t => th'[u] = th[u]
  <2>1. [th[t] EXCEPT !.pc = pc] \in Calls
    BY <1>1 DEF Calls
  <2> QED
    BY <1>3, <2>1 DEF IInv, TypeOK
<1>10. TypeOK'
  <2>1. tables' \in Seq(Tables) /\ gTable' \in 1 .. Len(tables')
    BY <1>6 DEF SeqInv
  <2>2. /\ \A r \in DOMAIN tables' : \E cap \in 1 .. MaxCap : tables'[r] \in [0 .. cap - 1 -> Slots]
        /\ gTable' \in DOMAIN tables'
    BY <2>1, SeqType
  <2> QED
    BY <1>3, <1>9, <2>2 DEF IInv, TypeOK
<1>11. GrowInv'
  BY <1>1, <1>3, <1>8 DEF GrowInv
<1>12. Extends(Current, Current', gCapacity)
  BY <1>2, <1>5, <1>7 DEF Extends
<1>13. GoodTable(Current', gCapacity)
  BY <1>7 DEF nt
<1>14. Writing(t)
  BY <1>1, ThreadFacts DEF Writing, CallOK, ShapeOK
<1>15. ASSUME NEW u \in Threads, u # t PROVE CallOK(th[u])'
  <2>1. ASSUME Holding(th[u]) PROVE Current'[th[u].i] = Current[th[u].i]
    <3>1. th[u].i # i
      BY <1>14, <1>15, <2>1, OthersElsewhere
    <3>2. th[u].i \in Ids(gCapacity)
      BY <2>1, SlotFacts DEF Holding
    <3> QED
      BY <1>5, <1>7, <3>1, <3>2
  <2> QED
    BY <1>3, <1>9, <1>12, <1>13, <1>14, <1>15, <2>1, OtherCall
<1>16. \A k \in known : Mapped(Current', k)
  BY <1>1, <1>12, <1>13, ExtendsMap DEF IInv, TypeOK, TableInv, KnownInv
<1>17. Current' = [Current EXCEPT ![th[t].i] = s]
  BY <1>7 DEF nt
<1>18. th'[t] \in Calls
  BY <1>9
<1> QED
  BY <1>3, <1>6, <1>8, <1>9, <1>10, <1>11, <1>12, <1>15, <1>16, <1>17, <1>18 DEF StoreEffect

\* While a writer runs, the single-writer insertion is its own or none, and a
\* free slot of another has no address.
LEMMA NoAddrInFree ==
  ASSUME IInv, NEW t \in Threads, Writing(t), th[t].pc # "key",
         NEW j \in Ids(gCapacity), Current[j].key = 0
  PROVE  Current[j].addr = 0
<1> SUFFICES ASSUME Current[j].addr # 0 PROVE FALSE
  OBVIOUS
<1>1. j \in DOMAIN Current
  BY ThreadFacts DEF Writing
<1>2. PICK u \in Threads : th[u].op = "insert" /\ th[u].pc = "key"
  BY <1>1 DEF IInv, TableInv, FreeInv
<1> QED
  BY <1>2 DEF IInv, OwnerInv

\* The CAS claims the first free slot of the key's probe sequence.
LEMMA CasWinStep == ASSUME IInv, NEW t \in Threads, CasWin(t) PROVE IInv'
<1> DEFINE k == th[t].key
           i == th[t].i
           s == [Slot(t) EXCEPT !.key = k]
<1>1. th[t].pc = "cas" /\ Slot(t).key = 0 /\ Store(t, s, "len")
  BY DEF CasWin
<1>2. /\ grow = "no" /\ CurCap = gCapacity /\ gCapacity \in Nat \ {0} /\ GoodTable(Current, gCapacity)
      /\ DOMAIN Current = Ids(gCapacity) /\ th[t] \in Calls /\ k \in Keys /\ k # 0 /\ CallOK(th[t])
  BY <1>1, ThreadFacts, KeysFacts
<1>3. th[t].op = "cas" /\ th[t].at = k /\ k \notin PlainKeys /\ Writing(t)
  BY <1>1, <1>2 DEF CallOK, ShapeOK, Writing
<1>4. /\ i = Pos(k, gCapacity, th[t].n) /\ th[t].n \in Ids(gCapacity) /\ i \in Ids(gCapacity)
      /\ Slot(t) = Current[i] /\ Slot(t) \in Slots
  BY <1>1, <1>3, SlotFacts
<1>5. \A q \in Ids(gCapacity) : q < th[t].n => Current[Pos(k, gCapacity, q)].key \notin {0, k}
  BY <1>1, <1>2, <1>3 DEF CallOK, ProbeOK
<1>6. Current[i].addr = 0
  BY <1>1, <1>3, <1>4, NoAddrInFree
<1>7. s \in Slots /\ s.key = k /\ s.addr = 0 /\ s.len = Current[i].len
  BY <1>2, <1>4, <1>6 DEF Slots
<1>8. \A j \in Ids(gCapacity) : Current[j].key # k
  <2> SUFFICES ASSUME NEW j \in Ids(gCapacity), Current[j].key = k PROVE FALSE
    OBVIOUS
  <2>1. PICK p \in Ids(gCapacity) : /\ j = Pos(k, gCapacity, p)
                                    /\ \A q \in Ids(gCapacity) : q < p => Current[Pos(k, gCapacity, q)].key # 0
    BY <1>2 DEF GoodTable, PathOK
  <2>2. ~ (th[t].n < p) /\ th[t].n # p
    BY <1>1, <1>2, <1>4, <2>1
  <2>3. ~ (p < th[t].n)
    BY <1>5, <2>1
  <2> QED
    BY <1>4, <2>1, <2>2, <2>3 DEF Ids
<1> HIDE DEF s
<1>9. GoodTable([Current EXCEPT ![i] = s], gCapacity)
  <2>1. ValueOK(s)
    BY <1>7 DEF ValueOK
  <2>2. \A q \in Ids(gCapacity) : q < th[t].n => Current[Pos(k, gCapacity, q)].key # 0
    BY <1>5
  <2>3. Current[Pos(k, gCapacity, th[t].n)].key = 0
    BY <1>1, <1>4
  <2>4. GoodTable([Current EXCEPT ![Pos(k, gCapacity, th[t].n)] = s], gCapacity)
    BY <1>2, <1>4, <1>7, <1>8, <2>1, <2>2, <2>3, PutGood
  <2> QED
    BY <1>4, <2>4
<1>10. /\ Current' = [Current EXCEPT ![i] = s] /\ CurCap' = gCapacity
       /\ th'[t] \in Calls /\ th'[t] = [th[t] EXCEPT !.pc = "len"]
       /\ \A u \in Threads : u # t => th'[u] = th[u]
       /\ UNCHANGED <<gTable, gCapacity, gSize, grow, copied, known>>
       /\ Extends(Current, Current', gCapacity) /\ TypeOK' /\ SeqInv' /\ GrowInv'
       /\ \A u \in Threads : u # t => CallOK(th[u])'
       /\ \A x \in known : Mapped(Current', x)
  <2>1. StoreEffect(t, s, "len")
    BY <1>1, <1>7, <1>9, StoreFacts
  <2> QED
    BY <2>1 DEF StoreEffect
<1>11. /\ Current'[i] = s /\ \A j \in Ids(gCapacity) : j # i => Current'[j] = Current[j]
       /\ DOMAIN Current' = Ids(gCapacity)
  BY <1>2, <1>4, <1>10
<1>12. /\ th'[t].pc = "len" /\ th'[t].op = "cas" /\ th'[t].key = k /\ th'[t].i = i /\ th'[t].at = k
       /\ th'[t].n = th[t].n /\ th'[t].new = th[t].new /\ th'[t].addr = th[t].addr /\ th'[t].len = th[t].len
       /\ th'[t].tab = th[t].tab /\ th'[t].cap = th[t].cap /\ th'[t].before = th[t].before
  BY <1>2, <1>3, <1>10 DEF Calls
<1>13. CallOK(th[t])'
  <2>1. ShapeOK(th[t])' /\ PlaceOK(th[t])' /\ WriteOK(th[t])' /\ LookupOK(th[t])'
    BY <1>1, <1>2, <1>3, <1>10, <1>12 DEF CallOK, ShapeOK, PlaceOK, WriteOK, LookupOK
  <2>2. HoldOK(th[t])'
    BY <1>7, <1>11, <1>12 DEF HoldOK, Holding
  <2>3. ASSUME NEW q \in Ids(gCapacity), q < th[t].n PROVE Current'[Pos(k, gCapacity, q)].key \notin {0, k}
    <3>1. Pos(k, gCapacity, q) \in Ids(gCapacity) /\ Current[Pos(k, gCapacity, q)].key \notin {0, k}
      <4>1. q \in 0 .. gCapacity
        BY <1>2 DEF Ids
      <4> QED
        BY <1>2, <1>5, <2>3, <4>1, PosFacts
    <3> QED
      BY <1>10, <3>1 DEF Extends
  <2>4. ProbeOK(th[t])'
    BY <1>10, <1>12, <2>3 DEF ProbeOK
  <2> QED
    BY <2>1, <2>2, <2>4 DEF CallOK
<1>14. CallInv'
  BY <1>10, <1>13 DEF CallInv
<1>15. Owners' = Owners \cup {t} /\ t \notin Owners
  BY <1>1, <1>10, <1>12 DEF Owners
<1>16. OwnerInv'
  <2>1. \A u \in Owners : th[u].key # k
    <3> SUFFICES ASSUME NEW u \in Owners PROVE th[u].key # k
      OBVIOUS
    <3>1. u \in Threads /\ Holding(th[u])
      BY DEF Owners, Holding
    <3>2. Current[th[u].i].key = th[u].key
      BY <3>1, ThreadFacts DEF Owners, Holding, CallOK, HoldOK
    <3>3. th[u].i \in Ids(gCapacity)
      BY <3>1, SlotFacts DEF Holding
    <3> QED
      BY <1>8, <3>2, <3>3
  <2>2. \A u, v \in Owners' : th'[u].key = th'[v].key => u = v
    <3>1. \A u \in Owners : u # t /\ th'[u] = th[u]
      BY <1>10, <1>15 DEF Owners
    <3> QED
      BY <1>12, <1>15, <2>1, <3>1 DEF IInv, OwnerInv
  <2>3. \A u, v \in Threads : th'[u].op = "insert" /\ th'[v].pc # "idle" /\ th'[v].op # "lookup" => u = v
    BY <1>3, <1>10, <1>12 DEF IInv, OwnerInv, Writing
  <2> QED
    BY <2>2, <2>3 DEF OwnerInv, Writing
<1>17. FreeInv'
  <2>1. ASSUME NEW j \in Ids(gCapacity), Current'[j].key = 0 PROVE Current'[j].addr = 0
    BY <1>1, <1>2, <1>3, <1>7, <1>11, <2>1, NoAddrInFree
  <2> QED
    BY <1>11, <2>1 DEF FreeInv
<1>18. KnownInv'
  <2>1. ASSUME NEW j \in Ids(gCapacity), Current'[j].key \in PlainKeys
        PROVE  \/ Current'[j].key \in known'
               \/ \E u \in Threads : /\ th'[u].op = "insert" /\ th'[u].pc \in {"count", "done"}
                                     /\ th'[u].key = Current'[j].key
    <3>1. j # i /\ Current'[j] = Current[j]
      BY <1>3, <1>7, <1>11, <2>1
    <3>2. \/ Current[j].key \in known
          \/ \E u \in Threads : /\ th[u].op = "insert" /\ th[u].pc \in {"count", "done"}
                                /\ th[u].key = Current[j].key
      BY <1>2, <2>1, <3>1 DEF IInv, TableInv, KnownInv
    <3> QED
      BY <1>1, <1>10, <3>1, <3>2
  <2> QED
    BY <1>10, <1>11, <2>1 DEF KnownInv
<1>19. CountInv'
  <2>1. Cardinality(Used(Current', gCapacity)) = Cardinality(Used(Current, gCapacity)) + 1
    <3>1. Current \in [Ids(gCapacity) -> Slots] /\ Current[i].key = 0 /\ s.key # 0
      BY <1>1, <1>2, <1>4, <1>7 DEF GoodTable
    <3>2. Cardinality(Used([Current EXCEPT ![i] = s], gCapacity)) = Cardinality(Used(Current, gCapacity)) + 1
      <4>1. gCapacity \in Nat /\ i \in Ids(gCapacity) /\ s \in Slots
        BY <1>2, <1>4, <1>7
      <4> HIDE DEF i
      <4> QED
        BY <3>1, <4>1, UsedPut
    <3> QED
      BY <1>10, <3>2
  <2>2. Cardinality(Owners') = Cardinality(Owners) + 1
    BY <1>15, OwnersFinite, FS_AddElement
  <2>3. Cardinality(Used(Current, gCapacity)) = gSize + Cardinality(Owners) /\ gSize \in Nat
    BY <1>2 DEF IInv, CountInv, TypeOK
  <2> QED
    BY <1>10, <2>1, <2>2, <2>3, OwnersFinite DEF CountInv
<1>20. GoodTable(Current, CurCap)'
  BY <1>9, <1>10
<1> QED
  BY <1>10, <1>14, <1>16, <1>17, <1>18, <1>19, <1>20 DEF IInv, TableInv

\* The length, and then the address, are stored to the owner's slot.
LEMMA FillStep ==
  ASSUME IInv, NEW t \in Threads, NEW s \in Slots, NEW pc \in {"addr", "key", "count"}, Store(t, s, pc),
         s.key = Slot(t).key, s.len = th[t].new,
         \/ th[t].pc = "len" /\ pc = "addr" /\ s.addr = Slot(t).addr
         \/ th[t].pc = "addr" /\ pc = (IF th[t].op = "cas" THEN "count" ELSE "key") /\ s.addr = th[t].new
  PROVE  IInv'
<1> DEFINE k == th[t].key
           i == th[t].i
<1>1. th[t].pc \in {"len", "addr"}
  OBVIOUS
<1>2. /\ grow = "no" /\ CurCap = gCapacity /\ gCapacity \in Nat \ {0} /\ GoodTable(Current, gCapacity)
      /\ DOMAIN Current = Ids(gCapacity) /\ th[t] \in Calls /\ k \in Keys /\ k # 0 /\ CallOK(th[t])
  BY <1>1, ThreadFacts, KeysFacts
<1>3. /\ th[t].op \in {"cas", "insert"} /\ th[t].at = k /\ Writing(t) /\ th[t].new \in Copies[k]
      /\ th[t].new # 0
  BY <1>1, <1>2, KeysFacts DEF CallOK, ShapeOK, Writing
<1>4. i \in Ids(gCapacity) /\ Slot(t) = Current[i]
  BY <1>1, SlotFacts
<1>5. /\ Current[i].key = (IF th[t].op = "cas" THEN k ELSE 0) /\ Current[i].addr = 0
      /\ th[t].op = "insert" => th[t].fresh
  BY <1>1, <1>2 DEF CallOK, HoldOK, Holding
<1>6. GoodTable([Current EXCEPT ![i] = s], gCapacity)
  <2>1. ValueOK(s)
    BY <1>3, <1>4, <1>5 DEF ValueOK
  <2> QED
    BY <1>2, <1>4, <2>1, SetGood
<1>7. Slot(t).key = 0 \/ t \in Owners
  BY <1>1, <1>3, <1>4, <1>5 DEF Owners
<1>8. /\ Current' = [Current EXCEPT ![i] = s] /\ CurCap' = gCapacity
      /\ th'[t] \in Calls /\ th'[t] = [th[t] EXCEPT !.pc = pc]
      /\ \A u \in Threads : u # t => th'[u] = th[u]
      /\ UNCHANGED <<gTable, gCapacity, gSize, grow, copied, known>>
      /\ TypeOK' /\ SeqInv' /\ GrowInv'
      /\ \A u \in Threads : u # t => CallOK(th[u])'
      /\ \A x \in known : Mapped(Current', x)
  <2>1. th[t].pc \in {"cas", "len", "addr", "key"} /\ pc \in {"len", "addr", "key", "count"}
    BY <1>1
  <2>2. Slot(t).key # 0 => s.key = Slot(t).key /\ Slot(t).addr = 0
    BY <1>4, <1>5
  <2>3. StoreEffect(t, s, pc)
    BY <1>6, <1>7, <2>1, <2>2, StoreFacts
  <2> QED
    BY <2>3 DEF StoreEffect
<1>9. /\ Current'[i] = s /\ \A j \in Ids(gCapacity) : j # i => Current'[j] = Current[j]
      /\ DOMAIN Current' = Ids(gCapacity)
      /\ \A j \in Ids(gCapacity) : Current'[j].key = Current[j].key
  BY <1>2, <1>4, <1>8
<1>10. /\ th'[t].pc = pc /\ th'[t].op = th[t].op /\ th'[t].key = k /\ th'[t].i = i /\ th'[t].at = k
       /\ th'[t].n = th[t].n /\ th'[t].new = th[t].new /\ th'[t].addr = th[t].addr /\ th'[t].len = th[t].len
       /\ th'[t].tab = th[t].tab /\ th'[t].cap = th[t].cap /\ th'[t].before = th[t].before
       /\ (th[t].fresh => th'[t].fresh)
  BY <1>2, <1>3, <1>8 DEF Calls
<1>11. CallOK(th[t])'
  <2>a. ShapeOK(th[t])'
    BY <1>1, <1>2, <1>3, <1>10 DEF CallOK, ShapeOK
  <2>b. PlaceOK(th[t])'
    BY <1>1, <1>2, <1>3, <1>8, <1>10 DEF CallOK, PlaceOK
  <2>c. WriteOK(th[t])' /\ LookupOK(th[t])'
    BY <1>1, <1>2, <1>3, <1>8, <1>10 DEF CallOK, WriteOK, LookupOK
  <2>1. ShapeOK(th[t])' /\ PlaceOK(th[t])' /\ WriteOK(th[t])' /\ LookupOK(th[t])'
    BY <2>a, <2>b, <2>c
  <2>2. HoldOK(th[t])'
    BY <1>3, <1>4, <1>5, <1>9, <1>10 DEF HoldOK, Holding
  <2>3. \A q \in Ids(gCapacity) : Pos(k, gCapacity, q) \in Ids(gCapacity)
    <3>1. \A q \in Ids(gCapacity) : q \in 0 .. gCapacity
      BY <1>2 DEF Ids
    <3> QED
      BY <1>2, <3>1, PosFacts
  <2>4. ProbeOK(th[t])'
    BY <1>1, <1>2, <1>3, <1>8, <1>9, <1>10, <2>3 DEF CallOK, ProbeOK
  <2> QED
    BY <2>1, <2>2, <2>4 DEF CallOK
<1>12. CallInv'
  BY <1>8, <1>11 DEF CallInv
<1>13. Owners' = Owners
  <2>1. t \in Owners' <=> t \in Owners
    BY <1>1, <1>3, <1>10 DEF Owners
  <2>2. \A u \in Threads : u # t => (u \in Owners' <=> u \in Owners)
    BY <1>8 DEF Owners
  <2> QED
    BY <2>1, <2>2 DEF Owners
<1>14. OwnerInv'
  <2>1. \A u \in Threads : th'[u].key = th[u].key /\ th'[u].op = th[u].op /\ (th'[u].pc = "idle" <=> th[u].pc = "idle")
    BY <1>1, <1>8, <1>10
  <2>2. \A u, v \in Owners' : th'[u].key = th'[v].key => u = v
    BY <1>13, <2>1 DEF IInv, OwnerInv, Owners
  <2>3. \A u, v \in Threads : th'[u].op = "insert" /\ th'[v].pc # "idle" /\ th'[v].op # "lookup" => u = v
    BY <2>1 DEF IInv, OwnerInv, Writing
  <2> QED
    BY <2>2, <2>3 DEF OwnerInv, Writing
<1>15. FreeInv'
  <2>1. ASSUME NEW j \in Ids(gCapacity), Current'[j].key = 0, Current'[j].addr # 0
        PROVE  th'[t].op = "insert" /\ th'[t].pc = "key" /\ th'[t].i = j
    <3>1. j = i
      BY <1>1, <1>3, <1>9, <2>1, NoAddrInFree
    <3>2. th[t].op = "insert" /\ pc = "key"
      BY <1>2, <1>3, <1>4, <1>5, <1>9, <2>1, <3>1
    <3> QED
      BY <1>10, <3>1, <3>2
  <2> QED
    BY <1>9, <2>1 DEF FreeInv
<1>16. KnownInv'
  <2>1. ASSUME NEW j \in Ids(gCapacity), Current'[j].key \in PlainKeys
        PROVE  \/ Current'[j].key \in known'
               \/ \E u \in Threads : /\ th'[u].op = "insert" /\ th'[u].pc \in {"count", "done"}
                                     /\ th'[u].key = Current'[j].key
    <3>1. Current'[j].key = Current[j].key
      BY <1>9
    <3>2. \/ Current[j].key \in known
          \/ \E u \in Threads : /\ th[u].op = "insert" /\ th[u].pc \in {"count", "done"}
                                /\ th[u].key = Current[j].key
      BY <1>2, <2>1, <3>1 DEF IInv, TableInv, KnownInv
    <3> QED
      BY <1>1, <1>8, <3>1, <3>2
  <2> QED
    BY <1>8, <1>9, <2>1 DEF KnownInv
<1>17. CountInv'
  <2>1. Used(Current', gCapacity) = Used(Current, gCapacity)
    BY <1>9 DEF Used, Ids
  <2> QED
    BY <1>2, <1>8, <1>13, <2>1 DEF IInv, CountInv
<1>18. GoodTable(Current, CurCap)'
  BY <1>6, <1>8
<1> QED
  BY <1>8, <1>12, <1>14, <1>15, <1>16, <1>17, <1>18 DEF IInv, TableInv

LEMMA StoreLenStep == ASSUME IInv, NEW t \in Threads, StoreLen(t) PROVE IInv'
<1> DEFINE s == [Slot(t) EXCEPT !.len = th[t].new]
<1>1. th[t].pc = "len" /\ Store(t, s, "addr")
  BY DEF StoreLen
<1>2. th[t] \in Calls /\ Slot(t) \in Slots
  BY <1>1, ThreadFacts, SlotFacts
<1>3. s \in Slots /\ s.key = Slot(t).key /\ s.len = th[t].new /\ s.addr = Slot(t).addr
  BY <1>2 DEF Slots, Calls
<1> HIDE DEF s
<1> QED
  BY <1>1, <1>3, FillStep

LEMMA StoreAddrStep == ASSUME IInv, NEW t \in Threads, StoreAddr(t) PROVE IInv'
<1> DEFINE s == [Slot(t) EXCEPT !.addr = th[t].new]
           pc == IF th[t].op = "cas" THEN "count" ELSE "key"
<1>1. th[t].pc = "addr" /\ Store(t, s, pc)
  BY DEF StoreAddr
<1>2. th[t] \in Calls /\ Slot(t) \in Slots /\ Slot(t) = Current[th[t].i] /\ CallOK(th[t])
  BY <1>1, ThreadFacts, SlotFacts
<1>3. Slot(t).len = th[t].new
  BY <1>1, <1>2 DEF CallOK, HoldOK, Holding
<1>4. s \in Slots /\ s.key = Slot(t).key /\ s.len = th[t].new /\ s.addr = th[t].new
  BY <1>2, <1>3 DEF Slots, Calls
<1>5. pc \in {"addr", "key", "count"} /\ pc = IF th[t].op = "cas" THEN "count" ELSE "key"
  OBVIOUS
<1> HIDE DEF s, pc
<1> QED
  BY <1>1, <1>4, <1>5, FillStep

\* The plain insertion publishes the key last: the entry is whole at once.
LEMMA StoreKeyStep == ASSUME IInv, NEW t \in Threads, StoreKey(t) PROVE IInv'
<1> DEFINE k == th[t].key
           i == th[t].i
           s == [Slot(t) EXCEPT !.key = k]
<1>1. th[t].pc = "key" /\ Store(t, s, "count")
  BY DEF StoreKey
<1>2. /\ grow = "no" /\ CurCap = gCapacity /\ gCapacity \in Nat \ {0} /\ GoodTable(Current, gCapacity)
      /\ DOMAIN Current = Ids(gCapacity) /\ th[t] \in Calls /\ k \in Keys /\ k # 0 /\ CallOK(th[t])
  BY <1>1, ThreadFacts, KeysFacts
<1>3. /\ th[t].op = "insert" /\ th[t].at = k /\ k \in PlainKeys /\ Writing(t) /\ th[t].new \in Copies[k]
      /\ th[t].new # 0
  BY <1>1, <1>2, KeysFacts DEF CallOK, ShapeOK, Writing
<1>4. /\ i = Pos(k, gCapacity, th[t].n) /\ th[t].n \in Ids(gCapacity) /\ i \in Ids(gCapacity)
      /\ Slot(t) = Current[i] /\ Slot(t) \in Slots
  BY <1>1, <1>3, SlotFacts
<1>5. \A q \in Ids(gCapacity) : q < th[t].n => Current[Pos(k, gCapacity, q)].key \notin {0, k}
  BY <1>1, <1>2, <1>3 DEF CallOK, ProbeOK
<1>6. /\ Current[i].key = 0 /\ Current[i].len = th[t].new /\ Current[i].addr = th[t].new /\ th[t].fresh
  BY <1>1, <1>2, <1>3 DEF CallOK, HoldOK, Holding
<1>7. s \in Slots /\ s.key = k /\ s.addr = th[t].new /\ s.len = th[t].new
  BY <1>2, <1>4, <1>6 DEF Slots
<1>8. \A j \in Ids(gCapacity) : Current[j].key # k
  BY <1>1, <1>2, <1>3 DEF CallOK, ProbeOK
<1> HIDE DEF s
<1>9. GoodTable([Current EXCEPT ![i] = s], gCapacity)
  <2>1. ValueOK(s)
    BY <1>3, <1>7 DEF ValueOK
  <2>2. \A q \in Ids(gCapacity) : q < th[t].n => Current[Pos(k, gCapacity, q)].key # 0
    BY <1>5
  <2>3. Current[Pos(k, gCapacity, th[t].n)].key = 0
    BY <1>4, <1>6
  <2>4. GoodTable([Current EXCEPT ![Pos(k, gCapacity, th[t].n)] = s], gCapacity)
    BY <1>2, <1>4, <1>7, <1>8, <2>1, <2>2, <2>3, PutGood
  <2> QED
    BY <1>4, <2>4
<1>10. /\ Current' = [Current EXCEPT ![i] = s] /\ CurCap' = gCapacity
       /\ th'[t] \in Calls /\ th'[t] = [th[t] EXCEPT !.pc = "count"]
       /\ \A u \in Threads : u # t => th'[u] = th[u]
       /\ UNCHANGED <<gTable, gCapacity, gSize, grow, copied, known>>
       /\ TypeOK' /\ SeqInv' /\ GrowInv'
       /\ \A u \in Threads : u # t => CallOK(th[u])'
       /\ \A x \in known : Mapped(Current', x)
  <2>1. StoreEffect(t, s, "count")
    BY <1>1, <1>4, <1>6, <1>7, <1>9, StoreFacts
  <2> QED
    BY <2>1 DEF StoreEffect
<1>11. /\ Current'[i] = s /\ \A j \in Ids(gCapacity) : j # i => Current'[j] = Current[j]
       /\ DOMAIN Current' = Ids(gCapacity)
  BY <1>2, <1>4, <1>10
<1>12. /\ th'[t].pc = "count" /\ th'[t].op = "insert" /\ th'[t].key = k /\ th'[t].i = i /\ th'[t].at = k
       /\ th'[t].n = th[t].n /\ th'[t].new = th[t].new /\ th'[t].addr = th[t].addr /\ th'[t].len = th[t].len
       /\ th'[t].tab = th[t].tab /\ th'[t].cap = th[t].cap /\ th'[t].before = th[t].before
       /\ (th[t].fresh => th'[t].fresh)
  BY <1>2, <1>3, <1>10 DEF Calls
<1>13. CallOK(th[t])'
  <2>1. ShapeOK(th[t])' /\ PlaceOK(th[t])' /\ WriteOK(th[t])' /\ LookupOK(th[t])'
    BY <1>1, <1>2, <1>3, <1>10, <1>12 DEF CallOK, ShapeOK, PlaceOK, WriteOK, LookupOK
  <2>2. HoldOK(th[t])'
    BY <1>6, <1>7, <1>11, <1>12 DEF HoldOK, Holding
  <2>3. ProbeOK(th[t])'
    BY <1>12 DEF ProbeOK
  <2> QED
    BY <2>1, <2>2, <2>3 DEF CallOK
<1>14. CallInv'
  BY <1>10, <1>13 DEF CallInv
<1>15. Owners' = {t} /\ Owners = {}
  <2>1. \A u \in Threads : u # t => ~ Writing(u)
    BY <1>3 DEF IInv, OwnerInv
  <2>2. \A u \in Owners : Writing(u)
    <3> SUFFICES ASSUME NEW u \in Owners PROVE Writing(u)
      OBVIOUS
    <3>1. u \in Threads /\ CallOK(th[u]) /\ th[u].pc \in {"len", "addr", "count"}
      BY DEF Owners, IInv, CallInv
    <3> QED
      BY <3>1 DEF CallOK, ShapeOK, Writing
  <2>3. Owners = {}
    BY <1>1, <2>1, <2>2 DEF Owners
  <2>4. \A u \in Threads : u # t => ((u \in Owners') <=> (u \in Owners))
    BY <1>10 DEF Owners
  <2>5. t \in Owners' /\ Owners' \subseteq Threads
    BY <1>12 DEF Owners
  <2> QED
    BY <2>3, <2>4, <2>5
<1>16. OwnerInv'
  <2>1. \A u, v \in Threads : th'[u].op = "insert" /\ th'[v].pc # "idle" /\ th'[v].op # "lookup" => u = v
    BY <1>3, <1>10, <1>12 DEF IInv, OwnerInv, Writing
  <2> QED
    BY <1>15, <2>1 DEF OwnerInv, Writing
<1>17. FreeInv'
  <2>1. ASSUME NEW j \in Ids(gCapacity), Current'[j].key = 0 PROVE Current'[j].addr = 0
    <3> SUFFICES ASSUME Current'[j].addr # 0 PROVE FALSE
      OBVIOUS
    <3>1. j # i /\ Current'[j] = Current[j]
      BY <1>2, <1>7, <1>11, <2>1
    <3>2. PICK u \in Threads : th[u].op = "insert" /\ th[u].pc = "key" /\ th[u].i = j
      BY <1>2, <2>1, <3>1 DEF IInv, TableInv, FreeInv
    <3>3. u = t
      BY <1>3, <3>2 DEF IInv, OwnerInv
    <3> QED
      BY <3>1, <3>2, <3>3
  <2> QED
    BY <1>11, <2>1 DEF FreeInv
<1>18. KnownInv'
  <2>1. ASSUME NEW j \in Ids(gCapacity), Current'[j].key \in PlainKeys
        PROVE  \/ Current'[j].key \in known'
               \/ \E u \in Threads : /\ th'[u].op = "insert" /\ th'[u].pc \in {"count", "done"}
                                     /\ th'[u].key = Current'[j].key
    <3>1. CASE j = i
      BY <1>7, <1>11, <1>12, <3>1
    <3>2. CASE j # i
      <4>1. Current'[j] = Current[j]
        BY <1>11, <3>2
      <4>2. \/ Current[j].key \in known
            \/ \E u \in Threads : /\ th[u].op = "insert" /\ th[u].pc \in {"count", "done"}
                                  /\ th[u].key = Current[j].key
        BY <1>2, <2>1, <4>1 DEF IInv, TableInv, KnownInv
      <4> QED
        BY <1>1, <1>10, <4>1, <4>2
    <3> QED
      BY <3>1, <3>2
  <2> QED
    BY <1>10, <1>11, <2>1 DEF KnownInv
<1>19. CountInv'
  <2>1. Cardinality(Used(Current', gCapacity)) = Cardinality(Used(Current, gCapacity)) + 1
    <3>1. Current \in [Ids(gCapacity) -> Slots] /\ Current[i].key = 0 /\ s.key # 0
      BY <1>2, <1>6, <1>7 DEF GoodTable
    <3>2. Cardinality(Used([Current EXCEPT ![i] = s], gCapacity)) = Cardinality(Used(Current, gCapacity)) + 1
      <4>1. gCapacity \in Nat /\ i \in Ids(gCapacity) /\ s \in Slots
        BY <1>2, <1>4, <1>7
      <4> HIDE DEF i
      <4> QED
        BY <3>1, <4>1, UsedPut
    <3> QED
      BY <1>10, <3>2
  <2>2. Cardinality(Owners') = 1 /\ Cardinality(Owners) = 0
    BY <1>15, FS_Singleton, FS_EmptySet
  <2>3. Cardinality(Used(Current, gCapacity)) = gSize + Cardinality(Owners) /\ gSize \in Nat
    BY <1>2 DEF IInv, CountInv, TypeOK
  <2> QED
    BY <1>10, <2>1, <2>2, <2>3 DEF CountInv
<1>20. GoodTable(Current, CurCap)'
  BY <1>9, <1>10
<1> QED
  BY <1>10, <1>14, <1>16, <1>17, <1>18, <1>19, <1>20 DEF IInv, TableInv

-----------------------------------------------------------------------------
(* The end of a call.                                                      *)

\* The winner counts its entry: one owner less, one entry more.
LEMMA CountStep == ASSUME IInv, NEW t \in Threads, Count(t) PROVE IInv'
<1> DEFINE c == th[t]
           d == Returned(t, c.new, c.new)
<1>1. /\ c.pc = "count" /\ th' = [th EXCEPT ![t] = d]
      /\ gSize' = IF c.op = "cas" \/ c.fresh THEN gSize + 1 ELSE gSize
      /\ UNCHANGED <<tables, gTable, gCapacity, grow, copied, known>>
  BY DEF Count, growVars
<1>2. /\ grow = "no" /\ CurCap = gCapacity /\ gCapacity \in Nat \ {0} /\ GoodTable(Current, gCapacity)
      /\ DOMAIN Current = Ids(gCapacity) /\ c \in Calls /\ c.key \in Keys /\ CallOK(c)
  BY <1>1, ThreadFacts
<1>3. c.op \in {"cas", "insert"} /\ c.new \in Copies[c.key] /\ c.new # 0 /\ Writing(t)
  BY <1>1, <1>2, KeysFacts DEF CallOK, ShapeOK, Writing
<1>4. c.i \in Ids(gCapacity) /\ Current[c.i].key = c.key /\ Current[c.i].addr = c.new
      /\ (c.op = "insert" => c.fresh)
  BY <1>1, <1>2, SlotFacts DEF CallOK, HoldOK, Holding
<1>5. /\ d \in Calls /\ d.pc = "done" /\ d.addr = c.new /\ d.len = c.new
      /\ d.op = c.op /\ d.key = c.key /\ d.new = c.new /\ d.at = c.at /\ d.before = c.before
      /\ d.tab = c.tab
  BY <1>2 DEF Returned, Calls
<1> HIDE DEF d
<1>6. th' \in [Threads -> Calls] /\ th'[t] = d /\ \A u \in Threads : u # t => th'[u] = th[u]
  BY <1>1, <1>5 DEF IInv, TypeOK
<1>7. gSize' = gSize + 1
  BY <1>1, <1>3, <1>4
<1>8. Current' = Current /\ CurCap' = CurCap
  BY <1>1 DEF Current, CurCap
<1>9. t \in Owners /\ Owners' = Owners \ {t}
  BY <1>1, <1>5, <1>6 DEF Owners
<1>10. Cardinality(Owners') = Cardinality(Owners) - 1 /\ Cardinality(Owners') \in Nat
  BY <1>9, OwnersFinite, FS_RemoveElement, FS_CardinalityType
<1>11. /\ Cardinality(Used(Current, gCapacity)) = gSize + Cardinality(Owners) /\ gSize \in Nat
       /\ Cardinality(Used(Current, gCapacity)) <= gCapacity
  <2>1. Cardinality(Used(Current, gCapacity)) = gSize + Cardinality(Owners) /\ gSize \in Nat
    BY <1>2 DEF IInv, CountInv, TypeOK
  <2> QED
    BY <1>2, <2>1, UsedFinite
<1>12. CountInv'
  BY <1>2, <1>7, <1>8, <1>10, <1>11, OwnersFinite DEF CountInv
<1>13. TypeOK' /\ SeqInv'
  <2>1. gSize' \in 0 .. gCapacity'
    BY <1>1, <1>2, <1>7, <1>10, <1>11, OwnersFinite
  <2> QED
    BY <1>1, <1>6, <2>1 DEF IInv, TypeOK, SeqInv
<1>14. CallOK(th[t])'
  <2>1. ShapeOK(th[t])' /\ PlaceOK(th[t])' /\ ProbeOK(th[t])' /\ HoldOK(th[t])'
    BY <1>1, <1>2, <1>3, <1>5, <1>6 DEF CallOK, ShapeOK, PlaceOK, ProbeOK, HoldOK, Holding
  <2>2. WriteOK(th[t])'
    BY <1>2, <1>3, <1>4, <1>5, <1>6, <1>8 DEF WriteOK
  <2>3. LookupOK(th[t])'
    BY <1>1, <1>2, <1>3, <1>5, <1>6 DEF CallOK, LookupOK
  <2> QED
    BY <2>1, <2>2, <2>3 DEF CallOK
<1>15. CallInv'
  <2> SUFFICES ASSUME NEW u \in Threads PROVE CallOK(th[u])'
    BY DEF CallInv
  <2>1. CASE u # t
    BY <1>1, <1>6, <2>1, SameCall DEF IInv, CallInv
  <2> QED
    BY <1>14, <2>1
<1>16. OwnerInv'
  <2>1. \A u \in Threads : th'[u].key = th[u].key /\ th'[u].op = th[u].op /\ (th'[u].pc = "idle" <=> th[u].pc = "idle")
    BY <1>1, <1>5, <1>6
  <2>2. \A u, v \in Owners' : th'[u].key = th'[v].key => u = v
    BY <1>9, <2>1 DEF IInv, OwnerInv, Owners
  <2>3. \A u, v \in Threads : th'[u].op = "insert" /\ th'[v].pc # "idle" /\ th'[v].op # "lookup" => u = v
    BY <2>1 DEF IInv, OwnerInv, Writing
  <2> QED
    BY <2>2, <2>3 DEF OwnerInv, Writing
<1>17. TableInv'
  <2>1. GoodTable(Current, CurCap)'
    BY <1>8 DEF IInv, TableInv
  <2>2. FreeInv'
    BY <1>1, <1>6, <1>8 DEF IInv, TableInv, FreeInv
  <2>3. KnownInv'
    BY <1>1, <1>5, <1>6, <1>8 DEF IInv, TableInv, KnownInv
  <2> QED
    BY <2>1, <2>2, <2>3 DEF TableInv
<1>18. GrowInv'
  BY <1>1, <1>2, <1>8 DEF GrowInv
<1> QED
  BY <1>12, <1>13, <1>15, <1>16, <1>17, <1>18 DEF IInv

\* The caller has its result: what it learns is in the table.
LEMMA ReturnStep == ASSUME IInv, NEW t \in Threads, Return(t) PROVE IInv'
<1> DEFINE c == th[t]
<1>1. /\ c.pc = "done" /\ th' = [th EXCEPT ![t] = Idle]
      /\ known' = IF c.op = "lookup" THEN known
                  ELSE IF c.addr = 0 THEN known \ {c.key} ELSE known \cup {c.key}
      /\ UNCHANGED <<tables, gTable, gCapacity, gSize, grow, copied>>
  BY DEF Return, growVars
<1>2. /\ grow = "no" /\ CurCap = gCapacity /\ gCapacity \in Nat \ {0} /\ GoodTable(Current, gCapacity)
      /\ DOMAIN Current = Ids(gCapacity) /\ c \in Calls /\ c.key \in Keys /\ CallOK(c)
  BY <1>1, ThreadFacts
<1>3. c.op \in {"lookup", "chase", "cas", "insert"}
  BY <1>1, <1>2 DEF CallOK, ShapeOK, Calls
<1>4. Current' = Current /\ CurCap' = CurCap
  BY <1>1 DEF Current, CurCap
<1>5. /\ th' \in [Threads -> Calls] /\ th'[t] = Idle /\ \A u \in Threads : u # t => th'[u] = th[u]
      /\ Idle.pc = "idle" /\ Idle.op = "none"
  BY <1>1, IdleFacts DEF IInv, TypeOK
<1>6. ASSUME c.op # "lookup", c.addr = 0 PROVE c.key \notin known
  <2>1. CASE c.op = "chase"
    BY <1>1, <1>2, <1>6, <2>1 DEF CallOK, LookupOK, Due
  <2>2. CASE c.op \in {"cas", "insert"}
    <3>1. \A j \in DOMAIN Current : Current[j].key \notin {0, c.key}
      BY <1>1, <1>2, <1>6, <2>2 DEF CallOK, WriteOK
    <3> QED
      BY <3>1 DEF IInv, TableInv, KnownInv, Mapped
  <2> QED
    BY <1>3, <1>6, <2>1, <2>2
<1>7. ASSUME c.op # "lookup", c.addr # 0 PROVE Mapped(Current, c.key)
  <2>1. CASE c.op = "chase"
    BY <1>1, <1>2, <2>1 DEF CallOK, LookupOK
  <2>2. CASE c.op \in {"cas", "insert"}
    BY <1>1, <1>2, <1>7, <2>2 DEF CallOK, WriteOK, Mapped
  <2> QED
    BY <1>3, <1>7, <2>1, <2>2
<1>8. /\ known \subseteq known' /\ known' \subseteq Keys /\ \A k \in known' : Mapped(Current, k)
      /\ c.op # "lookup" /\ c.addr # 0 => c.key \in known'
  <2>1. known \subseteq Keys /\ \A k \in known : Mapped(Current, k)
    BY DEF IInv, TypeOK, TableInv, KnownInv
  <2> QED
    BY <1>1, <1>2, <1>6, <1>7, <2>1
<1>9. TypeOK' /\ SeqInv'
  BY <1>1, <1>5, <1>8 DEF IInv, TypeOK, SeqInv
<1>10. ASSUME NEW u \in Threads PROVE CallOK(th[u])'
  <2>1. CASE u = t
    <3>1. th'[u].pc = "idle" /\ th'[u] = Idle
      BY <1>5, <2>1
    <3> QED
      BY <3>1, IdleFacts DEF CallOK, ShapeOK, PlaceOK, ProbeOK, HoldOK, Holding, WriteOK, LookupOK
  <2>2. CASE u # t
    <3>1. th'[u] = th[u] /\ CallOK(th[u])
      BY <1>5, <2>2 DEF IInv, CallInv
    <3>2. ShapeOK(th[u])' /\ PlaceOK(th[u])'
      BY <1>1, <3>1 DEF CallOK, ShapeOK, PlaceOK
    <3>3. ProbeOK(th[u])' /\ HoldOK(th[u])' /\ WriteOK(th[u])'
      BY <1>1, <1>4, <3>1 DEF CallOK, ProbeOK, HoldOK, Holding, WriteOK
    <3>4. LookupOK(th[u])'
      BY <1>1, <1>4, <1>8, <3>1 DEF CallOK, LookupOK, Due
    <3> QED
      BY <3>2, <3>3, <3>4 DEF CallOK
  <2> QED
    BY <2>1, <2>2
<1>11. CallInv'
  BY <1>10 DEF CallInv
<1>12. Owners' = Owners
  BY <1>1, <1>5 DEF Owners
<1>13. OwnerInv'
  <2>1. \A u, v \in Owners' : th'[u].key = th'[v].key => u = v
    <3>1. \A u \in Owners : u # t /\ th'[u] = th[u]
      BY <1>1, <1>5 DEF Owners
    <3> QED
      BY <1>12, <3>1 DEF IInv, OwnerInv
  <2>2. \A u, v \in Threads : th'[u].op = "insert" /\ th'[v].pc # "idle" /\ th'[v].op # "lookup" => u = v
    BY <1>5 DEF IInv, OwnerInv, Writing
  <2> QED
    BY <2>1, <2>2 DEF OwnerInv, Writing
<1>14. FreeInv'
  BY <1>1, <1>4, <1>5 DEF IInv, TableInv, FreeInv
<1>15. KnownInv'
  <2>1. ASSUME NEW j \in DOMAIN Current, Current[j].key \in PlainKeys
        PROVE  \/ Current[j].key \in known'
               \/ \E u \in Threads : /\ th'[u].op = "insert" /\ th'[u].pc \in {"count", "done"}
                                     /\ th'[u].key = Current[j].key
    <3>1. CASE Current[j].key \in known
      BY <1>8, <3>1
    <3>2. CASE Current[j].key \notin known
      <4>1. PICK u \in Threads : /\ th[u].op = "insert" /\ th[u].pc \in {"count", "done"}
                                 /\ th[u].key = Current[j].key
        BY <2>1, <3>2 DEF IInv, TableInv, KnownInv
      <4>2. CASE u # t
        BY <1>5, <4>1, <4>2
      <4>3. CASE u = t
        <5>1. c.addr # 0
          BY <1>1, <1>2, <4>1, <4>3 DEF CallOK, WriteOK
        <5> QED
          BY <1>8, <4>1, <4>3, <5>1
      <4> QED
        BY <4>2, <4>3
    <3> QED
      BY <3>1, <3>2
  <2> QED
    BY <1>4, <1>8, <2>1 DEF KnownInv
<1>16. GoodTable(Current, CurCap)' /\ CountInv' /\ GrowInv'
  BY <1>1, <1>2, <1>4, <1>12 DEF IInv, TableInv, CountInv, GrowInv
<1> QED
  BY <1>9, <1>11, <1>13, <1>14, <1>15, <1>16 DEF IInv, TableInv

-----------------------------------------------------------------------------
(* Growing.                                                                *)

\* When nobody is inside the table, a step of the collector that moves no
\* thread leaves every call as it was.
LEMMA QuietStep ==
  ASSUME IInv, \A t \in Threads : th[t].pc = "idle", th' = th
  PROVE  CallInv' /\ OwnerInv' /\ Owners' = {} /\ Owners = {}
<1>1. \A t \in Threads : th[t] = Idle
  BY DEF IInv, CallInv, CallOK, ShapeOK
<1>2. \A t \in Threads : th'[t].pc = "idle" /\ th'[t].op = "none" /\ th'[t] = Idle
  BY <1>1, IdleFacts
<1>3. CallInv'
  BY <1>2 DEF CallInv, CallOK, ShapeOK, PlaceOK, ProbeOK, HoldOK, Holding, WriteOK, LookupOK
<1>4. Owners = {} /\ Owners' = {}
  BY <1>2 DEF Owners
<1>5. OwnerInv'
  BY <1>2, <1>4 DEF OwnerInv, Writing
<1> QED
  BY <1>3, <1>4, <1>5

\* What the invariant says while the table grows.
LEMMA GrowFacts ==
  ASSUME IInv, grow # "no"
  PROVE  /\ \A t \in Threads : th[t].pc = "idle"
         /\ CurCap \in Nat \ {0} /\ 2 * CurCap \in Nat \ {0} /\ 2 * CurCap \in 1 .. MaxCap
         /\ Current \in [Ids(CurCap) -> Slots] /\ DOMAIN Current = Ids(CurCap)
         /\ NewTable \in [Ids(2 * CurCap) -> Slots] /\ DOMAIN NewTable = Ids(2 * CurCap)
         /\ GoodTable(Current, CurCap) /\ GoodTable(NewTable, 2 * CurCap)
         /\ Len(tables) \in 1 .. Len(tables) /\ gTable \in 1 .. Len(tables) /\ gTable # Len(tables)
<1>1. CurCap \in Nat \ {0} /\ Current \in [Ids(CurCap) -> Slots] /\ DOMAIN Current = Ids(CurCap)
  BY CurrentFacts DEF IInv
<1>2. GoodTable(NewTable, 2 * CurCap) /\ 2 * CurCap <= MaxCap /\ gTable # Len(tables)
      /\ \A t \in Threads : th[t].pc = "idle"
  BY DEF IInv, GrowInv
<1>3. 2 * CurCap \in Nat \ {0} /\ 2 * CurCap \in 1 .. MaxCap
  BY <1>1, <1>2, TableAssumption
<1>4. tables \in Seq(Tables) /\ gTable \in 1 .. Len(tables) /\ Len(tables) \in 1 .. Len(tables)
  <2>1. tables \in Seq(Tables) /\ gTable \in 1 .. Len(tables)
    BY DEF IInv, SeqInv
  <2>2. Len(tables) \in Nat
    BY <2>1
  <2> QED
    BY <2>1, <2>2
<1>5. NewTable \in [Ids(2 * CurCap) -> Slots]
  BY <1>2 DEF GoodTable
<1>6. DOMAIN NewTable = Ids(2 * CurCap)
  BY <1>5
<1> QED
  BY <1>1, <1>2, <1>3, <1>4, <1>5, <1>6 DEF IInv, TableInv

LEMMA EmptyGood ==
  ASSUME NEW cap \in Nat \ {0}
  PROVE  /\ EmptyTable(cap) \in [Ids(cap) -> Slots] /\ GoodTable(EmptyTable(cap), cap)
         /\ \A j \in Ids(cap) : EmptyTable(cap)[j] = EmptySlot
         /\ Used(EmptyTable(cap), cap) = {} /\ Cardinality(Used(EmptyTable(cap), cap)) = 0
<1> DEFINE tb == EmptyTable(cap)
<1>1. EmptySlot \in Slots /\ EmptySlot.key = 0 /\ EmptySlot.addr = 0
  BY DEF EmptySlot, Slots
<1>2. tb \in [Ids(cap) -> Slots] /\ \A j \in Ids(cap) : tb[j] = EmptySlot
  BY <1>1 DEF EmptyTable, Ids
<1> HIDE DEF tb
<1>3. GoodTable(tb, cap)
  BY <1>1, <1>2 DEF GoodTable, PathOK, Unique, ValueOK
<1>4. Used(tb, cap) = {}
  BY <1>1, <1>2 DEF Used, Ids
<1> QED
  BY <1>2, <1>3, <1>4, FS_EmptySet DEF tb

\* At a safepoint, a table twice the size is allocated.
LEMMA GrowBeginStep == ASSUME SoundConfig, IInv, GrowBegin PROVE IInv'
<1> DEFINE C == CurCap
           e == EmptyTable(2 * C)
<1>1. /\ grow = "no" /\ C = gCapacity /\ \A t \in Threads : th[t].pc = "idle"
      /\ gCapacity * 2 <= MaxCap /\ tables' = Append(tables, EmptyTable(gCapacity * 2))
      /\ grow' = "copy" /\ copied' = 0 /\ UNCHANGED <<gTable, gCapacity, gSize, th, known>>
  BY DEF GrowBegin, SoundConfig, IInv, GrowInv
<1>2. C \in Nat \ {0} /\ Current \in [Ids(C) -> Slots] /\ DOMAIN Current = Ids(C)
  BY CurrentFacts DEF IInv
<1>3. 2 * C \in Nat \ {0} /\ 2 * C <= MaxCap /\ 2 * C \in 1 .. MaxCap /\ gCapacity * 2 = 2 * C
  BY <1>1, <1>2, TableAssumption
<1>4. tables' = Append(tables, e)
  BY <1>1, <1>3
<1>5. e \in Tables
  BY <1>3, EmptyGood DEF Tables
<1> HIDE DEF e
<1>6. tables \in Seq(Tables) /\ gTable \in 1 .. Len(tables) /\ Len(tables) \in Nat
  BY DEF IInv, SeqInv
<1>7. /\ tables' \in Seq(Tables) /\ Len(tables') = Len(tables) + 1
      /\ \A r \in 1 .. Len(tables) : tables'[r] = tables[r]
      /\ tables'[Len(tables) + 1] = e
  BY <1>4, <1>5, <1>6, AppendProperties
<1>8. gTable' \in 1 .. Len(tables') /\ gTable' # Len(tables')
  BY <1>1, <1>6, <1>7
<1>9. Current' = Current /\ CurCap' = C /\ NewTable' = e
  BY <1>1, <1>6, <1>7 DEF Current, CurCap, NewTable
<1>10. TypeOK' /\ SeqInv'
  <2>1. /\ \A r \in DOMAIN tables' : \E cap \in 1 .. MaxCap : tables'[r] \in [0 .. cap - 1 -> Slots]
        /\ gTable' \in DOMAIN tables'
    BY <1>7, <1>8, SeqType
  <2> QED
    BY <1>1, <1>7, <1>8, <2>1 DEF IInv, TypeOK, SeqInv
<1>11. CallInv' /\ OwnerInv' /\ Owners' = {} /\ Owners = {}
  BY <1>1, QuietStep
<1>12. TableInv' /\ CountInv'
  <2>1. GoodTable(Current, CurCap)'
    BY <1>9 DEF IInv, TableInv
  <2>2. FreeInv' /\ KnownInv'
    BY <1>1, <1>9 DEF IInv, TableInv, FreeInv, KnownInv
  <2>3. CountInv'
    BY <1>1, <1>9, <1>11 DEF IInv, CountInv
  <2> QED
    BY <2>1, <2>2, <2>3 DEF TableInv
<1>13. GrowInv'
  <2>1. /\ GoodTable(e, 2 * C) /\ \A s \in Ids(2 * C) : e[s] = EmptySlot
        /\ Cardinality(Used(e, 2 * C)) = 0
    BY <1>3, EmptyGood DEF e
  <2>2. Cardinality(Used(Current, 0)) = 0
    <3>1. Used(Current, 0) = {}
      BY DEF Used
    <3> QED
      BY <3>1, FS_EmptySet
  <2>3. 0 \in 0 .. C /\ 0 .. 0 - 1 = {} /\ EmptySlot.key = 0
    BY <1>2 DEF EmptySlot
  <2> QED
    BY <1>1, <1>3, <1>8, <1>9, <2>1, <2>2, <2>3 DEF GrowInv
<1> QED
  BY <1>10, <1>11, <1>12, <1>13 DEF IInv

LEMMA UsedNext ==
  ASSUME NEW tb, NEW n \in Nat
  PROVE  Cardinality(Used(tb, n + 1)) = IF tb[n].key = 0 THEN Cardinality(Used(tb, n))
                                        ELSE Cardinality(Used(tb, n)) + 1
<1>1. CASE tb[n].key = 0
  <2>1. Used(tb, n + 1) = Used(tb, n)
    BY <1>1 DEF Used
  <2> QED
    BY <1>1, <2>1
<1>2. CASE tb[n].key # 0
  <2>1. Used(tb, n + 1) = Used(tb, n) \cup {n} /\ n \notin Used(tb, n)
    BY <1>2 DEF Used
  <2> QED
    BY <1>2, <2>1, UsedFinite, FS_AddElement
<1> QED
  BY <1>1, <1>2

\* A step of the copy loop, which puts the entry into the first free slot of
\* its probe sequence in the new table.
LEMMA GrowCopyStep == ASSUME IInv, GrowCopy PROVE IInv'
<1> DEFINE C == CurCap
           N == 2 * C
           e == Current[copied]
           tb == NewTable
           i == FreeSlot(tb, e.key)
           nt == IF e.key = 0 THEN tb ELSE [tb EXCEPT ![i] = e]
<1>1. /\ grow = "copy" /\ copied < gCapacity /\ copied' = copied + 1
      /\ tables' = IF e.key = 0 THEN tables ELSE [tables EXCEPT ![Len(tables)][i] = e]
      /\ UNCHANGED <<gTable, gCapacity, gSize, grow, th, known>>
  BY DEF GrowCopy
<1>2. /\ \A t \in Threads : th[t].pc = "idle"
      /\ C \in Nat \ {0} /\ N \in Nat \ {0} /\ N \in 1 .. MaxCap
      /\ Current \in [Ids(C) -> Slots] /\ DOMAIN Current = Ids(C)
      /\ tb \in [Ids(N) -> Slots] /\ DOMAIN tb = Ids(N)
      /\ GoodTable(Current, C) /\ GoodTable(tb, N)
      /\ Len(tables) \in 1 .. Len(tables) /\ gTable \in 1 .. Len(tables) /\ gTable # Len(tables)
  BY <1>1, GrowFacts
<1>3. /\ gCapacity = C /\ copied \in 0 .. C /\ 2 * C <= MaxCap
      /\ \A s \in Ids(N) : IF tb[s].key = 0 THEN tb[s] = EmptySlot
                           ELSE \E j \in 0 .. copied - 1 : tb[s] = Current[j]
      /\ \A j \in 0 .. copied - 1 : Current[j].key # 0 => \E s \in Ids(N) : tb[s] = Current[j]
      /\ Cardinality(Used(tb, N)) = Cardinality(Used(Current, copied))
  BY <1>1 DEF IInv, GrowInv
<1>4. copied \in Ids(C) /\ copied \in Nat /\ copied < N /\ e \in Slots /\ copied + 1 \in 0 .. C
  <2>1. copied \in Ids(C) /\ copied \in Nat /\ copied < N /\ copied + 1 \in 0 .. C
    BY <1>1, <1>2, <1>3 DEF Ids
  <2> QED
    BY <1>2, <2>1
<1>5. \A j \in 0 .. copied - 1 : j \in Ids(C) /\ j # copied
  BY <1>2, <1>3 DEF Ids
<1> HIDE DEF C, N, e, tb, i
\* The new entry.
<1>6. ASSUME e.key # 0
      PROVE  /\ i \in Ids(N) /\ tb[i].key = 0 /\ nt = [tb EXCEPT ![i] = e] /\ GoodTable(nt, N)
             /\ Cardinality(Used(nt, N)) = Cardinality(Used(tb, N)) + 1
  <2>1. e.key \in Keys
    BY <1>4, <1>6 DEF Slots
  <2>2. Cardinality(Used(tb, N)) < N
    <3>1. Cardinality(Used(Current, copied)) \in Nat /\ Cardinality(Used(Current, copied)) <= copied
      BY <1>4, UsedFinite
    <3> QED
      BY <1>2, <1>3, <1>4, <3>1
  <2>3. PICK n \in Ids(N) : /\ i = Pos(e.key, N, n) /\ tb[Pos(e.key, N, n)].key = 0
                            /\ \A q \in Ids(N) : q < n => tb[Pos(e.key, N, q)].key # 0
    BY <1>2, <2>1, <2>2, FreeSlotFacts DEF i
  <2>4. i \in Ids(N)
    <3>1. n \in 0 .. N
      BY <1>2 DEF Ids
    <3> QED
      BY <1>2, <2>1, <2>3, <3>1, PosFacts
  <2>5. \A s \in Ids(N) : tb[s].key # e.key
    <3> SUFFICES ASSUME NEW s \in Ids(N), tb[s].key = e.key PROVE FALSE
      OBVIOUS
    <3>1. PICK j \in 0 .. copied - 1 : tb[s] = Current[j]
      BY <1>3, <1>6
    <3>2. Current[j].key = Current[copied].key /\ Current[j].key # 0
      BY <1>6, <3>1 DEF e
    <3> QED
      BY <1>2, <1>4, <1>5, <3>2 DEF GoodTable, Unique
  <2>6. ValueOK(e)
    BY <1>2, <1>4 DEF GoodTable, e
  <2>7. GoodTable([tb EXCEPT ![Pos(e.key, N, n)] = e], N)
    BY <1>2, <1>4, <2>1, <2>3, <2>5, <2>6, PutGood
  <2>8. Cardinality(Used([tb EXCEPT ![i] = e], N)) = Cardinality(Used(tb, N)) + 1
    <3>1. N \in Nat
      BY <1>2
    <3> QED
      BY <1>2, <1>4, <1>6, <2>3, <2>4, <3>1, UsedPut
  <2> QED
    BY <1>6, <2>3, <2>4, <2>7, <2>8
<1>7. GoodTable(nt, N) /\ nt \in [Ids(N) -> Slots]
  <2>1. GoodTable(nt, N)
    BY <1>2, <1>6
  <2> QED
    BY <2>1 DEF GoodTable
<1>8. Cardinality(Used(nt, N)) = Cardinality(Used(Current, copied + 1))
  <2>1. Cardinality(Used(Current, copied + 1)) = IF e.key = 0 THEN Cardinality(Used(Current, copied))
                                                 ELSE Cardinality(Used(Current, copied)) + 1
    BY <1>4, UsedNext DEF e
  <2> QED
    BY <1>3, <1>6, <2>1
<1>9. \A s \in Ids(N) : IF nt[s].key = 0 THEN nt[s] = EmptySlot
                        ELSE \E j \in 0 .. (copied + 1) - 1 : nt[s] = Current[j]
  <2> SUFFICES ASSUME NEW s \in Ids(N)
               PROVE  IF nt[s].key = 0 THEN nt[s] = EmptySlot
                      ELSE \E j \in 0 .. (copied + 1) - 1 : nt[s] = Current[j]
    OBVIOUS
  <2>0. copied \in 0 .. (copied + 1) - 1 /\ \A j \in 0 .. copied - 1 : j \in 0 .. (copied + 1) - 1
    BY <1>4
  <2>1. CASE e.key = 0
    BY <1>3, <2>0, <2>1
  <2>2. CASE e.key # 0 /\ s = i
    BY <1>2, <1>6, <2>0, <2>2 DEF e
  <2>3. CASE e.key # 0 /\ s # i
    <3>1. nt[s] = tb[s]
      BY <1>2, <1>6, <2>3
    <3> QED
      BY <1>3, <2>0, <3>1
  <2> QED
    BY <2>1, <2>2, <2>3
<1>10. \A j \in 0 .. (copied + 1) - 1 : Current[j].key # 0 => \E s \in Ids(N) : nt[s] = Current[j]
  <2> SUFFICES ASSUME NEW j \in 0 .. (copied + 1) - 1, Current[j].key # 0
               PROVE  \E s \in Ids(N) : nt[s] = Current[j]
    OBVIOUS
  <2>1. CASE j = copied
    BY <1>2, <1>6, <2>1 DEF e
  <2>2. CASE j # copied
    <3>1. j \in 0 .. copied - 1
      BY <1>4, <2>2
    <3>2. PICK s \in Ids(N) : tb[s] = Current[j]
      BY <1>3, <3>1
    <3>3. nt[s] = tb[s]
      BY <1>2, <1>6, <3>2
    <3> QED
      BY <3>2, <3>3
  <2> QED
    BY <2>1, <2>2
\* The new table in its place.
<1>11. tables' = [tables EXCEPT ![Len(tables)] = nt]
  <2>1. tables \in Seq(Tables)
    BY DEF IInv, SeqInv
  <2>2. CASE e.key = 0
    BY <1>1, <1>2, <2>1, <2>2 DEF tb, NewTable
  <2>3. CASE e.key # 0
    BY <1>1, <1>6, <2>3 DEF tb, NewTable
  <2> QED
    BY <2>2, <2>3
<1> HIDE DEF nt
<1>12. /\ SeqInv' /\ Len(tables') = Len(tables) /\ tables'[Len(tables)] = nt
       /\ \A r \in 1 .. Len(tables) : r # Len(tables) => tables'[r] = tables[r]
  BY <1>1, <1>2, <1>7, <1>11, TablesReplace DEF IInv
<1>13. Current' = Current /\ CurCap' = C /\ NewTable' = nt
  BY <1>1, <1>2, <1>12 DEF Current, CurCap, NewTable, C
<1>14. TypeOK'
  <2>1. tables' \in Seq(Tables) /\ gTable' \in 1 .. Len(tables')
    BY <1>12 DEF SeqInv
  <2>2. /\ \A r \in DOMAIN tables' : \E cap \in 1 .. MaxCap : tables'[r] \in [0 .. cap - 1 -> Slots]
        /\ gTable' \in DOMAIN tables'
    BY <2>1, SeqType
  <2>3. copied' \in Nat
    BY <1>1, <1>4
  <2> QED
    BY <1>1, <2>2, <2>3 DEF IInv, TypeOK
<1>15. CallInv' /\ OwnerInv' /\ Owners' = {} /\ Owners = {}
  BY <1>1, <1>2, QuietStep
<1>16. TableInv' /\ CountInv'
  <2>1. GoodTable(Current, CurCap)'
    BY <1>2, <1>13
  <2>2. FreeInv' /\ KnownInv'
    BY <1>1, <1>13 DEF IInv, TableInv, FreeInv, KnownInv
  <2>3. CountInv'
    BY <1>1, <1>13, <1>15 DEF IInv, CountInv, C
  <2> QED
    BY <2>1, <2>2, <2>3 DEF TableInv
<1>17. GrowInv'
  <2>1. 2 * CurCap' = N /\ copied' = copied + 1 /\ grow' = "copy" /\ gTable' # Len(tables')
        /\ \A t \in Threads : th'[t].pc = "idle"
    BY <1>1, <1>2, <1>12, <1>13 DEF N
  <2> QED
    BY <1>1, <1>3, <1>4, <1>7, <1>8, <1>9, <1>10, <1>13, <2>1 DEF GrowInv, N
<1> QED
  BY <1>12, <1>14, <1>15, <1>16, <1>17 DEF IInv

\* The capacity is published before the table: nobody is there to use both.
LEMMA GrowCapacityStep == ASSUME IInv, GrowCapacity PROVE IInv'
<1>1. /\ grow = "copy" /\ copied = gCapacity /\ gCapacity' = gCapacity * 2 /\ grow' = "table"
      /\ UNCHANGED <<tables, gTable, gSize, copied, th, known>>
  BY DEF GrowCapacity
<1>2. /\ \A t \in Threads : th[t].pc = "idle"
      /\ CurCap \in Nat \ {0} /\ 2 * CurCap \in 1 .. MaxCap
  BY <1>1, GrowFacts
<1>3. gCapacity = CurCap
  BY <1>1 DEF IInv, GrowInv
<1>4. Current' = Current /\ CurCap' = CurCap /\ NewTable' = NewTable
  BY <1>1 DEF Current, CurCap, NewTable
<1>5. TypeOK' /\ SeqInv'
  <2>1. gCapacity' \in 1 .. MaxCap /\ gSize' \in 0 .. gCapacity'
    BY <1>1, <1>2, <1>3 DEF IInv, TypeOK
  <2> QED
    BY <1>1, <2>1 DEF IInv, TypeOK, SeqInv
<1>6. CallInv' /\ OwnerInv' /\ Owners' = {} /\ Owners = {}
  BY <1>1, <1>2, QuietStep
<1>7. TableInv' /\ CountInv'
  <2>1. GoodTable(Current, CurCap)'
    BY <1>4 DEF IInv, TableInv
  <2>2. FreeInv' /\ KnownInv'
    BY <1>1, <1>4 DEF IInv, TableInv, FreeInv, KnownInv
  <2>3. CountInv'
    BY <1>1, <1>4, <1>6 DEF IInv, CountInv
  <2> QED
    BY <2>1, <2>2, <2>3 DEF TableInv
<1>8. GrowInv'
  <2>1. gCapacity' = 2 * CurCap' /\ copied' = CurCap'
    BY <1>1, <1>2, <1>3, <1>4
  <2> QED
    BY <1>1, <1>4, <2>1 DEF IInv, GrowInv
<1> QED
  BY <1>5, <1>6, <1>7, <1>8 DEF IInv

\* The finished new table has every entry of the old one and no other.
LEMMA NewTableIsOld ==
  ASSUME IInv, grow = "table"
  PROVE  /\ gCapacity = 2 * CurCap
         /\ \A s \in Ids(2 * CurCap) : IF NewTable[s].key = 0 THEN NewTable[s] = EmptySlot
                                       ELSE \E j \in Ids(CurCap) : NewTable[s] = Current[j]
         /\ \A j \in Ids(CurCap) : Current[j].key # 0 => \E s \in Ids(2 * CurCap) : NewTable[s] = Current[j]
         /\ Cardinality(Used(NewTable, 2 * CurCap)) = Cardinality(Used(Current, CurCap))
         /\ \A k \in Keys : Map(Current, k) # 0 => Map(NewTable, k) = Map(Current, k)
         /\ \A k \in Keys : Mapped(Current, k) => Mapped(NewTable, k)
<1>1. /\ gCapacity = 2 * CurCap /\ copied = CurCap
      /\ \A s \in Ids(2 * CurCap) : IF NewTable[s].key = 0 THEN NewTable[s] = EmptySlot
                                    ELSE \E j \in 0 .. copied - 1 : NewTable[s] = Current[j]
      /\ \A j \in 0 .. copied - 1 : Current[j].key # 0 => \E s \in Ids(2 * CurCap) : NewTable[s] = Current[j]
      /\ Cardinality(Used(NewTable, 2 * CurCap)) = Cardinality(Used(Current, copied))
  BY DEF IInv, GrowInv
<1>2. 0 .. copied - 1 = Ids(CurCap)
  BY <1>1 DEF Ids
<1>3. /\ DOMAIN Current = Ids(CurCap) /\ DOMAIN NewTable = Ids(2 * CurCap)
      /\ Unique(Current, CurCap) /\ Unique(NewTable, 2 * CurCap)
  BY GrowFacts DEF GoodTable
<1>4. ASSUME NEW k \in Keys, Mapped(Current, k)
      PROVE  Mapped(NewTable, k) /\ Map(NewTable, k) = Map(Current, k)
  <2>1. PICK j \in Ids(CurCap) : Current[j].key = k /\ Current[j].addr # 0
    BY <1>3, <1>4 DEF Mapped
  <2>2. k # 0
    BY KeysFacts
  <2>3. PICK s \in Ids(2 * CurCap) : NewTable[s] = Current[j]
    BY <1>1, <1>2, <2>1, <2>2
  <2>4. Map(Current, k) = Current[j].addr
    BY <1>3, <2>1, <2>2, MapIs
  <2>5. Map(NewTable, k) = NewTable[s].addr
    BY <1>3, <2>1, <2>2, <2>3, MapIs
  <2> QED
    BY <1>3, <2>1, <2>3, <2>4, <2>5 DEF Mapped
<1>5. \A k \in Keys : Map(Current, k) # 0 => Map(NewTable, k) = Map(Current, k)
  BY <1>3, <1>4, MapMapped
<1> QED
  BY <1>1, <1>2, <1>4, <1>5

\* The new table is published.
LEMMA GrowTableStep == ASSUME IInv, GrowTable PROVE IInv'
<1>1. /\ grow = "table" /\ gTable' = Len(tables) /\ grow' = "no" /\ copied' = 0
      /\ UNCHANGED <<tables, gCapacity, gSize, th, known>>
  BY DEF GrowTable
<1>2. /\ \A t \in Threads : th[t].pc = "idle"
      /\ CurCap \in Nat \ {0} /\ 2 * CurCap \in Nat \ {0}
      /\ DOMAIN Current = Ids(CurCap) /\ DOMAIN NewTable = Ids(2 * CurCap)
      /\ GoodTable(NewTable, 2 * CurCap) /\ Len(tables) \in 1 .. Len(tables)
  BY <1>1, GrowFacts
<1>3. Current' = NewTable /\ CurCap' = 2 * CurCap
  <2>1. Current' = NewTable
    BY <1>1 DEF Current, NewTable
  <2>2. Cardinality(DOMAIN NewTable) = 2 * CurCap
    BY <1>2, IdsFacts
  <2> QED
    BY <2>1, <2>2 DEF CurCap
<1>4. SeqInv'
  BY <1>1, <1>2 DEF IInv, SeqInv
<1>5. TypeOK'
  <2>1. tables' \in Seq(Tables) /\ gTable' \in 1 .. Len(tables')
    BY <1>4 DEF SeqInv
  <2>2. gTable' \in DOMAIN tables'
    BY <2>1, SeqType
  <2> QED
    BY <1>1, <2>2 DEF IInv, TypeOK
<1>6. CallInv' /\ OwnerInv' /\ Owners' = {} /\ Owners = {}
  BY <1>1, <1>2, QuietStep
<1>7. FreeInv'
  <2>1. \A s \in Ids(2 * CurCap) : NewTable[s].key = 0 => NewTable[s].addr = 0
    BY <1>1, NewTableIsOld DEF EmptySlot
  <2> QED
    BY <1>2, <1>3, <2>1 DEF FreeInv
<1>8. KnownInv'
  <2>1. \A k \in known : Mapped(NewTable, k)
    BY <1>1, NewTableIsOld DEF IInv, TypeOK, TableInv, KnownInv
  <2>2. ASSUME NEW s \in Ids(2 * CurCap), NewTable[s].key \in PlainKeys
        PROVE  NewTable[s].key \in known
    <3>1. NewTable[s].key # 0
      BY <2>2, TableAssumption
    <3>2. PICK j \in Ids(CurCap) : NewTable[s] = Current[j]
      BY <1>1, <3>1, NewTableIsOld
    <3> QED
      BY <1>2, <2>2, <3>2 DEF IInv, TableInv, KnownInv
  <2> QED
    BY <1>1, <1>2, <1>3, <2>1, <2>2 DEF KnownInv
<1>9. CountInv'
  BY <1>1, <1>3, <1>6, NewTableIsOld DEF IInv, CountInv
<1>10. GoodTable(Current, CurCap)' /\ GrowInv'
  BY <1>1, <1>2, <1>3, NewTableIsOld DEF GrowInv
<1> QED
  BY <1>4, <1>5, <1>6, <1>7, <1>8, <1>9, <1>10 DEF IInv, TableInv

-----------------------------------------------------------------------------
(* The invariant.                                                          *)

LEMMA InitInv == Init => IInv
<1> SUFFICES ASSUME Init PROVE IInv
  OBVIOUS
<1> DEFINE e == EmptyTable(InitialCap)
<1>1. /\ tables = <<e>> /\ gTable = 1 /\ gCapacity = InitialCap /\ gSize = 0 /\ grow = "no" /\ copied = 0
      /\ th = [t \in Threads |-> Idle] /\ known = {}
  BY DEF Init
<1>2. InitialCap \in Nat \ {0} /\ InitialCap \in 1 .. MaxCap
  BY TableAssumption
<1>3. /\ e \in [Ids(InitialCap) -> Slots] /\ GoodTable(e, InitialCap)
      /\ \A j \in Ids(InitialCap) : e[j] = EmptySlot
      /\ Cardinality(Used(e, InitialCap)) = 0
  BY <1>2, EmptyGood
<1> HIDE DEF e
<1>4. e \in Tables
  BY <1>2, <1>3 DEF Tables
<1>5. SeqInv
  BY <1>1, <1>4 DEF SeqInv
<1>6. Current = e /\ CurCap = InitialCap /\ DOMAIN Current = Ids(InitialCap)
  <2>1. Current = e /\ DOMAIN e = Ids(InitialCap)
    BY <1>1, <1>3 DEF Current
  <2>2. Cardinality(DOMAIN Current) = InitialCap
    BY <1>2, <2>1, IdsFacts
  <2> QED
    BY <2>1, <2>2 DEF CurCap
<1>7. \A t \in Threads : th[t] = Idle /\ th[t].pc = "idle" /\ th[t].op = "none"
  BY <1>1, IdleFacts
<1>8. TypeOK
  <2>1. /\ \A r \in DOMAIN tables : \E cap \in 1 .. MaxCap : tables[r] \in [0 .. cap - 1 -> Slots]
        /\ gTable \in DOMAIN tables
    BY <1>5, SeqType DEF SeqInv
  <2>2. th \in [Threads -> Calls]
    BY <1>1, IdleFacts
  <2>3. gSize \in 0 .. gCapacity
    BY <1>1, <1>2
  <2> QED
    BY <1>1, <1>2, <2>1, <2>2, <2>3 DEF TypeOK
<1>9. CallInv
  BY <1>7, IdleFacts DEF CallInv
<1>10. Owners = {}
  BY <1>7 DEF Owners
<1>11. OwnerInv
  BY <1>7, <1>10 DEF OwnerInv
<1>12. TableInv
  <2>1. \A j \in DOMAIN Current : Current[j].key = 0 /\ Current[j].addr = 0
    BY <1>3, <1>6 DEF EmptySlot
  <2>2. 0 \notin PlainKeys
    BY TableAssumption
  <2> QED
    BY <1>1, <1>3, <1>6, <2>1, <2>2 DEF TableInv, FreeInv, KnownInv
<1>13. CountInv
  BY <1>1, <1>3, <1>6, <1>10, FS_EmptySet DEF CountInv
<1>14. GrowInv
  BY <1>1, <1>6 DEF GrowInv
<1> QED
  BY <1>5, <1>8, <1>9, <1>11, <1>12, <1>13, <1>14 DEF IInv

LEMMA StepInv == ASSUME IInv, NEW t \in Threads, Step(t) PROVE IInv'
<1>1. CASE LoadTable(t) \/ LoadCapacity(t)
  BY <1>1, LoadTableStep, LoadCapacityStep
<1>2. CASE ProbeMiss(t) \/ ProbeHit(t) \/ ProbeOther(t) \/ ReadAddr(t) \/ ReadLen(t)
  BY <1>2, ProbeMissStep, ProbeHitStep, ProbeOtherStep, ReadAddrStep, ReadLenStep
<1>3. CASE InsertFull(t) \/ CasFound(t) \/ CasFree(t) \/ CasWin(t) \/ CasLose(t) \/ Spin(t)
  BY <1>3, InsertFullStep, CasFoundStep, CasFreeStep, CasWinStep, CasLoseStep, SpinStep
<1>4. CASE InsertSlot(t) \/ StoreLen(t) \/ StoreAddr(t) \/ StoreKey(t) \/ Count(t) \/ Return(t)
  BY <1>4, InsertSlotStep, StoreLenStep, StoreAddrStep, StoreKeyStep, CountStep, ReturnStep
<1> QED
  BY <1>1, <1>2, <1>3, <1>4 DEF Step

LEMMA StutterInv == ASSUME IInv, UNCHANGED vars PROVE IInv'
<1>1. UNCHANGED <<tables, gTable, gCapacity, gSize, grow, copied, th, known>>
  BY DEF vars, sharedVars, growVars
<1>2. Current' = Current /\ CurCap' = CurCap /\ NewTable' = NewTable /\ Owners' = Owners
  BY <1>1 DEF Current, CurCap, NewTable, Owners
<1>3. TypeOK' /\ SeqInv'
  BY <1>1 DEF IInv, TypeOK, SeqInv
<1>4. CallInv'
  BY <1>1, SameCall DEF IInv, CallInv
<1>5. OwnerInv'
  BY <1>1, <1>2 DEF IInv, OwnerInv, Writing
<1>6. TableInv' /\ CountInv'
  BY <1>1, <1>2 DEF IInv, TableInv, FreeInv, KnownInv, CountInv
<1>7. GrowInv'
  BY <1>1, <1>2 DEF IInv, GrowInv
<1> QED
  BY <1>3, <1>4, <1>5, <1>6, <1>7 DEF IInv

LEMMA NextInv == ASSUME SoundConfig, IInv, [Next]_vars PROVE IInv'
<1>1. ASSUME NEW t \in Threads, Call(t) \/ Step(t) PROVE IInv'
  BY <1>1, CallStep, StepInv
<1>2. CASE Grow
  BY <1>2, GrowBeginStep, GrowCopyStep, GrowCapacityStep, GrowTableStep DEF Grow
<1> QED
  BY <1>1, <1>2, StutterInv DEF Next

\* The forwarding table, grown at a safepoint and without deletions, keeps its
\* entries on their probe sequences, whatever its threads do.
THEOREM Invariance == ASSUME SoundConfig PROVE Spec => []IInv
<1>1. Init => IInv
  BY InitInv
<1>2. IInv /\ [Next]_vars => IInv'
  BY NextInv
<1> QED
  BY <1>1, <1>2, PTL DEF Spec

-----------------------------------------------------------------------------
(* The properties.                                                         *)

\* Every variable has its type, and g_size never exceeds the capacity.
THEOREM TypeCorrect == ASSUME SoundConfig PROVE Spec => []TypeOK
<1>1. IInv => TypeOK
  BY DEF IInv
<1> QED
  BY <1>1, Invariance, PTL

\* A key has one slot, however many threads race to insert it, in every table
\* the growths lead to: two racing threads never forward an object twice.
THEOREM OneSlot == ASSUME SoundConfig PROVE Spec => []OneSlotPerKey
<1>1. IInv => OneSlotPerKey
  BY CurrentFacts DEF IInv, TableInv, GoodTable, Unique, OneSlotPerKey
<1> QED
  BY <1>1, Invariance, PTL

\* A forward_table_cas_insert that gives up has met a full table.
THEOREM NullFull == ASSUME SoundConfig PROVE Spec => []NullMeansFull
<1>1. IInv => NullMeansFull
  BY DEF IInv, CallInv, CallOK, WriteOK, NullMeansFull
<1> QED
  BY <1>1, Invariance, PTL

\* When no insertion runs and the table is not growing, g_size, which decides
\* on growing, is the number of entries.
THEOREM SizeExact == ASSUME SoundConfig PROVE Spec => []SizeIsExact
<1>1. IInv => SizeIsExact
  <2> SUFFICES ASSUME IInv, \A t \in Threads : ~ Writing(t)
               PROVE  gSize = Cardinality({j \in DOMAIN Current : Current[j].key # 0})
    BY DEF SizeIsExact
  <2>1. Owners = {}
    <3> SUFFICES ASSUME NEW t \in Owners PROVE FALSE
      OBVIOUS
    <3>1. t \in Threads /\ CallOK(th[t]) /\ th[t].pc \in {"len", "addr", "count"}
      BY DEF Owners, IInv, CallInv
    <3> QED
      BY <3>1 DEF CallOK, ShapeOK, Writing
  <2>2. Used(Current, CurCap) = {j \in DOMAIN Current : Current[j].key # 0}
    BY CurrentFacts DEF IInv, Used, Ids
  <2>3. Cardinality(Used(Current, CurCap)) = gSize + Cardinality(Owners) /\ gSize \in Nat
    BY DEF IInv, CountInv, TypeOK
  <2> QED
    BY <2>1, <2>2, <2>3, FS_EmptySet
<1> QED
  BY <1>1, Invariance, PTL

\* Every answer is authoritative: a lookup, a winner or a loser of the race
\* never returns NULL for a key that was known when it was called, never an
\* address that was known to have moved, and otherwise a copy on the key's
\* chain, with its own bounds.
THEOREM AnswersCurrent == ASSUME SoundConfig PROVE Spec => []AnswersAreCurrent
<1>1. IInv => AnswersAreCurrent
  <2> SUFFICES ASSUME IInv, NEW t \in Threads, th[t].pc = "done", th[t].op # "insert"
               PROVE  /\ th[t].key \in th[t].before => th[t].addr # 0
                      /\ th[t].addr \notin th[t].before
                      /\ th[t].addr # 0 => th[t].addr \in Chain(Current, th[t].key) /\ th[t].len = th[t].addr
    BY DEF AnswersAreCurrent
  <2> DEFINE c == th[t]
  <2>1. /\ gCapacity \in Nat \ {0} /\ GoodTable(Current, gCapacity) /\ DOMAIN Current = Ids(gCapacity)
        /\ c \in Calls /\ c.key \in Keys /\ c.key # 0 /\ CallOK(c)
    BY ThreadFacts, KeysFacts
  <2>2. c.op \in {"lookup", "chase", "cas"}
    BY <2>1 DEF CallOK, ShapeOK, Calls
  <2>3. CASE c.op \in {"lookup", "chase"}
    BY <2>1, <2>3 DEF CallOK, LookupOK, Due
  <2>4. CASE c.op = "cas"
    <3>1. c.before \subseteq known /\ 0 \notin c.before /\ c.new \notin c.before
      BY <2>1, <2>4, KeysFacts DEF CallOK, LookupOK, ShapeOK, Calls
    <3>2. CASE c.addr = 0
      <4>1. \A j \in DOMAIN Current : Current[j].key # c.key
        BY <2>1, <2>4, <3>2 DEF CallOK, WriteOK
      <4>2. c.key \notin known
        BY <4>1 DEF IInv, TableInv, KnownInv, Mapped
      <4> QED
        BY <3>1, <3>2, <4>2
    <3>3. CASE c.addr # 0
      <4>1. PICK j \in Ids(gCapacity) : Current[j].key = c.key /\ Current[j].addr = c.new
        BY <2>1, <2>4, <3>3 DEF CallOK, WriteOK
      <4>2. c.addr = c.new /\ c.len = c.new
        BY <2>1, <2>4, <3>3 DEF CallOK, WriteOK
      <4>3. Map(Current, c.key) = c.new
        BY <2>1, <4>1, MapIs DEF GoodTable
      <4>4. c.new \in Chain(Current, c.key)
        BY <2>1, <3>3, <4>2, <4>3, ChainStart DEF GoodTable
      <4> QED
        BY <3>1, <3>3, <4>2, <4>4
    <3> QED
      BY <3>2, <3>3
  <2> QED
    BY <2>2, <2>3, <2>4
<1> QED
  BY <1>1, Invariance, PTL

\* A store keeps what every key maps to.
LEMMA StoreKeepsMap ==
  ASSUME IInv, IInv', NEW t \in Threads, th[t].pc \in {"cas", "len", "addr", "key"},
         NEW s, NEW pc, Store(t, s, pc),
         Slot(t).key # 0 => s.key = Slot(t).key /\ Slot(t).addr = 0
  PROVE  \A k \in Keys : Map(Current, k) # 0 => Map(Current', k) = Map(Current, k)
<1> DEFINE i == th[t].i
<1>1. /\ CurCap = gCapacity /\ GoodTable(Current, gCapacity) /\ DOMAIN Current = Ids(gCapacity)
      /\ gCapacity \in Nat \ {0} /\ grow = "no"
  BY ThreadFacts
<1>2. th[t].tab = gTable /\ i \in Ids(gCapacity) /\ Slot(t) = Current[i]
  BY SlotFacts
<1>3. Current' = [Current EXCEPT ![i] = s] /\ UNCHANGED <<gCapacity, grow>>
  <2>1. tables \in Seq(Tables) /\ gTable \in 1 .. Len(tables)
    BY DEF IInv, SeqInv
  <2> QED
    BY <1>2, <2>1 DEF Store, Stored, Current, growVars
<1>4. Extends(Current, Current', gCapacity)
  BY <1>1, <1>2, <1>3 DEF Extends
<1>5. GoodTable(Current', gCapacity)
  BY <1>1, <1>3 DEF IInv, TableInv, GrowInv
<1> QED
  BY <1>1, <1>4, <1>5, ExtendsMap

LEMMA MapStep ==
  ASSUME IInv, IInv', [Next]_vars
  PROVE  \A k \in Keys : Map(Current, k) # 0 => Map(Current', k) = Map(Current, k)
<1> DEFINE P == \A k \in Keys : Map(Current, k) # 0 => Map(Current', k) = Map(Current, k)
<1>1. Current' = Current => P
  OBVIOUS
<1>2. UNCHANGED <<tables, gTable>> => P
  BY <1>1 DEF Current
<1> HIDE DEF P
<1>3. ASSUME NEW t \in Threads, NEW d, Goto(t, d) PROVE P
  BY <1>2, <1>3 DEF Goto, sharedVars
<1>4. ASSUME NEW t \in Threads, Call(t) PROVE P
  BY <1>2, <1>4 DEF Call, Lookup, CasInsert, Insert, Begin, sharedVars
<1>5. ASSUME NEW t \in Threads, LoadTable(t) \/ LoadCapacity(t) \/ ProbeMiss(t) \/ ProbeHit(t) \/ ProbeOther(t)
      PROVE  P
  BY <1>3, <1>5 DEF LoadTable, LoadCapacity, ProbeMiss, ProbeHit, ProbeOther
<1>6. ASSUME NEW t \in Threads, ReadAddr(t) \/ ReadLen(t) \/ InsertFull(t) \/ CasFound(t) \/ CasFree(t)
      PROVE  P
  BY <1>3, <1>6 DEF ReadAddr, ReadLen, InsertFull, CasFound, CasFree
<1>7. ASSUME NEW t \in Threads, CasLose(t) \/ Spin(t) \/ InsertSlot(t) PROVE P
  BY <1>3, <1>7 DEF CasLose, Spin, InsertSlot
<1>8. ASSUME NEW t \in Threads, Count(t) \/ Return(t) PROVE P
  BY <1>2, <1>8 DEF Count, Return
<1>9. ASSUME NEW t \in Threads, CasWin(t) PROVE P
  BY <1>9, StoreKeepsMap DEF CasWin, P
<1>10. ASSUME NEW t \in Threads, StoreLen(t) \/ StoreAddr(t) \/ StoreKey(t) PROVE P
  <2>1. th[t].pc \in {"len", "addr", "key"}
    BY <1>10 DEF StoreLen, StoreAddr, StoreKey
  <2>2. CallOK(th[t]) /\ Slot(t) = Current[th[t].i] /\ Slot(t) \in Slots
    BY <2>1, ThreadFacts, SlotFacts
  <2>3. /\ th[t].pc \in {"len", "addr"} => Slot(t).addr = 0
        /\ th[t].pc = "key" => Slot(t).key = 0
    BY <2>1, <2>2 DEF CallOK, ShapeOK, HoldOK, Holding
  <2>4. PICK s, pc : Store(t, s, pc) /\ (Slot(t).key # 0 => s.key = Slot(t).key)
    <3>1. CASE StoreLen(t)
      BY <2>2, <3>1 DEF StoreLen, Slots
    <3>2. CASE StoreAddr(t)
      BY <2>2, <3>2 DEF StoreAddr, Slots
    <3>3. CASE StoreKey(t)
      BY <2>3, <3>3 DEF StoreKey
    <3> QED
      BY <1>10, <3>1, <3>2, <3>3
  <2> QED
    BY <2>1, <2>3, <2>4, StoreKeepsMap DEF P
<1>11. CASE GrowBegin
  <2>1. tables \in Seq(Tables) /\ gTable \in 1 .. Len(tables)
    BY DEF IInv, SeqInv
  <2>2. Current' = Current
    BY <1>11, <2>1 DEF GrowBegin, Current
  <2> QED
    BY <1>1, <2>2
<1>12. CASE GrowCopy
  <2>1. tables \in Seq(Tables) /\ gTable \in 1 .. Len(tables) /\ gTable # Len(tables)
    BY <1>12 DEF IInv, SeqInv, GrowInv, GrowCopy
  <2>2. Current' = Current
    BY <1>12, <2>1 DEF GrowCopy, Current
  <2> QED
    BY <1>1, <2>2
<1>13. CASE GrowCapacity
  BY <1>2, <1>13 DEF GrowCapacity, P
<1>14. CASE GrowTable
  <2>1. grow = "table" /\ Current' = NewTable
    BY <1>14 DEF GrowTable, Current, NewTable
  <2> QED
    BY <2>1, NewTableIsOld DEF P
<1>15. CASE UNCHANGED vars
  BY <1>2, <1>15 DEF vars, sharedVars, P
<1>16. ASSUME NEW t \in Threads, Step(t) PROVE P
  BY <1>5, <1>6, <1>7, <1>8, <1>9, <1>10, <1>16 DEF Step
<1>17. P
  BY <1>4, <1>11, <1>12, <1>13, <1>14, <1>15, <1>16 DEF Next, Grow, P
<1> QED
  BY <1>17 DEF P

\* No store and no growth changes or loses a mapping: an object that has been
\* forwarded stays forwarded, to the same copy.
THEOREM MappingPermanent == ASSUME SoundConfig PROVE Spec => MappingIsPermanent
<1> DEFINE A == \A k \in Keys : Map(Current, k) # 0 => Map(Current, k)' = Map(Current, k)
<1>1. IInv /\ [Next]_vars => A
  BY NextInv, MapStep
<1> HIDE DEF A
<1>2. Spec => [][A]_vars
  BY <1>1, Invariance, PTL DEF Spec
<1> QED
  BY <1>2 DEF A, MappingIsPermanent
=============================================================================
