---------------------------- MODULE ForwardTable ----------------------------
(***************************************************************************)
(* The forwarding table, one atomic access per step: an open-addressed map *)
(* from old addresses to new ones that several threads insert into with a  *)
(* compare-and-swap, look up without locks, and that the collector replaces*)
(* by one twice the size.  Memory accesses are sequentially consistent:    *)
(* every one in the code is atomic, with acquire and release.              *)
(*                                                                         *)
(* A length is identified with the address whose length it is, so a pair   *)
(* read back whole has the two equal.                                      *)
(***************************************************************************)
EXTENDS Integers, FiniteSets, Sequences

CONSTANTS
  Threads,
  Keys,          \* old addresses that are mapped or looked up
  Copies,        \* Copies[k]: the addresses the object at k may be moved to
  Hash,          \* Hash[k]: mix(k)
  InitialCap,    \* FT_INITIAL_CAP
  MaxCap,        \* bound on the capacity reached by growing
  PlainKeys,     \* keys inserted by forward_table_insert
  Deletes,       \* forward_table_insert is also called with NULL
  GrowQuiesced   \* no lookup is in flight while the table grows

Addresses == Keys \cup UNION {Copies[k] : k \in Keys}

ASSUME TableAssumption ==
  /\ IsFiniteSet(Threads)
  /\ Keys \subseteq Nat \ {0}
  /\ \A k \in Keys : Hash[k] \in Nat /\ \A a \in Copies[k] : a \in Nat /\ a > k
  /\ MaxCap \in Nat /\ InitialCap \in 1 .. MaxCap
  /\ PlainKeys \subseteq Keys
  /\ Deletes \in BOOLEAN /\ GrowQuiesced \in BOOLEAN

VARIABLES
  tables,    \* every table allocated: none is freed
  gTable,    \* g_table, as an index into tables
  gCapacity, \* g_capacity
  gSize,     \* g_size
  grow,      \* control point of forward_table_maybe_grow
  copied,    \* its j: the slots of the old table it has copied
  th,        \* each thread's call
  known      \* history: the keys an insertion has returned for

growVars == <<grow, copied>>
sharedVars == <<tables, gTable, gCapacity, gSize, growVars, known>>
vars == <<sharedVars, th>>

EmptySlot == [key |-> 0, len |-> 0, addr |-> 0]

\* A call: the operation, its arguments key and new, the address at being
\* probed for, the table and capacity loaded, slot i and probe n, the last
\* hit, and (history) the keys known when the call was made.
Idle == [pc |-> "idle", op |-> "none", key |-> 0, new |-> 0, at |-> 0, tab |-> 0,
         cap |-> 0, i |-> 0, n |-> 0, fresh |-> FALSE, addr |-> 0, len |-> 0, before |-> {}]

Writing(t) == th[t].pc # "idle" /\ th[t].op # "lookup"

Slot(t) == tables[th[t].tab][th[t].i]

\* The index is inside the table.  A read outside it returns anything.
InTable(t) == th[t].i < Cardinality(DOMAIN tables[th[t].tab])

KeysRead(t)  == IF InTable(t) THEN {Slot(t).key} ELSE Keys \cup {0}
AddrsRead(t) == IF InTable(t) THEN {Slot(t).addr} ELSE Addresses \cup {0}
LensRead(t)  == IF InTable(t) THEN {Slot(t).len} ELSE Addresses

-----------------------------------------------------------------------------
(* Calls.                                                                  *)

Begin(t, op, k, new) ==
  /\ th[t].pc = "idle"
  /\ GrowQuiesced \/ op # "lookup" => grow = "no"
  /\ th' = [th EXCEPT ![t] = [Idle EXCEPT !.pc = "table", !.op = op, !.key = k,
                                          !.new = new, !.at = k, !.before = known]]
  /\ UNCHANGED sharedVars

\* The arena never issues an address twice.
Fresh(a) ==
  /\ \A t \in Threads : a # th[t].new /\ a # th[t].at
  /\ \A s \in DOMAIN tables : \A j \in DOMAIN tables[s] : a \notin {tables[s][j].key, tables[s][j].addr}

\* forward_table_lookup
Lookup(t, k) == Begin(t, "lookup", k, 0)

\* forward_table_cas_insert, by any number of threads at once
CasInsert(t, k, new) ==
  /\ k \notin PlainKeys
  /\ \A u \in Threads : th[u].op # "insert"
  /\ Fresh(new)
  /\ Begin(t, "cas", k, new)

\* forward_table_insert, by a single writer: a key that is absent, or with
\* NULL ("delete entry") one that is present
NewCaps(k) == (IF k \in PlainKeys THEN Copies[k] ELSE {}) \cup (IF Deletes THEN {0} ELSE {})

Insert(t, k, new) ==
  /\ \A u \in Threads : ~ Writing(u)
  /\ IF new = 0 THEN k \in known ELSE k \notin known /\ Fresh(new)
  /\ Begin(t, "insert", k, new)

-----------------------------------------------------------------------------
(* Steps shared by the operations.                                         *)

Goto(t, rec) == th' = [th EXCEPT ![t] = rec] /\ UNCHANGED sharedVars

LoadTable(t) ==
  /\ th[t].pc = "table"
  /\ Goto(t, [th[t] EXCEPT !.pc = "capacity", !.tab = gTable])

\* The slot of probe n for key k in a table of capacity cap.
Pos(k, cap, n) == ((Hash[k] % cap) + n) % cap

LoadCapacity(t) ==
  /\ th[t].pc = "capacity"
  /\ Goto(t, [th[t] EXCEPT !.pc = "probe", !.cap = gCapacity,
                           !.i = Pos(th[t].at, gCapacity, 0), !.n = 0])

\* The next slot of the probe sequence.
Advanced(t) == [th[t] EXCEPT !.i = (@ + 1) % th[t].cap, !.n = @ + 1, !.pc = "probe"]

\* A call that returns address a, whose bounds have length l; 0 is NULL.
Returned(t, a, l) == [th[t] EXCEPT !.pc = "done", !.addr = a, !.len = l]

\* One-hop miss: the end of the chain, or NULL if there is no chain.
Missed(t) == Returned(t, th[t].addr, th[t].len)

\* The key's probe sequence is exhausted or meets an empty slot.
ProbeMiss(t) ==
  /\ th[t].pc = "probe" /\ th[t].op \in {"lookup", "chase"}
  /\ th[t].n >= th[t].cap \/ 0 \in KeysRead(t)
  /\ Goto(t, Missed(t))

ProbeHit(t) ==
  /\ th[t].pc = "probe" /\ th[t].op \in {"lookup", "chase"}
  /\ th[t].n < th[t].cap
  /\ th[t].at \in KeysRead(t)
  /\ Goto(t, [th[t] EXCEPT !.pc = "readAddr"])

ProbeOther(t) ==
  /\ th[t].pc = "probe"
  /\ th[t].n < th[t].cap
  /\ \E k \in KeysRead(t) : k # 0 /\ k # th[t].at
  /\ Goto(t, Advanced(t))

\* The slot's address: 0 is a slot being published, taken for absent; an
\* address that maps to itself ends the chase.
ReadAddr(t) ==
  /\ th[t].pc = "readAddr"
  /\ \E a \in AddrsRead(t) :
       Goto(t, IF a \in {0, th[t].addr} THEN Missed(t)
               ELSE [th[t] EXCEPT !.pc = "readLen", !.addr = a])

\* Its length, and the next hop of the chase.  (The probe for an address
\* outside Keys, which is never mapped, is left out: it misses.)
ReadLen(t) ==
  /\ th[t].pc = "readLen"
  /\ \E l \in LensRead(t) :
       Goto(t, IF th[t].addr \in Keys
               THEN [th[t] EXCEPT !.pc = "table", !.len = l, !.at = th[t].addr]
               ELSE Returned(t, th[t].addr, l))

-----------------------------------------------------------------------------
(* The insertions.                                                         *)

\* Mutant: the last slot is not probed.
InsertFullEarly(t) ==
  /\ th[t].pc = "probe" /\ th[t].op \in {"cas", "insert"}
  /\ th[t].n >= th[t].cap - 1
  /\ Goto(t, Returned(t, 0, 0))

\* Mutant: the probe loop has no bound.
InsertFullRetrying(t) ==
  /\ th[t].pc = "probe" /\ th[t].op \in {"cas", "insert"}
  /\ th[t].n >= th[t].cap
  /\ Goto(t, [th[t] EXCEPT !.n = 0])

\* Every slot belongs to another key: NULL, and nothing is inserted.
InsertFull(t) ==
  /\ th[t].pc = "probe" /\ th[t].op \in {"cas", "insert"}
  /\ th[t].n >= th[t].cap
  /\ Goto(t, Returned(t, 0, 0))

\* The key is there: wait for its address.
CasFound(t) ==
  /\ th[t].pc = "probe" /\ th[t].op = "cas"
  /\ th[t].n < th[t].cap
  /\ Slot(t).key = th[t].key
  /\ Goto(t, [th[t] EXCEPT !.pc = "spin"])

CasFree(t) ==
  /\ th[t].pc = "probe" /\ th[t].op = "cas"
  /\ th[t].n < th[t].cap
  /\ Slot(t).key = 0
  /\ Goto(t, [th[t] EXCEPT !.pc = "cas"])

\* The table with one field of the thread's slot stored.
Stored(t, slot) == [tables EXCEPT ![th[t].tab][th[t].i] = slot]

Store(t, slot, pc) ==
  /\ tables' = Stored(t, slot)
  /\ th' = [th EXCEPT ![t].pc = pc]
  /\ UNCHANGED <<gTable, gCapacity, gSize, growVars, known>>

\* Mutant: the free slot is claimed without a CAS.
CasWinBlindly(t) ==
  /\ th[t].pc = "cas"
  /\ Store(t, [Slot(t) EXCEPT !.key = th[t].key], "len")

\* The CAS claims the slot.
CasWin(t) ==
  /\ th[t].pc = "cas"
  /\ Slot(t).key = 0
  /\ Store(t, [Slot(t) EXCEPT !.key = th[t].key], "len")

\* Mutant: whoever took the slot, the loser tries the next one.
CasLoseAdvancing(t) ==
  /\ th[t].pc = "cas"
  /\ Slot(t).key # 0
  /\ Goto(t, Advanced(t))

\* The CAS fails: to the same key, or to another.
CasLose(t) ==
  /\ th[t].pc = "cas"
  /\ Slot(t).key # 0
  /\ Goto(t, IF Slot(t).key = th[t].key THEN [th[t] EXCEPT !.pc = "spin"] ELSE Advanced(t))

\* while (new_addr == 0) {}, then the lookup the loser returns.
Spin(t) ==
  /\ th[t].pc = "spin"
  /\ Slot(t).addr # 0
  /\ Goto(t, [th[t] EXCEPT !.pc = "table", !.op = "chase", !.at = th[t].key])

\* The plain insertion takes the first slot that is free or the key's own.
InsertSlot(t) ==
  /\ th[t].pc = "probe" /\ th[t].op = "insert"
  /\ th[t].n < th[t].cap
  /\ Slot(t).key \in {0, th[t].key}
  /\ Goto(t, [th[t] EXCEPT !.pc = "len", !.fresh = (Slot(t).key = 0)])

StoreLen(t) ==
  /\ th[t].pc = "len"
  /\ Store(t, [Slot(t) EXCEPT !.len = th[t].new], "addr")

StoreAddr(t) ==
  /\ th[t].pc = "addr"
  /\ Store(t, [Slot(t) EXCEPT !.addr = th[t].new],
           IF th[t].op = "cas" THEN "count" ELSE "key")

StoreKey(t) ==
  /\ th[t].pc = "key"
  /\ Store(t, [Slot(t) EXCEPT !.key = th[t].key], "count")

\* Mutant: only the plain insertion counts its entries.
CountPlainOnly(t) ==
  /\ th[t].pc = "count"
  /\ gSize' = IF th[t].fresh THEN gSize + 1 ELSE gSize
  /\ th' = [th EXCEPT ![t] = Returned(t, th[t].new, th[t].new)]
  /\ UNCHANGED <<tables, gTable, gCapacity, growVars, known>>

\* atomic_fetch_add(&g_size, 1) for a new entry
Count(t) ==
  /\ th[t].pc = "count"
  /\ gSize' = IF th[t].op = "cas" \/ th[t].fresh THEN gSize + 1 ELSE gSize
  /\ th' = [th EXCEPT ![t] = Returned(t, th[t].new, th[t].new)]
  /\ UNCHANGED <<tables, gTable, gCapacity, growVars, known>>

\* The caller has its result.
Return(t) ==
  /\ th[t].pc = "done"
  /\ th' = [th EXCEPT ![t] = Idle]
  /\ known' = IF th[t].op = "lookup" THEN known
              ELSE IF th[t].addr = 0 THEN known \ {th[t].key} ELSE known \cup {th[t].key}
  /\ UNCHANGED <<tables, gTable, gCapacity, gSize, growVars>>

-----------------------------------------------------------------------------
(* forward_table_maybe_grow, by the collector, which is then not inserting.*)

EmptyTable(cap) == [j \in 0 .. cap - 1 |-> EmptySlot]

Current == tables[gTable]
NewTable == tables[Len(tables)]

\* The load has reached 70%: a table twice the size,
GrowBegin ==
  /\ grow = "no"
  /\ \A t \in Threads : ~ Writing(t)
  /\ GrowQuiesced => \A t \in Threads : th[t].pc = "idle"
  /\ gSize * 10 >= gCapacity * 7
  /\ gCapacity * 2 <= MaxCap
  /\ tables' = Append(tables, EmptyTable(gCapacity * 2))
  /\ grow' = "copy" /\ copied' = 0
  /\ UNCHANGED <<gTable, gCapacity, gSize, th, known>>

\* Mutant: an entry keeps the index it had.
SameSlot(tb, k) == copied

\* The first free slot of table tb, probing from the hash of k.
FreeSlot(tb, k) ==
  LET cap == Cardinality(DOMAIN tb)
      Free(n) == tb[Pos(k, cap, n)].key = 0
  IN  Pos(k, cap, CHOOSE n \in 0 .. cap - 1 : Free(n) /\ \A m \in 0 .. n - 1 : ~ Free(m))

\* into which the entries are copied one by one.
GrowCopy ==
  /\ grow = "copy" /\ copied < gCapacity
  /\ LET e == Current[copied] IN
     tables' = IF e.key = 0 THEN tables
               ELSE [tables EXCEPT ![Len(tables)][FreeSlot(NewTable, e.key)] = e]
  /\ copied' = copied + 1
  /\ UNCHANGED <<gTable, gCapacity, gSize, grow, th, known>>

\* Its capacity is published,
GrowCapacity ==
  /\ grow = "copy" /\ copied = gCapacity
  /\ gCapacity' = gCapacity * 2
  /\ grow' = "table"
  /\ UNCHANGED <<tables, gTable, gSize, copied, th, known>>

\* and then the table.
GrowTable ==
  /\ grow = "table"
  /\ gTable' = Len(tables)
  /\ grow' = "no" /\ copied' = 0
  /\ UNCHANGED <<tables, gCapacity, gSize, th, known>>

-----------------------------------------------------------------------------
Init ==
  /\ tables = <<EmptyTable(InitialCap)>>
  /\ gTable = 1
  /\ gCapacity = InitialCap
  /\ gSize = 0
  /\ grow = "no" /\ copied = 0
  /\ th = [t \in Threads |-> Idle]
  /\ known = {}

Call(t) ==
  \E k \in Keys : \/ Lookup(t, k)
                  \/ \E a \in Copies[k] : CasInsert(t, k, a)
                  \/ \E a \in NewCaps(k) : Insert(t, k, a)

Step(t) ==
  \/ LoadTable(t) \/ LoadCapacity(t)
  \/ ProbeMiss(t) \/ ProbeHit(t) \/ ProbeOther(t) \/ ReadAddr(t) \/ ReadLen(t)
  \/ InsertFull(t) \/ CasFound(t) \/ CasFree(t) \/ CasWin(t) \/ CasLose(t) \/ Spin(t)
  \/ InsertSlot(t) \/ StoreLen(t) \/ StoreAddr(t) \/ StoreKey(t) \/ Count(t) \/ Return(t)

Grow == GrowBegin \/ GrowCopy \/ GrowCapacity \/ GrowTable

Next == (\E t \in Threads : Call(t) \/ Step(t)) \/ Grow

Spec == Init /\ [][Next]_vars

\* A thread inside the table keeps running, and the collector grows it.
LiveSpec == Spec /\ (\A t \in Threads : WF_vars(Step(t))) /\ WF_vars(Grow)

-----------------------------------------------------------------------------
(* Properties.                                                             *)

\* The address key k maps to in table tb, 0 if none.
Map(tb, k) ==
  LET Has(j) == tb[j].key = k
  IN  IF \E j \in DOMAIN tb : Has(j) THEN tb[CHOOSE j \in DOMAIN tb : Has(j)].addr ELSE 0

\* The addresses on the chain that starts at k: the least set that has what k
\* maps to and, with every key, what that maps to.
Closed(tb, S, k) == \A a \in {k} \cup (S \cap Keys) : Map(tb, a) \in S \cup {0}

Chain(tb, k) == {a \in Addresses : \A S \in SUBSET Addresses : Closed(tb, S, k) => a \in S}

Calls == [pc : {"idle", "table", "capacity", "probe", "readAddr", "readLen", "cas", "spin",
                "len", "addr", "key", "count", "done"},
          op : {"none", "lookup", "chase", "cas", "insert"},
          key : Keys \cup {0}, new : Addresses \cup {0}, at : Keys \cup {0},
          tab : Nat, cap : Nat, i : Nat, n : Nat, fresh : BOOLEAN,
          addr : Addresses \cup {0}, len : Addresses \cup {0}, before : SUBSET Keys]

Slots == [key : Keys \cup {0}, len : Addresses \cup {0}, addr : Addresses \cup {0}]

\* Every variable has its type; g_size never exceeds the capacity, although
\* it is counted after the entry is published.
TypeOK ==
  /\ \A s \in DOMAIN tables : \E cap \in 1 .. MaxCap : tables[s] \in [0 .. cap - 1 -> Slots]
  /\ gTable \in DOMAIN tables
  /\ gCapacity \in 1 .. MaxCap
  /\ gSize \in 0 .. gCapacity
  /\ grow \in {"no", "copy", "table"} /\ copied \in Nat
  /\ th \in [Threads -> Calls]
  /\ known \subseteq Keys

\* A key has one slot, however many threads insert it at once (the CAS of
\* forward_table_cas_insert) and through growing.
OneSlotPerKey ==
  \A i, j \in DOMAIN Current : Current[i].key = Current[j].key /\ Current[i].key # 0 => i = j

\* A call that returns gives the one authoritative answer: never NULL for a
\* key whose insertion had returned before the call, never a copy that was
\* known to have moved by then, and otherwise an address on the key's chain
\* with its own length (forward_table_lookup, the loser's return).
AnswersAreCurrent ==
  \A t \in Threads : th[t].pc = "done" /\ th[t].op # "insert" =>
    /\ th[t].key \in th[t].before => th[t].addr # 0
    /\ th[t].addr \notin th[t].before
    /\ th[t].addr # 0 => th[t].addr \in Chain(Current, th[t].key) /\ th[t].len = th[t].addr

\* A mapping, once visible, is never changed or lost, growing included.
MappingIsPermanent == [][\A k \in Keys : Map(Current, k) # 0 => Map(Current, k)' = Map(Current, k)]_vars

\* When no insertion is running, g_size counts the entries of the table.
SizeIsExact ==
  (\A t \in Threads : ~ Writing(t)) /\ grow = "no" =>
    gSize = Cardinality({j \in DOMAIN Current : Current[j].key # 0})

\* forward_table_cas_insert gives up, and the collector then stores NULL in a
\* root, only if the table is full: every slot has another key, whatever was
\* inserted while it probed.
NullMeansFull ==
  \A t \in Threads : th[t].pc = "done" /\ th[t].op = "cas" /\ th[t].addr = 0 =>
    \A j \in DOMAIN Current : Current[j].key \notin {0, th[t].key}

\* An insertion returns, although the loser of a race waits for the winner.
CasInsertReturns == \A t \in Threads : th[t].op = "cas" ~> th[t].pc = "idle"
=============================================================================
