# Stopless GC: a TLA+ verification project

Stopless is a relocating garbage collector for a Java heap on CHERI hardware
(Morello, CheriBSD). An object is moved inside a short safepoint; references to
the old copy are left where they are. What makes them harmless is capability
revocation: the kernel invalidates every stale capability, the next dereference
traps, and a signal handler replaces the capability with one to the new copy.
This directory models that collector, model-checks it and proves its central
safety properties.

Paths below are relative to the repository root. The collector's HotSpot side is
kept in the repository as a patch record,
`patches/openjdk-jdk17/WIP-c9chase-stoplessHeap.cpp.record` (*record* below); the
C runtime is in `src/cap_runtime/stopless_gc/`.

## 1. Inventory

| Component | State | Operations | Where |
|---|---|---|---|
| Heap and collection cycle | arena, move limit, `moved_from`, `s_cycle`, `s_marked_pending`, `g_stopless_close_pending` | `mem_allocate`, `collect`, `VM_StoplessCollect::doit`, `do_oop`, `move_object` | record |
| Collector thread | its loop, the pending flag | `run_service`: cycle, close, retry | record |
| Forwarding table | `g_table`, `g_capacity`, `g_size`, slots | `lookup`, `cas_insert`, `insert`, `maybe_grow` | `forward_table.c` |
| Revocation driver | shadow bitmap, kernel epochs, fault budgets | `arena_init`, `mark_revoke`, `unmark_revoke`, `revoke_now`, `revoke_open`, `revoke_close` | `revoke.c` |
| SIGPROT handler | register file of the faulting thread, `prev_sa`, the evacuation hook | `stopless_try_heal`, `sigprot_handler`, SafeFetch redirect, install, remove | `handler.c` |
| Crash dumper | `armed`, the signals it has taken over | `install_crash_diag`, `stopless_crash_dumper`, `sigill_handler` | `handler.c` |
| Identity barrier | none | `if_acmp`, `is_same_object` fast paths, `stopless_acmp_eq` | `handler.c`, template table and jniHandles records |
| Allocator | `bump_offset` | `stopless_alloc`, `stopless_arena_reset` | `allocator.c` |
| Legacy runtime | colour side table, phase-0 forwarding table, epoch | `install`, `lookup`, `clear_region`, `load`, `store`, `flip_region`, `revoke_region` | `src/cap_runtime/*.cc` |
| Measurement, OpenJDK port, scripts, paper | | | not modelled |

How they interact. `System.gc` and the collector thread both queue
`VM_StoplessCollect`; the VM thread runs it with all mutators stopped. `doit`
grows the forwarding table, scans the roots, moves what it finds, maps old to
new, rewrites the roots, marks the old copies in the kernel's bitmap, and then
either sweeps (synchronous mode) or opens a revocation epoch (sound concurrent
mode). In the second case registers are scanned at once, memory pages are scanned
when a capability is first loaded from them (the load barrier) or by the collector
thread's closing scan, which no safepoint stops. Mutators meet the collector only
through traps (handler) and reference comparisons (barrier), and both read the
forwarding table without locks.

What is hard: a `System.gc` cycle while an epoch is still being closed; failing
opens, closes and sweeps half-way through a cycle; references several moves old;
stale and fresh references to one object meeting in a comparison; half-published
table slots, a full or growing table; racing allocations whose bounds CHERI rounds
up; a heal that has to find the one register that faulted among many dead ones, for
several threads at once; a kernel that fails half-way, or reports an error for what
it has done; a crash dump that must not crash. `PROJECT.json` lists these hazards at their lines.

What makes it correct: no live capability to an old copy is usable by a mutator;
every dead capability is forwarded; comparisons answer for objects, not for
addresses; altogether, the program cannot tell that objects move.

## 2. Modules

| Module | Contents |
|---|---|
| `JavaHeap` | The promise: a heap where nothing moves |
| `StoplessGC` | The whole collector with mutators, VM thread, collector thread, kernel |
| `StoplessGC_Types`, `StoplessGC_Proofs` | Its type invariant, its safety theorems and the refinement of `JavaHeap` |
| `ForwardTable`, `ForwardTable_Proofs` | The forwarding table, one atomic access per step, and its theorems |
| `Allocator`, `Allocator_Proofs` | The bump allocator and its theorems |
| `SigprotHandler` | The signal handlers, from a fault to the retry or the end |
| `CrashDumper` | The memory a crash dump reads; part of `SigprotHandler` |
| `SigprotHandler_Proofs` | The theorems about both |
| `Revoke`, `Revoke_Proofs` | The revocation driver over the kernel's epochs, and its theorems |
| `CapRuntime`, `CapRuntime_Proofs` | The legacy runtime of the ZGC port, and its theorems |
| `ArithmeticLemmas` | Wrapping sums and least elements, for three of the proof modules |
| `MC_*` | Values for constants that a configuration cannot write down |

### StoplessGC

An object is one arena cell with one reference field; its address is the cell
number, and `orig` (history) remembers the first address of the object in a cell,
its identity. A capability is an address with a tag and a permission bit, since
CheriBSD revokes by clearing either one (`ClearTags`, `handler.c` 98-107).

| Code | Model |
|---|---|
| mutator instructions | `New`, `LoadRoot`, `StoreRoot`, `GetField`, `PutField` |
| trap and heal | `Fault`, `LookupHop`, `Heal`, `HealOther`, `HealFails` |
| `==` on references | `AcmpFast`, `AcmpSlow`, `AcmpSecond`, `AcmpDecide` |
| `doit` up to the root scan | `BeginCycle` (from `SystemGC` or `CollectorCycle`) |
| `do_oop` | `ScanRoot`, then `ScanFix`, `ScanLeave`, `ScanMove` or `ScanFails` |
| marking, choice of revocation | `MarkConcurrent`, `MarkSync` |
| open, fallback, sweep | `OpenEpoch`, `OpenFails`, `Sweep`, `SweepFails` |
| `run_service` | `CollectorCycle`, `CollectorCheck`, `CloseScan`, `CloseDone`, `CloseFails`, `ClearPending` |

External parts, modelled from how the code uses them: the CHERI dereference check,
the kernel's revocation (`Revoke`, `Load`, `Unscanned`), the safepoint (`Running`),
the interpreter's loads and stores.

Abstractions. A page is one location, the finest grain, so every order of scanning
is covered. One table lookup is in flight at a time: the table is written only at
safepoints, where no mutator is inside a lookup, so lookups of different threads
commute (`ForwardTable` has them interleaved). Registers of all threads form one
set; the handler's fallback scan may therefore pick a register of another thread,
which only adds behaviours. Interior pointers, object sizes and classes are left
out: any root may be skipped as "not targeted" (`ScanLeave`). Diagnostic switches
(`STOPLESS_NO_REVOKE`, `C9_*`) are off.

### ForwardTable

Every load, store and compare-and-swap of `lookup`, `cas_insert` and `insert` is a
step; the thread's locals are the record `th[t]`. A length is identified with the
address it belongs to, so that a torn pair shows. Old tables stay readable; an index
beyond a table reads anything. `maybe_grow` copies one slot per step (`copied` is its
`j`) into a table that only it sees, and publishes capacity and table in two steps.
`known` and `before` are history variables: the keys whose insertion has returned,
now and at the start of a call. The chase limit is left to `StoplessGC`.

### Allocator

The CAS loop of `stopless_alloc` in `size_t` arithmetic (`% Word`), with CHERI's
rounding as constant functions under the contract `AllocatorAssumption`: an aligned
offset has exact bounds. `stopless_arena_reset` may happen at any time.

### SigprotHandler and CrashDumper

What `StoplessGC` summarises as `Fault`, `Heal`, `HealOther` and `HealFails`, with
register files, several threads and the other ways a fault may go. A capability is a
base, an address, a tag and its permissions; a number is one without bounds or tag.

| Code | Model |
|---|---|
| accesses and other faults | `Access`, `AccessSlot`, `OtherFault` |
| `stopless_safefetch_redirect` | `SafeFetchRedirect` |
| entry of `sigprot_handler`, `stopless_crash_dumper`, `sigill_handler` | `EnterHeal`, `PassOn`, `EnterDump`, `Fatal` |
| `stopless_try_heal` | `Decode`, `Scan` (both by `TryReg`), `LastResort`, `Evacuate`, `Heal`, `Unhealed` |
| the dump itself | `Dump`, with its outcome from `CrashDumper` |
| install, remove, arm | `HandlerInstall`, `HandlerRemove`, `InstallCrashDiag` |

The collector's move and revocation of an object at a safepoint are one action (`Move`),
and each object moves once: `StoplessGC` has the rest. The forwarding table is used by
its contract (`Lookup`, `CasInsert`). External: the kernel's delivery and the access
itself, and the evacuation callback, taken for what handler.h asks of it.
The instruction's base register is the register it faulted through: bits 9:5 of every
load and store. The handlers are installed once and removed at a safepoint, as their
callers do; the dumper is armed while mutators run.

`CrashDumper` has no state: for a crash (`c29`, the interpreter's registers and the
stack words, all arbitrary numbers) it says which addresses are read, which test
guards each read (`Accepts`, in arithmetic that wraps) and what the hardware allows
(`Allowed`). The stack capability may be readable, untagged, or tagged and yet sealed or
not for loading, which only `COVER` tests. The unit is a word; the stack window is
shorter than the code's. The stack lies inside the address space, not at its very ends (`DumperAssumption`).

### Revoke

The calls of `revoke.c` step by step over a model of the kernel: an epoch counter,
odd while a revocation is open; opening scans the registers and arms the load
barrier; the last pass scans the pages one by one while mutators load and store. Any
`cheri_revoke` may fail at once, give its last pass up half-way, or return an error
for what it has done. `armed` and `dead` are history variables: what was marked when
an open, or a close or sweep, that succeeded was called. This is where `StoplessGC`'s
`OpenEpoch`, `CloseDone` and `Sweep` get what they assume; calls are made one at a
time, as the collector makes them, and nothing is unmarked during a call.

### CapRuntime

`ForwardingTable`, `SideTable` and `RevokeDriver` of one heap, one atomic access per
step; `to_cap` is a plain field, so a reader gets its old or its new value. The
contract of cap_runtime.h is part of the model: a region is cleared by one collector
thread once its evacuation is complete. Since a clear takes the forwardings of every
region, this is enough only if one region is evacuated at a time; the model assumes that
too, so no install at all runs beside a clear. Lookups and colour stores do.

## 3. Runs

| Run | Shows | Distinct states |
|---|---|---|
| `gc_concurrent` | the sound mode, with failures; refinement of `JavaHeap` | 1.1 million |
| `gc_sync` | synchronous mode, two objects; refinement of `JavaHeap` | 375 thousand |
| `gc_degraded` | unfixed roots, a chain longer than the chase limit: may die, never reads an old copy | 4 million |
| `gc_liveness` | an owed close is eventually done | 11 thousand |
| `alloc` | disjoint capabilities and termination, three threads | 73 thousand |
| `ft` | the table, two threads, colliding keys, full table, growth | 271 thousand |
| `handler` | faults of two threads, to their end | 197 thousand |
| `revoke` | what a successful call of the driver has achieved | 535 thousand |
| `cap_runtime` | the legacy runtime, more keys than slots | 2.5 million |
| `gc_lost_sweep` | *violation*: ignored sweep failure | |
| `gc_chase_limit` | *violation*: intact chain over the limit | |
| `handler_refault` | *violation*: a fault that never ends | |

Properties of `StoplessGC`: `NoStaleAccess` (nothing a running mutator has or can
load dereferences to an old copy), `QuarantineClear` (with no close owed, no memory
at all holds such a capability), `RevokedIsForwarded` (a revoked capability always
heals), `TaggedMeansIdentity` (the comparison fast path is right),
`ForwardingIsPermanent`, `NoMoveUnderOpenEpoch` (the assertion in `doit`, and more:
the epoch is closed too), `ImplementsJavaHeap` and `CloseCompletes`.

Of the other modules: `OneSlotPerKey`, `AnswersAreCurrent`, `NullMeansFull` (an
insertion gives up only on a full table) and `CasInsertReturns` of the forwarding
table; `CapsDisjoint` of the allocator; of the handler `HealIsExact` (the decoded
register is the one patched), `HealKeepsReferences` (whatever is patched denotes the
same place of the same object), `UsableIsCurrent` (threads that evacuate one object
together end up on one copy), `SlotKeepsObject`, `DumpCutOnlyAtEdges` and `FaultEnds`;
of the driver `CleanOnSuccess`, `OpenArms` and `CallReturns`; of the legacy runtime
`AnswerIsForwarding`, `InstalledIsFound`, `CountIsExact` and `FlipIsPerEntry`.
Each property of a passing run has a mutant, a plausible bug kept next to the
definition it replaces, under which TLC finds the property violated.

### Bounds

- Three cells (`MaxAddr`): an object, its copy and its copy's copy, the shortest
  chain on which one hop is not enough; with `MaxNew` 2, two objects and one move.
  Four in `gc_degraded`, where a chase limit of 1 has to stop before the last copy.
  Two registers hold a stale and a fresh reference to compare. One root: `do_oop`
  treats roots independently, and `ScanInv`, proved for any number of them, is what
  relates them.
- `MoveLimit` 1: the limit is reached in every cycle that moves.
- `MaxFaults`: one failure (two in `gc_liveness`) of an open or a close, as many as
  it takes to meet the fallback and the retry. `SweepMayFail` is not counted.
- `FtInitialCap` 4 with at most two entries: never full. A full table drops a mapping
  (`forward_table.c` 204) and the collector stores the resulting NULL in the root;
  no run asserts anything there, see `SoundConfig` below.
- `ft`: capacity 2 growing to 4, three keys, two of which collide in both tables.
- `handler`: three registers, of which two are tried; two objects, one of which may be
  copied to two places. The register files have an interior pointer, a number that
  equals an object's address, and a reference in the register that is not tried. An
  address space of a few words, so that sums wrap.
- `revoke`: two objects, a register and two pages; `MaxLoops` 2 (10 in the code) and
  `MaxEpoch` 6: epochs opened, abandoned, closed and opened again around a call. One
  injected failure each of an open and a close; the kernel's own are not counted.
- `cap_runtime`: two slots and three keys, so that the table fills and an install is
  dropped; two of the keys collide and wrap to the slot of the third, and one of them
  two threads may install with different copies. Two colour entries, so that stores fall
  before and behind a flip. `MaxCycles` 1: the table is cleared and filled again, or the
  colours are flipped; these calls share no state.
- `alloc`: an arena of twelve granules, requests of three and of five; five is reserved
  as six at an even offset. So rounded blocks lie next to each other and next to others,
  with and without a gap, before the arena is used up. One reset.

### Fairness

`gc_liveness`: the VM thread and code inside the runtime keep running (weak
fairness: they are scheduled threads with no locks to wait for), the collector
thread's steps are weakly fair, and its request for a VM operation is strongly fair,
since the VM-operation queue is served in order although mutators and other
operations come in between. Failures are bounded by `MaxFaults`, as fault injection
bounds them. Nothing is assumed of mutators. `alloc` and `ft`: a thread inside a call
keeps running. `handler`: a thread inside a handler keeps running, since no handler
waits for anything. `revoke`: the thread inside a call and the kernel keep running.

### Disagreements met

Each violation run refutes something the repository says; `PROJECT.json` quotes it.
More, which no run asserts:

- `ClearTags = FALSE` in `gc_concurrent` breaks `TaggedMeansIdentity`: the comparison
  fast path needs a tag-clearing kernel, a limitation the paper states. Batched sweeps
  (`STOPLESS_REVOKE_BATCH` above 1) leave old copies live for several cycles, as the
  comment at record 383-388 admits.
- `CollectorThread = FALSE` in `gc_liveness` breaks `CloseCompletes`: only the collector
  thread closes epochs, so with `STOPLESS_CONCURRENT_MS` unset the first `System.gc`
  opens one and nothing is relocated again, where record 361-362 says "The request
  coalesces with the next collector cycle."
- Requests of 3 and 12 with `Word = 16` in `alloc` break `CapsDisjoint`: the end of a block
  near `SIZE_MAX` wraps (`allocator.c` 66); docs/c4/impl_notes.md 92-95 speaks of the
  check of the rounding, which does not cover the sum.
- `GrowQuiesced = FALSE` in `ft` breaks `AnswersAreCurrent`: a lookup in flight combines
  the old table with the new capacity, where `forward_table.c` 29-30 says "the old
  table is leaked (a reader may be mid-lookup on it)". Growth happens at safepoints.
- `Deletes = TRUE` in `ft` breaks `CasInsertReturns`: a deleted key keeps its slot
  (`forward_table.h` 29), and an insert-or-get of it waits for ever. Nothing deletes.
- The dumper's comment says "no unchecked derefs" (`handler.c` 390). The checks are
  there and hold except at the ends of the address space and for misaligned slot
  addresses (`DumpCutOnlyAtEdges`): a null `c22` is enough for a nested fault. The stack
  is read through `csp` if that has its tag (`handler.c` 402), sealed or not, where
  `COVER` also asks for an unsealed capability that allows loads.
- A register that is not a reference may be patched when the base register is `c30`
  or holds no reference: the comment at `handler.c` 137-140 says that such a register "simply
  won't forward", which a number that equals an old address does. `HealIsExact` says
  when.
- cap_runtime.h 94 says of an install "any subsequent lookup of `from` returns `to`":
  the thread that loses the race for a key returns before the winner has stored the
  capability, and a lookup then may answer null. `InstalledIsFound` holds from the
  winner's return; an install dropped by a full table returns too. `clear_region` and `flip_region` ignore their region ("correct but
  wasteful"), which is correct only when one region is evacuated at a time;
  `heap_base_` is never set; `quiesce`, said to block, returns at once.

## 4. Proofs

All theorems hold for every value of the constants that satisfies the named
assumptions. Every safety property of a passing run is a theorem.

| Theorems | Under | State |
|---|---|---|
| `Typing` | | `TypeOK` of `StoplessGC`, in every configuration |
| `Invariance`, `StaleAccess`, `Quarantine`, `Healable`, `ForwardPermanence`, `MovesAreMarked` | `SoundConfig` | the inductive invariant of the collector and the safety properties |
| `FastPathIdentity` | `SoundConfig`, `ClearTags` | the comparison fast path is right |
| `Refinement` | `SoundConfig`, `ClearTags`, no chase gives up | `StoplessGC` implements `JavaHeap` |
| `ChaseOutrun` | `SoundConfig` | a chase gives up only on an object moved more than `ChaseMax` times |
| `RefinementWithinMoves` | `SoundConfig`, `ClearTags`, no object moved more than `ChaseMax` times | the refinement, with a condition on moves instead of lookups |
| `ForwardTable_Proofs`: `Invariance`, `TypeCorrect`, `OneSlot`, `NullFull`, `SizeExact`, `AnswersCurrent`, `MappingPermanent` | the table's `SoundConfig` | all safety properties of `ForwardTable` |
| `AllocatorTyping`, `AllocatorDisjoint` | `NoWrap` | `TypeOK`, `CapsDisjoint` |
| `RevokeInvariance`, `RevokeTyping`, `RevokeClean`, `RevokeArms` | | the driver, in every configuration |
| `SigprotHandler_Proofs`: `TypeCorrect`, `HealExact`, `UsableCurrent`, `HealKeeps`, `SlotKeeps`, `DumpCuts` | | all safety properties of `SigprotHandler` and `CrashDumper` |
| `CapRuntime_Proofs`: `TypeCorrect`, `InstallOnce`, `CountExact`, `AnswerForwards`, `InstalledFound`, `FlipPerEntry` | | all safety properties of `CapRuntime` |

### Assumptions

The collector's `SoundConfig` says that epochs are opened in the pause, or that every
pause sweeps and the sweep cannot fail; that growing the table does not fail; and that
a cycle moves at most 30% of the table's initial capacity (growth keeps the load below
70% at the start of a cycle, so the table never fills within one). It excludes
the cases above where a property is false; with a table that cannot grow
(`FtInitialCap = 1`, `GrowMayFail` in `gc_concurrent`) TLC refutes `NoStaleAccess`,
`QuarantineClear` and `RevokedIsForwarded`. The refinement needs two things more, each
with a known counterexample: a kernel that clears tags, since the comparison fast path
takes a tagged reference for current, and chases that do not give up, since a lookup
over `FT_CHASE_MAX` fails although its chain is intact (`gc_chase_limit`). The latter
is a condition on the behaviour, `[]~ChaseExceeded`. `ChaseOutrun` traces it back to what
an operator can know: it breaks only if one object has been moved more than
`FT_CHASE_MAX` (4096) times, whatever the size of the arena and however many other
objects move, and `RefinementWithinMoves` states the refinement under that condition.

The table's `SoundConfig` says that it grows while no lookup is in flight and that
nothing is deleted. The one caller grows it inside the safepoint, and nothing calls
`forward_table_insert` with NULL; "Disagreements met" says what happens otherwise.

The assumptions on constants say: threads are finitely many; a copy is of one object
only, as the arena issues no address twice; registers and roots are different places;
the capabilities a thread starts with are numbers or references to objects; the stack
lies inside the address space. TLC evaluates them in every run.

### The collector

`NoStaleAccess` is about memory that a barrier has not yet scanned, so it cannot be
inductive by itself. `CapInv` says of every capability whether it may be live: registers
and scanned pages hold no live capability to an old copy except to one moved in this
very pause (`Fresh`), and unscanned pages may, but only under an open epoch whose bitmap
has the mark. `MarkInv` makes that last step work (the marks are exactly the forwarded
addresses), and holds because nothing moves while an epoch is open (`EpochInv`: an epoch
is open only while its close is owed, and then the cycle's limit is 0). `ForwardInv`
ties copies to entries, so that revoked implies forwarded. `ScanInv` and `LookupInv`
follow a lookup along its chain: during the scan a root still to be visited does not
hold a copy made in this cycle, so a chase never ends on an old copy. `TableInv` bounds
the table.

The refinement maps an object to its first address, the contents of a root or register
to the object referred to, and a field to that of the object's last copy. `RefInv` is
what the mapping needs beyond `IInv`: every object has exactly one copy that is not
forwarded, unused cells hold nothing (`ObjectInv`), and a lookup in flight stays with
the object it was started for, at its last copy when the first operand of a comparison
is done (`KeyInv`). Then each action is a step of the program or a stutter: moves, heals,
sweeps and scans change no object anything refers to (`RefInvStep`, and one lemma per
kind of step), and the comparison's two paths answer what `JavaHeap` answers, the fast
one by `TaggedMeansIdentity`. For `ChaseOutrun`, a lookup in flight has passed at least
as many moved copies of its object as it has made hops (`HopsInv`): every hop goes up, to
a copy of the same object.

### The forwarding table and the legacy table

Both are open-addressed. In a good table every key sits on its own probe sequence with
no free slot before it, once; a writer that still probes has passed only slots of other
keys. So the free slot its compare-and-swap claims is the first of its sequence, and
nobody else has the key: that, and not `OneSlotPerKey` alone, is inductive. A slot is
stored to only by the thread that claimed it and only until its address is there, which
makes a mapping permanent, and a lookup that is due to find a key cannot pass it. The
counters lag behind the slots by the number of claims not yet counted (`CountInv`).
For growth, `GrowInv` says that the new table is a good table of exactly the entries
copied so far, and that it has room: no more entries than the old table has slots.
`Chain` is the least set closed under the mapping, so an answer is shown to be on the
chain by carrying "on the chain" through the hops. That a search has a first free slot
comes from `LeastNat`, by the well-foundedness of the naturals.

In the legacy table the same holds between clears; `DoneInv` and `FlipInv` remember
which destinations and colours may still be stored.

### The handler and the dumper

A capability is a number, a reference to an original as far as it knows, or a usable
reference to the copy in force (`CapOK`). References to one object are revoked together
(`TogetherInv`), so a thread that publishes a copy from within the handler leaves no
usable reference to the original behind. `CtlOK` says what a handler has found by the
time it patches; the steps of other threads do not disturb it because an entry of the
table is never replaced. For the dumper, away from both ends of the address space no sum
wraps, so that what `Accepts` lets through the hardware allows (`DumpComplete`); the
frame chain is unrolled to its bound of eight (`FramesFacts`).

### The allocator and the driver

`CapsBelowOffset` (every capability ends at or below the offset) makes `CapsDisjoint`
inductive; `TakenBlock` does the modular arithmetic.

`CleanOnSuccess` speaks of addresses only once a call has returned, so the invariant has
to follow the call. `Guarded(M)` says that a live capability into the marked set M is at
most on a page the load barrier will scan first, `Clean(M)` that there is none. No step
of a mutator or of the kernel ever loses either for a marked set (`KeptStep`); opening an
epoch establishes the first for everything marked, and closing it turns the first into
the second. `CallInv` counts: one epoch after the call's target its marks are guarded,
two after it they are clean. `PassInv` covers opens that were refused or found an epoch
open.

### Only model-checked

Liveness, which is out of the prover's reach: `CloseCompletes`, `CallReturns` of the
driver and of the allocator, `CasInsertReturns` and `FaultEnds`. Configurations outside
the `SoundConfig`s have no theorems but typing. TLC checked every inductive invariant on
the instances of the runs. `gc_degraded`, with unfixed roots and a short chase limit, is
a sound configuration: its two properties are covered by `StaleAccess` and `Quarantine`.

## 5. Not modelled

`forward_table_clear` (no caller); racing lazy initialisation of the table; weak memory
(shared accesses are acquire/release atomics, except the legacy runtime's); counters,
timing and tracing; the dumper's output, range dump and breakpoint, its symbolisation
(`stopless_method_name` dereferences `c12`, `handler.c` 569-580, and a fault there, with
SIGPROT blocked, ends the dump), and its alternate stack, which belongs to the arming
thread only; a pointer one past the end of an object that is the start of the next; a second install of the
handler, which would make it its own previous handler; `StoplessArena`, a wrapper over
the allocator and the driver; measurement code (timestamps and a file); the OpenJDK
port (instruction encodings and calling conventions; the trampoline tables of
`0099-files` are filled by one thread while code is generated and only read later).
api.h declares an interface (`stopless_init`, `stopless_move`, ...) that no file
defines.

## 6. Plan

1. `JavaHeap`, `StoplessGC`, its runs and proofs; `Allocator`; `ForwardTable` (done).
2. `SigprotHandler`, `CrashDumper`, `Revoke` with its proofs, `CapRuntime` (done).
3. Proofs of the safety properties of `ForwardTable`, `SigprotHandler` with
   `CrashDumper`, and `CapRuntime`, and of the refinement of `JavaHeap` (done).
4. Left: `OneSlotPerKey` and `SizeIsExact` of the forwarding table with deletions or
   with lookups in flight during a growth, which should need less than `SoundConfig`.
