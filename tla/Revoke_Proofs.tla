---------------------------- MODULE Revoke_Proofs ----------------------------
(***************************************************************************)
(* Type correctness and the two safety properties of the revocation driver.*)
(*                                                                         *)
(* For a set M of marked addresses, Clean(M) says that nothing holds a live*)
(* capability into M, Guarded(M) that only pages still behind the load     *)
(* barrier may.  Every step keeps both, since a mutator can get a live     *)
(* capability only to an unmarked address; opening an epoch makes M        *)
(* guarded, closing it makes a guarded M clean.  What is left is to count  *)
(* epochs: a call that waits for its target has seen a whole one.          *)
(***************************************************************************)
EXTENDS Revoke, TLAPS

Clean(M)   == \A l \in Locs : mem[l] \notin M
Guarded(M) == /\ \A r \in Regs : mem[r] \notin M
              /\ \A p \in Pages : mem[p] \in M => IsOpen /\ p \notin scanned

Active == call.pc # "idle"

\* The first epoch that begins after the call's target is FirstEnd + 1.
FirstEnd == call.target + (call.target % 2)

\* Histories are of addresses still marked.
HistoryInv == armed \subseteq shadow /\ dead \subseteq shadow

\* What the progress of the epoch says of the marks a call was made for.
CallInv ==
  Active =>
    /\ call.marks \subseteq shadow
    /\ call.target <= epoch
    /\ epoch = FirstEnd + 1 => Guarded(call.marks)
    /\ epoch >= FirstEnd + 2 => Clean(call.marks)

\* The last pass runs under an open epoch; an opening call takes the epoch one
\* step further, and succeeds without it only if it was open before.
PassInv ==
  /\ call.pc = "scan" => IsOpen
  /\ call.op = "open" /\ call.pc = "call" => epoch = call.target
  /\ call.op = "open" => call.pc # "scan" /\ epoch <= call.target + 1
  /\ call.op = "open" /\ call.pc = "back" /\ call.rc = 0 =>
       epoch = call.target + 1 \/ call.target % 2 = 1

IInv == /\ TypeOK /\ HistoryInv /\ CallInv /\ PassInv
        /\ Clean(dead) /\ Guarded(armed)

USE RevokeAssumption DEF Locs

-----------------------------------------------------------------------------

LEMMA Parity == \A n \in Nat : /\ n % 2 \in {0, 1}
                               /\ (n + 1) % 2 = 1 - (n % 2)
                               /\ (n + (n % 2)) % 2 = 0
                               /\ (n + (n % 2) + 1) % 2 = 1
  OBVIOUS

LEMMA SweptType == ASSUME TypeOK, NEW L PROVE Swept(L) \in [Locs -> Addrs \cup {None}]
  BY DEF TypeOK, Swept

LEMMA IdleType == Idle \in Calls
  BY DEF Idle, Calls

LEMMA TypeInit == Init => TypeOK
<1> SUFFICES ASSUME Init PROVE TypeOK
  OBVIOUS
<1>1. mem \in [Locs -> Addrs \cup {None}] /\ faults \in [open : Nat, close : Nat]
  BY DEF Init
<1> QED  BY <1>1, IdleType DEF Init, TypeOK

\* The state is well formed after every step.
LEMMA TypeStep == TypeOK /\ [Next]_vars => TypeOK'
<1> SUFFICES ASSUME TypeOK, [Next]_vars PROVE TypeOK'
  OBVIOUS
<1> USE DEF TypeOK
<1>1. CASE ArenaInit
  BY <1>1 DEF ArenaInit, EnsureCri, kernelVars, historyVars
<1>2. CASE ArenaFini
  BY <1>2 DEF ArenaFini, kernelVars, historyVars
<1>3. ASSUME NEW a \in Addrs, Mark(a) PROVE TypeOK'
  BY <1>3 DEF Mark, kernelVars, historyVars
<1>4. ASSUME NEW a \in Addrs, Unmark(a) PROVE TypeOK'
  BY <1>4 DEF Unmark, kernelVars
<1>5. ASSUME NEW r \in Regs, NEW a \in Addrs, New(r, a) PROVE TypeOK'
  BY <1>5 DEF New, kernelVars, historyVars
<1>6. ASSUME NEW r \in Regs, NEW p \in Pages, Store(r, p) PROVE TypeOK'
  BY <1>6 DEF Store, kernelVars, historyVars
<1>7. ASSUME NEW r \in Regs, NEW p \in Pages, Load(r, p) PROVE TypeOK'
  <2>1. Barrier(p) \in [Locs -> Addrs \cup {None}]
    BY SweptType DEF Barrier
  <2> QED  BY <1>7, <2>1 DEF Load, historyVars
<1>8. ASSUME NEW op \in {"open", "close", "now"}, Begin(op) PROVE TypeOK'
  <2>1. faults' \in [open : Nat, close : Nat]
    BY <1>8 DEF Begin, FaultSpent
  <2>2. call' \in Calls
    BY <1>8 DEF Begin, Calls, Enqueue
  <2> QED  BY <1>8, <2>1, <2>2 DEF Begin, EnsureCri, kernelVars, historyVars
<1>9. CASE KernelRefuses
  <2>1. call' \in Calls
    BY <1>9 DEF KernelRefuses, Back, Calls
  <2> QED  BY <1>9, <2>1 DEF KernelRefuses, InKernel, kernelVars, historyVars
<1>10. CASE KernelEnters
  <2>1. call' \in Calls
    <3>1. /\ [call EXCEPT !.pc = "scan"] \in Calls /\ [call EXCEPT !.pc = "back", !.rc = 0] \in Calls
          /\ [call EXCEPT !.pc = "back", !.rc = -1] \in Calls
      BY DEF Calls
    <3> QED
      BY <1>10, <3>1 DEF KernelEnters, Back
  <2>2. epoch' \in Nat /\ scanned' \subseteq Pages /\ mem' \in [Locs -> Addrs \cup {None}]
    BY <1>10, SweptType DEF KernelEnters, kernelVars
  <2> QED  BY <1>10, <2>1, <2>2 DEF KernelEnters, InKernel, historyVars
<1>11. CASE KernelLeaves
  <2>1. call' \in Calls
    BY <1>11 DEF KernelLeaves, Back, Calls
  <2> QED  BY <1>11, <2>1 DEF KernelLeaves, InKernel, historyVars
<1>12. ASSUME NEW p \in Pages, KernelScans(p) PROVE TypeOK'
  BY <1>12, SweptType DEF KernelScans, InKernel, historyVars
<1>13. ASSUME NEW r, Return(r), InDriver PROVE TypeOK'
  <2>1. armed' \subseteq Addrs /\ dead' \subseteq Addrs
    BY <1>13 DEF Return, Calls
  <2> QED  BY <1>13, <2>1, IdleType DEF Return, InDriver, kernelVars
<1>14. CASE OpenReturns
  BY <1>13, <1>14 DEF OpenReturns
<1>15. CASE NowPassed
  <2>1. CASE call.rc # 0
    BY <1>13, <1>15, <2>1 DEF NowPassed
  <2>2. CASE call.rc = 0
    <3>1. call' \in Calls
      BY <1>15, <2>2, ZenonT(40) DEF NowPassed, Calls, Enqueue
    <3> QED  BY <1>15, <2>2, <3>1 DEF NowPassed, InDriver, kernelVars, historyVars
  <2> QED  BY <2>1, <2>2
<1>16. CASE WaitAgain
  <2>1. call.loops \in 0..MaxLoops /\ call.loops < MaxLoops
    BY <1>16 DEF WaitAgain, WaitGoesOn, Calls
  <2>2. PassCounted \in 0..MaxLoops
    BY <2>1 DEF PassCounted
  <2>3. call' \in Calls
    BY <1>16, <2>2 DEF WaitAgain, Calls
  <2> QED  BY <1>16, <2>3 DEF WaitAgain, InDriver, kernelVars, historyVars
<1>17. CASE WaitReturns
  BY <1>13, <1>17 DEF WaitReturns
<1>18. CASE UNCHANGED vars
  BY <1>18 DEF vars, kernelVars, historyVars
<1> QED
  BY <1>1, <1>2, <1>3, <1>4, <1>5, <1>6, <1>7, <1>8, <1>9, <1>10, <1>11, <1>12,
     <1>14, <1>15, <1>16, <1>17, <1>18 DEF Next, CallStep

-----------------------------------------------------------------------------
(* What steps do to marked addresses.                                      *)

LEMMA SweptValue ==
  ASSUME NEW L, NEW l \in Locs
  PROVE  Swept(L)[l] = IF l \in L /\ mem[l] \in shadow THEN None ELSE mem[l]
  BY DEF Swept

\* A marked set stays guarded, and stays clean.
LEMMA KeptStep ==
  ASSUME TypeOK, PassInv, [Next]_vars, NEW M, M \subseteq shadow
  PROVE  /\ Guarded(M) => \A r \in Regs : mem'[r] \notin M
         /\ Guarded(M) => \A p \in Pages : mem'[p] \in M => epoch' % 2 = 1 /\ p \notin scanned'
         /\ Clean(M) => \A l \in Locs : mem'[l] \notin M
<1> DEFINE G == /\ \A r \in Regs : mem'[r] \notin M
                /\ \A p \in Pages : mem'[p] \in M => epoch' % 2 = 1 /\ p \notin scanned'
           C == \A l \in Locs : mem'[l] \notin M
<1> SUFFICES (Guarded(M) => G) /\ (Clean(M) => C)
  OBVIOUS
<1> USE DEF TypeOK
<1>0. None \notin M
  OBVIOUS
<1>1. CASE UNCHANGED <<mem, epoch, scanned>>
  BY <1>1 DEF Guarded, Clean, IsOpen
<1>2. ASSUME NEW r \in Regs, NEW a \in Addrs, New(r, a) PROVE (Guarded(M) => G) /\ (Clean(M) => C)
  BY <1>2 DEF New, kernelVars, Guarded, Clean, IsOpen
<1>3. ASSUME NEW r \in Regs, NEW p \in Pages, Store(r, p) PROVE (Guarded(M) => G) /\ (Clean(M) => C)
  BY <1>3 DEF Store, kernelVars, Guarded, Clean, IsOpen
<1>4. ASSUME NEW r \in Regs, NEW p \in Pages, Load(r, p) PROVE (Guarded(M) => G) /\ (Clean(M) => C)
  <2>1. Barrier(p) \in [Locs -> Addrs \cup {None}]
    BY SweptType DEF Barrier
  <2>2. \A l \in Locs : Barrier(p)[l] = mem[l] \/ Barrier(p)[l] = None
    BY SweptValue DEF Barrier
  <2>3. IsOpen /\ p \notin scanned => Barrier(p)[p] \notin M
    BY <1>0, SweptValue DEF Barrier
  <2>4. \A l \in Locs : mem'[l] = IF l = r THEN Barrier(p)[p] ELSE Barrier(p)[l]
    BY <1>4, <2>1 DEF Load
  <2>5. epoch' = epoch /\ scanned' = IF IsOpen THEN scanned \cup {p} ELSE scanned
    BY <1>4 DEF Load
  <2> HIDE DEF TypeOK
  <2> QED  BY <1>0, <2>2, <2>3, <2>4, <2>5 DEF Guarded, Clean, IsOpen
<1>5. CASE KernelEnters
  <2>1. CASE IsOpen
    BY <1>1, <1>5, <2>1 DEF KernelEnters, kernelVars
  <2>2. CASE ~ IsOpen
    <3>1. epoch' = epoch + 1 /\ scanned' = {} /\ mem' = Swept(Regs)
      BY <1>5, <2>2 DEF KernelEnters
    <3>2. epoch' % 2 = 1
      BY <2>2, <3>1, Parity DEF IsOpen
    <3> QED  BY <1>0, <3>1, <3>2, SweptValue DEF Guarded, Clean
  <2> QED  BY <2>1, <2>2
<1>6. CASE KernelLeaves
  BY <1>6 DEF KernelLeaves, Guarded, Clean, IsOpen
<1>7. ASSUME NEW p \in Pages, KernelScans(p) PROVE (Guarded(M) => G) /\ (Clean(M) => C)
  BY <1>0, <1>7, SweptValue DEF KernelScans, Guarded, Clean, IsOpen
<1> QED
  BY <1>1, <1>2, <1>3, <1>4, <1>5, <1>6, <1>7
     DEF Next, CallStep, ArenaInit, ArenaFini, Mark, Unmark, Begin, KernelRefuses,
         OpenReturns, NowPassed, WaitAgain, WaitReturns, InDriver, vars, kernelVars

-----------------------------------------------------------------------------
(* The inductive invariant.                                                *)

LEMMA InvInit == Init => IInv
<1> SUFFICES ASSUME Init PROVE IInv
  OBVIOUS
<1>1. TypeOK
  BY TypeInit
<1>2. HistoryInv /\ CallInv /\ PassInv
  BY DEF Init, HistoryInv, CallInv, PassInv, Active, Idle
<1>3. Clean(dead) /\ Guarded(armed)
  BY DEF Init, Clean, Guarded
<1> QED  BY <1>1, <1>2, <1>3 DEF IInv

LEMMA PassStep == IInv /\ [Next]_vars => PassInv'
<1> SUFFICES ASSUME IInv, [Next]_vars PROVE PassInv'
  OBVIOUS
<1> USE DEF IInv, PassInv, IsOpen
<1>0. epoch \in Nat /\ call \in Calls
  BY DEF TypeOK
<1>1. CASE UNCHANGED <<call, epoch>>
  BY <1>1
<1>2. ASSUME NEW op \in {"open", "close", "now"}, Begin(op) PROVE PassInv'
  BY <1>0, <1>2 DEF Begin, Enqueue, Idle, kernelVars
<1>3. CASE KernelRefuses
  <2>1. /\ call.pc = "call" /\ call'.pc = "back" /\ epoch' = epoch
        /\ call'.op = call.op /\ call'.target = call.target
    BY <1>0, <1>3 DEF KernelRefuses, Back, Calls, kernelVars
  <2>2. call'.rc = 0 => epoch % 2 = 1
    <3>1. ASSUME NEW rc \in {0, -1}, Back(rc) PROVE call'.rc = rc
      BY <1>0, <3>1 DEF Back, Calls
    <3>2. Back(-1) \/ epoch % 2 = 1
      BY <1>3 DEF KernelRefuses
    <3> QED  BY <3>1, <3>2
  <2> QED  BY <1>0, <2>1, <2>2
<1>4. CASE KernelEnters
  <2>1. epoch' = IF IsOpen THEN epoch ELSE epoch + 1
    BY <1>4 DEF KernelEnters, kernelVars
  <2>2. epoch' % 2 = 1
    BY <1>0, <2>1, Parity
  <2>3. CASE LastPass
    <3>1. call'.op # "open" /\ call'.pc = "scan"
      BY <1>0, <1>4, <2>3 DEF KernelEnters, LastPass, Calls
    <3> QED  BY <2>2, <3>1
  <2>4. CASE ~ LastPass
    <3>1. call.op = "open" /\ call.pc = "call" /\ epoch' = epoch + 1
      BY <1>4, <2>1, <2>4 DEF KernelEnters, LastPass
    <3>2. call'.pc = "back" /\ call'.target = call.target
      BY <1>0, <1>4, <2>4 DEF KernelEnters, Back, Calls
    <3> QED  BY <1>0, <3>1, <3>2
  <2> QED  BY <2>3, <2>4
<1>5. CASE KernelLeaves
  <2>1. call.op # "open" /\ call'.op = call.op /\ call'.pc = "back"
    BY <1>0, <1>5 DEF KernelLeaves, Back, Calls
  <2> QED  BY <2>1
<1>6. ASSUME NEW r, Return(r), InDriver PROVE PassInv'
  BY <1>0, <1>6 DEF Return, InDriver, Idle, kernelVars
<1>7. CASE NowPassed
  BY <1>0, <1>6, <1>7 DEF NowPassed, InDriver, Calls, kernelVars
<1>8. CASE WaitAgain
  BY <1>0, <1>8 DEF WaitAgain, InDriver, Calls, kernelVars
<1> QED
  BY <1>1, <1>2, <1>3, <1>4, <1>5, <1>6, <1>7, <1>8
     DEF Next, CallStep, ArenaInit, ArenaFini, Mark, Unmark, New, Store, Load, KernelScans,
         OpenReturns, WaitReturns, vars, kernelVars

LEMMA CallInvStep == IInv /\ [Next]_vars => CallInv'
<1> SUFFICES ASSUME IInv, [Next]_vars, Active' PROVE CallInv'
  BY DEF CallInv
<1> DEFINE M == call.marks
           FE == call.target + (call.target % 2)
<1> USE DEF IInv
<1>0. epoch \in Nat /\ call \in Calls /\ call.target \in Nat /\ None \notin call.marks
  BY DEF TypeOK, Calls
<1>1. FE \in Nat /\ FE % 2 = 0 /\ (FE + 1) % 2 = 1 /\ FE >= call.target
  BY <1>0, Parity
<1>2. ASSUME Active, M \subseteq shadow',
             call'.marks = M, call'.target = call.target, call.target <= epoch',
             epoch' = FE + 1 => \A r \in Regs : mem'[r] \notin M,
             epoch' = FE + 1 => \A p \in Pages : mem'[p] \in M => epoch' % 2 = 1 /\ p \notin scanned',
             epoch' >= FE + 2 => \A l \in Locs : mem'[l] \notin M
      PROVE  CallInv'
  BY <1>2 DEF CallInv, FirstEnd, Guarded, Clean, IsOpen
<1>3. Active => /\ Guarded(M) => \A r \in Regs : mem'[r] \notin M
                /\ Guarded(M) => \A p \in Pages : mem'[p] \in M => epoch' % 2 = 1 /\ p \notin scanned'
                /\ Clean(M) => \A l \in Locs : mem'[l] \notin M
  BY KeptStep DEF CallInv
<1>4. ASSUME NEW op \in {"open", "close", "now"}, Begin(op) PROVE CallInv'
  <2>1. call'.target = epoch /\ call'.marks = shadow /\ epoch' = epoch /\ shadow' = shadow
    BY <1>4 DEF Begin, Enqueue, Active, Idle, kernelVars
  <2> QED  BY <1>0, <2>1, Parity DEF CallInv, FirstEnd
<1>5. ASSUME Active, call'.marks = M, call'.target = call.target, epoch' = epoch,
             M \subseteq shadow'
      PROVE  CallInv'
  BY <1>2, <1>3, <1>5 DEF CallInv, FirstEnd
<1>6. CASE KernelRefuses
  BY <1>0, <1>5, <1>6 DEF KernelRefuses, Back, InKernel, kernelVars, Active, CallInv, Calls
<1>7. CASE KernelEnters
  <2>1. Active /\ M \subseteq shadow' /\ call'.marks = M /\ call'.target = call.target
    BY <1>0, <1>7 DEF KernelEnters, Back, InKernel, Active, CallInv, Calls
  <2>2. CASE IsOpen
    BY <1>5, <1>7, <2>1, <2>2 DEF KernelEnters, kernelVars
  <2>3. CASE ~ IsOpen
    <3>1. epoch' = epoch + 1 /\ scanned' = {} /\ mem' = Swept(Regs)
      BY <1>7, <2>3 DEF KernelEnters
    <3>2. epoch % 2 = 0 /\ epoch' % 2 = 1
      BY <1>0, <2>3, <3>1, Parity DEF IsOpen
    <3>3. \A r \in Regs : mem'[r] \notin M
      BY <1>0, <2>1, <3>1, SweptValue DEF CallInv
    <3>4. epoch' >= FE + 2 => epoch >= FE + 2
      <4>1. epoch # FE + 1
        BY <1>1, <3>2
      <4> HIDE DEF FE
      <4> QED  BY <1>0, <1>1, <3>1, <4>1
    <3> QED  BY <1>0, <1>2, <1>3, <2>1, <3>1, <3>2, <3>3, <3>4 DEF CallInv, FirstEnd
  <2> QED  BY <2>2, <2>3
<1>8. CASE KernelLeaves
  <2>1. /\ Active /\ M \subseteq shadow' /\ call'.marks = M /\ call'.target = call.target
        /\ mem' = mem /\ epoch % 2 = 1
    BY <1>0, <1>8 DEF KernelLeaves, Back, InKernel, Active, CallInv, PassInv, IsOpen, Calls
  <2>2. CASE epoch' = epoch
    BY <1>5, <2>1, <2>2
  <2>3. CASE epoch' # epoch
    <3>1. epoch' = epoch + 1 /\ scanned = Pages
      BY <1>8, <2>3 DEF KernelLeaves
    <3>2. epoch' # FE + 1
      BY <1>0, <1>1, <2>1, <3>1
    <3>3. Guarded(M) => Clean(M)
      BY <3>1 DEF Guarded, Clean
    <3>4. epoch' >= FE + 2 => epoch = FE + 1 \/ epoch >= FE + 2
      BY <1>0, <1>1, <3>1
    <3>5. epoch' >= FE + 2 => Clean(M)
      BY <2>1, <3>3, <3>4 DEF CallInv, FirstEnd
    <3> QED  BY <1>0, <1>2, <2>1, <3>1, <3>2, <3>5 DEF CallInv, Clean
  <2> QED  BY <2>2, <2>3
<1>9. ASSUME NEW r, Return(r) PROVE CallInv'
  BY <1>9 DEF Return, Active, Idle
<1>10. CASE NowPassed
  <2>1. CASE call.rc # 0
    BY <1>9, <1>10, <2>1 DEF NowPassed
  <2>2. CASE call.rc = 0
    <3>1. Active /\ call'.target = epoch /\ call'.marks = M /\ epoch' = epoch /\ shadow' = shadow
      BY <1>0, <1>10, <2>2 DEF NowPassed, InDriver, Enqueue, Active, Calls, kernelVars
    <3> QED  BY <1>0, <3>1, Parity DEF CallInv, FirstEnd
  <2> QED  BY <2>1, <2>2
<1>11. CASE WaitAgain
  BY <1>0, <1>5, <1>11 DEF WaitAgain, InDriver, kernelVars, Active, CallInv, Calls
<1>12. CASE UNCHANGED <<call, epoch, shadow>>
  BY <1>5, <1>12 DEF Active, CallInv
<1>13. ASSUME NEW a \in Addrs, Mark(a) PROVE CallInv'
  BY <1>5, <1>13 DEF Mark, kernelVars, Active, CallInv
<1>14. ASSUME NEW a \in Addrs, Unmark(a) PROVE CallInv'
  BY <1>14 DEF Unmark, Active, Idle
<1> QED
  BY <1>4, <1>6, <1>7, <1>8, <1>9, <1>10, <1>11, <1>12, <1>13, <1>14
     DEF Next, CallStep, ArenaInit, ArenaFini, New, Store, Load, KernelScans, InKernel,
         OpenReturns, WaitReturns, vars, kernelVars

LEMMA HistoryStep == IInv /\ [Next]_vars => HistoryInv' /\ Clean(dead)' /\ Guarded(armed)'
<1> SUFFICES ASSUME IInv, [Next]_vars PROVE HistoryInv' /\ Clean(dead)' /\ Guarded(armed)'
  OBVIOUS
<1> USE DEF IInv, HistoryInv
<1>0. epoch \in Nat /\ call \in Calls /\ call.target \in Nat
  BY DEF TypeOK, Calls
<1>1. ASSUME NEW A, NEW D, A \subseteq shadow, D \subseteq shadow, Guarded(A), Clean(D),
             armed' \subseteq A, dead' \subseteq D
      PROVE  Clean(dead)' /\ Guarded(armed)'
  BY <1>1, KeptStep DEF Clean, Guarded, IsOpen
<1>2. CASE UNCHANGED historyVars /\ shadow \subseteq shadow'
  BY <1>1, <1>2 DEF historyVars
<1>3. ASSUME NEW a \in Addrs, Unmark(a) PROVE HistoryInv' /\ Clean(dead)' /\ Guarded(armed)'
  BY <1>1, <1>3 DEF Unmark
<1>4. CASE OpenReturns
  <2>1. call.op = "open" /\ call.pc = "back" /\ shadow' = shadow /\ dead' = dead
    BY <1>4 DEF OpenReturns, Return, InDriver
  <2>2. CASE OpenResult = 0 /\ call.target % 2 = 0
    <3>1. epoch = call.target + 1
      BY <1>0, <2>1, <2>2 DEF OpenResult, Enqueue, PassInv, Calls
    <3>2. Guarded(call.marks) /\ call.marks \subseteq shadow
      BY <1>0, <2>1, <2>2, <3>1 DEF CallInv, Active, FirstEnd
    <3>3. armed' = armed \cup call.marks
      BY <1>4, <2>1, <2>2 DEF OpenReturns, Return
    <3>4. Guarded(armed \cup call.marks)
      BY <3>2 DEF Guarded
    <3> QED  BY <1>1, <2>1, <3>2, <3>3, <3>4
  <2>3. CASE ~ (OpenResult = 0 /\ call.target % 2 = 0)
    <3>1. armed' = armed
      BY <1>4, <2>3 DEF OpenReturns, Return
    <3> QED  BY <1>2, <2>1, <3>1 DEF historyVars
  <2> QED  BY <2>2, <2>3
<1>5. CASE NowPassed
  <2>1. UNCHANGED historyVars /\ shadow' = shadow
    BY <1>5 DEF NowPassed, Return, InDriver, historyVars
  <2> QED  BY <1>2, <2>1
<1>6. CASE WaitReturns
  <2>1. call.op # "open" /\ call.pc = "back" /\ shadow' = shadow /\ armed' = armed
    BY <1>6 DEF WaitReturns, Return, InDriver
  <2>2. CASE WaitResult = 0
    <3>1. Cleared
      BY <2>2 DEF WaitResult
    <3>2. epoch >= FirstEnd + 2
      BY <1>0, <3>1, Parity DEF Cleared, Clears, Dequeue, FirstEnd
    <3>3. Clean(call.marks) /\ call.marks \subseteq shadow
      BY <2>1, <3>2 DEF CallInv, Active
    <3>4. dead' = dead \cup call.marks
      BY <1>6, <2>1, <2>2 DEF WaitReturns, Return
    <3>5. Clean(dead \cup call.marks)
      BY <3>3 DEF Clean
    <3> QED  BY <1>1, <2>1, <3>3, <3>4, <3>5
  <2>3. CASE WaitResult # 0
    <3>1. dead' = dead
      BY <1>6, <2>3 DEF WaitReturns, Return
    <3> QED  BY <1>2, <2>1, <3>1 DEF historyVars
  <2> QED  BY <2>2, <2>3
<1> QED
  BY <1>2, <1>3, <1>4, <1>5, <1>6
     DEF Next, CallStep, ArenaInit, ArenaFini, Mark, New, Store, Load, Begin, KernelRefuses,
         KernelEnters, KernelLeaves, KernelScans, InKernel, WaitAgain, InDriver, vars, historyVars

\* IInv holds of every state of the driver, for every number of objects,
\* places, passes and failures.
THEOREM RevokeInvariance == Spec => []IInv
<1>1. IInv /\ [Next]_vars => IInv'
  BY TypeStep, PassStep, CallInvStep, HistoryStep DEF IInv
<1> QED  BY InvInit, <1>1, PTL DEF Spec

\* The driver's state is well formed; a fault budget never goes below zero.
THEOREM RevokeTyping == Spec => []TypeOK
<1>1. IInv => TypeOK
  BY DEF IInv
<1> QED  BY RevokeInvariance, <1>1, PTL

\* stopless_revoke_close and stopless_revoke_now return 0 only when nothing
\* holds a live capability to an address that was marked when they were called.
THEOREM RevokeClean == Spec => []CleanOnSuccess
<1>1. IInv => CleanOnSuccess
  BY DEF IInv, Clean, CleanOnSuccess
<1> QED  BY RevokeInvariance, <1>1, PTL

\* After stopless_revoke_open has returned 0 no register holds, and no load
\* finds, a live capability to an address that was marked.
THEOREM RevokeArms == Spec => []OpenArms
<1>1. IInv => OpenArms
  <2> SUFFICES ASSUME IInv PROVE OpenArms
    OBVIOUS
  <2> USE DEF IInv
  <2>1. ASSUME NEW p \in Pages PROVE Barrier(p)[p] \notin armed
    <3>1. None \notin armed
      BY DEF TypeOK
    <3>2. CASE IsOpen /\ p \notin scanned
      BY <3>1, <3>2, SweptValue DEF Barrier, HistoryInv
    <3>3. CASE ~ (IsOpen /\ p \notin scanned)
      BY <3>3 DEF Barrier, Guarded
    <3> QED  BY <3>2, <3>3
  <2> QED  BY <2>1 DEF OpenArms, Guarded
<1> QED  BY RevokeInvariance, <1>1, PTL
=============================================================================
