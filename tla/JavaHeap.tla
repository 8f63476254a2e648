------------------------------ MODULE JavaHeap ------------------------------
(***************************************************************************)
(* The heap as a Java program is entitled to see it: objects have an       *)
(* identity that never changes and one reference field, and nothing ever   *)
(* moves.  The collector of module StoplessGC must be invisible at this    *)
(* level: its relocations, revocations and heals are stuttering steps here *)
(* (StoplessGC!ImplementsJavaHeap).                                        *)
(*                                                                         *)
(* This module is the promise, not code: it has no counterpart in the      *)
(* repository beyond the Java semantics the collector preserves.           *)
(***************************************************************************)
EXTENDS Naturals

CONSTANTS
  Obj,      \* object identities
  NoObj,    \* the null reference
  Regs,     \* registers of the mutator threads
  Roots     \* root slots: thread stacks, handles, static fields

VARIABLES
  born,     \* objects allocated so far
  ref,      \* ref[o]: reference field of o
  local,    \* local[x]: the object register or root x refers to, or NoObj
  out       \* the comparison result the last instruction delivered

heapVars == <<born, ref, local, out>>

Init ==
  /\ born = {}
  /\ ref = [o \in Obj |-> NoObj]
  /\ local = [x \in Regs \cup Roots |-> NoObj]
  /\ out = "nothing"

\* new: r refers to an object never seen before
New(r, o) ==
  /\ o \notin born
  /\ born' = born \cup {o}
  /\ local' = [local EXCEPT ![r] = o]
  /\ out' = "nothing"
  /\ UNCHANGED ref

\* x := y between a register and a root slot
Copy(x, y) ==
  /\ local' = [local EXCEPT ![x] = local[y]]
  /\ out' = "nothing"
  /\ UNCHANGED <<born, ref>>

GetField(r, b) ==
  /\ local[b] # NoObj
  /\ local' = [local EXCEPT ![r] = ref[local[b]]]
  /\ out' = "nothing"
  /\ UNCHANGED <<born, ref>>

PutField(b, r) ==
  /\ local[b] # NoObj
  /\ ref' = [ref EXCEPT ![local[b]] = local[r]]
  /\ out' = "nothing"
  /\ UNCHANGED <<born, local>>

\* reference equality: if_acmpeq, JNI IsSameObject
Acmp(x, y) ==
  /\ out' = IF local[x] = local[y] THEN "same" ELSE "different"
  /\ UNCHANGED <<born, ref, local>>

Next ==
  \/ \E r \in Regs, o \in Obj : New(r, o)
  \/ \E r \in Regs, s \in Roots : Copy(r, s) \/ Copy(s, r)
  \/ \E r, b \in Regs : GetField(r, b) \/ PutField(b, r) \/ Acmp(r, b)

HeapSpec == Init /\ [][Next]_heapVars
=============================================================================
