----------------------------- MODULE Pimpl_proofs -----------------------------
(****************************************************************************)
(* Proofs about Pimpl, for any variables, objects and states: the ownership *)
(* of the objects, and that the variables have value semantics.             *)
(****************************************************************************)
EXTENDS Pimpl, TLAPS

\* The inductive invariant: what is allocated has an owner, one each.
PInv == PimplAssumption /\ TypeOK /\ OneOwnerEach

\* Variables start null and nothing is allocated.
LEMMA PInvInit == PimplAssumption /\ Init => PInv
<1> USE DEF PimplAssumption
<1> SUFFICES ASSUME PimplAssumption, Init PROVE PInv
    OBVIOUS
<1>1. TypeOK
    BY DEF Init, TypeOK
<1>2. OneOwnerEach
    BY DEF Init, OneOwnerEach, IsNull
<1>. QED
    BY <1>1, <1>2 DEF PInv

\* Filling a variable keeps the ownership right: the new object was free, and
\* the old one is freed, which nobody else owned.
LEMMA ConstructStep ==
  ASSUME PInv, NEW x \in Vars, NEW v \in Values, Construct(x, v)
  PROVE  PInv'
<1> USE DEF PimplAssumption
<1>1. PICK o \in Objects :
        /\ heap[o] = Free
        /\ heap' = Deallocate([heap EXCEPT ![o] = v], ptr[x])
        /\ ptr'  = [ptr EXCEPT ![x] = o]
    BY DEF Construct
<1>2. TypeOK'
    BY <1>1 DEF PInv, TypeOK, Deallocate
<1>3. \A y \in Vars : ptr[y] # o
    BY <1>1 DEF PInv, TypeOK, OneOwnerEach
<1>4. \A y, z \in Vars : ptr'[y] = ptr'[z] /\ ptr'[y] # Null => y = z
    BY <1>1, <1>3 DEF PInv, TypeOK, OneOwnerEach, IsNull
<1>5. ASSUME NEW q \in Objects
      PROVE  heap'[q] # Free <=> \E y \in Vars : ptr'[y] = q
  <2>1. CASE q = o
      BY <1>1, <1>3, <2>1 DEF PInv, TypeOK, Deallocate
  <2>2. CASE q # o /\ q = ptr[x]
      BY <1>1, <2>2 DEF PInv, TypeOK, OneOwnerEach, IsNull, Deallocate
  <2>3. CASE q # o /\ q # ptr[x]
      BY <1>1, <2>3 DEF PInv, TypeOK, OneOwnerEach, IsNull, Deallocate
  <2>. QED
      BY <2>1, <2>2, <2>3
<1>. QED
    BY <1>2, <1>4, <1>5 DEF PInv, OneOwnerEach, IsNull

\* Destroying a variable frees what it owned.
LEMMA DestroyStep ==
  ASSUME PInv, NEW x \in Vars, Destroy(x)
  PROVE  PInv'
<1> USE DEF PimplAssumption
<1>1. TypeOK'
    BY DEF PInv, TypeOK, Destroy, Deallocate
<1>2. OneOwnerEach'
    BY DEF PInv, TypeOK, OneOwnerEach, IsNull, Destroy, Deallocate
<1>. QED
    BY <1>1, <1>2 DEF PInv

\* A move hands the object over, and frees what the target owned.
LEMMA MoveStep ==
  ASSUME PInv, NEW x \in Vars, NEW y \in Vars, Move(x, y)
  PROVE  PInv'
<1> USE DEF PimplAssumption
<1>1. CASE x = y
  <2>1. ptr' = ptr /\ heap' = heap
      BY <1>1 DEF PInv, TypeOK, Move
  <2>. QED
      BY <2>1 DEF PInv, TypeOK, OneOwnerEach, IsNull
<1>2. CASE x # y
  <2>1. TypeOK'
      BY <1>2 DEF PInv, TypeOK, Move, Deallocate
  <2>2. \A u \in Vars : ptr'[u] = IF u = x THEN ptr[y] ELSE IF u = y THEN Null ELSE ptr[u]
      BY <1>2 DEF PInv, TypeOK, Move
  <2>3. \A u, w \in Vars : ptr'[u] = ptr'[w] /\ ptr'[u] # Null => u = w
      BY <1>2, <2>2 DEF PInv, TypeOK, OneOwnerEach, IsNull
  <2>4. ASSUME NEW q \in Objects
        PROVE  heap'[q] # Free <=> \E u \in Vars : ptr'[u] = q
    <3>1. CASE q = ptr[x]
        BY <1>2, <2>2, <3>1 DEF PInv, TypeOK, OneOwnerEach, IsNull, Move, Deallocate
    <3>2. CASE q # ptr[x]
        BY <1>2, <2>2, <3>2 DEF PInv, TypeOK, OneOwnerEach, IsNull, Move, Deallocate
    <3>. QED
        BY <3>1, <3>2
  <2>. QED
      BY <2>1, <2>3, <2>4 DEF PInv, OneOwnerEach, IsNull
<1>. QED
    BY <1>1, <1>2

\* A swap permutes the owners.
LEMMA SwapStep ==
  ASSUME PInv, NEW x \in Vars, NEW y \in Vars, Swap(x, y)
  PROVE  PInv'
<1> USE DEF PimplAssumption
<1>1. TypeOK'
    BY DEF PInv, TypeOK, Swap
<1>2. \A u \in Vars : ptr'[u] = IF u = y THEN ptr[x] ELSE IF u = x THEN ptr[y] ELSE ptr[u]
    BY DEF PInv, TypeOK, Swap
<1>3. OneOwnerEach'
    BY <1>2 DEF PInv, TypeOK, OneOwnerEach, IsNull, Swap
<1>. QED
    BY <1>1, <1>3 DEF PInv

\* A modifier leaves the object allocated.
LEMMA UpdateStep ==
  ASSUME PInv, NEW x \in Vars, NEW v \in Values, Update(x, v)
  PROVE  PInv'
<1> USE DEF PimplAssumption
<1>1. TypeOK'
    BY DEF PInv, TypeOK, Update
<1>2. OneOwnerEach'
    BY DEF PInv, TypeOK, OneOwnerEach, IsNull, Update
<1>. QED
    BY <1>1, <1>2 DEF PInv

\* A copy is a construction from a state, or leaves the target null.
LEMMA CopyStep ==
  ASSUME PInv, NEW x \in Vars, NEW y \in Vars, Copy(x, y)
  PROVE  PInv'
<1>1. CASE IsNull(y)
    BY <1>1, DestroyStep DEF Copy
<1>2. CASE ~IsNull(y)
  <2>1. heap[ptr[y]] \in Values
      BY <1>2 DEF PimplAssumption, PInv, TypeOK, OneOwnerEach, IsNull
  <2>. QED
      BY <1>2, <2>1, ConstructStep DEF Copy
<1>. QED
    BY <1>1, <1>2

\* Every step keeps the ownership right.
LEMMA PInvNext == PInv /\ [Next]_vars => PInv'
<1> SUFFICES ASSUME PInv, [Next]_vars PROVE PInv'
    OBVIOUS
<1>1. CASE Next
  <2>1. PICK x \in Vars :
          \/ \E v \in Values : Construct(x, v) \/ Update(x, v)
          \/ Destroy(x)
          \/ \E y \in Vars : Copy(x, y) \/ Move(x, y) \/ Swap(x, y)
      BY <1>1 DEF Next
  <2>. QED
      BY <2>1, ConstructStep, UpdateStep, DestroyStep, CopyStep, MoveStep, SwapStep
<1>2. CASE UNCHANGED vars
    BY <1>2 DEF vars, PInv, TypeOK, OneOwnerEach, IsNull
<1>. QED
    BY <1>1, <1>2

\* The ownership invariant holds in every reachable state, so that no PIMPL of
\* a Logger, RAM, ResourceSet, BinaryBuffer or CommPP leaks or is freed twice.
THEOREM Ownership == ASSUME PimplAssumption PROVE Spec => []OneOwnerEach
<1>1. PInv => OneOwnerEach
    BY DEF PInv
<1>2. Init => PInv
    BY PInvInit
<1>. QED
    BY <1>1, <1>2, PInvNext, PTL DEF Spec

-----------------------------------------------------------------------------
(* Refinement: what a variable holds is the state of its object. *)

Seen == [x \in Vars |-> Content(x)]

\* A clone, or a factory's object, is seen at once and only in its variable.
LEMMA ConstructSeen ==
  ASSUME PInv, NEW x \in Vars, NEW v \in Values, Construct(x, v)
  PROVE  Seen' = [Seen EXCEPT ![x] = v]
<1> USE DEF PimplAssumption
<1>1. PICK o \in Objects :
        /\ heap[o] = Free
        /\ heap' = Deallocate([heap EXCEPT ![o] = v], ptr[x])
        /\ ptr'  = [ptr EXCEPT ![x] = o]
    BY DEF Construct
<1>2. \A y \in Vars : ptr[y] # o
    BY <1>1 DEF PInv, TypeOK, OneOwnerEach
<1>3. ASSUME NEW y \in Vars PROVE Content(y)' = IF y = x THEN v ELSE Content(y)
  <2>1. CASE y = x
      BY <1>1, <1>2, <2>1 DEF PInv, TypeOK, Content, IsNull, Deallocate
  <2>2. CASE y # x
    <3>1. ptr'[y] = ptr[y]
        BY <1>1, <2>2 DEF PInv, TypeOK
    <3>2. CASE ptr[y] = Null
        BY <3>1, <3>2, <2>2 DEF Content, IsNull
    <3>3. CASE ptr[y] # Null
      <4>1. ptr[y] \in Objects /\ ptr[y] # o /\ ptr[y] # ptr[x]
          BY <1>2, <2>2, <3>3 DEF PInv, TypeOK, OneOwnerEach, IsNull
      <4>2. heap'[ptr[y]] = heap[ptr[y]]
          BY <1>1, <4>1 DEF PInv, TypeOK, Deallocate
      <4>. QED
          BY <3>1, <3>3, <4>2, <2>2 DEF Content, IsNull
    <3>. QED
        BY <3>2, <3>3
  <2>. QED
      BY <2>1, <2>2
<1>. QED
    BY <1>3 DEF Seen

\* A variable that is destroyed is null, and no other one changes.
LEMMA DestroySeen ==
  ASSUME PInv, NEW x \in Vars, Destroy(x)
  PROVE  Seen' = [Seen EXCEPT ![x] = Null]
<1> USE DEF PimplAssumption
<1>1. ASSUME NEW y \in Vars PROVE Content(y)' = IF y = x THEN Null ELSE Content(y)
  <2>1. CASE y = x
      BY <2>1 DEF PInv, TypeOK, Destroy, Content, IsNull
  <2>2. CASE y # x
      BY <2>2 DEF PInv, TypeOK, OneOwnerEach, Destroy, Deallocate, Content, IsNull
  <2>. QED
      BY <2>1, <2>2
<1>. QED
    BY <1>1 DEF Seen

\* A move carries the value over, and leaves its source null.
LEMMA MoveSeen ==
  ASSUME PInv, NEW x \in Vars, NEW y \in Vars, Move(x, y)
  PROVE  Seen' = [Seen EXCEPT ![y] = Null, ![x] = Seen[y]]
<1> USE DEF PimplAssumption
<1>1. \A u \in Vars : ptr'[u] = IF u = x THEN ptr[y] ELSE IF u = y THEN Null ELSE ptr[u]
    BY DEF PInv, TypeOK, Move
<1>2. ASSUME NEW u \in Vars
      PROVE  Content(u)' = IF u = x THEN Content(y) ELSE IF u = y THEN Null ELSE Content(u)
  <2>1. CASE u = x
    <3>1. CASE ptr[y] = Null
        BY <1>1, <2>1, <3>1 DEF Content, IsNull
    <3>2. CASE ptr[y] # Null
      <4>1. heap'[ptr[y]] = heap[ptr[y]]
          BY <3>2 DEF PInv, TypeOK, OneOwnerEach, IsNull, Move, Deallocate
      <4>. QED
          BY <1>1, <2>1, <3>2, <4>1 DEF Content, IsNull
    <3>. QED
        BY <3>1, <3>2
  <2>2. CASE u # x /\ u = y
      BY <1>1, <2>2 DEF Content, IsNull
  <2>3. CASE u # x /\ u # y
      BY <1>1, <2>3 DEF PInv, TypeOK, OneOwnerEach, Move, Deallocate, Content, IsNull
  <2>. QED
      BY <2>1, <2>2, <2>3
<1>. QED
    BY <1>2 DEF Seen

\* A swap exchanges two values.
LEMMA SwapSeen ==
  ASSUME PInv, NEW x \in Vars, NEW y \in Vars, Swap(x, y)
  PROVE  Seen' = [Seen EXCEPT ![x] = Seen[y], ![y] = Seen[x]]
<1>1. \A u \in Vars : ptr'[u] = IF u = y THEN ptr[x] ELSE IF u = x THEN ptr[y] ELSE ptr[u]
    BY DEF PInv, TypeOK, Swap
<1>2. heap' = heap
    BY DEF Swap
<1>3. ASSUME NEW u \in Vars
      PROVE  Content(u)' = IF u = y THEN Content(x) ELSE IF u = x THEN Content(y) ELSE Content(u)
  <2>1. CASE u = y
      BY <1>1, <1>2, <2>1 DEF Content, IsNull
  <2>2. CASE u # y /\ u = x
      BY <1>1, <1>2, <2>2 DEF Content, IsNull
  <2>3. CASE u # y /\ u # x
      BY <1>1, <1>2, <2>3 DEF Content, IsNull
  <2>. QED
      BY <2>1, <2>2, <2>3
<1>. QED
    BY <1>3 DEF Seen

\* A modifier shows in its variable only: the object has no other owner.
LEMMA UpdateSeen ==
  ASSUME PInv, NEW x \in Vars, NEW v \in Values, Update(x, v)
  PROVE  Seen[x] # Null /\ Seen' = [Seen EXCEPT ![x] = v]
<1> USE DEF PimplAssumption
<1>1. ptr[x] \in Objects /\ ptr' = ptr /\ heap' = [heap EXCEPT ![ptr[x]] = v]
    BY DEF PInv, TypeOK, Update, IsNull
<1>2. heap[ptr[x]] \in Values
    BY <1>1 DEF PInv, TypeOK, OneOwnerEach
<1>3. ASSUME NEW y \in Vars PROVE Content(y)' = IF y = x THEN v ELSE Content(y)
    BY <1>1 DEF PInv, TypeOK, OneOwnerEach, Content, IsNull
<1>. QED
    BY <1>1, <1>2, <1>3 DEF PInv, Seen, Content, IsNull

\* Every step of the pointers and objects is a step of the values, or none.
LEMMA StepRefines == PInv /\ [Next]_vars => [Abstract!Next]_Seen
<1> SUFFICES ASSUME PInv, [Next]_vars PROVE [Abstract!Next]_Seen
    OBVIOUS
<1>1. ASSUME NEW x \in Vars, NEW v \in Values, Construct(x, v) PROVE Abstract!Construct(x, v)
    BY <1>1, ConstructSeen DEF Abstract!Construct, Seen
<1>2. ASSUME NEW x \in Vars, Destroy(x) PROVE Abstract!Destroy(x)
    BY <1>2, DestroySeen DEF Abstract!Destroy, Seen
<1>3. ASSUME NEW x \in Vars, NEW y \in Vars, Move(x, y) PROVE Abstract!Move(x, y)
    BY <1>3, MoveSeen DEF Abstract!Move, Seen
<1>4. ASSUME NEW x \in Vars, NEW y \in Vars, Swap(x, y) PROVE Abstract!Swap(x, y)
    BY <1>4, SwapSeen DEF Abstract!Swap, Seen
<1>5. ASSUME NEW x \in Vars, NEW v \in Values, Update(x, v) PROVE Abstract!Update(x, v)
    BY <1>5, UpdateSeen DEF Abstract!Update, Seen
<1>6. ASSUME NEW x \in Vars, NEW y \in Vars, Copy(x, y) PROVE Abstract!Copy(x, y)
  <2>1. CASE IsNull(y)
    <3>1. Seen' = [Seen EXCEPT ![x] = Null]
        BY <1>6, <2>1, DestroySeen DEF Copy
    <3>. QED
        BY <2>1, <3>1 DEF Abstract!Copy, Seen, Content
  <2>2. CASE ~IsNull(y)
    <3>1. heap[ptr[y]] \in Values
        BY <2>2 DEF PimplAssumption, PInv, TypeOK, OneOwnerEach, IsNull
    <3>2. Seen' = [Seen EXCEPT ![x] = heap[ptr[y]]]
        BY <1>6, <2>2, <3>1, ConstructSeen DEF Copy
    <3>. QED
        BY <2>2, <3>2 DEF Abstract!Copy, Seen, Content
  <2>. QED
      BY <2>1, <2>2
<1>7. CASE Next
  <2>1. PICK x \in Vars :
          \/ \E v \in Values : Construct(x, v) \/ Update(x, v)
          \/ Destroy(x)
          \/ \E y \in Vars : Copy(x, y) \/ Move(x, y) \/ Swap(x, y)
      BY <1>7 DEF Next
  <2>2. Abstract!Next
      BY <2>1, <1>1, <1>2, <1>3, <1>4, <1>5, <1>6 DEF Abstract!Next
  <2>. QED
      BY <2>2
<1>8. CASE UNCHANGED vars
    BY <1>8 DEF vars, Seen, Content, IsNull
<1>. QED
    BY <1>7, <1>8

\* The classes that are built like this have value semantics: deep copies,
\* null sources after a move, and no variable shows what is done to another.
THEOREM Refinement == ASSUME PimplAssumption PROVE Spec => HasValueSemantics
<1>0. Init => PInv
    BY PInvInit
<1>1. Init => Abstract!Init
    BY DEF Init, Abstract!Init, Content, IsNull
<1>2. PInv /\ [Next]_vars => [Abstract!Next]_Seen
    BY StepRefines
<1>. QED
    BY <1>0, <1>1, <1>2, PInvNext, PTL DEF Spec, HasValueSemantics, Abstract!Spec, Seen
=============================================================================
