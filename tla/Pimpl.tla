-------------------------------- MODULE Pimpl --------------------------------
(****************************************************************************)
(* How the classes of the library get their value semantics: a variable has *)
(* a unique_ptr to an implementation object, its PIMPL.  Copying clones the *)
(* object, moving and swapping only exchange pointers, and an object goes   *)
(* when its pointer does.                                                   *)
(*                                                                          *)
(* The special members of Logger, RAM, ResourceSet, BinaryBuffer and CommPP *)
(* are the same text; the "map" names those of Logger.                      *)
(****************************************************************************)
CONSTANTS
  Vars,     \* the program's variables of the class
  Objects,  \* the heap: the PIMPL objects that can be allocated (a bound)
  Values,   \* the state of a PIMPL
  Null,     \* the null pointer
  Free      \* the state of an object that is not allocated

\* The markers are told apart from what they mark.
PimplAssumption ==
  /\ Null \notin Objects \cup Values
  /\ Free \notin Values

VARIABLES
  ptr,   \* m_pimpl_ of every variable
  heap   \* the state of every object

vars == <<ptr, heap>>

-----------------------------------------------------------------------------
Init ==
  /\ ptr  = [x \in Vars |-> Null]
  /\ heap = [o \in Objects |-> Free]

IsNull(x) == ptr[x] = Null
Content(x) == IF IsNull(x) THEN Null ELSE heap[ptr[x]]

\* The heap h without the object of a pointer p that goes.
Deallocate(h, p) == [o \in Objects |-> IF o = p THEN Free ELSE h[o]]

\* A new object with state v goes to x, which lets go of what it had.
Construct(x, v) ==
  \E o \in Objects :
    /\ heap[o] = Free
    /\ heap' = Deallocate([heap EXCEPT ![o] = v], ptr[x])
    /\ ptr'  = [ptr EXCEPT ![x] = o]

Destroy(x) ==
  /\ heap' = Deallocate(heap, ptr[x])
  /\ ptr'  = [ptr EXCEPT ![x] = Null]

\* Class(other).swap(*this): clone, exchange, and drop the old object last, so
\* that x = x works.
Copy(x, y) == IF IsNull(y) THEN Destroy(x) ELSE Construct(x, heap[ptr[y]])

\* unique_ptr's move assignment; onto itself it changes nothing.
Move(x, y) ==
  /\ heap' = IF x = y THEN heap ELSE Deallocate(heap, ptr[x])
  /\ ptr'  = [ptr EXCEPT ![y] = Null, ![x] = ptr[y]]

Swap(x, y) ==
  /\ ptr' = [ptr EXCEPT ![x] = ptr[y], ![y] = ptr[x]]
  /\ UNCHANGED heap

\* A modifier is forwarded to the object, if there is one.
Update(x, v) ==
  /\ ~IsNull(x)
  /\ heap' = [heap EXCEPT ![ptr[x]] = v]
  /\ UNCHANGED ptr

Next ==
  \E x \in Vars :
    \/ \E v \in Values : Construct(x, v) \/ Update(x, v)
    \/ Destroy(x)
    \/ \E y \in Vars : Copy(x, y) \/ Move(x, y) \/ Swap(x, y)

Spec == Init /\ [][Next]_vars

-----------------------------------------------------------------------------
(* Properties *)

\* Types of the variables.
TypeOK ==
  /\ ptr \in [Vars -> Objects \cup {Null}]
  /\ heap \in [Objects -> Values \cup {Free}]

\* Every allocated object has one owner, and no variable points to an object
\* that has been freed: no leak, no double free, no dangling pointer.
OneOwnerEach ==
  /\ \A x, y \in Vars : ptr[x] = ptr[y] /\ ~IsNull(x) => x = y
  /\ \A o \in Objects : heap[o] # Free <=> \E x \in Vars : ptr[x] = o

\* What the program sees: the variables have value semantics.
Abstract == INSTANCE ValueSemantics WITH value <- [x \in Vars |-> Content(x)]
HasValueSemantics == Abstract!Spec
=============================================================================
