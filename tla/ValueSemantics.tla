---------------------------- MODULE ValueSemantics ----------------------------
(****************************************************************************)
(* What a class with value semantics promises to the program.  Logger, RAM, *)
(* ResourceSet, BinaryBuffer and CommPP all document the same: a variable   *)
(* holds a value or is null, a copy is deep, a move leaves its source null, *)
(* and nothing that is done to one variable shows in another.               *)
(****************************************************************************)
CONSTANTS
  Vars,    \* the program's variables of the class
  Values,  \* what a variable that is not null may hold
  Null     \* the content of a default constructed or moved-from variable

VARIABLE value

Init == value = [x \in Vars |-> Null]

\* A variable is filled from outside the class: by a factory, or by its owner.
Construct(x, v) == value' = [value EXCEPT ![x] = v]

\* The variable is destroyed, or assigned a default constructed one.
Destroy(x) == value' = [value EXCEPT ![x] = Null]

\* Copy construction and copy assignment.
Copy(x, y) == value' = [value EXCEPT ![x] = value[y]]

\* Move construction and move assignment.  A move onto itself changes nothing.
Move(x, y) == value' = [value EXCEPT ![y] = Null, ![x] = value[y]]

Swap(x, y) == value' = [value EXCEPT ![x] = value[y], ![y] = value[x]]

\* A modifier of the class: only a variable that holds something can change.
Update(x, v) ==
  /\ value[x] # Null
  /\ value' = [value EXCEPT ![x] = v]

Next ==
  \E x \in Vars :
    \/ \E v \in Values : Construct(x, v) \/ Update(x, v)
    \/ Destroy(x)
    \/ \E y \in Vars : Copy(x, y) \/ Move(x, y) \/ Swap(x, y)

Spec == Init /\ [][Next]_value
=============================================================================
