-------------------------------- MODULE MCTask --------------------------------
(* Task on small instances. *)
EXTENDS Task

Symmetry == Permutations(Objects) \cup Permutations(Values) \cup Permutations(Tasks)
=============================================================================
