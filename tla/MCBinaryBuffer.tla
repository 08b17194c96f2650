---------------------------- MODULE MCBinaryBuffer ----------------------------
(* BinaryBuffer on a small instance. *)
EXTENDS BinaryBuffer

\* Buffers, views and objects are interchangeable.
Symmetry == Permutations(Buffers) \cup Permutations(Views) \cup Permutations(Objects)
=============================================================================
