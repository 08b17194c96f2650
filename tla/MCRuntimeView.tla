--------------------------- MODULE MCRuntimeView ---------------------------
(* RuntimeView on a small instance. *)
EXTENDS RuntimeView

\* PIMPLs, and callback functions, are interchangeable.
Symmetry == Permutations(Pimpls) \cup Permutations(Functions)
=============================================================================
