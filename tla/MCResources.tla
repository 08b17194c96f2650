----------------------------- MODULE MCResources -----------------------------
(* Resources on small instances. *)
EXTENDS Resources, TLC

\* PIMPLs, variables, loggers and names are interchangeable.
Symmetry ==
  UNION {Permutations(s) : s \in {Runtimes, Sets, Rams, Objects, Names}}
=============================================================================
