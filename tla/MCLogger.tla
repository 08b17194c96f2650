------------------------------- MODULE MCLogger -------------------------------
(* Logger on small instances. *)
EXTENDS Logger, TLC

\* Loggers, PIMPLs, names and files are interchangeable.
Symmetry == UNION {Permutations(s) : s \in {Vars, Objects, Ids, Files}}
=============================================================================
