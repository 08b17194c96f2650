---------------------------- MODULE MCCommunicator ----------------------------
(* Communicator on a small instance. *)
EXTENDS Communicator

\* CommPPs and PIMPLs are interchangeable.
Symmetry == Permutations(Vars) \cup Permutations(Objects)
=============================================================================
