----------------------------- MODULE MpiLifetime -----------------------------
(****************************************************************************)
(* What RuntimeView promises about the life of MPI in one process: whoever  *)
(* initialized it finalizes it.  If that is the library, MPI stays up as    *)
(* long as a copy of the view that started it is around, in the program or  *)
(* in a callback, and is finalized when the last one goes.                  *)
(****************************************************************************)
CONSTANT Views

VARIABLES
  alive,    \* the process runs
  mpi,      \* the state of the library
  owner,    \* who initialized it: nobody yet, the program or RuntimeView
  held,     \* the program's views that alias the resources that started MPI
  captured  \* a callback keeps such a view

lvars == <<alive, mpi, owner, held, captured>>

-----------------------------------------------------------------------------
LInit ==
  /\ alive = TRUE
  /\ mpi = "uninitialized"
  /\ owner = "none"
  /\ held = {}
  /\ captured = FALSE

\* The program calls MPI_Init or MPI_Finalize itself.
LHostInit ==
  /\ alive /\ mpi = "uninitialized"
  /\ mpi' = "initialized"
  /\ owner' = "host"
  /\ UNCHANGED <<alive, held, captured>>

LHostFinalize ==
  /\ alive /\ mpi = "initialized" /\ owner = "host"
  /\ mpi' = "finalized"
  /\ UNCHANGED <<alive, owner, held, captured>>

\* The first view, when MPI is not up: MPI is now the library's.
LStart(v) ==
  /\ alive /\ mpi = "uninitialized"
  /\ mpi' = "initialized"
  /\ owner' = "library"
  /\ held' = {v}
  /\ UNCHANGED <<alive, captured>>

\* The views that refer to it become h.
LHold(h) ==
  /\ alive
  /\ held' = h
  /\ UNCHANGED <<alive, mpi, owner, captured>>

\* What v denotes after v = w.
LCopy(v, w) == LHold(IF w \in held THEN held \cup {v} ELSE held \ {v})
LMove(v, w) == LHold((IF w \in held THEN held \cup {v} ELSE held \ {v}) \ {w})
LSwap(v, w) ==
  LHold({u \in Views : IF u = v THEN w \in held ELSE IF u = w THEN v \in held ELSE u \in held})
LDestroy(v) == LHold(held \ {v})

\* A callback copies the view it captured into v.
LCopyCaptured(v) == captured /\ LHold(held \cup {v})

\* A callback is stacked that captures one of the views by value.
LCapture ==
  /\ alive /\ held # {}
  /\ captured' = TRUE
  /\ UNCHANGED <<alive, mpi, owner, held>>

\* The last such callback is destroyed.
LReleaseCaptured ==
  /\ alive
  /\ captured' = FALSE
  /\ UNCHANGED <<alive, mpi, owner, held>>

\* Nothing refers to the view that started MPI any more.
LFinalize ==
  /\ alive /\ mpi = "initialized" /\ owner = "library"
  /\ held = {} /\ ~captured
  /\ mpi' = "finalized"
  /\ UNCHANGED <<alive, owner, held, captured>>

\* The process ends early: a callback threw, or MPI was used too late.
LDie ==
  /\ alive
  /\ alive' = FALSE
  /\ UNCHANGED <<mpi, owner, held, captured>>

LNext ==
  \/ LHostInit \/ LHostFinalize
  \/ \E v \in Views : LStart(v) \/ LDestroy(v) \/ LCopyCaptured(v)
  \/ \E v, w \in Views : LCopy(v, w) \/ LMove(v, w) \/ LSwap(v, w)
  \/ LCapture \/ LReleaseCaptured
  \/ LFinalize
  \/ LDie

LSpec == LInit /\ [][LNext]_lvars

\* And it does finalize MPI once nothing refers to it, if the process lives.
LReleased == owner = "library" /\ held = {} /\ ~captured
LFairSpec == LSpec /\ (LReleased ~> mpi = "finalized" \/ ~alive)
=============================================================================
