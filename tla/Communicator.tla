----------------------------- MODULE Communicator -----------------------------
(****************************************************************************)
(* CommPP as a handle.  A CommPP has a PIMPL (see Pimpl) with the handle of *)
(* an MPI communicator, which it does not own, and the rank and the size    *)
(* MPI gave for it at construction.  The program creates and frees          *)
(* communicators behind its back, and MPI uses the handle of a freed one    *)
(* again.  This is one process of the program; what the collective calls    *)
(* compute is in CommPP.                                                    *)
(****************************************************************************)
EXTENDS Integers, SequencesExt

CONSTANTS
  Vars,     \* the program's variables of type CommPP
  Objects,  \* the PIMPLs that can be allocated (a bound)
  Handles,  \* the values of MPI_Comm except MPI_COMM_NULL
  World,    \* MPI_COMM_WORLD
  Ranks,    \* the processes of MPI_COMM_WORLD
  This,     \* the one that is modelled
  Null,     \* nullptr, MPI_COMM_NULL
  Free      \* an object that is not allocated, a handle that is not in use

ProcNull == -2  \* MPI_PROC_NULL

\* The groups of the communicators this process can be in: ranks in some order.
Sizes == 1 .. Cardinality(Ranks)
Groups == {g \in UNION {[1 .. n -> Ranks] : n \in Sizes} : IsInjective(g) /\ This \in ToSet(g)}

Cached == [comm : Handles, m_my_rank : 0 .. Cardinality(Ranks) - 1, m_size : Sizes]

ASSUME CommunicatorAssumption ==
  /\ IsFiniteSet(Ranks) /\ This \in Ranks /\ World \in Handles
  /\ Null \notin Handles \cup Objects \cup Cached
  /\ Free \notin Groups \cup Cached

VARIABLES
  ptr,    \* m_pimpl_ of every CommPP
  heap,   \* the handle, the rank and the size in every PIMPL
  mpi,    \* the group of every communicator MPI has
  error   \* what ended the process, if something did

vars == <<ptr, heap, mpi, error>>

Memory == INSTANCE Pimpl WITH Values <- Cached

-----------------------------------------------------------------------------
(* MPI *)
MPI_Comm_size(h) == Len(mpi[h])
MPI_Comm_rank(h) == (CHOOSE i \in DOMAIN mpi[h] : mpi[h][i] = This) - 1
MPI_Comm_compare(h, k) ==
  IF h = k THEN "IDENT"
  ELSE IF mpi[h] = mpi[k] THEN "CONGRUENT"
  ELSE IF ToSet(mpi[h]) = ToSet(mpi[k]) THEN "SIMILAR" ELSE "UNEQUAL"

-----------------------------------------------------------------------------
(* The accessors *)
comm(x) == IF Memory!IsNull(x) THEN Null ELSE heap[ptr[x]].comm
size(x) == IF Memory!IsNull(x) THEN 0 ELSE heap[ptr[x]].m_size

me(x) == IF Memory!IsNull(x) THEN ProcNull ELSE heap[ptr[x]].m_my_rank

\* Mutant: the same ranks are as good as the same communicator.
EqualIfSimilar(x, y) ==
  IF Memory!IsNull(x) \/ Memory!IsNull(y) THEN Memory!IsNull(x) /\ Memory!IsNull(y)
  ELSE MPI_Comm_compare(comm(x), comm(y)) # "UNEQUAL"
Equal(x, y) ==
  IF Memory!IsNull(x) \/ Memory!IsNull(y) THEN Memory!IsNull(x) /\ Memory!IsNull(y)
  ELSE MPI_Comm_compare(comm(x), comm(y)) = "IDENT"

-----------------------------------------------------------------------------
Init ==
  /\ Memory!Init
  /\ \E g \in Groups :
       /\ ToSet(g) = Ranks
       /\ mpi = [h \in Handles |-> IF h = World THEN g ELSE Free]
  /\ error = Null

\* What the constructor takes from MPI.
Inspected(h) == [comm |-> h, m_my_rank |-> MPI_Comm_rank(h), m_size |-> MPI_Comm_size(h)]

\* x = CommPP(h); a handle of MPI_COMM_NULL makes a null communicator.
Construct(x, h) ==
  /\ IF h = Null THEN Memory!Destroy(x)
     ELSE mpi[h] # Free /\ Memory!Construct(x, Inspected(h))
  /\ UNCHANGED <<mpi, error>>

\* Mutant: a copy inspects the world, where the other is of another communicator.
CopyOfWorld(x, y) ==
  /\ IF Memory!IsNull(y) THEN Memory!Destroy(x)
     ELSE Memory!Construct(x, [Inspected(World) EXCEPT !.comm = comm(y)])
  /\ UNCHANGED <<mpi, error>>
Copy(x, y) == Memory!Copy(x, y) /\ UNCHANGED <<mpi, error>>

Move(x, y) == Memory!Move(x, y) /\ UNCHANGED <<mpi, error>>
Swap(x, y) == Memory!Swap(x, y) /\ UNCHANGED <<mpi, error>>
Destroy(x) == Memory!Destroy(x) /\ UNCHANGED <<mpi, error>>

\* MPI fails the process when a call gets a handle that is not in use.
UseHandles(op, hs) ==
  error' = IF \A h \in hs : h # Null /\ mpi[h] # Free THEN error
           ELSE [op |-> op, comms |-> hs]

\* Mutant: the handle is read without a look at the PIMPL, as in reduce.
GatherUnchecked(x) ==
  /\ UseHandles("gather", {comm(x)})
  /\ UNCHANGED <<ptr, heap, mpi>>
\* gather and gatherv go through pimpl_(), which throws without a PIMPL.
Gather(x) ==
  /\ ~Memory!IsNull(x)
  /\ UseHandles("gather", {comm(x)})
  /\ UNCHANGED <<ptr, heap, mpi>>

\* reduce takes comm(), which is MPI_COMM_NULL without a PIMPL.
Reduce(x) ==
  /\ UseHandles("reduce", {comm(x)})
  /\ UNCHANGED <<ptr, heap, mpi>>

\* x == y asks MPI only if both have a PIMPL.
Compare(x, y) ==
  /\ IF Memory!IsNull(x) \/ Memory!IsNull(y) THEN UNCHANGED error
     ELSE UseHandles("compare", {comm(x), comm(y)})
  /\ UNCHANGED <<ptr, heap, mpi>>

\* The program makes a communicator, with a handle MPI is free to use again,
\* and frees one that no CommPP wraps any more.
CreateComm(h, g) ==
  /\ mpi[h] = Free
  /\ mpi' = [mpi EXCEPT ![h] = g]
  /\ UNCHANGED <<ptr, heap, error>>

FreeComm(h) ==
  /\ h # World /\ mpi[h] # Free
  /\ \A x \in Vars : comm(x) # h
  /\ mpi' = [mpi EXCEPT ![h] = Free]
  /\ UNCHANGED <<ptr, heap, error>>

Next ==
  /\ error = Null
  /\ \/ \E x \in Vars :
          \/ \E h \in Handles \cup {Null} : Construct(x, h)
          \/ \E y \in Vars : Copy(x, y) \/ Move(x, y) \/ Swap(x, y) \/ Compare(x, y)
          \/ Destroy(x)
          \/ Gather(x)
          \/ Reduce(x)
     \/ \E h \in Handles : FreeComm(h) \/ \E g \in Groups : CreateComm(h, g)

Spec == Init /\ [][Next]_vars

-----------------------------------------------------------------------------
\* As long as the program frees no communicator that is wrapped, the rank and
\* the size a CommPP remembers are those MPI would give for its handle now,
\* through every copy, move and swap, and whatever handles are used again for.
CacheIsTrue ==
  \A x \in Vars : ~Memory!IsNull(x) =>
    /\ mpi[comm(x)] # Free
    /\ me(x) = MPI_Comm_rank(comm(x))
    /\ size(x) = MPI_Comm_size(comm(x))

\* Two CommPPs that are equal give this process the same rank and size, so that
\* a root or an offset computed from one is right for the other.
EqualHandlesAgree ==
  \A x, y \in Vars : Equal(x, y) => me(x) = me(y) /\ size(x) = size(y)

\* The one call with which a CommPP can end the process is a reduce on a null
\* communicator: a gather on it throws, a comparison does not get to MPI, and no
\* other call hands MPI a handle that is not in use.
OnlyNullReducesAbort == error # Null => error = [op |-> "reduce", comms |-> {Null}]
=============================================================================
