-------------------------- MODULE Communicator_proofs --------------------------
(****************************************************************************)
(* Proofs about Communicator, for any variables, handles and ranks: what a  *)
(* CommPP remembers of its communicator is true, and what follows.          *)
(****************************************************************************)
EXTENDS Communicator, FiniteSetTheorems, TLAPS

\* Every CommPP has a PIMPL of its own.
Owned ==
  /\ ptr \in [Vars -> Objects \cup {Null}]
  /\ DOMAIN heap = Objects
  /\ \A x, y \in Vars : ptr[x] = ptr[y] /\ ptr[x] # Null => x = y
  /\ \A x \in Vars : ptr[x] # Null => heap[ptr[x]] # Free

\* A PIMPL's handle is in use, and its rank and size are MPI's.
Right(c) == c.comm \in Handles /\ mpi[c.comm] # Free /\ c = Inspected(c.comm)

AllRight == \A x \in Vars : ptr[x] # Null => Right(heap[ptr[x]])

MpiOK == mpi \in [Handles -> Groups \cup {Free}]

CInv == Owned /\ AllRight /\ MpiOK /\ OnlyNullReducesAbort

-----------------------------------------------------------------------------
\* A rank is an index into the group, and a size is what the type says.
LEMMA RankInRange ==
  ASSUME MpiOK, NEW h \in Handles, mpi[h] # Free
  PROVE  /\ MPI_Comm_size(h) \in Sizes
         /\ MPI_Comm_rank(h) \in 0 .. MPI_Comm_size(h) - 1
<1> USE CommunicatorAssumption
<1>1. mpi[h] \in Groups
  BY DEF MpiOK
<1>2. PICK n \in Sizes : mpi[h] \in [1 .. n -> Ranks]
  BY <1>1 DEF Groups
<1>3. n \in Nat
  BY <1>2, FS_CardinalityType DEF Sizes
<1>4. Len(mpi[h]) = n /\ DOMAIN mpi[h] = 1 .. n
  BY <1>2, <1>3
<1>5. This \in {mpi[h][i] : i \in DOMAIN mpi[h]}
  BY <1>1 DEF Groups, ToSet
<1>6. \E i \in DOMAIN mpi[h] : mpi[h][i] = This
  BY <1>5
<1>7. (CHOOSE i \in DOMAIN mpi[h] : mpi[h][i] = This) \in 1 .. n
  BY <1>4, <1>6
<1>8. QED
  BY <1>2, <1>3, <1>4, <1>7 DEF MPI_Comm_size, MPI_Comm_rank

\* So a PIMPL that is filled is never mistaken for a free one.
LEMMA InspectedIsCached ==
  ASSUME MpiOK, NEW h \in Handles, mpi[h] # Free
  PROVE  Inspected(h) \in Cached /\ Inspected(h) # Free /\ Right(Inspected(h))
<1>1. MPI_Comm_size(h) \in Sizes /\ MPI_Comm_rank(h) \in 0 .. MPI_Comm_size(h) - 1
  BY RankInRange
<1>2. MPI_Comm_rank(h) \in 0 .. Cardinality(Ranks) - 1
  BY <1>1, CommunicatorAssumption, FS_CardinalityType DEF Sizes
<1>3. Inspected(h) \in Cached
  BY <1>1, <1>2 DEF Inspected, Cached
<1>4. Inspected(h).comm = h
  BY DEF Inspected
<1>5. QED
  BY <1>3, <1>4, CommunicatorAssumption DEF Right

-----------------------------------------------------------------------------
(* The steps *)

\* A CommPP that is filled gets a PIMPL nobody had.
LEMMA FillStep ==
  ASSUME CInv, NEW x \in Vars, NEW c, Right(c), c # Free,
         Memory!Construct(x, c), mpi' = mpi
  PROVE  Owned' /\ AllRight'
<1> USE CommunicatorAssumption
<1>1. PICK o \in Objects :
        /\ heap[o] = Free
        /\ heap' = Memory!Deallocate([heap EXCEPT ![o] = c], ptr[x])
        /\ ptr' = [ptr EXCEPT ![x] = o]
  BY DEF Memory!Construct
<1>2. \A y \in Vars : ptr[y] # o
  BY <1>1 DEF CInv, Owned
<1>3. /\ ptr'[x] = o /\ heap'[o] = c /\ DOMAIN heap' = Objects
      /\ \A y \in Vars : y # x => ptr'[y] = ptr[y]
      /\ \A y \in Vars : y # x /\ ptr[y] # Null => heap'[ptr[y]] = heap[ptr[y]]
  BY <1>1, <1>2 DEF CInv, Owned, Memory!Deallocate
<1>4. Owned'
  BY <1>1, <1>2, <1>3 DEF CInv, Owned
<1>5. \A d : Right(d) => Right(d)'
  BY DEF Right, Inspected, MPI_Comm_rank, MPI_Comm_size
<1>6. ASSUME NEW y \in Vars, ptr'[y] # Null PROVE Right(heap[ptr[y]])' \/ y = x
  <2>1. CASE y # x
    <3>1. heap'[ptr'[y]] = heap[ptr[y]] /\ Right(heap[ptr[y]])
      BY <1>3, <1>6, <2>1 DEF CInv, AllRight
    <3>2. QED
      BY <3>1, <1>5 DEF Right, Inspected, MPI_Comm_rank, MPI_Comm_size
  <2>2. QED
    BY <2>1
<1>7. Right(heap[ptr[x]])'
  BY <1>3, <1>5 DEF Right, Inspected, MPI_Comm_rank, MPI_Comm_size
<1>8. AllRight'
  BY <1>6, <1>7 DEF AllRight
<1>9. QED
  BY <1>4, <1>8

\* A step that hands PIMPLs over, or drops one, and leaves the others' alone.
LEMMA HandOver ==
  ASSUME CInv, mpi' = mpi,
         ptr' \in [Vars -> Objects \cup {Null}], DOMAIN heap' = Objects,
         \A y, z \in Vars : ptr'[y] = ptr'[z] /\ ptr'[y] # Null => y = z,
         \A y \in Vars : ptr'[y] # Null =>
           (\E z \in Vars : ptr'[y] = ptr[z]) /\ heap'[ptr'[y]] = heap[ptr'[y]]
  PROVE  Owned' /\ AllRight'
<1>1. Owned'
  BY DEF CInv, Owned
<1>2. ASSUME NEW y \in Vars, ptr'[y] # Null PROVE Right(heap[ptr[y]])'
  <2>1. PICK z \in Vars : ptr'[y] = ptr[z]
    BY <1>2
  <2>2. heap'[ptr'[y]] = heap[ptr[z]] /\ Right(heap[ptr[z]])
    BY <1>2, <2>1 DEF CInv, AllRight
  <2>3. QED
    BY <2>2 DEF Right, Inspected, MPI_Comm_rank, MPI_Comm_size
<1>3. QED
  BY <1>1, <1>2 DEF AllRight

\* Destroying drops a PIMPL.
LEMMA DestroyStep ==
  ASSUME CInv, NEW x \in Vars, Memory!Destroy(x), mpi' = mpi
  PROVE  Owned' /\ AllRight'
<1> USE CommunicatorAssumption
<1>1. ptr' = [ptr EXCEPT ![x] = Null] /\ heap' = Memory!Deallocate(heap, ptr[x])
  BY DEF Memory!Destroy
<1>2. /\ ptr' \in [Vars -> Objects \cup {Null}] /\ DOMAIN heap' = Objects
      /\ \A y, z \in Vars : ptr'[y] = ptr'[z] /\ ptr'[y] # Null => y = z
  BY <1>1 DEF CInv, Owned, Memory!Deallocate
<1>3. \A y \in Vars : ptr'[y] # Null => ptr'[y] = ptr[y] /\ heap'[ptr'[y]] = heap[ptr'[y]]
  BY <1>1 DEF CInv, Owned, Memory!Deallocate
<1>4. QED
  BY <1>2, <1>3, HandOver

\* A move hands one over, and drops the target's.
LEMMA MoveStep ==
  ASSUME CInv, NEW x \in Vars, NEW y \in Vars, Memory!Move(x, y), mpi' = mpi
  PROVE  Owned' /\ AllRight'
<1> USE CommunicatorAssumption
<1>1. CASE x = y
  <2>1. ptr' = ptr /\ heap' = heap
    BY <1>1 DEF CInv, Owned, Memory!Move
  <2>2. QED
    BY <2>1, HandOver DEF CInv, Owned
<1>2. CASE x # y
  <2>1. \A z \in Vars : ptr'[z] = IF z = x THEN ptr[y] ELSE IF z = y THEN Null ELSE ptr[z]
    BY <1>2 DEF CInv, Owned, Memory!Move
  <2>2. ptr' \in [Vars -> Objects \cup {Null}] /\ DOMAIN heap' = Objects
    BY <1>2 DEF CInv, Owned, Memory!Move, Memory!Deallocate
  <2>3. \A z, w \in Vars : ptr'[z] = ptr'[w] /\ ptr'[z] # Null => z = w
    BY <1>2, <2>1 DEF CInv, Owned
  <2>4. ASSUME NEW z \in Vars, ptr'[z] # Null
        PROVE  (\E w \in Vars : ptr'[z] = ptr[w]) /\ heap'[ptr'[z]] = heap[ptr'[z]]
    <3>1. PICK w \in Vars : ptr'[z] = ptr[w] /\ w # x
      BY <1>2, <2>1, <2>4
    <3>2. ptr[w] # ptr[x] /\ ptr[w] \in Objects
      BY <2>4, <3>1 DEF CInv, Owned
    <3>3. QED
      BY <1>2, <3>1, <3>2 DEF CInv, Owned, Memory!Move, Memory!Deallocate
  <2>5. QED
    BY <2>2, <2>3, <2>4, HandOver
<1>3. QED
  BY <1>1, <1>2

\* A swap hands two over.
LEMMA SwapStep ==
  ASSUME CInv, NEW x \in Vars, NEW y \in Vars, Memory!Swap(x, y), mpi' = mpi
  PROVE  Owned' /\ AllRight'
<1> USE CommunicatorAssumption
<1>1. \A z \in Vars : ptr'[z] = IF z = y THEN ptr[x] ELSE IF z = x THEN ptr[y] ELSE ptr[z]
  BY DEF CInv, Owned, Memory!Swap
<1>2. ptr' \in [Vars -> Objects \cup {Null}] /\ heap' = heap /\ DOMAIN heap' = Objects
  BY DEF CInv, Owned, Memory!Swap
<1>3. \A z, w \in Vars : ptr'[z] = ptr'[w] /\ ptr'[z] # Null => z = w
  BY <1>1 DEF CInv, Owned
<1>4. \A z \in Vars : ptr'[z] # Null =>
        (\E w \in Vars : ptr'[z] = ptr[w]) /\ heap'[ptr'[z]] = heap[ptr'[z]]
  BY <1>1, <1>2
<1>5. QED
  BY <1>2, <1>3, <1>4, HandOver

\* A communicator that comes or goes is not one that is wrapped.
LEMMA OtherCommStep ==
  ASSUME CInv, NEW h \in Handles, NEW g \in Groups \cup {Free},
         mpi' = [mpi EXCEPT ![h] = g], UNCHANGED <<ptr, heap>>,
         \A x \in Vars : ptr[x] # Null => heap[ptr[x]].comm # h
  PROVE  Owned' /\ AllRight' /\ MpiOK'
<1>1. Owned' /\ MpiOK'
  BY DEF CInv, Owned, MpiOK
<1>2. ASSUME NEW x \in Vars, ptr[x] # Null PROVE Right(heap[ptr[x]])'
  <2>1. Right(heap[ptr[x]]) /\ mpi'[heap[ptr[x]].comm] = mpi[heap[ptr[x]].comm]
    BY <1>2 DEF CInv, AllRight, MpiOK, Right
  <2>2. QED
    BY <2>1 DEF Right, Inspected, MPI_Comm_rank, MPI_Comm_size
<1>3. QED
  BY <1>1, <1>2 DEF AllRight

\* A call that is given to MPI has handles in use, unless it is a null reduce.
LEMMA CallStep ==
  ASSUME CInv, UNCHANGED <<ptr, heap, mpi>>, NEW op, NEW hs,
         error' = error \/ UseHandles(op, hs),
         \A h \in hs : (\E x \in Vars : h = comm(x) /\ ptr[x] # Null) \/ (op = "reduce" /\ hs = {Null})
  PROVE  CInv'
<1> USE CommunicatorAssumption
<1>1. Owned' /\ AllRight' /\ MpiOK'
  BY DEF CInv, Owned, MpiOK, AllRight, Right, Inspected, MPI_Comm_rank, MPI_Comm_size
<1>2. ASSUME NEW x \in Vars, ptr[x] # Null PROVE comm(x) # Null /\ mpi[comm(x)] # Free
  BY <1>2 DEF CInv, AllRight, Right, comm, Memory!IsNull
<1>3. error' = error \/ error' = [op |-> "reduce", comms |-> {Null}]
  BY <1>2 DEF UseHandles
<1>4. QED
  BY <1>1, <1>3 DEF CInv, OnlyNullReducesAbort

\* gather and a comparison do not get to MPI without a PIMPL, reduce does.
LEMMA CollectiveStep ==
  ASSUME CInv, NEW x \in Vars, NEW y \in Vars, Gather(x) \/ Reduce(x) \/ Compare(x, y)
  PROVE  CInv'
<1>1. CASE Gather(x)
  BY <1>1, CallStep DEF Gather, Memory!IsNull
<1>2. CASE Reduce(x)
  <2>1. CASE ptr[x] = Null
    BY <1>2, <2>1, CallStep DEF Reduce, comm, Memory!IsNull
  <2>2. CASE ptr[x] # Null
    BY <1>2, <2>2, CallStep DEF Reduce
  <2>3. QED
    BY <2>1, <2>2
<1>3. CASE Compare(x, y)
  BY <1>3, CallStep DEF Compare, Memory!IsNull
<1>4. QED
  BY <1>1, <1>2, <1>3

LEMMA CInvInit == Init => CInv
<1> USE CommunicatorAssumption
<1> SUFFICES ASSUME Init PROVE CInv
  OBVIOUS
<1>1. Owned /\ AllRight
  BY DEF Init, Owned, AllRight, Memory!Init
<1>2. MpiOK
  BY DEF Init, MpiOK
<1>3. QED
  BY <1>1, <1>2 DEF CInv, Init, OnlyNullReducesAbort

LEMMA CInvNext == CInv /\ [Next]_vars => CInv'
<1> USE CommunicatorAssumption
<1> SUFFICES ASSUME CInv, [Next]_vars PROVE CInv'
  OBVIOUS
<1>1. ASSUME mpi' = mpi, error' = error, Owned' /\ AllRight' PROVE CInv'
  BY <1>1 DEF CInv, MpiOK, OnlyNullReducesAbort
<1>2. ASSUME NEW x \in Vars, NEW h \in Handles \cup {Null}, Construct(x, h) PROVE CInv'
  <2>1. CASE h = Null
    BY <1>1, <1>2, <2>1, DestroyStep DEF Construct
  <2>2. CASE h # Null
    <3>1. /\ h \in Handles /\ mpi[h] # Free /\ Memory!Construct(x, Inspected(h))
          /\ mpi' = mpi /\ error' = error
      BY <1>2, <2>2 DEF Construct
    <3>2. Inspected(h) # Free /\ Right(Inspected(h))
      BY <3>1, InspectedIsCached DEF CInv
    <3>3. QED
      BY <1>1, <3>1, <3>2, FillStep
  <2>3. QED
    BY <2>1, <2>2
<1>3. ASSUME NEW x \in Vars, NEW y \in Vars, Copy(x, y) PROVE CInv'
  <2>1. CASE ptr[y] = Null
    BY <1>1, <1>3, <2>1, DestroyStep DEF Copy, Memory!Copy, Memory!IsNull
  <2>2. CASE ptr[y] # Null
    <3>1. Right(heap[ptr[y]]) /\ heap[ptr[y]] # Free
      BY <2>2 DEF CInv, AllRight, Owned
    <3>2. QED
      BY <1>1, <1>3, <2>2, <3>1, FillStep DEF Copy, Memory!Copy, Memory!IsNull
  <2>3. QED
    BY <2>1, <2>2
<1>4. ASSUME NEW x \in Vars, NEW y \in Vars, Move(x, y) \/ Swap(x, y) PROVE CInv'
  BY <1>1, <1>4, MoveStep, SwapStep DEF Move, Swap
<1>5. ASSUME NEW x \in Vars, Destroy(x) PROVE CInv'
  BY <1>1, <1>5, DestroyStep DEF Destroy
<1>6. ASSUME NEW x \in Vars, NEW y \in Vars, Gather(x) \/ Reduce(x) \/ Compare(x, y) PROVE CInv'
  BY <1>6, CollectiveStep
<1>7. ASSUME NEW h \in Handles, FreeComm(h) PROVE CInv'
  <2>1. \A x \in Vars : ptr[x] # Null => heap[ptr[x]].comm # h
    BY <1>7 DEF FreeComm, comm, Memory!IsNull
  <2>2. Owned' /\ AllRight' /\ MpiOK'
    BY <1>7, <2>1, OtherCommStep DEF FreeComm
  <2>3. QED
    BY <1>7, <2>2 DEF CInv, FreeComm, OnlyNullReducesAbort
<1>8. ASSUME NEW h \in Handles, NEW g \in Groups, CreateComm(h, g) PROVE CInv'
  <2>1. \A x \in Vars : ptr[x] # Null => heap[ptr[x]].comm # h
    BY <1>8 DEF CreateComm, CInv, AllRight, Right
  <2>2. Owned' /\ AllRight' /\ MpiOK'
    BY <1>8, <2>1, OtherCommStep DEF CreateComm
  <2>3. QED
    BY <1>8, <2>2 DEF CInv, CreateComm, OnlyNullReducesAbort
<1>9. CASE UNCHANGED vars
  BY <1>9 DEF vars, CInv, Owned, AllRight, MpiOK, Right, Inspected, MPI_Comm_rank,
              MPI_Comm_size, OnlyNullReducesAbort
<1>10. CASE Next
  BY <1>10, <1>2, <1>3, <1>4, <1>5, <1>6, <1>7, <1>8 DEF Next
<1>11. QED
  BY <1>9, <1>10

-----------------------------------------------------------------------------
\* A CommPP is right about its communicator, whatever the program makes of the
\* others, as long as it frees none that is wrapped (the constructor's caution).
LEMMA InvGivesCache == CInv => CacheIsTrue
<1> SUFFICES ASSUME CInv, NEW x \in Vars, ptr[x] # Null
             PROVE  /\ mpi[comm(x)] # Free
                    /\ me(x) = MPI_Comm_rank(comm(x))
                    /\ size(x) = MPI_Comm_size(comm(x))
  BY DEF CacheIsTrue, Memory!IsNull
<1>1. Right(heap[ptr[x]]) /\ comm(x) = heap[ptr[x]].comm
  BY DEF CInv, AllRight, comm, Memory!IsNull
<1>2. /\ Inspected(comm(x)).m_my_rank = MPI_Comm_rank(comm(x))
      /\ Inspected(comm(x)).m_size = MPI_Comm_size(comm(x))
  BY DEF Inspected
<1>3. QED
  BY <1>1, <1>2 DEF Right, me, size, Memory!IsNull

\* The rank and the size a CommPP caches at construction stay those of MPI.
THEOREM CacheStaysTrue == Spec => []CacheIsTrue
<1>1. QED
  BY CInvInit, CInvNext, InvGivesCache, PTL DEF Spec

\* Equal CommPPs are of one communicator, so rank and size are the same.
THEOREM EqualHandlesStayAlike == Spec => []EqualHandlesAgree
<1>1. ASSUME CInv PROVE EqualHandlesAgree
  <2> SUFFICES ASSUME NEW x \in Vars, NEW y \in Vars, Equal(x, y)
               PROVE  me(x) = me(y) /\ size(x) = size(y)
    BY DEF EqualHandlesAgree
  <2>1. CASE ptr[x] = Null \/ ptr[y] = Null
    BY <2>1 DEF Equal, Memory!IsNull, me, size
  <2>2. CASE ptr[x] # Null /\ ptr[y] # Null
    <3>1. comm(x) = comm(y)
      BY <2>2 DEF Equal, Memory!IsNull, MPI_Comm_compare
    <3>2. QED
      BY <1>1, <2>2, <3>1, InvGivesCache DEF CacheIsTrue, Memory!IsNull
  <2>3. QED
    BY <2>1, <2>2
<1>2. QED
  BY <1>1, CInvInit, CInvNext, PTL DEF Spec

\* MPI is never given a handle that is not in use, but for a null reduce.
THEOREM AbortsOnlyInNullReduce == Spec => []OnlyNullReducesAbort
<1>1. CInv => OnlyNullReducesAbort
  BY DEF CInv
<1>2. QED
  BY <1>1, CInvInit, CInvNext, PTL DEF Spec
=============================================================================
