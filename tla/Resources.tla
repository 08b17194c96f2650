------------------------------ MODULE Resources ------------------------------
(****************************************************************************)
(* The resource sets of one process: those that the PIMPLs of its           *)
(* RuntimeViews keep, one per rank that was asked for, and the copies that  *)
(* the program makes; the RAM objects in them, and those copied out of      *)
(* them.                                                                    *)
(*                                                                          *)
(* ResourceSet and RAM have value semantics (see Pimpl).  The one member of *)
(* a ResourceSet that is not copied by value is its logger, a shared_ptr.   *)
(****************************************************************************)
EXTENDS Integers, FiniteSets, Functions

CONSTANTS
  Runtimes,    \* the RuntimeViewPIMPLs (a bound)
  Sets,        \* the program's variables of type ResourceSet
  Rams,        \* the program's variables of type RAM
  Objects,     \* the loggers of resource sets that can be allocated (a bound)
  Free,        \* not allocated
  Names,       \* the loggers the program may assign, told apart by their names
  NullLogger,  \* the logger that is null
  Null,        \* no PIMPL
  Size, Me     \* MPI_COMM_WORLD, and this process's rank in it

ASSUME ResourcesAssumption ==
  /\ NullLogger \notin Names
  /\ Free \notin Names \cup {NullLogger}
  /\ Size \in Nat \ {0}
  /\ Me \in 0 .. Size - 1

VARIABLES
  comm,    \* m_comm of every PIMPL, Null before and after its life
  set,     \* every ResourceSet
  logger,  \* the loggers that resource sets point to
  ram      \* every RAM of the program

vars == <<comm, set, logger, ram>>

-----------------------------------------------------------------------------
ProcNull == -1
Comms == {"MPI_COMM_WORLD", "MPI_COMM_SELF", "MPI_COMM_NULL"}
CommSize(c) == CASE c = "MPI_COMM_WORLD" -> Size [] c = "MPI_COMM_SELF" -> 1 [] OTHER -> 0
CommMe(c)   == CASE c = "MPI_COMM_WORLD" -> Me   [] c = "MPI_COMM_SELF" -> 0 [] OTHER -> ProcNull

\* Keys of m_resource_sets_, and where a ResourceSet can be.
Keys    == {ProcNull} \cup 0 .. Size - 1
Entries == Runtimes \X Keys
Places  == Sets \cup Entries

RamState == [size : {10}, rank : Keys, comm : Comms]
SetState == [rank : Keys, ram : RamState, comm : Comms, logger : Objects]

\* The program's variables are not what a view keeps, and null is no value.
ASSUME PlacesAssumption ==
  /\ Sets \cap Entries = {}
  /\ Null \notin Comms \cup RamState \cup SetState

RamVars == INSTANCE ValueSemantics WITH Vars <- Rams, Values <- RamState, value <- ram
SetVars == INSTANCE ValueSemantics WITH Vars <- Places, Values <- SetState, value <- set

\* A RAM whose size is hard-coded.
get_ram_size == 10
make_ram(i, c) == [size |-> get_ram_size, rank |-> i, comm |-> c]

\* ResourceSetPIMPL(i, c, logger), its logger allocated at o.
make_resource_set(i, c, o) == [rank |-> i, ram |-> make_ram(i, c), comm |-> c, logger |-> o]

-----------------------------------------------------------------------------
(* Getters *)

HasPimpl(x) == set[x] # Null
mpi_rank(x) == IF HasPimpl(x) THEN set[x].rank ELSE ProcNull
IsNull(x)   == mpi_rank(x) = ProcNull

\* Mutant: MPI_PROC_NULL is taken for this process's rank.
IsMineAnyRank(x) == HasPimpl(x) /\ CommMe(set[x].comm) = mpi_rank(x)

IsMine(x) == HasPimpl(x) /\ ~IsNull(x) /\ CommMe(set[x].comm) = mpi_rank(x)

\* Mutant: a PIMPL is enough.
HasRamIfPimpl(x) == HasPimpl(x)

HasRam(x)  == HasPimpl(x) /\ ~IsNull(x)
IsEmpty(x) == IsNull(x) \/ ~HasRam(x)

RamEmpty(m) == m = Null \/ m.size = 0
RamEqual(m, n) ==
  /\ RamEmpty(m) <=> RamEmpty(n)
  /\ ~RamEmpty(m) => m.size = n.size

\* Mutant: the communicator is forgotten.
SetEqualAnyComm(x, y) ==
  /\ IsNull(x) <=> IsNull(y)
  /\ ~IsNull(x) =>
       /\ set[x].rank = set[y].rank
       /\ RamEqual(set[x].ram, set[y].ram)
       /\ logger[set[x].logger] = logger[set[y].logger]

\* ResourceSet::operator==
SetEqual(x, y) ==
  /\ IsNull(x) <=> IsNull(y)
  /\ ~IsNull(x) =>
       /\ set[x].rank = set[y].rank
       /\ RamEqual(set[x].ram, set[y].ram)
       /\ set[x].comm = set[y].comm
       /\ logger[set[x].logger] = logger[set[y].logger]

-----------------------------------------------------------------------------
Init ==
  /\ comm   = [r \in Runtimes |-> Null]
  /\ logger = [o \in Objects |-> Free]
  /\ SetVars!Init
  /\ RamVars!Init

\* A logger goes with the last resource set that points to it.
Release ==
  logger' = [o \in Objects |->
    IF \E x \in Places : set'[x] # Null /\ set'[x].logger = o THEN logger[o] ELSE Free]

\* Mutant: new resource sets share the logger of this process's own.
InstantiateSharing(r, c, keys) ==
  LET new == {i \in keys : ~HasPimpl(<<r, i>>)}
      own == <<r, CommMe(c)>>
  IN  \E o \in Objects :
        /\ IF HasPimpl(own) THEN o = set[own].logger ELSE logger[o] = Free
        /\ set' = [x \in Places |->
             IF x \in {r} \X new THEN make_resource_set(x[2], c, o) ELSE set[x]]
        /\ logger' = IF HasPimpl(own) THEN logger ELSE [logger EXCEPT ![o] = NullLogger]

\* Mutant: a resource set is built anew whenever it is asked for.
InstantiateAgain(r, c, keys) ==
  \E at \in Injection(keys, {o \in Objects : logger[o] = Free}) :
    /\ set' = [x \in Places |->
         IF x \in {r} \X keys THEN make_resource_set(x[2], c, at[x[2]]) ELSE set[x]]
    /\ logger' = [o \in Objects |->
         CASE o \in Range(at) -> NullLogger
           [] \E x \in Places : set'[x] # Null /\ set'[x].logger = o -> logger[o]
           [] OTHER -> Free]

\* instantiate_resource_set_ for each of the keys: those that are missing are
\* built, with null loggers of their own.
Instantiate(r, c, keys) ==
  LET new == {i \in keys : ~HasPimpl(<<r, i>>)}
  IN  \E at \in Injection(new, {o \in Objects : logger[o] = Free}) :
        /\ set' = [x \in Places |->
             IF x \in {r} \X new THEN make_resource_set(x[2], c, at[x[2]]) ELSE set[x]]
        /\ logger' = [o \in Objects |-> IF o \in Range(at) THEN NullLogger ELSE logger[o]]

\* A RuntimeViewPIMPL is built around c, with this process's resource set.
Start(r, c) ==
  /\ comm[r] = Null
  /\ comm' = [comm EXCEPT ![r] = c]
  /\ Instantiate(r, c, {CommMe(c)})
  /\ UNCHANGED ram

\* The last view of it goes.
Drop(r) ==
  /\ comm[r] # Null
  /\ comm' = [comm EXCEPT ![r] = Null]
  /\ set' = [x \in Places |-> IF x \in {r} \X Keys THEN Null ELSE set[x]]
  /\ Release
  /\ UNCHANGED ram

\* RuntimeView::at and RuntimeView::my_resource_set
At(r, i) ==
  /\ comm[r] # Null
  /\ i \in {CommMe(comm[r])} \cup 0 .. CommSize(comm[r]) - 1
  /\ Instantiate(r, comm[r], {i})
  /\ UNCHANGED <<comm, ram>>

\* RuntimeView::count looks at every rank's RAM.
Count(r) ==
  /\ comm[r] # Null
  /\ Instantiate(r, comm[r], 0 .. CommSize(comm[r]) - 1)
  /\ UNCHANGED <<comm, ram>>

\* The special members.  A program only gets const references to the resource
\* sets of a view: it can copy them.
CopySet(x, y)  == SetVars!Copy(x, y) /\ Release /\ UNCHANGED <<comm, ram>>
MoveSet(x, y)  == SetVars!Move(x, y) /\ Release /\ UNCHANGED <<comm, ram>>
SwapSets(x, y) == SetVars!Swap(x, y) /\ UNCHANGED <<comm, logger, ram>>
DestroySet(x)  == SetVars!Destroy(x) /\ Release /\ UNCHANGED <<comm, ram>>

\* x.logger() = l: a reference that is not const, from a const method.  Without
\* a PIMPL it throws.
SetLogger(x, l) ==
  /\ HasPimpl(x)
  /\ logger' = [logger EXCEPT ![set[x].logger] = l]
  /\ UNCHANGED <<comm, set, ram>>

\* m = x.ram(), which throws where there is no RAM.
CopyOutRam(m, x) ==
  /\ HasRam(x)
  /\ RamVars!Construct(m, set[x].ram)
  /\ UNCHANGED <<comm, set, logger>>

CopyRam(m, n)  == RamVars!Copy(m, n) /\ UNCHANGED <<comm, set, logger>>
MoveRam(m, n)  == RamVars!Move(m, n) /\ UNCHANGED <<comm, set, logger>>
SwapRams(m, n) == RamVars!Swap(m, n) /\ UNCHANGED <<comm, set, logger>>
DestroyRam(m)  == RamVars!Destroy(m) /\ UNCHANGED <<comm, set, logger>>

Next ==
  \/ \E r \in Runtimes :
       \/ \E c \in Comms : Start(r, c)
       \/ Drop(r)
       \/ \E i \in Keys : At(r, i)
       \/ Count(r)
  \/ \E x \in Sets :
       \/ \E y \in Places : CopySet(x, y)
       \/ \E y \in Sets : MoveSet(x, y) \/ SwapSets(x, y)
       \/ DestroySet(x)
  \/ \E x \in Places :
       \/ \E l \in Names \cup {NullLogger} : SetLogger(x, l)
       \/ \E m \in Rams : CopyOutRam(m, x)
  \/ \E m \in Rams :
       \/ \E n \in Rams : CopyRam(m, n) \/ MoveRam(m, n) \/ SwapRams(m, n)
       \/ DestroyRam(m)

Spec == Init /\ [][Next]_vars

-----------------------------------------------------------------------------
(* Properties *)

\* Of the resource sets of a view exactly this process's is "mine", and none if
\* the process is outside the communicator, where MPI_PROC_NULL stands for its
\* rank and for that of a resource set nobody owns.
OneIsMine ==
  \A r \in Runtimes : comm[r] # Null =>
    {i \in Keys : IsMine(<<r, i>>)} = {CommMe(comm[r])} \ {ProcNull}

\* The RAM a program gets hold of, however it was copied and moved since, sends
\* what is gathered to it to a rank of its communicator.
RamSendsToARank ==
  \A m \in Rams : ram[m] # Null => ram[m].rank \in 0 .. CommSize(ram[m].comm) - 1

\* What a view has returned a reference to stays as it is while the view lives.
EntriesAreStable ==
  [][\A r \in Runtimes, i \in Keys :
       comm[r] # Null /\ comm'[r] # Null /\ HasPimpl(<<r, i>>) => UNCHANGED set[<<r, i>>]]_vars

\* Comparison is an equivalence, and equal resource sets give the same answers,
\* whether they are null because they have no PIMPL or no rank.
EqualSetsAgree ==
  \A x, y \in Places : SetEqual(x, y) =>
    /\ \A z \in Places : SetEqual(x, z) <=> SetEqual(y, z)
    /\ <<mpi_rank(x), IsMine(x), HasRam(x), IsEmpty(x)>> =
       <<mpi_rank(y), IsMine(y), HasRam(y), IsEmpty(y)>>

\* Only a resource set and its copies share a logger: they stay equal whatever
\* is done to any of them, and nobody else's logger changes with theirs.
OnlyCopiesShareALogger ==
  \A x, y \in Places :
    HasPimpl(x) /\ HasPimpl(y) /\ set[x].logger = set[y].logger => set[x] = set[y]
=============================================================================
