-------------------------- MODULE Resources_proofs --------------------------
(* Theorems about Resources, for any number of PIMPLs, variables and ranks. *)
EXTENDS Resources, TLAPS

-----------------------------------------------------------------------------
(* What makes the safety properties inductive. *)

\* Types of the variables.
Typed ==
  /\ comm \in [Runtimes -> Comms \cup {Null}]
  /\ set \in [Places -> SetState \cup {Null}]
  /\ logger \in [Objects -> Names \cup {NullLogger, Free}]
  /\ ram \in [Rams -> RamState \cup {Null}]

\* What the constructor of ResourceSetPIMPL makes, and nothing changes: the set
\* of this process or of a rank of the communicator, with that rank's RAM.
Made(s) ==
  /\ s.rank \in {CommMe(s.comm)} \cup 0 .. CommSize(s.comm) - 1
  /\ s.ram = make_ram(s.rank, s.comm)
SetsMade == \A x \in Places : HasPimpl(x) => Made(set[x])

\* A view keeps resource sets only while it lives, each under its own rank and
\* of its own communicator, and this process's from the start.
EntriesInPlace ==
  \A r \in Runtimes :
    /\ \A i \in Keys : HasPimpl(<<r, i>>) =>
         comm[r] # Null /\ set[<<r, i>>].rank = i /\ set[<<r, i>>].comm = comm[r]
    /\ comm[r] # Null => HasPimpl(<<r, CommMe(comm[r])>>)

\* No logger is freed while a resource set points to it.
LoggersKept == \A x \in Places : HasPimpl(x) => logger[set[x].logger] # Free

\* The inductive invariant.
IInv ==
  /\ Typed
  /\ SetsMade
  /\ EntriesInPlace
  /\ LoggersKept
  /\ OnlyCopiesShareALogger
  /\ RamSendsToARank

-----------------------------------------------------------------------------
(* The operators *)

\* A process's rank in a communicator is one of its ranks, or none at all.
LEMMA CommFacts ==
  ASSUME NEW c \in Comms
  PROVE  /\ CommSize(c) \in Nat
         /\ 0 .. CommSize(c) - 1 \subseteq 0 .. Size - 1
         /\ CommMe(c) = ProcNull \/ CommMe(c) \in 0 .. CommSize(c) - 1
         /\ CommMe(c) \in Keys
<1>1. Size \in Nat /\ Size >= 1 /\ Me \in 0 .. Size - 1
  BY ResourcesAssumption
<1>2. CASE c = "MPI_COMM_WORLD"
  BY <1>1, <1>2 DEF CommSize, CommMe, Keys
<1>3. CASE c = "MPI_COMM_SELF"
  BY <1>1, <1>3 DEF CommSize, CommMe, Keys
<1>4. CASE c = "MPI_COMM_NULL"
  BY <1>1, <1>4 DEF CommSize, CommMe, Keys
<1>5. QED
  BY <1>2, <1>3, <1>4 DEF Comms

\* What the constructor makes is a resource set as it should be.
LEMMA MakeFacts ==
  ASSUME NEW c \in Comms, NEW i \in {CommMe(c)} \cup 0 .. CommSize(c) - 1, NEW o \in Objects
  PROVE  /\ make_resource_set(i, c, o) \in SetState
         /\ make_resource_set(i, c, o) # Null
         /\ Made(make_resource_set(i, c, o))
         /\ make_resource_set(i, c, o).rank = i
         /\ make_resource_set(i, c, o).comm = c
         /\ make_resource_set(i, c, o).logger = o
<1>1. i \in Keys
  BY CommFacts DEF Keys
<1>2. make_ram(i, c) \in RamState
  BY <1>1 DEF make_ram, RamState, get_ram_size
<1>3. make_resource_set(i, c, o) \in SetState
  BY <1>1, <1>2 DEF make_resource_set, SetState
<1>4. QED
  BY <1>3, PlacesAssumption DEF make_resource_set, Made

\* Where a resource set can be.
LEMMA PlaceFacts ==
  ASSUME NEW r \in Runtimes, NEW i \in Keys
  PROVE  <<r, i>> \in Places /\ <<r, i>> \in Entries /\ <<r, i>> \notin Sets
  BY PlacesAssumption DEF Places, Entries

\* A resource set that is not null has a rank, a RAM and a logger.
LEMMA SetFacts ==
  ASSUME Typed, NEW x \in Places, HasPimpl(x)
  PROVE  /\ set[x] \in SetState
         /\ set[x].rank \in Keys /\ set[x].ram \in RamState
         /\ set[x].comm \in Comms /\ set[x].logger \in Objects
<1>1. set[x] \in SetState
  BY DEF Typed, HasPimpl
<1>2. QED
  BY <1>1 DEF SetState

\* The RAM of a resource set with a rank sends to a rank of the communicator.
LEMMA RamOfSet ==
  ASSUME Typed, SetsMade, NEW x \in Places, HasRam(x)
  PROVE  /\ set[x].ram \in RamState
         /\ set[x].ram.rank \in 0 .. CommSize(set[x].ram.comm) - 1
<1>1. HasPimpl(x) /\ set[x].rank # ProcNull
  BY DEF HasRam, IsNull, mpi_rank
<1>2. set[x].ram \in RamState /\ set[x].comm \in Comms
  BY <1>1, SetFacts
<1>3. /\ set[x].rank \in {CommMe(set[x].comm)} \cup 0 .. CommSize(set[x].comm) - 1
      /\ set[x].ram = make_ram(set[x].rank, set[x].comm)
  BY <1>1 DEF SetsMade, Made
<1>4. set[x].rank \in 0 .. CommSize(set[x].comm) - 1
  BY <1>1, <1>2, <1>3, CommFacts
<1>5. set[x].ram.rank = set[x].rank /\ set[x].ram.comm = set[x].comm
  BY <1>3 DEF make_ram
<1>6. QED
  BY <1>2, <1>4, <1>5

\* The resource sets of r that are missing are built, each with a null logger of
\* its own at a place that was free; nothing else changes.
Builds(r, c, new, at) ==
  /\ \A i \in new : <<r, i>> \in Places /\ ~HasPimpl(<<r, i>>)
  /\ \A i \in new : at[i] \in Objects /\ logger[at[i]] = Free /\ logger'[at[i]] = NullLogger
  /\ \A i, j \in new : at[i] = at[j] => i = j
  /\ \A i \in new : set'[<<r, i>>] = make_resource_set(i, c, at[i])
  /\ \A x \in Places : x \notin {r} \X new => set'[x] = set[x]
  /\ \A o \in Objects : logger[o] # Free => logger'[o] = logger[o]
  /\ set' \in [Places -> SetState \cup {Null}]
  /\ logger' \in [Objects -> Names \cup {NullLogger, Free}]

\* That is what instantiate_resource_set_ does.
LEMMA InstantiateFacts ==
  ASSUME Typed, NEW r \in Runtimes, NEW c \in Comms,
         NEW keys \in SUBSET ({CommMe(c)} \cup 0 .. CommSize(c) - 1),
         Instantiate(r, c, keys)
  PROVE  \E at : Builds(r, c, {i \in keys : ~HasPimpl(<<r, i>>)}, at)
<1> DEFINE new == {i \in keys : ~HasPimpl(<<r, i>>)}
<1>1. PICK at \in Injection(new, {o \in Objects : logger[o] = Free}) :
        /\ set' = [x \in Places |->
             IF x \in {r} \X new THEN make_resource_set(x[2], c, at[x[2]]) ELSE set[x]]
        /\ logger' = [o \in Objects |-> IF o \in Range(at) THEN NullLogger ELSE logger[o]]
  BY DEF Instantiate
<1>k. keys \subseteq Keys
  BY CommFacts DEF Keys
<1>n. new \subseteq keys
  OBVIOUS
<1> HIDE DEF new
<1>2. /\ at \in [new -> {o \in Objects : logger[o] = Free}]
      /\ \A i, j \in new : at[i] = at[j] => i = j
  BY <1>1 DEF Injection, IsInjective
<1>3. \A i \in new : at[i] \in Objects /\ logger[at[i]] = Free /\ at[i] \in Range(at)
  BY <1>2 DEF Range
<1>4. \A o \in Range(at) : logger[o] = Free
  BY <1>2 DEF Range
<1>5. \A i \in new : logger'[at[i]] = NullLogger
  BY <1>1, <1>3
<1>6. \A o \in Objects : logger[o] # Free => logger'[o] = logger[o]
  BY <1>1, <1>4
<1>7. logger' \in [Objects -> Names \cup {NullLogger, Free}]
  BY <1>1 DEF Typed
<1>8. \A i \in new : set'[<<r, i>>] = make_resource_set(i, c, at[i])
  <2> TAKE i \in new
  <2>1. <<r, i>> \in Places /\ <<r, i>> \in {r} \X new /\ <<r, i>>[2] = i
    BY <1>k, <1>n, PlaceFacts
  <2>2. QED
    BY <1>1, <2>1
<1>9. \A x \in Places : x \notin {r} \X new => set'[x] = set[x]
  BY <1>1
<1>10. set' \in [Places -> SetState \cup {Null}]
  <2>1. \A x \in Places : set'[x] \in SetState \cup {Null}
    <3> TAKE x \in Places
    <3>1. CASE x \in {r} \X new
      <4>1. PICK i \in new : x = <<r, i>>
        BY <3>1
      <4>2. at[i] \in Objects /\ i \in {CommMe(c)} \cup 0 .. CommSize(c) - 1
        BY <1>3, <1>n
      <4>3. QED
        BY <1>8, <4>1, <4>2, MakeFacts
    <3>2. CASE x \notin {r} \X new
      BY <1>9, <3>2 DEF Typed
    <3>3. QED
      BY <3>1, <3>2
  <2>2. QED
    BY <1>1, <2>1
<1>11. \A i \in new : <<r, i>> \in Places /\ ~HasPimpl(<<r, i>>)
  <2> TAKE i \in new
  <2>1. <<r, i>> \in Places
    BY <1>k, <1>n, PlaceFacts
  <2>2. ~HasPimpl(<<r, i>>)
    BY DEF new
  <2>3. QED
    BY <2>1, <2>2
<1>12. Builds(r, c, new, at)
  BY <1>2, <1>3, <1>5, <1>6, <1>7, <1>8, <1>9, <1>10, <1>11 DEF Builds
<1>13. QED
  BY <1>12 DEF new

-----------------------------------------------------------------------------
(* The steps *)

\* Every resource set there is now was there before, somewhere.
Copied == \A x \in Places : set'[x] = Null \/ \E y \in Places : set'[x] = set[y]

\* The places that views keep are left alone.
EntriesAlone == comm' = comm /\ \A x \in Entries : set'[x] = set[x]

\* Copying and dropping resource sets makes none that was not made, makes two
\* that share a logger only if one is a copy of the other, and frees no logger
\* that is in use.
LEMMA CopiedStep ==
  ASSUME IInv, set' \in [Places -> SetState \cup {Null}], Copied, Release \/ logger' = logger
  PROVE  /\ logger' \in [Objects -> Names \cup {NullLogger, Free}]
         /\ SetsMade' /\ LoggersKept' /\ OnlyCopiesShareALogger'
<1>1. \A x \in Places : set'[x] # Null => \E y \in Places : set[y] # Null /\ set'[x] = set[y]
  BY DEF Copied
<1>2. SetsMade'
  BY <1>1 DEF SetsMade, HasPimpl, Made, CommMe, CommSize, make_ram, IInv
<1>3. OnlyCopiesShareALogger'
  BY <1>1 DEF OnlyCopiesShareALogger, HasPimpl, IInv
<1>4. logger' \in [Objects -> Names \cup {NullLogger, Free}]
  BY DEF Release, IInv, Typed
<1>5. LoggersKept'
  <2> SUFFICES ASSUME NEW x \in Places, set'[x] # Null
               PROVE  logger'[set'[x].logger] # Free
    BY DEF LoggersKept, HasPimpl
  <2>1. PICK y \in Places : set[y] # Null /\ set'[x] = set[y]
    BY <1>1
  <2>2. logger[set[y].logger] # Free /\ set[y].logger \in Objects
    BY <2>1, SetFacts DEF IInv, LoggersKept, HasPimpl
  <2>3. logger'[set'[x].logger] = logger[set'[x].logger]
    BY <2>1, <2>2 DEF Release
  <2>4. QED
    BY <2>1, <2>2, <2>3
<1>6. QED
  BY <1>2, <1>3, <1>4, <1>5

\* What the program does with its own resource sets does not show in a view's.
LEMMA AloneStep ==
  ASSUME Typed, EntriesInPlace, EntriesAlone
  PROVE  EntriesInPlace'
<1>1. \A r \in Runtimes, i \in Keys : set'[<<r, i>>] = set[<<r, i>>]
  BY PlaceFacts DEF EntriesAlone
<1>2. comm' = comm
  BY DEF EntriesAlone
<1>3. \A r \in Runtimes : comm[r] # Null => CommMe(comm[r]) \in Keys
  BY CommFacts DEF Typed
<1>4. QED
  BY <1>1, <1>2, <1>3 DEF EntriesInPlace, HasPimpl, CommMe

\* Building the resource sets that are missing, each with a logger of its own.
LEMMA BuildsStep ==
  ASSUME IInv, NEW r \in Runtimes, NEW c \in Comms, NEW at,
         NEW new \in SUBSET ({CommMe(c)} \cup 0 .. CommSize(c) - 1), Builds(r, c, new, at)
  PROVE  /\ SetsMade' /\ LoggersKept' /\ OnlyCopiesShareALogger'
         /\ \A x \in Places : HasPimpl(x) => set'[x] = set[x]
         /\ \A i \in new : set'[<<r, i>>] # Null /\ set'[<<r, i>>].rank = i /\ set'[<<r, i>>].comm = c
         /\ \A x \in Places : x \notin {r} \X new => set'[x] = set[x]
<1>1. \A i \in new :
        /\ set'[<<r, i>>] = make_resource_set(i, c, at[i])
        /\ set'[<<r, i>>] # Null /\ Made(set'[<<r, i>>])
        /\ set'[<<r, i>>].rank = i /\ set'[<<r, i>>].comm = c /\ set'[<<r, i>>].logger = at[i]
        /\ at[i] \in Objects /\ logger[at[i]] = Free /\ logger'[at[i]] = NullLogger
  BY MakeFacts DEF Builds
<1>2. \A x \in Places : x \notin {r} \X new => set'[x] = set[x]
  BY DEF Builds
<1>3. \A x \in Places : x \in {r} \X new => \E i \in new : x = <<r, i>>
  OBVIOUS
<1>4. \A x \in Places : set[x] # Null => set'[x] = set[x]
  BY <1>2, <1>3 DEF Builds, HasPimpl
<1>5. \A x \in Places : set'[x] # Null =>
        \/ set'[x] = set[x] /\ set[x] # Null
        \/ \E i \in new : x = <<r, i>>
  BY <1>2, <1>3
<1>6. \A x \in Places : set[x] # Null => logger[set[x].logger] # Free /\ set[x].logger \in Objects
  BY SetFacts DEF IInv, LoggersKept, HasPimpl
<1>7. SetsMade'
  <2> SUFFICES ASSUME NEW x \in Places, set'[x] # Null PROVE Made(set'[x])
    BY DEF SetsMade, HasPimpl, Made, CommMe, CommSize, make_ram
  <2>1. QED
    BY <1>1, <1>5 DEF IInv, SetsMade, HasPimpl
<1>8. LoggersKept'
  <2> SUFFICES ASSUME NEW x \in Places, set'[x] # Null PROVE logger'[set'[x].logger] # Free
    BY DEF LoggersKept, HasPimpl
  <2>1. CASE set'[x] = set[x] /\ set[x] # Null
    BY <1>6, <2>1 DEF Builds
  <2>2. CASE \E i \in new : x = <<r, i>>
    BY <1>1, <2>2, ResourcesAssumption
  <2>3. QED
    BY <1>5, <2>1, <2>2
<1>9. OnlyCopiesShareALogger'
  <2> SUFFICES ASSUME NEW x \in Places, NEW y \in Places, set'[x] # Null, set'[y] # Null,
                      set'[x].logger = set'[y].logger
               PROVE  set'[x] = set'[y]
    BY DEF OnlyCopiesShareALogger, HasPimpl
  <2>1. CASE set'[x] = set[x] /\ set[x] # Null /\ set'[y] = set[y] /\ set[y] # Null
    BY <2>1 DEF IInv, OnlyCopiesShareALogger, HasPimpl
  <2>2. CASE set'[x] = set[x] /\ set[x] # Null /\ \E i \in new : y = <<r, i>>
    BY <1>1, <1>6, <2>2
  <2>3. CASE set'[y] = set[y] /\ set[y] # Null /\ \E i \in new : x = <<r, i>>
    BY <1>1, <1>6, <2>3
  <2>4. CASE (\E i \in new : x = <<r, i>>) /\ (\E i \in new : y = <<r, i>>)
    <3>1. PICK i \in new, j \in new : x = <<r, i>> /\ y = <<r, j>>
      BY <2>4
    <3>2. at[i] = at[j]
      BY <1>1, <3>1
    <3>3. i = j
      BY <3>2 DEF Builds
    <3>4. QED
      BY <3>1, <3>3
  <2>5. QED
    BY <1>5, <2>1, <2>2, <2>3, <2>4
<1>10. QED
  BY <1>1, <1>2, <1>4, <1>7, <1>8, <1>9 DEF HasPimpl

\* A view that asks for resource sets keeps them in place, under their ranks,
\* and what it had of them.
LEMMA InstantiateStep ==
  ASSUME IInv, NEW r \in Runtimes, NEW c \in Comms,
         NEW keys \in SUBSET ({CommMe(c)} \cup 0 .. CommSize(c) - 1),
         Instantiate(r, c, keys),
         comm' = [comm EXCEPT ![r] = c], ram' = ram,
         comm[r] = c \/ (comm[r] = Null /\ CommMe(c) \in keys)
  PROVE  IInv' /\ \A x \in Places : HasPimpl(x) => set'[x] = set[x]
<1> DEFINE new == {i \in keys : ~HasPimpl(<<r, i>>)}
<1>1. PICK at : Builds(r, c, new, at)
  BY InstantiateFacts DEF IInv
<1>2. \A i \in new : i \in keys /\ ~HasPimpl(<<r, i>>)
  OBVIOUS
<1>3. \A i \in keys : i \notin new => HasPimpl(<<r, i>>)
  OBVIOUS
<1>4. new \in SUBSET ({CommMe(c)} \cup 0 .. CommSize(c) - 1)
  OBVIOUS
<1> HIDE DEF new
<1>5. /\ SetsMade' /\ LoggersKept' /\ OnlyCopiesShareALogger'
      /\ \A x \in Places : HasPimpl(x) => set'[x] = set[x]
      /\ \A i \in new : set'[<<r, i>>] # Null /\ set'[<<r, i>>].rank = i /\ set'[<<r, i>>].comm = c
      /\ \A x \in Places : x \notin {r} \X new => set'[x] = set[x]
  BY <1>1, <1>4, BuildsStep
<1>6. \A q \in Runtimes : comm'[q] = IF q = r THEN c ELSE comm[q]
  BY DEF IInv, Typed
<1>7. Typed'
  <2>1. comm' \in [Runtimes -> Comms \cup {Null}]
    BY DEF IInv, Typed
  <2>2. QED
    BY <1>1, <2>1 DEF IInv, Typed, Builds
<1>8. c # Null /\ CommMe(c) \in Keys
  BY PlacesAssumption, CommFacts
<1>9. EntriesInPlace'
  <2>1. ASSUME NEW q \in Runtimes, NEW i \in Keys, set'[<<q, i>>] # Null
        PROVE  comm'[q] # Null /\ set'[<<q, i>>].rank = i /\ set'[<<q, i>>].comm = comm'[q]
    <3>1. CASE q = r /\ i \in new
      BY <1>5, <1>6, <1>8, <3>1
    <3>2. CASE ~(q = r /\ i \in new)
      <4>1. <<q, i>> \in Places /\ <<q, i>> \notin {r} \X new
        BY <3>2, PlaceFacts
      <4>2. set'[<<q, i>>] = set[<<q, i>>]
        BY <1>5, <4>1
      <4>3. comm[q] # Null /\ set[<<q, i>>].rank = i /\ set[<<q, i>>].comm = comm[q]
        BY <2>1, <4>2 DEF IInv, EntriesInPlace, HasPimpl
      <4>4. comm'[q] = comm[q]
        BY <1>6, <4>3
      <4>5. QED
        BY <4>2, <4>3, <4>4
    <3>3. QED
      BY <3>1, <3>2
  <2>2. ASSUME NEW q \in Runtimes, comm'[q] # Null
        PROVE  set'[<<q, CommMe(comm'[q])>>] # Null
    <3>1. CASE comm[q] # Null
      <4>1. comm'[q] = comm[q] /\ comm[q] \in Comms
        BY <1>6, <3>1 DEF IInv, Typed
      <4>2. HasPimpl(<<q, CommMe(comm[q])>>)
        BY <3>1 DEF IInv, EntriesInPlace
      <4>3. <<q, CommMe(comm[q])>> \in Places
        BY <4>1, CommFacts, PlaceFacts
      <4>4. QED
        BY <1>5, <4>1, <4>2, <4>3 DEF HasPimpl
    <3>2. CASE comm[q] = Null
      <4>1. q = r /\ CommMe(c) \in keys
        BY <1>6, <2>2, <3>2, <1>8
      <4>2. CASE CommMe(c) \in new
        BY <1>5, <1>6, <4>1, <4>2
      <4>3. CASE CommMe(c) \notin new
        BY <1>3, <1>8, <3>2, <4>1, <4>3 DEF IInv, EntriesInPlace
      <4>4. QED
        BY <4>2, <4>3
    <3>3. QED
      BY <3>1, <3>2
  <2>3. QED
    BY <2>1, <2>2 DEF EntriesInPlace, HasPimpl, CommMe
<1>10. RamSendsToARank'
  BY DEF IInv, RamSendsToARank, CommSize
<1>11. QED
  BY <1>5, <1>7, <1>9, <1>10 DEF IInv

\* A step of the program on its own resource sets.
LEMMA ProgramStep ==
  ASSUME IInv, set' \in [Places -> SetState \cup {Null}], Copied, EntriesAlone,
         Release \/ logger' = logger, ram' = ram
  PROVE  IInv'
<1>1. /\ logger' \in [Objects -> Names \cup {NullLogger, Free}]
      /\ SetsMade' /\ LoggersKept' /\ OnlyCopiesShareALogger'
  BY CopiedStep
<1>2. EntriesInPlace'
  BY AloneStep DEF IInv
<1>3. Typed'
  BY <1>1 DEF IInv, Typed, EntriesAlone
<1>4. RamSendsToARank'
  BY DEF IInv, RamSendsToARank, CommSize
<1>5. QED
  BY <1>1, <1>2, <1>3, <1>4 DEF IInv

\* A step of the program on its RAMs, which come out of a resource set or are
\* there already.
LEMMA RamStep ==
  ASSUME IInv, UNCHANGED <<comm, set, logger>>,
         ram' \in [Rams -> RamState \cup {Null}],
         \A m \in Rams : \/ ram'[m] = Null
                         \/ \E n \in Rams : ram'[m] = ram[n]
                         \/ \E x \in Places : HasRam(x) /\ ram'[m] = set[x].ram
  PROVE  IInv'
<1>1. Typed' /\ SetsMade' /\ EntriesInPlace' /\ LoggersKept' /\ OnlyCopiesShareALogger'
  BY DEF IInv, Typed, SetsMade, Made, EntriesInPlace, LoggersKept, OnlyCopiesShareALogger,
         HasPimpl, CommMe, CommSize, make_ram
<1>2. RamSendsToARank'
  <2> SUFFICES ASSUME NEW m \in Rams, ram'[m] # Null
               PROVE  ram'[m].rank \in 0 .. CommSize(ram'[m].comm) - 1
    BY DEF RamSendsToARank, CommSize
  <2>1. CASE \E n \in Rams : ram'[m] = ram[n]
    BY <2>1 DEF IInv, RamSendsToARank
  <2>2. CASE \E x \in Places : HasRam(x) /\ ram'[m] = set[x].ram
    BY <2>2, RamOfSet DEF IInv
  <2>3. QED
    BY <2>1, <2>2
<1>3. QED
  BY <1>1, <1>2 DEF IInv

\* A program's variables are places of their own.
LEMMA VariableFacts ==
  ASSUME NEW x \in Sets
  PROVE  x \in Places /\ x \notin Entries /\ \A y \in Entries : y \in Places /\ y # x
  BY PlacesAssumption DEF Places

\* Copying, moving, swapping and destroying resource sets.
LEMMA SpecialMembers ==
  ASSUME IInv, NEW x \in Sets,
         \/ \E y \in Places : CopySet(x, y)
         \/ \E y \in Sets : MoveSet(x, y) \/ SwapSets(x, y)
         \/ DestroySet(x)
  PROVE  /\ set' \in [Places -> SetState \cup {Null}] /\ Copied /\ EntriesAlone
         /\ Release \/ logger' = logger
         /\ ram' = ram
<1>t. set \in [Places -> SetState \cup {Null}]
  BY DEF IInv, Typed
<1>1. ASSUME NEW y \in Places, CopySet(x, y)
      PROVE  set' \in [Places -> SetState \cup {Null}] /\ Copied /\ EntriesAlone
  <2>1. comm' = comm /\ set' = [set EXCEPT ![x] = set[y]]
    BY <1>1 DEF CopySet, SetVars!Copy
  <2>2. \A z \in Places : set'[z] = IF z = x THEN set[y] ELSE set[z]
    BY <1>t, <2>1
  <2>3. QED
    BY <1>t, <2>1, <2>2, VariableFacts DEF Copied, EntriesAlone
<1>2. ASSUME NEW y \in Sets, MoveSet(x, y)
      PROVE  set' \in [Places -> SetState \cup {Null}] /\ Copied /\ EntriesAlone
  <2>1. comm' = comm /\ set' = [set EXCEPT ![y] = Null, ![x] = set[y]]
    BY <1>2 DEF MoveSet, SetVars!Move
  <2>2. x \in Places /\ y \in Places
    BY VariableFacts
  <2>3. \A z \in Places : set'[z] = IF z = x THEN set[y] ELSE IF z = y THEN Null ELSE set[z]
    BY <1>t, <2>1, <2>2
  <2>4. QED
    BY <1>t, <2>1, <2>2, <2>3, VariableFacts DEF Copied, EntriesAlone
<1>3. ASSUME NEW y \in Sets, SwapSets(x, y)
      PROVE  set' \in [Places -> SetState \cup {Null}] /\ Copied /\ EntriesAlone
  <2>1. comm' = comm /\ set' = [set EXCEPT ![x] = set[y], ![y] = set[x]]
    BY <1>3 DEF SwapSets, SetVars!Swap
  <2>2. x \in Places /\ y \in Places
    BY VariableFacts
  <2>3. \A z \in Places : set'[z] = IF z = y THEN set[x] ELSE IF z = x THEN set[y] ELSE set[z]
    BY <1>t, <2>1, <2>2
  <2>4. QED
    BY <1>t, <2>1, <2>2, <2>3, VariableFacts DEF Copied, EntriesAlone
<1>4. ASSUME DestroySet(x)
      PROVE  set' \in [Places -> SetState \cup {Null}] /\ Copied /\ EntriesAlone
  <2>1. comm' = comm /\ set' = [set EXCEPT ![x] = Null]
    BY <1>4 DEF DestroySet, SetVars!Destroy
  <2>2. \A z \in Places : set'[z] = IF z = x THEN Null ELSE set[z]
    BY <1>t, <2>1
  <2>3. QED
    BY <1>t, <2>1, <2>2, VariableFacts DEF Copied, EntriesAlone
<1>5. (Release \/ logger' = logger) /\ ram' = ram
  BY DEF CopySet, MoveSet, SwapSets, DestroySet
<1>6. QED
  BY <1>1, <1>2, <1>3, <1>4, <1>5

\* The getters of a view, and its construction, build what is missing.
LEMMA ViewStep ==
  ASSUME IInv, NEW r \in Runtimes,
         (\E c \in Comms : Start(r, c)) \/ (\E i \in Keys : At(r, i)) \/ Count(r)
  PROVE  IInv' /\ \A x \in Places : HasPimpl(x) => set'[x] = set[x]
<1>t. comm \in [Runtimes -> Comms \cup {Null}]
  BY DEF IInv, Typed
<1>1. ASSUME NEW c \in Comms, Start(r, c)
      PROVE  IInv' /\ \A x \in Places : HasPimpl(x) => set'[x] = set[x]
  <2>1. /\ comm[r] = Null /\ comm' = [comm EXCEPT ![r] = c] /\ ram' = ram
        /\ Instantiate(r, c, {CommMe(c)})
    BY <1>1 DEF Start
  <2>2. {CommMe(c)} \in SUBSET ({CommMe(c)} \cup 0 .. CommSize(c) - 1) /\ CommMe(c) \in {CommMe(c)}
    OBVIOUS
  <2>3. QED
    BY <2>1, <2>2, InstantiateStep
<1>2. ASSUME comm[r] # Null, comm' = comm, ram' = ram,
             NEW keys \in SUBSET ({CommMe(comm[r])} \cup 0 .. CommSize(comm[r]) - 1),
             Instantiate(r, comm[r], keys)
      PROVE  IInv' /\ \A x \in Places : HasPimpl(x) => set'[x] = set[x]
  <2>1. comm[r] \in Comms /\ comm' = [comm EXCEPT ![r] = comm[r]]
    BY <1>t, <1>2
  <2>2. QED
    BY <1>2, <2>1, InstantiateStep
<1>3. ASSUME NEW i \in Keys, At(r, i)
      PROVE  IInv' /\ \A x \in Places : HasPimpl(x) => set'[x] = set[x]
  <2>1. /\ comm[r] # Null /\ comm' = comm /\ ram' = ram /\ Instantiate(r, comm[r], {i})
        /\ {i} \in SUBSET ({CommMe(comm[r])} \cup 0 .. CommSize(comm[r]) - 1)
    BY <1>3 DEF At
  <2>2. QED
    BY <1>2, <2>1
<1>4. ASSUME Count(r)
      PROVE  IInv' /\ \A x \in Places : HasPimpl(x) => set'[x] = set[x]
  <2>1. /\ comm[r] # Null /\ comm' = comm /\ ram' = ram
        /\ Instantiate(r, comm[r], 0 .. CommSize(comm[r]) - 1)
        /\ 0 .. CommSize(comm[r]) - 1 \in SUBSET ({CommMe(comm[r])} \cup 0 .. CommSize(comm[r]) - 1)
    BY <1>4 DEF Count
  <2>2. QED
    BY <1>2, <2>1
<1>5. QED
  BY <1>1, <1>3, <1>4

\* A view that goes takes its resource sets along, and no others.
LEMMA DropStep ==
  ASSUME IInv, NEW r \in Runtimes, Drop(r)
  PROVE  IInv' /\ comm'[r] = Null /\ \A x \in Places : x \notin {r} \X Keys => set'[x] = set[x]
<1>1. /\ comm' = [comm EXCEPT ![r] = Null] /\ Release /\ ram' = ram
      /\ set' = [x \in Places |-> IF x \in {r} \X Keys THEN Null ELSE set[x]]
  BY DEF Drop
<1>2. \A q \in Runtimes : comm'[q] = IF q = r THEN Null ELSE comm[q]
  BY <1>1 DEF IInv, Typed
<1>3. set' \in [Places -> SetState \cup {Null}] /\ Copied
  BY <1>1 DEF IInv, Typed, Copied
<1>4. /\ logger' \in [Objects -> Names \cup {NullLogger, Free}]
      /\ SetsMade' /\ LoggersKept' /\ OnlyCopiesShareALogger'
  BY <1>1, <1>3, CopiedStep
<1>5. \A q \in Runtimes, i \in Keys :
        /\ q = r => set'[<<q, i>>] = Null
        /\ q # r => set'[<<q, i>>] = set[<<q, i>>]
  <2> SUFFICES ASSUME NEW q \in Runtimes, NEW i \in Keys
               PROVE  /\ q = r => set'[<<q, i>>] = Null
                      /\ q # r => set'[<<q, i>>] = set[<<q, i>>]
    OBVIOUS
  <2>1. <<q, i>> \in Places
    BY PlaceFacts
  <2>2. <<q, i>> \in {r} \X Keys <=> q = r
    OBVIOUS
  <2>3. QED
    BY <1>1, <2>1, <2>2
<1>6. \A q \in Runtimes : comm[q] # Null => CommMe(comm[q]) \in Keys
  BY CommFacts DEF IInv, Typed
<1>7. EntriesInPlace'
  <2> SUFFICES ASSUME NEW q \in Runtimes
               PROVE  /\ \A i \in Keys : set'[<<q, i>>] # Null =>
                            comm'[q] # Null /\ set'[<<q, i>>].rank = i /\ set'[<<q, i>>].comm = comm'[q]
                      /\ comm'[q] # Null => set'[<<q, CommMe(comm'[q])>>] # Null
    BY DEF EntriesInPlace, HasPimpl, CommMe
  <2>1. CASE q = r
    BY <1>2, <1>5, <2>1
  <2>2. CASE q # r
    BY <1>2, <1>5, <1>6, <2>2 DEF IInv, EntriesInPlace, HasPimpl
  <2>3. QED
    BY <2>1, <2>2
<1>8. RamSendsToARank'
  BY <1>1 DEF IInv, RamSendsToARank, CommSize
<1>9. Typed'
  BY <1>1, <1>3, <1>4 DEF IInv, Typed
<1>10. QED
  BY <1>1, <1>2, <1>4, <1>7, <1>8, <1>9 DEF IInv

\* Assigning a logger through a resource set.
LEMMA LoggerStep ==
  ASSUME IInv, NEW x \in Places, NEW l \in Names \cup {NullLogger}, SetLogger(x, l)
  PROVE  IInv'
<1>1. /\ UNCHANGED <<comm, set, ram>> /\ HasPimpl(x)
      /\ logger' = [logger EXCEPT ![set[x].logger] = l]
  BY DEF SetLogger
<1>2. l # Free
  BY ResourcesAssumption
<1>3. Typed'
  BY <1>1 DEF IInv, Typed
<1>4. LoggersKept'
  <2>1. set[x].logger \in Objects
    BY <1>1, SetFacts DEF IInv
  <2>2. \A o \in Objects : logger'[o] = IF o = set[x].logger THEN l ELSE logger[o]
    BY <1>1, <2>1 DEF IInv, Typed
  <2>3. \A y \in Places : HasPimpl(y) => set[y].logger \in Objects
    BY SetFacts DEF IInv
  <2>4. QED
    BY <1>1, <1>2, <2>2, <2>3 DEF IInv, LoggersKept, HasPimpl
<1>5. SetsMade' /\ EntriesInPlace' /\ OnlyCopiesShareALogger' /\ RamSendsToARank'
  BY <1>1 DEF IInv, SetsMade, Made, EntriesInPlace, OnlyCopiesShareALogger, RamSendsToARank,
              HasPimpl, CommMe, CommSize, make_ram
<1>6. QED
  BY <1>3, <1>4, <1>5 DEF IInv

\* Copying a RAM out of a resource set, and the special members of RAM.
LEMMA RamSteps ==
  ASSUME IInv, NEW m \in Rams,
         \/ \E x \in Places : CopyOutRam(m, x)
         \/ \E n \in Rams : CopyRam(m, n) \/ MoveRam(m, n) \/ SwapRams(m, n)
         \/ DestroyRam(m)
  PROVE  IInv' /\ UNCHANGED <<comm, set>>
<1>t. ram \in [Rams -> RamState \cup {Null}]
  BY DEF IInv, Typed
<1>u. UNCHANGED <<comm, set, logger>>
  BY DEF CopyOutRam, CopyRam, MoveRam, SwapRams, DestroyRam
<1>1. ASSUME NEW x \in Places, CopyOutRam(m, x)
      PROVE  IInv'
  <2>1. HasRam(x) /\ ram' = [ram EXCEPT ![m] = set[x].ram]
    BY <1>1 DEF CopyOutRam, RamVars!Construct
  <2>2. set[x].ram \in RamState
    BY <2>1, RamOfSet DEF IInv
  <2>3. \A k \in Rams : ram'[k] = IF k = m THEN set[x].ram ELSE ram[k]
    BY <1>t, <2>1
  <2>4. QED
    BY <1>t, <1>u, <2>1, <2>2, <2>3, RamStep
<1>2. ASSUME NEW n \in Rams, CopyRam(m, n) \/ MoveRam(m, n) \/ SwapRams(m, n)
      PROVE  IInv'
  <2>1. ram' \in [Rams -> RamState \cup {Null}]
    BY <1>t, <1>2 DEF CopyRam, MoveRam, SwapRams, RamVars!Copy, RamVars!Move, RamVars!Swap
  <2>2. \A k \in Rams : ram'[k] = Null \/ \E j \in Rams : ram'[k] = ram[j]
    BY <1>t, <1>2 DEF CopyRam, MoveRam, SwapRams, RamVars!Copy, RamVars!Move, RamVars!Swap
  <2>3. QED
    BY <1>u, <2>1, <2>2, RamStep
<1>3. ASSUME DestroyRam(m)
      PROVE  IInv'
  <2>1. ram' = [ram EXCEPT ![m] = Null]
    BY <1>3 DEF DestroyRam, RamVars!Destroy
  <2>2. ram' \in [Rams -> RamState \cup {Null}] /\ \A k \in Rams : ram'[k] = Null \/ ram'[k] = ram[k]
    BY <1>t, <2>1
  <2>3. QED
    BY <1>u, <2>2, RamStep
<1>4. QED
  BY <1>1, <1>2, <1>3, <1>u

\* Every operation preserves the inductive invariant.
LEMMA InvStep == IInv /\ [Next]_vars => IInv'
<1> SUFFICES ASSUME IInv, [Next]_vars PROVE IInv'
  OBVIOUS
<1>1. CASE \E r \in Runtimes : \/ \E c \in Comms : Start(r, c)
                               \/ \E i \in Keys : At(r, i)
                               \/ Count(r)
  BY <1>1, ViewStep
<1>2. CASE \E r \in Runtimes : Drop(r)
  BY <1>2, DropStep
<1>3. CASE \E x \in Sets : \/ \E y \in Places : CopySet(x, y)
                           \/ \E y \in Sets : MoveSet(x, y) \/ SwapSets(x, y)
                           \/ DestroySet(x)
  BY <1>3, SpecialMembers, ProgramStep
<1>4. CASE \E x \in Places, l \in Names \cup {NullLogger} : SetLogger(x, l)
  BY <1>4, LoggerStep
<1>5. CASE \E m \in Rams : \/ \E x \in Places : CopyOutRam(m, x)
                           \/ \E n \in Rams : CopyRam(m, n) \/ MoveRam(m, n) \/ SwapRams(m, n)
                           \/ DestroyRam(m)
  BY <1>5, RamSteps
<1>6. CASE UNCHANGED vars
  <2>1. UNCHANGED <<comm, set, logger>> /\ ram' = ram
    BY <1>6 DEF vars
  <2>2. QED
    BY <2>1, RamStep DEF IInv, Typed
<1>7. QED
  BY <1>1, <1>2, <1>3, <1>4, <1>5, <1>6 DEF Next

\* It holds before anything is built.
LEMMA InitInv == Init => IInv
<1> SUFFICES ASSUME Init PROVE IInv
  OBVIOUS
<1>1. /\ comm = [r \in Runtimes |-> Null]
      /\ logger = [o \in Objects |-> Free]
      /\ set = [x \in Places |-> Null]
      /\ ram = [m \in Rams |-> Null]
  BY DEF Init, SetVars!Init, RamVars!Init
<1>2. Typed
  BY <1>1 DEF Typed
<1>3. \A x \in Places : ~HasPimpl(x)
  BY <1>1 DEF HasPimpl
<1>4. EntriesInPlace
  BY <1>1, <1>3, PlaceFacts DEF EntriesInPlace
<1>5. SetsMade /\ LoggersKept /\ OnlyCopiesShareALogger
  BY <1>3 DEF SetsMade, LoggersKept, OnlyCopiesShareALogger
<1>6. RamSendsToARank
  BY <1>1 DEF RamSendsToARank
<1>7. QED
  BY <1>2, <1>4, <1>5, <1>6 DEF IInv

-----------------------------------------------------------------------------
\* The inductive invariant holds in every state.
THEOREM Invariance == Spec => []IInv
  BY InitInv, InvStep, PTL DEF Spec

\* Exactly this process's resource set is "mine" in a view, and none is when the
\* process is outside the communicator: for any communicator and rank.
THEOREM OneIsMineAlways == Spec => []OneIsMine
<1>1. IInv => OneIsMine
  <2> SUFFICES ASSUME IInv, NEW r \in Runtimes, comm[r] # Null
               PROVE  {i \in Keys : IsMine(<<r, i>>)} = {CommMe(comm[r])} \ {ProcNull}
    BY DEF OneIsMine
  <2>1. CommMe(comm[r]) \in Keys /\ HasPimpl(<<r, CommMe(comm[r])>>)
    BY CommFacts DEF IInv, Typed, EntriesInPlace
  <2>2. ASSUME NEW i \in Keys
        PROVE  IsMine(<<r, i>>) <=> HasPimpl(<<r, i>>) /\ i # ProcNull /\ i = CommMe(comm[r])
    <3>1. HasPimpl(<<r, i>>) => set[<<r, i>>].rank = i /\ set[<<r, i>>].comm = comm[r]
      BY DEF IInv, EntriesInPlace
    <3>2. QED
      BY <3>1 DEF IsMine, IsNull, mpi_rank
  <2>3. QED
    BY <2>1, <2>2
<1>2. QED
  BY Invariance, <1>1, PTL

\* Comparison of resource sets is an equivalence that no getter tells apart.
THEOREM EqualSetsAgreeAlways == Spec => []EqualSetsAgree
<1>1. EqualSetsAgree
  <2> SUFFICES ASSUME NEW x \in Places, NEW y \in Places, SetEqual(x, y)
               PROVE  /\ \A z \in Places : SetEqual(x, z) <=> SetEqual(y, z)
                      /\ <<mpi_rank(x), IsMine(x), HasRam(x), IsEmpty(x)>> =
                         <<mpi_rank(y), IsMine(y), HasRam(y), IsEmpty(y)>>
    BY DEF EqualSetsAgree
  <2>1. \A m, n, k : RamEqual(m, n) => (RamEqual(m, k) <=> RamEqual(n, k))
    BY DEF RamEqual
  <2>2. \A z \in Places : SetEqual(x, z) <=> SetEqual(y, z)
    BY <2>1 DEF SetEqual
  <2>3. IsNull(x) <=> IsNull(y)
    BY DEF SetEqual
  <2>4. mpi_rank(x) = mpi_rank(y)
    BY <2>3 DEF SetEqual, IsNull, mpi_rank
  <2>5. ~IsNull(x) => HasPimpl(x) /\ HasPimpl(y) /\ set[x].comm = set[y].comm
    BY <2>3 DEF SetEqual, IsNull, mpi_rank
  <2>6. /\ IsMine(x) <=> IsMine(y)
        /\ HasRam(x) <=> HasRam(y)
        /\ IsEmpty(x) <=> IsEmpty(y)
    BY <2>3, <2>4, <2>5 DEF IsMine, HasRam, IsEmpty
  <2>7. IsMine(x) = IsMine(y) /\ HasRam(x) = HasRam(y) /\ IsEmpty(x) = IsEmpty(y)
    BY <2>6 DEF IsMine, HasRam, IsEmpty
  <2>8. <<mpi_rank(x), IsMine(x), HasRam(x), IsEmpty(x)>> =
        <<mpi_rank(y), IsMine(y), HasRam(y), IsEmpty(y)>>
    BY <2>4, <2>7, Zenon
  <2>9. QED
    BY <2>2, <2>8
<1>2. QED
  BY <1>1, PTL

\* Only a resource set and its copies share a logger, through any number of
\* views, copies and moves: nobody's logger is freed or assigned for another.
THEOREM OnlyCopiesShareALoggerAlways == Spec => []OnlyCopiesShareALogger
<1>1. IInv => OnlyCopiesShareALogger
  BY DEF IInv
<1>2. QED
  BY Invariance, <1>1, PTL

\* A RAM copied out of a resource set sends to a rank of its communicator,
\* whatever became of the resource set and its view since.
THEOREM RamSendsToARankAlways == Spec => []RamSendsToARank
<1>1. IInv => RamSendsToARank
  BY DEF IInv
<1>2. QED
  BY Invariance, <1>1, PTL

\* The resource sets that a view has handed out references to stay as they are,
\* however many others are built, as long as the view lives.
THEOREM EntriesAreStableAlways == Spec => EntriesAreStable
<1> DEFINE Stable == \A r \in Runtimes, i \in Keys :
      comm[r] # Null /\ comm'[r] # Null /\ HasPimpl(<<r, i>>) => UNCHANGED set[<<r, i>>]
<1>1. IInv /\ [Next]_vars => [Stable]_vars
  <2> SUFFICES ASSUME IInv, Next,
                      NEW r \in Runtimes, NEW i \in Keys,
                      comm[r] # Null, comm'[r] # Null, HasPimpl(<<r, i>>)
               PROVE  set'[<<r, i>>] = set[<<r, i>>]
    OBVIOUS
  <2>1. <<r, i>> \in Places /\ <<r, i>> \in Entries
    BY PlaceFacts
  <2>2. CASE \E q \in Runtimes : \/ \E c \in Comms : Start(q, c)
                                 \/ \E k \in Keys : At(q, k)
                                 \/ Count(q)
    BY <2>1, <2>2, ViewStep
  <2>3. ASSUME NEW q \in Runtimes, Drop(q)
        PROVE  set'[<<r, i>>] = set[<<r, i>>]
    <3>1. q # r
      BY <2>3, DropStep
    <3>2. <<r, i>> \notin {q} \X Keys
      BY <3>1
    <3>3. QED
      BY <2>1, <2>3, <3>2, DropStep
  <2>4. CASE \E x \in Sets : \/ \E y \in Places : CopySet(x, y)
                             \/ \E y \in Sets : MoveSet(x, y) \/ SwapSets(x, y)
                             \/ DestroySet(x)
    BY <2>1, <2>4, SpecialMembers DEF EntriesAlone
  <2>5. CASE \E x \in Places, l \in Names \cup {NullLogger} : SetLogger(x, l)
    BY <2>5 DEF SetLogger
  <2>6. CASE \E m \in Rams : \/ \E x \in Places : CopyOutRam(m, x)
                             \/ \E n \in Rams : CopyRam(m, n) \/ MoveRam(m, n) \/ SwapRams(m, n)
                             \/ DestroyRam(m)
    BY <2>6, RamSteps
  <2>7. QED
    BY <2>2, <2>3, <2>4, <2>5, <2>6 DEF Next
<1>2. QED
  BY Invariance, <1>1, PTL DEF Spec, EntriesAreStable
=============================================================================
