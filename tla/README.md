# A verification model of ParallelZone

ParallelZone is a C++ library that gives a program a view of its parallel
runtime. A `RuntimeView` manages the MPI library's lifetime and this process's
resources. The collective operations of an MPI communicator (`CommPP`) move data
between ranks, loggers are handed out by rank, and tasks wrap function calls.
This directory holds TLA+ modules of the parts where order, sharing and lifetime
decide whether the library is right, TLC configurations that check them on small
instances, and proofs for any instance.

To run: `tlc -config <run>.cfg <module>.tla` (the table under "Runs" names the
pairs) and `tlapm <module>_proofs.tla`.

## The system

| Component | State | Operations | Works with | Hard parts |
|---|---|---|---|---|
| `RuntimeView` and `RuntimeViewPIMPL` (`src/parallelzone/runtime`) | a `shared_ptr` per view; per PIMPL: whether it started MPI, a communicator, a logger, a map of resource sets, a stack of callbacks | construct, copy, move, swap, destroy, `at`, `my_resource_set`, `count`, `stack_callback`, collectives | starts and finalizes MPI; calls back into the program from its destructor; creates `ResourceSet`s | process-wide MPI state owned by one of several PIMPLs; arbitrary code in a destructor; reference cycles |
| `CommPP` (`mpi_helpers/commpp`) | a communicator handle, this process's rank, the size | `gather`, `gatherv`, `reduce`, with and without a root; value semantics, comparison | MPI; buffers of bytes | N processes that must make the same calls in the same order; two-phase `gatherv`; sizes in an `int`; a cache of what MPI knows; null communicators |
| `RAM` (`hardware/ram`) | size, rank, communicator | `gather`, `reduce` to the RAM's own rank; value semantics | `CommPP` | every rank naming itself as the root |
| `ResourceSet` (`runtime`) | rank, RAM, communicator, pointer to a logger | value semantics, getters | owned by the PIMPL of a view | copies that share a logger |
| `Logger` (`logging`) | severity threshold, name, sinks | `set_severity`, `log`, value semantics | one per PIMPL, one per resource set | equality that ignores part of the state |
| Task (`task`) | a callable and its arguments, owned or aliased | wrap, run, unwrap the result | `CPU::profile_it` | argument lifetime; one object passed twice; running a task again |
| `BinaryBuffer`, `BinaryView` | owned or aliased bytes | value semantics, (de)serialization | `CommPP` | lifetime of the aliased bytes |
| `CPU`, MPI traits, serialization, Python bindings | none | | | |

What makes them right:

- *RuntimeView.* MPI is initialized at most once, has one owner, and is up as
  long as the owner's PIMPL is referenced; whatever depends on MPI is torn down
  before it; every callback is called once, in reverse order; a PIMPL lives
  exactly as long as it is referenced; a destructor that started finishes; only
  reference cycles through callbacks leak.
- *CommPP, RAM.* The ranks' MPI calls pair up; the root gets all contributions
  of that call, in the order of the ranks, and nobody else gets anything;
  everybody comes back; a failure has a known cause, and nobody gets a value from
  the call that failed.
- *The CommPP handle.* What it remembers of its communicator is true; equal
  handles mean the same ranks; a null handle is refused before MPI sees it.
- *Logger.* A threshold belongs to one logger and a sink to all its copies; no
  setting silences critical messages; comparison is an equivalence and equal
  loggers write to the same place.
- *ResourceSet, RAM.* Exactly this process's set of a view is "mine"; what a view
  has handed out stays; equal sets answer alike; only copies share a logger.
- *BinaryBuffer, BinaryView.* One owner for every object; views follow their bytes
  through moves and swaps; writing through a view shows in one buffer only.
- *Task.* An owned argument arrives as it was passed, once; an aliased one is
  read and written in place; what the function returns comes out of the result.

## Modules

**`RuntimeView`** models one process. `view[v]` is the `m_pimpl_` of variable
`v`. A PIMPL is `unborn`, `live`, `dying` (its destructor is on the call stack)
or `dead`. `starter`, `comm`, `sets` and `callbacks` are the members
`m_did_i_start_mpi`, `m_comm`, the keys of `m_resource_sets_`, and
`m_callbacks_final_`. `mpi` is the state of the MPI library, `hostInit` says that
the program had called `MPI_Init` itself, `registered` and `ran` are history.

Dropping a reference (`Release`) starts the destructor when it was the last one.
The destructor is a loop, and a callback is any code of the program, which may
create, copy and drop views. So the call stack is a variable, `frames`: its top
is in the loop (`DtorCall`, `DtorFinalize`, `DtorEnd`) or inside a callback, in
which case every operation of the program is enabled, and `DtorPop` ends the
callback. A callback may hold a view by value (`holds`); popping it
releases that view, and may start another destructor on top.

A method that throws without changing anything (a null view, `at` out of
range) is a disabled action. `status` records how the process was lost:
terminated by an exception in a destructor, or an MPI error (a call after
finalization, a reduction on `MPI_COMM_NULL`).

`UseCaptured` is the access a callback has to the view it captured: it can copy
it to a variable of the program.

**`MpiLifetime`** is the abstract specification of that: MPI has an owner (the
program or the library), a set of views that alias the owner's resources, and a
flag that says a callback keeps one too. `LFinalize` is enabled only when nobody
does. `RuntimeView` implements it (`LifetimeKept`, and with fairness
`LifetimeEnds`): `held` is the set of views of the starter's PIMPL, `captured`
is whether a callback that has not been popped holds one.

**`Collectives`** is what `CommPP` promises: a rank enters a call with its
contribution and comes back with an optional, whose value is defined at once by
what all ranks contributed. A rank that gets a value has waited for all of them.

**`CommPP`** is how it is done on `N` ranks. `posted[r]` is the sequence of MPI
calls rank `r` has made; MPI pairs them by position (`SameCall`). `gather` and
`reduce` make one call. `gatherv` makes two: the sizes, then the data, and in
between the root adds up displacements and allocates its buffer
(`SizesReturned`). A rank that only sends may return before the others have
joined, or not: MPI leaves it open, so the model does. Bytes are tokens that name
the rank, the call and the position they come from, so that a result shows where
every byte belongs. An `int` is `ToInt`, with `MaxInt` as a parameter, and the bytes of a
rank may be any number. All that is counted in an `int` is: the buffer of a serialized
`gather`, the total of a `gatherv`, and what a rank itself sends (`Counted`). A count that
has become negative is rejected by MPI; one that has only become too small gets through
and what was sent is cut short (`Contribution`). The receiver of arrays does not notice;
an object that is cut short does not deserialize (`CutShort`). A rank that an exception or
MPI has stopped (`failed`) does nothing more, and the others go on for as long as they
do not need it: this is the least that a failure may do. By default MPI aborts all of them.
`Mine` stands for the call `rt.my_resource_set().ram().gather(x)`, where every
rank passes itself as the root. Preconditions that the documentation states are
kept: the same program on all ranks, and for `gather` and `reduce` the same
length on all ranks.

**`Communicator`** is the handle in one process. `ptr` and `heap` are the PIMPLs,
an object caches the communicator, the rank and the size it had when it was
wrapped (`Inspected`; a null handle is not wrapped); `mpi` is what MPI knows of every handle, and handles that
are freed are used again (`FreeComm`, `CreateComm`). The program may free what no
CommPP wraps. `error` is the first call that MPI would have aborted on. `Gather`
stands for all four gathers, which check for a PIMPL, `Reduce` for both reductions,
which do not, and `Compare` for `==` and `!=`, which ask MPI only if both sides have
a PIMPL. MPI may be handed several handles at once, hence the set `comms` in `error`.

**`ValueSemantics`** is what copy, move, swap and destruction of a class mean, and
**`Pimpl`** is how they are written: a `unique_ptr` per variable, objects on a heap.
Every class of the library has these lines, so `BinaryBuffer`, `Communicator`
and `Logger` instantiate `Pimpl` for their objects; the map names `Logger`'s for
`Pimpl`, and the declarations of `RAM` for `ValueSemantics`.

**`LoggerSpec`** is the documented logger: name, sink, inclusive threshold; messages
appear in the sink in the order of the calls. **`Logger`** is the implementation:
PIMPLs of three classes around a `spdlog::logger`, whose levels are integers, and
the comparison that each class overrides. `Kinds` lists the classes in use; a
`SpdlogPIMPL` that is no derived class may wrap any sink.

**`Resources`** has the resource sets of one process: the map of each
`RuntimeViewPIMPL` (`Entries`) and the program's copies (`Sets`) in one function
`set`, the loggers they point to on a heap of their own, since two sets may point to
one, and the RAMs that the program copied out. A view inserts what is missing when it
is asked (`Instantiate`); the program can write through the non-const reference
that `logger()` returns.

**`BinaryBuffer`** has buffers, the objects that hold their bytes, and views, which
are a pointer and a length. `shows` is history: which buffer the documentation lets
the program read through a view, which moves and swaps carry over and assignments
end. A step may only write through a view that shows something.

**`Task`** has the caller's objects, which change, are moved from and die, and the
tasks. An argument is passed as one of the four types that `make_task` can deduce
(`Types`), which decides who holds it (`hold_by_value`), and one object may be passed
any number of times: in `f(x, std::move(x))` the second argument empties what the first
aliases (`GivenAway`). Reading a dead object gives `Dead`. A call reads the arguments, may write through those passed as `T&`, may throw,
and returns its first argument or nothing, the one kind of result by which a caller
can tell where the result came from. `any` is the result of the last run, which `Unwrap`
takes out, next to the value that the caller is owed (`Owed`). A move of a `TaskWrapper` is one
of a `std::function`, which leaves its source unspecified: empty, or with a copy of a target
that it can keep in place. A task that owns an argument is no such target, since copying it
may throw (`Owns`). `Profile` is `CPU::profile_it`, with `profile_it_`: make a task, run it,
unwrap.

The modules named `MC...` instantiate these for TLC, and those named `..._proofs`
hold the theorems.

## Runs

| Run | Module, configuration | Bounds | What it shows |
|---|---|---|---|
| `runtime_release` | `MCRuntimeView`, `RuntimeView_release.cfg` | 2 views, 2 PIMPLs, 2 user callbacks each, 2 ranks | lifetimes (`LiveIffReferenced`, `OneDestructorEach`), MPI ownership (`OneOwner`, `StarterKeepsMpi`), `LeaksOnlyCycles`, order of callbacks (`CalledOnceInReverse`) and MPI's state when called (`StarterTearsDownUnderMpi`), resource sets on demand, and the refinement of `MpiLifetime` (`LifetimeKept`) |
| `runtime_teardown` | `MCRuntimeView`, `RuntimeView_teardown.cfg` | 2 views, 2 PIMPLs, 1 user callback each | `TeardownCompletes` and `LifetimeEnds`, under fairness |
| `second_view` | `MCRuntimeView`, `RuntimeView_second_view.cfg` | 2 views, 2 PIMPLs | violation: a later view does not keep MPI up |
| `not_a_member` | `MCRuntimeView`, `RuntimeView_not_a_member.cfg` | the same | violation: `my_resource_set` does not throw outside the communicator |
| `collective_results` | `MCCommPP`, `CommPP_results.cfg` | 3 ranks, 1 call, `MaxInt` = 3, and 0, 1, 3, 5 or 9 bytes of each rank | refinement of `Collectives`; only an overflow makes an operation fail, and nobody gets a value from a call that another rank failed in (`NoValueFromAFailedCall`) |
| `collective_return` | `MCCommPP`, `CommPP_return.cfg` | 3 ranks, 2 calls, 0 or 1 byte | pairing of calls and their results; every rank returns, under fairness, but ranks that all name themselves as root hang |
| `communicator` | `MCCommunicator`, `Communicator.cfg` | 2 CommPPs, 3 handles, 3 ranks | the cache is true, equal handles agree, who can abort |
| `logger` | `MCLogger`, `Logger.cfg` | 2 loggers, 3 classes, 4 severities, 2 names, 2 files, 1 message | refinement of `LoggerSpec`; critical messages are logged; comparison is an equivalence; equal loggers share a sink |
| `resources` | `MCResources`, `Resources.cfg` | 1 PIMPL at a time, 2 copies, 2 RAMs, 2 ranks | who shares a logger, what comparison tells, `is_mine`, stable references, a RAM's root exists |
| `binary_buffer` | `MCBinaryBuffer`, `BinaryBuffer.cfg` | 2 buffers, 2 views, 3 objects, 0, 2 or 4 bytes | ownership, validity of views, comparison, refinement of `ValueSemantics`, arrays survive the conversion to bytes and back |
| `task` | `MCTask`, `Task.cfg` | up to 2 arguments, 2 objects, 1 task in 2 wrappers, 2 runs | what a call is made with; arguments serve one run; results; profiling |
| `task_lifetime` | `MCTask`, `Task_lifetime.cfg` | 1 argument, 1 task | violation: a const rvalue is dead when the task runs |

Why the bounds are enough. Two PIMPLs are what a destructor nested in another
needs, in both roles: either can be the starter, and hold a view of the other in a
callback. Deeper nesting repeats this; the theorems about `IInv` hold for any depth. Two views
are enough for every assignment and swap; captured views add two more references
to each PIMPL. Two user callbacks on top of `MPI_Finalize` distinguish a stack from a queue and from a
set. Two calls in a row let a sender be a whole operation ahead of its root,
and a wrong pairing in the first show in the second. Three ranks have a root
on either side of the others, displacements that are not zero, and
rooted calls where one sender has left and another has not come; and they overflow
twice around (`MaxInt` = 3 and three contributions of 3 bytes wrap to a positive
number, which is the dangerous case). A single contribution of 5 bytes is counted as -3, and
one of 9 bytes as 1: the two things that may become of a size that no `int` holds. PIMPLs and callback functions
are interchangeable in safety runs (`Symmetry`); liveness is checked without.
Deadlock is not an error in the runs of `RuntimeView`, `CommPP` and `Communicator`: a
process may end with its program done, terminated, aborted or hung in MPI, and the
properties say which of these is right; nor in that of `BinaryBuffer`, where it does
not arise.

In the modules with value semantics an operation has at most two operands, so two
variables show every alias; one object more than variables is what an assignment needs
that clones before it frees. Two names and two files are what comparison can tell
apart, and `ComparisonIsSound` compares both loggers with every PIMPL there could be, not
only with each other. The four severities are the two ends of the order, the
default, and the one that spdlog names differently. Two ranks, seen from the second, make every key
of the map: this process's, another's, and `MPI_PROC_NULL`. Four bytes are two
elements of two bytes each, the least where the step from element to element matters. Three
processes and three handles (the world and two more) make groups of every size
with and without this process. A second run of a task shows what the first
left. Two arguments pass one object in every combination of two ways, in both orders, and two
different objects; two wrappers are what a move needs, back and forth, with a copy left behind
or not. A second task would have its own
arguments, and meets the first only where its wrapper is overwritten, which drops that task
as `Destroy` does; the theorems hold for any number of tasks.

Bounds by name: `Pimpls` (PIMPLs ever allocated) and `MaxCallbacks` (callbacks
on one PIMPL) in `RuntimeView`; `MaxCalls` (calls in the program) and `MaxInt` in
`CommPP`; `Objects` (PIMPLs, or loggers, at a time) in `Pimpl` and the modules that use
it and in `Resources`; `Runtimes` in `Resources`; `MaxWritten` (messages) in `Logger`;
`Sizes` (numbers of bytes) in `BinaryBuffer`; `MaxArgs`, `MaxRuns` and `MaxMade` in `Task`.

Fairness. `RuntimeView!FairSpec` is weak fairness of the destructor's steps: the
destructor is an ordinary function call in the thread that dropped the last
reference, so it proceeds as soon as the callback it is in returns; that
callbacks return is assumed. `CommPP!FairSpec` is weak fairness of each rank's
next step, except that MPI need not let a sender go before every rank has joined
the call. The library itself has no scheduler.

### Disagreements between the code and its documentation

- The class comment (`runtime_view.hpp:45-50`) says to hold on to a
  `RuntimeView` to keep MPI from being finalized. Only copies of the *first*
  view do that. A view constructed later has its own PIMPL
  (`runtime_view.cpp:33-43`), and MPI is finalized under it. Run `second_view`:
  construct `v1`, construct `v2`, destroy `v1`. With `StarterKeepsMpi` this
  delimits what does hold: MPI is up while a view of the *starter's* PIMPL is held.
- `my_resource_set` documents `std::out_of_range` when the process is not part
  of the view (`runtime_view.hpp:359`). It returns the resource set of rank
  `MPI_PROC_NULL` (`runtime_view.cpp:103-105`). Run `not_a_member`: construct a
  view of `MPI_COMM_NULL` and ask.
- `ArgumentWrapper` documents that what is passed by value or rvalue reference has its
  lifetime prolonged (`argument_wrapper.hpp:29-31`, 68-70). A const rvalue is deduced
  as `const T`, which counts as neither (105-106), and is aliased. Run
  `task_lifetime`: make a task from a const temporary and run it later. With
  `profile_it` the temporary is still alive (`ProfilingIsCalling`).

Four more follow from how comparison and copying are written; the modules
say what holds instead, and no run is spent on showing what does not:

- `Logger::operator==` documents that logging to either of two equal loggers has the
  same result (`logger.hpp:290-293`). The level is not compared (`spdlog.cpp:80-88`,
  whose comment says that the author could not make levels differ): copy a logger and
  set the severity of the copy. `EqualLoggersShareSink`, a part of `ComparisonIsSound`, is the half that holds.
- The copy constructor of `ResourceSet` documents copies that can be used
  independently (`resource_set.hpp:104-108`). They share the logger
  (`resource_set_pimpl.hpp:78-80`). `OnlyCopiesShareALogger` says how far it goes.
- `ResourceSetPIMPL::operator==` documents that communicator, rank and hardware
  decide (`resource_set_pimpl.hpp:88-91`). The logger does too (169-177).
  `EqualSetsAgree` is the direction that holds.
- `RAM::operator==` documents the same physical RAM of the same resource set
  (`ram.hpp:211-213`). Only the sizes are compared (`ram.cpp:62-70`), which are all 10.

`docs/source/developer/design/runtime_view.rst:142-149` says that gathering to
one's own RAM deadlocks; run `collective_return` confirms it (`OwnRootsHang`).

Where the documentation is silent, two more things are worth knowing. `profile_it` is not
quite a call: in `f(x, std::move(x))` a plain call binds two references to a full `x`, while
wrapping has emptied `x` before `f` sees it through the first (`ProfilingIsCalling` says
that this is the only difference). And arrays of more bytes than an `int` holds, if the count
does not come out negative, are gathered and reduced without an error, cut short (`Outcome`:
`gather` and `reduce` leave the rest of the buffer unwritten, `gatherv` has none).

## Proofs

Every safety property that a passing run checks, invariant, action property or
refinement, is also a theorem: the runs show it on a small instance, the theorems for any
number of views, PIMPLs, ranks, buffers, tasks and so on. The theorems assume what the
`ASSUME` of each module says of its constants, which TLC evaluates on every run:

| Assumption | What it says, beyond the types of the constants |
|---|---|
| `RuntimeView!ConstantsAssumption` | `NoPimpl` is no PIMPL, `"MPI_Finalize"` no user function |
| `Collectives!CollectivesAssumption` | there is a rank; "no root" and "every rank itself" are no ranks; `MaxInt` and the lengths are natural numbers, any of them |
| `Communicator!CommunicatorAssumption` | ranks are finite, this process is one; null and free are no handle, object or state |
| `Resources!ResourcesAssumption`, `PlacesAssumption` | the null logger and a free place are no loggers; the program's variables are not what a view keeps |
| `Logger!LoggerAssumption`, `MarkersAssumption` | the library's three kinds of loggers and its six severities; null and free are no objects, PIMPLs or loggers |
| `BinaryBuffer!BufferAssumption` | elements have a width; null and free are no objects or bytes |
| `Task!TaskAssumption` | moved-from, dead and null are no values |
| `Pimpl!PimplAssumption` | null is neither an object nor a state, a free object has no state; the assumptions of `Logger` and `BinaryBuffer` imply it |

Sets of PIMPLs, views, names or objects need not be finite.

### RuntimeView

| Theorem of `RuntimeView_proofs` | Property |
|---|---|
| `Invariance` | `IInv`, the inductive invariant |
| `TypeCorrect` | `TypeOK` |
| `UseCountIsRight` | `LiveIffReferenced` |
| `DestructorsRunOnce` | `OneDestructorEach` |
| `MpiHasOneOwner` | `OneOwner` |
| `StarterKeepsMpiUp` | `StarterKeepsMpi` |
| `TeardownUnderMpi` | `StarterTearsDownUnderMpi` |
| `ResourceSetsRight` | `ResourceSetsOfCommunicator` |
| `CallbacksInReverse` | `CalledOnceInReverse` |
| `OnlyCyclesLeak` | `LeaksOnlyCycles` |
| `LifetimeRefined` | `LifetimeKept`: `RuntimeView` implements `MpiLifetime` |

`IInv` has two halves. `RefStep` is about references: a step drops at most
one reference, and the PIMPL it was to is pushed on `frames` and becomes
`dying` in the same step that leaves it unreferenced. It needs
`OneDestructorEach` to know that the PIMPL was not on the stack before, and
`CallHasCallback` to know that a returning callback is still there to be
popped (nested destructors cannot have touched it, each works on its own stack).
`MpiStep` is about MPI. `StarterKeepsMpi` is not inductive: that MPI is not
finalized while the starter lives follows from `MPI_Finalize` being
only on the starter's stack, at the bottom (`FinalizeAtBottom`), so that it is
called last, and from the starter having something on its stack, and MPI
being up, until then (`StarterStack`). `OneOwner` is what rules out that
someone else finalizes; `UnbornIsBlank` gives a new PIMPL a clean history.
`TypeStep` needs `CallHasCallback` because popping an empty stack is undefined.

`CalledOnceInReverse` is inductive relative to `IInv` and `NothingCalledYet` (what is
alive has called nothing). The list lemma is `UndoneAppend`: moving the last of the
stack to the history leaves "stack, then history backwards" as it was. `IInv` says that a
PIMPL whose destructor runs is no longer referenced, so nothing is pushed in between;
and the top of `frames` is the only destructor that is in its loop.

`LeaksOnlyCycles` says that whatever is left is kept by a PIMPL that keeps itself.
"Keeps" is the transitive closure of "a callback captured a view", which
`Keeps` writes as being in every set closed under captures: this is the form one can prove
about, and TLC found it equal to `Relation!TransitiveClosure` in every reachable state
of `runtime_release`. The argument: without views of the program, what lives is captured by
something; that is not dead, since the dead have called and popped all callbacks (`DeadIsEmpty`),
so it lives too; hence there is an infinite walk backwards. But only finitely many PIMPLs
were made so far (`BornStep`), so the walk comes around (`LeakHasCycle`). The walk is
`IsWellFoundedOn`'s definition negated, its coming around the pigeonhole principle.

The refinement goes by cases of the action: an operation on views maps to one on `held`
only, since a view denotes the
starter's PIMPL before and after or changes sides (`LHold`); the last user callback that holds
such a view is `LReleaseCaptured`; the pop of
`MPI_Finalize` is `LFinalize`, whose guard is what `IInv` is needed for: a dying
starter has no reference left (`LiveIffReferenced`), and `MPI_Finalize` is called with
nothing of the program's above it (`FinalizeAtBottom`).

### CommPP

| Theorem of `CommPP_proofs` | Property |
|---|---|
| `Invariance`, `TypeCorrect` | `IInv`; `TypeOK` |
| `CallsMatchAlways` | `CallsMatch` |
| `ResultsRightAlways` | `ResultsRight` |
| `OwnRootsHangAlways` | `OwnRootsHang` |
| `FailsOnlyWhenTooBigAlways` | `FailsOnlyWhenTooBig` |
| `NoValueFromAFailedCallAlways` | `NoValueFromAFailedCall` |
| `Refinement` | `CSpec`: `CommPP` implements `Collectives` |

The inductive invariant is local to a rank (`Local(r)`): what rank `r` has posted is
determined by the program and its place in it. Call `k` ends at position `Offset(k)` of its
MPI calls, one for every call plus one for every `gatherv` so far, and the positions hold
`SizesCall` and `DataCall` (`InStep`). Two ranks' posts at one position thus belong to the
same call, by `OffsetMonotone` and `OffsetCover`: this is `CallsMatch`, for any program,
and it is what lets a root trust what it receives. `LaidOut` is what the root has computed
between the two phases, and `Accepted` that a rank which waits for data has sent a count that
MPI takes.

That nobody gets a value from a call that failed rests on two parts of `IInv`. `Together`: when
some rank has a value, all have posted the data of that call, so a rank that failed in it
failed afterwards. `Excused`: whoever fails after posting the data fails because the call
`Breaks`, by an overrun or by an object that was cut short, which is the same for every
receiver since it depends on the program alone; and `Answered`: no receiver of such a
call has a value.

The other half is arithmetic on the buffer. The displacements are partial sums that are defined
from rank to rank (`DisplacementsDef`); the ranks' slices are disjoint, fit and cover the buffer
(`SlicesAreDisjoint`, `SlicesFit`, `SlicesCover`), so that writing and cutting it are inverse
(`SlicesOfBuffer`) and the buffer is the concatenation (`FlattenIsBuffer`). `TotalFacts` says
what an `int` sum is worth: it is right when the bytes fit. `Counted` is never more than what
it counts when it is not negative, so a buffer sized by the program has room for what was sent. `ValueIsOutcome` puts this
together: what the root makes of what it received is what `Collectives` says at once.
In the refinement a rank's first MPI call is its entry, and its last step its return, or its
failure; that a rank which gets a value has waited for all is that all of them
have posted position `Offset(k)`.

### Handles and values

| Theorem | Module | Property |
|---|---|---|
| `Ownership`, `Refinement` | `Pimpl_proofs` | `OneOwnerEach`, `HasValueSemantics` |
| `Invariance` | `BinaryBuffer_proofs` | `OInv` |
| `ViewsStayValid` | `BinaryBuffer_proofs` | `ViewsFollowTheirBytes` |
| `BuffersOwnTheirBytes` | `BinaryBuffer_proofs` | `OneOwnerEach` |
| `BytesAreAll` | `BinaryBuffer_proofs` | `OnlyBytesCount` |
| `Refinement` | `BinaryBuffer_proofs` | `BytesHaveValueSemantics` |
| `CacheStaysTrue`, `EqualHandlesStayAlike` | `Communicator_proofs` | `CacheIsTrue`, `EqualHandlesAgree` |
| `AbortsOnlyInNullReduce` | `Communicator_proofs` | `OnlyNullReducesAbort` |
| `Invariance` | `Logger_proofs` | `LInv` |
| `CriticalGetsThrough` | `Logger_proofs` | `CriticalAlwaysLogged` |
| `ComparisonSound` | `Logger_proofs` | `ComparisonIsSound` |
| `Refinement` | `Logger_proofs` | `KeepsItsPromise` |
| `Invariance` | `Resources_proofs` | `IInv` |
| `OneIsMineAlways`, `EqualSetsAgreeAlways` | `Resources_proofs` | `OneIsMine`, `EqualSetsAgree` |
| `OnlyCopiesShareALoggerAlways` | `Resources_proofs` | `OnlyCopiesShareALogger` |
| `RamSendsToARankAlways` | `Resources_proofs` | `RamSendsToARank` |
| `EntriesAreStableAlways` | `Resources_proofs` | `EntriesAreStable` |
| `Invariance` | `Task_proofs` | `IInv` |
| `OwnedArgumentsArriveAlways`, `UsedUpByOneRunAlways` | `Task_proofs` | `OwnedArgumentsArrive`, `UsedUpByOneRun` |
| `ProfilingIsCallingAlways`, `ResultsComeBackAlways` | `Task_proofs` | `ProfilingIsCalling`, `ResultsComeBack` |
| `LvaluesAreAliasedAlways` | `Task_proofs` | `LvaluesAreAliased` |

*Pimpl.* `TypeOK /\ OneOwnerEach` (`PInv`) is inductive; the refinement needs it to know that
a freed object was nobody else's. No run is of `Pimpl` alone: TLC checks it where it is
instantiated. Its lemmas come in pairs: `MoveStep` and the like keep `PInv`, and `MoveSeen` and
the like say what the operation makes of the function `Seen` from variables to the values that they
hold. `Logger_proofs` and `BinaryBuffer_proofs` instantiate `Pimpl_proofs` and use nothing else
of the heap.

*BinaryBuffer.* `OInv` is `PInv` with the types of views and `ViewsFollowTheirBytes`, which is
inductive with the ownership of objects: a write goes to one object, and the length of an object
never changes. In the refinement a write maps to an assignment of the one buffer the view shows,
since no other buffer owns the object (`WriteHeld`). `BytesAreAll` needs that
the elements of an array are found again in the concatenation of their bytes (`FlattenElements`).

*Communicator.* A true cache is inductive; that equal handles agree follows from it and
what MPI says of groups, `OnlyNullReducesAbort` from the guards of `Gather` and `Compare` and
the fact that a wrapped handle is in use.

*Logger.* `LInv` adds to `PInv` that what is on the heap was built by the library: its level is
one that a severity maps to, and its sink one of its class. The first is why no setting silences
critical messages, the second is why equal loggers of one class and name share a sink. In the refinement
the severity that a level stands for is read back (`SeverityOf`), which has a meaning
because the mapping keeps the order.

*Resources.* The sets of a view are at their key, made for it and its communicator
(`EntriesInPlace`, `SetsMade`), and their loggers are not free (`LoggersKept`), so that a
new logger is nobody's yet: this is why `OnlyCopiesShareALogger` is kept.

*Task.* `Holds` says what an argument is worth after some runs: owned, as it was given, until the
first run, moved-from afterwards; aliased, at the caller's object. An argument whose object was given
away in the same call before is moved-from from the start. `UsedUpByOneRun` needs in addition
that one wrapper has a task that owns anything (`OneWrapperEach`) and that a task that has not run
has used nothing up (`NotUsedYet`): a moved task may be run in two places only if it owns nothing.
`ResultsComeBack` needs that a result on its way is already what the caller is owed (`AnyRight`);
the first argument of a call is the one that nothing before it can have emptied (`BoxedFacts`).

### Beyond the proofs

Only model-checked are the liveness properties, which the proof system does not reach:
`TeardownCompletes`, `LifetimeEnds` and `AllReturn`; and the three violations.

The library's induction theorems cannot be used here, since they take an operator. Where a
proof needs induction it is over a set: a set of numbers with 0 and all successors is
all of `Nat` (`InductionOnSet`), or a set of numbers has a least element (`Smallest`), and a
function that is computed from rank to rank exists because its finite beginnings do
(`RecursionOnRanks`). So what `Displacements`, `Total` and the concatenations
compute is proved for every input, not only checked on small ones.

Three changes made the modules fit for proof and left the runs as they were: `Resources` and `Logger`
state that null and free are no values (`PlacesAssumption`, `MarkersAssumption`), and
`LeaksOnlyCycles` is stated with `Keeps`.

## Not modelled

Allocation failures. Assignment of an object to itself, which copies guard against
(`this != &rhs`) and which leaves a `unique_ptr` as it is. More than one thread in a process (the library has no locks
and promises nothing). What a reduction computes beyond "all contributions to that
position". Lengths that break the documented preconditions of `gather` and `reduce`.
Serialization: an object is the bytes it is turned into. MPI's error handlers
other than the default, which aborts. Formatting of log messages, and what
`CPU::profile_it` reads from the clock and the energy counter. The mappings of types in
`mpi_data_type.hpp` and `mpi_op.hpp`, the archive wrapper, which forwards to cereal,
and the Python bindings: they keep no state.

## Plan

1. A composition of `RuntimeView` on several ranks with `CommPP`: collective
   teardown, where `MPI_Finalize` waits for all ranks. Its safety half follows
   from `StarterTearsDownUnderMpi` and `CallsMatch`, which are proved for each part.
2. Theorems: the safety that the liveness properties rest on (a destructor that has
   started can always take its next step, short of ENABLED), and the facts behind the
   three violations (for instance, that a second view is the only way to lose MPI).
