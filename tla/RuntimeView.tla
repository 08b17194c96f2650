----------------------------- MODULE RuntimeView -----------------------------
(****************************************************************************)
(* The life of the MPI library inside one process that uses RuntimeView.    *)
(*                                                                          *)
(* A RuntimeView is a shared_ptr to a RuntimeViewPIMPL.  The PIMPL that     *)
(* found MPI uninitialized is the "starter": it put MPI_Finalize at the     *)
(* bottom of its callback stack.  When the last shared_ptr to a PIMPL goes, *)
(* its destructor calls and pops the callbacks one by one.  A callback is a *)
(* std::function, so it may itself hold a RuntimeView by value, and what it *)
(* does while it is called is arbitrary program code: it may create, copy   *)
(* or drop views, and drop the last view of another PIMPL, whose destructor *)
(* then runs nested in the first.  "frames" is that call stack.             *)
(****************************************************************************)
EXTENDS Integers, SequencesExt

CONSTANTS
  Views,         \* the program's variables of type RuntimeView
  Pimpls,        \* the PIMPL objects that can be allocated (bounds a run)
  NoPimpl,       \* the null shared_ptr
  Functions,     \* the user's callback functions
  MaxCallbacks,  \* bound: user callbacks registered with one PIMPL
  CaptureViews,  \* may a callback capture a RuntimeView by value?
  MayThrow,      \* may a callback throw?
  Size,          \* ranks of MPI_COMM_WORLD
  Me             \* this process's rank in MPI_COMM_WORLD

ASSUME ConstantsAssumption ==
  /\ NoPimpl \notin Pimpls
  /\ "MPI_Finalize" \notin Functions
  /\ MaxCallbacks \in Nat
  /\ CaptureViews \in BOOLEAN
  /\ MayThrow \in BOOLEAN
  /\ Size \in Nat \ {0}
  /\ Me \in 0 .. Size - 1

VARIABLES
  status,      \* what became of the process
  mpi,         \* the MPI library, process-wide
  hostInit,    \* the program called MPI_Init itself
  view,        \* m_pimpl_ of every RuntimeView
  phase,       \* where each PIMPL is in its life
  starter,     \* m_did_i_start_mpi
  comm,        \* m_comm
  sets,        \* the keys of m_resource_sets_
  callbacks,   \* m_callbacks_final_, top of the stack last
  frames,      \* the destructors that are running, innermost last
  registered,  \* history: every callback pushed, in order
  ran          \* history: every callback called, in order

pimplVars == <<starter, comm, sets>>
history   == <<registered, ran>>
vars == <<status, mpi, hostInit, view, phase, starter, comm, sets, callbacks,
          frames, registered, ran>>

-----------------------------------------------------------------------------
\* MPI_PROC_NULL, the rank CommPP reports for MPI_COMM_NULL: no real rank.
ProcNull == -1
Ranks    == 0 .. Size - 1
Comms    == {"MPI_COMM_WORLD", "MPI_COMM_NULL"}

\* Mutant: a process outside the communicator takes the first rank past its end.
CommMePastEnd(c) == IF c = "MPI_COMM_NULL" THEN Size ELSE Me

\* CommPP::me and CommPP::size
CommMe(c)   == IF c = "MPI_COMM_NULL" THEN ProcNull ELSE Me
CommSize(c) == IF c = "MPI_COMM_NULL" THEN 0 ELSE Size

\* A callback on the stack: the function, and the PIMPL a captured view holds.
Callback == [fn : Functions \cup {"MPI_Finalize"}, holds : Pimpls \cup {NoPimpl}]
FinalizeCallback == [fn |-> "MPI_Finalize", holds |-> NoPimpl]

MpiStates == {"uninitialized", "initialized", "finalized"}
Phases    == {"unborn", "live", "dying", "dead"}

\* What the history keeps of a call: the callback, and MPI's state at the time.
Called == [entry : Callback, mpi : MpiStates]

Frame == [pimpl : Pimpls, at : {"loop", "call"}]
Top   == Last(frames)

\* Program code runs when no destructor is running or inside a callback.
Running ==
  /\ status = "running"
  /\ frames # <<>> => Top.at = "call"

-----------------------------------------------------------------------------
\* shared_ptr's use count is not zero, given the views vw and callbacks cb.
Referenced(p, vw, cb) ==
  \/ \E v \in Views : vw[v] = p
  \/ \E q \in Pimpls : \E i \in DOMAIN cb[q] : cb[q][i].holds = p

\* Mutant: views held by callbacks do not count.
ReleaseIgnoringCaptures(p, vw, cb, fr) ==
  IF p # NoPimpl /\ \A v \in Views : vw[v] # p
  THEN /\ phase'  = [phase EXCEPT ![p] = "dying"]
       /\ frames' = Append(fr, [pimpl |-> p, at |-> "loop"])
  ELSE /\ phase'  = phase
       /\ frames' = fr

\* Mutant: every release destroys.
ReleaseAlways(p, vw, cb, fr) ==
  IF p # NoPimpl
  THEN /\ phase'  = [phase EXCEPT ![p] = "dying"]
       /\ frames' = Append(fr, [pimpl |-> p, at |-> "loop"])
  ELSE /\ phase'  = phase
       /\ frames' = fr

\* One shared_ptr to p has just gone, the rest are in vw and cb: if it was the
\* last, ~RuntimeViewPIMPL starts on top of the call stack fr.
Release(p, vw, cb, fr) ==
  IF p # NoPimpl /\ ~Referenced(p, vw, cb)
  THEN /\ phase'  = [phase EXCEPT ![p] = "dying"]
       /\ frames' = Append(fr, [pimpl |-> p, at |-> "loop"])
  ELSE /\ phase'  = phase
       /\ frames' = fr

\* Mutant: the overwritten pointer is never released.
RebindWithoutRelease(vw, old) ==
  /\ view' = vw
  /\ UNCHANGED <<status, mpi, hostInit, phase, pimplVars, callbacks, frames, history>>

\* The program's views become vw, and the shared_ptr to "old" is dropped.
Rebind(vw, old) ==
  /\ view' = vw
  /\ Release(old, vw, callbacks, frames)
  /\ UNCHANGED <<status, mpi, hostInit, pimplVars, callbacks, history>>

Init ==
  /\ status     = "running"
  /\ mpi        = "uninitialized"
  /\ hostInit   = FALSE
  /\ view       = [v \in Views |-> NoPimpl]
  /\ phase      = [p \in Pimpls |-> "unborn"]
  /\ starter    = [p \in Pimpls |-> FALSE]
  /\ comm       = [p \in Pimpls |-> "MPI_COMM_NULL"]
  /\ sets       = [p \in Pimpls |-> {}]
  /\ callbacks  = [p \in Pimpls |-> <<>>]
  /\ frames     = <<>>
  /\ registered = [p \in Pimpls |-> <<>>]
  /\ ran        = [p \in Pimpls |-> <<>>]

-----------------------------------------------------------------------------
(* The program around the library. *)

\* The program starts MPI itself, before or without the library.
HostInit ==
  /\ Running
  /\ mpi = "uninitialized"
  /\ mpi' = "initialized"
  /\ hostInit' = TRUE
  /\ UNCHANGED <<status, view, phase, pimplVars, callbacks, frames, history>>

\* It finalizes the MPI it started, whether or not views are still around.
HostFinalize ==
  /\ Running
  /\ hostInit /\ mpi = "initialized"
  /\ mpi' = "finalized"
  /\ UNCHANGED <<status, hostInit, view, phase, pimplVars, callbacks, frames, history>>

\* A call of MPI that the library does not survive: errors are fatal.
Abort(why) ==
  /\ status' = why
  /\ UNCHANGED <<mpi, hostInit, view, phase, pimplVars, callbacks, frames, history>>

-----------------------------------------------------------------------------
(* Construction, assignment and destruction of views. *)

\* Mutant: the starter does not register MPI_Finalize.
NewPimplUnregistered(p, c, starts) ==
  /\ phase'   = [phase   EXCEPT ![p] = "live"]
  /\ starter' = [starter EXCEPT ![p] = starts]
  /\ comm'    = [comm    EXCEPT ![p] = c]
  /\ sets'    = [sets    EXCEPT ![p] = {CommMe(c)}]
  /\ UNCHANGED <<callbacks, history>>

\* Mutant: the PIMPL's own resource set waits until it is asked for.
NewPimplUnpopulated(p, c, starts) ==
  LET stack == IF starts THEN <<FinalizeCallback>> ELSE <<>>
  IN  /\ phase'      = [phase      EXCEPT ![p] = "live"]
      /\ starter'    = [starter    EXCEPT ![p] = starts]
      /\ comm'       = [comm       EXCEPT ![p] = c]
      /\ callbacks'  = [callbacks  EXCEPT ![p] = stack]
      /\ registered' = [registered EXCEPT ![p] = stack]
      /\ UNCHANGED <<sets, ran>>

\* A fresh PIMPL p around communicator c.
NewPimpl(p, c, starts) ==
  LET stack == IF starts THEN <<FinalizeCallback>> ELSE <<>>
  IN  /\ phase'      = [phase      EXCEPT ![p] = "live"]
      /\ starter'    = [starter    EXCEPT ![p] = starts]
      /\ comm'       = [comm       EXCEPT ![p] = c]
      /\ sets'       = [sets       EXCEPT ![p] = {CommMe(c)}]
      /\ callbacks'  = [callbacks  EXCEPT ![p] = stack]
      /\ registered' = [registered EXCEPT ![p] = stack]
      /\ UNCHANGED ran

\* Mutant: every PIMPL believes that it started MPI.
ConstructAlwaysStarts(v, c) ==
  /\ Running
  /\ view[v] = NoPimpl
  /\ ~(mpi = "finalized" /\ c = "MPI_COMM_WORLD")
  /\ \E p \in Pimpls :
       /\ phase[p] = "unborn"
       /\ NewPimpl(p, c, TRUE)
       /\ view' = [view EXCEPT ![v] = p]
  /\ mpi' = IF mpi = "uninitialized" THEN "initialized" ELSE mpi
  /\ UNCHANGED <<status, hostInit, frames>>

\* RuntimeView(argc, argv, comm).  MPI_Initialized stays true after
\* MPI_Finalize, so MPI is started at most once.
Construct(v, c) ==
  /\ Running
  /\ view[v] = NoPimpl
  /\ ~(mpi = "finalized" /\ c = "MPI_COMM_WORLD")
  /\ \E p \in Pimpls :
       /\ phase[p] = "unborn"
       /\ NewPimpl(p, c, mpi = "uninitialized")
       /\ view' = [view EXCEPT ![v] = p]
  /\ mpi' = IF mpi = "uninitialized" THEN "initialized" ELSE mpi
  /\ UNCHANGED <<status, hostInit, frames>>

\* The same after MPI_Finalize: CommPP(comm) asks a finalized MPI for the rank.
ConstructTooLate(v) ==
  /\ Running
  /\ view[v] = NoPimpl
  /\ mpi = "finalized"
  /\ Abort("used_after_finalize")

\* Copy construction and copy assignment.
CopyAssign(v, w) ==
  /\ Running
  /\ v # w
  /\ Rebind([view EXCEPT ![v] = view[w]], view[v])

\* Move construction and move assignment leave the source null.
MoveAssign(v, w) ==
  /\ Running
  /\ v # w
  /\ Rebind([view EXCEPT ![v] = view[w], ![w] = NoPimpl], view[v])

Swap(v, w) ==
  /\ Running
  /\ v # w
  /\ Rebind([view EXCEPT ![v] = view[w], ![w] = view[v]], NoPimpl)

\* ~RuntimeView
Destroy(v) ==
  /\ Running
  /\ view[v] # NoPimpl
  /\ Rebind([view EXCEPT ![v] = NoPimpl], view[v])

-----------------------------------------------------------------------------
(* Methods of a view.  On a null view they throw and change nothing, except *)
(* for reduce.                                                              *)

Captured == {NoPimpl} \cup (IF CaptureViews THEN {view[w] : w \in Views} ELSE {})

\* Mutant: the callback goes to the bottom, under MPI_Finalize.
StackCallbackAtBottom(v, fn, h) ==
  LET p == view[v]
      e == [fn |-> fn, holds |-> h]
  IN  /\ Running
      /\ p # NoPimpl
      /\ Len(callbacks[p]) < MaxCallbacks + (IF starter[p] THEN 1 ELSE 0)
      /\ callbacks'  = [callbacks  EXCEPT ![p] = <<e>> \o @]
      /\ registered' = [registered EXCEPT ![p] = Append(@, e)]
      /\ UNCHANGED <<status, mpi, hostInit, view, phase, pimplVars, frames, ran>>

\* stack_callback(fn), where fn may hold one RuntimeView by value.
StackCallback(v, fn, h) ==
  LET p == view[v]
      e == [fn |-> fn, holds |-> h]
  IN  /\ Running
      /\ p # NoPimpl
      /\ Len(callbacks[p]) < MaxCallbacks + (IF starter[p] THEN 1 ELSE 0)
      /\ callbacks'  = [callbacks  EXCEPT ![p] = Append(@, e)]
      /\ registered' = [registered EXCEPT ![p] = Append(@, e)]
      /\ UNCHANGED <<status, mpi, hostInit, view, phase, pimplVars, frames, ran>>

\* Resource sets are created the first time they are asked for.
Instantiate(p, ranks) ==
  /\ sets' = [sets EXCEPT ![p] = @ \cup ranks]
  /\ UNCHANGED <<status, mpi, hostInit, view, phase, starter, comm, callbacks, frames, history>>

\* size() and me() of a view
ViewSize(v) == IF view[v] = NoPimpl THEN 0 ELSE CommSize(comm[view[v]])

\* Mutant: at(i) without the bounds check.
AtUnchecked(v, i) ==
  /\ Running
  /\ view[v] # NoPimpl
  /\ Instantiate(view[v], {i})

\* at(i): out_of_range outside [0, size())
At(v, i) ==
  /\ Running
  /\ i < ViewSize(v)
  /\ Instantiate(view[v], {i})

\* my_resource_set(): the PIMPL's at(), without the bounds check
MyResourceSet(v) ==
  /\ Running
  /\ view[v] # NoPimpl
  /\ Instantiate(view[v], {CommMe(comm[view[v]])})

\* count(ram) compares the RAM of every resource set
Count(v) ==
  /\ Running
  /\ view[v] # NoPimpl
  /\ Instantiate(view[v], 0 .. ViewSize(v) - 1)

\* gather, gatherv, reduce and == call MPI on the view's communicator.  They
\* leave this process's state alone unless MPI is no longer there.
CommunicateTooLate(v) ==
  /\ Running
  /\ ViewSize(v) > 0
  /\ mpi = "finalized"
  /\ Abort("used_after_finalize")

\* reduce passes MPI_COMM_NULL to MPI_Allreduce where gather throws.
ReduceOnNull(v) ==
  /\ Running
  /\ ViewSize(v) = 0
  /\ Abort("reduced_on_null")

-----------------------------------------------------------------------------
(* ~RuntimeViewPIMPL: while(!empty()) { top()(); pop(); } *)

InDtor(p, at) ==
  /\ status = "running"
  /\ frames # <<>>
  /\ Top.pimpl = p
  /\ Top.at = at

\* Mutant: callbacks are taken from a queue.
FirstCallback(p) == Head(callbacks[p])

SetTop(at) == [frames EXCEPT ![Len(frames)].at = at]
TopCallback(p) == Last(callbacks[p])

\* top()() enters a user callback.
DtorCall(p) ==
  /\ InDtor(p, "loop")
  /\ callbacks[p] # <<>>
  /\ TopCallback(p).fn # "MPI_Finalize"
  /\ frames' = SetTop("call")
  /\ ran' = [ran EXCEPT ![p] = Append(@, [entry |-> TopCallback(p), mpi |-> mpi])]
  /\ UNCHANGED <<status, mpi, hostInit, view, phase, pimplVars, callbacks, registered>>

\* The callback that is running copies the view that it captured into v.
UseCaptured(p, v) ==
  /\ InDtor(p, "call")
  /\ TopCallback(p).holds # NoPimpl
  /\ Rebind([view EXCEPT ![v] = TopCallback(p).holds], view[v])

\* The callback returned: pop() destroys it, and the view it captured.
DtorPop(p) ==
  /\ InDtor(p, "call")
  /\ callbacks' = [callbacks EXCEPT ![p] = Front(@)]
  /\ Release(TopCallback(p).holds, view, callbacks', SetTop("loop"))
  /\ UNCHANGED <<status, mpi, hostInit, view, pimplVars, history>>

\* top()() is mpi_finalize_wrapper.
DtorFinalize(p) ==
  /\ InDtor(p, "loop")
  /\ callbacks[p] # <<>>
  /\ TopCallback(p).fn = "MPI_Finalize"
  /\ mpi' = "finalized"
  /\ callbacks' = [callbacks EXCEPT ![p] = Front(@)]
  /\ ran' = [ran EXCEPT ![p] = Append(@, [entry |-> TopCallback(p), mpi |-> mpi])]
  /\ UNCHANGED <<status, hostInit, view, phase, pimplVars, frames, registered>>

\* The stack is empty: the members are destroyed and the destructor returns.
DtorEnd(p) ==
  /\ InDtor(p, "loop")
  /\ callbacks[p] = <<>>
  /\ phase' = [phase EXCEPT ![p] = "dead"]
  /\ sets'  = [sets EXCEPT ![p] = {}]
  /\ frames' = Front(frames)
  /\ UNCHANGED <<status, mpi, hostInit, view, starter, comm, callbacks, history>>

\* An exception leaves the callback, and so the noexcept destructor.
DtorThrow(p) ==
  /\ MayThrow
  /\ InDtor(p, "call")
  /\ status' = "terminated"
  /\ UNCHANGED <<mpi, hostInit, view, phase, pimplVars, callbacks, frames, history>>

Teardown == \E p \in Pimpls : DtorCall(p) \/ DtorPop(p) \/ DtorFinalize(p) \/ DtorEnd(p)

-----------------------------------------------------------------------------
Next ==
  \/ HostInit
  \/ HostFinalize
  \/ \E v \in Views :
       \/ \E c \in Comms : Construct(v, c)
       \/ ConstructTooLate(v)
       \/ \E w \in Views : CopyAssign(v, w) \/ MoveAssign(v, w) \/ Swap(v, w)
       \/ Destroy(v)
       \/ \E fn \in Functions, h \in Captured : StackCallback(v, fn, h)
       \/ \E i \in Ranks : At(v, i)
       \/ MyResourceSet(v)
       \/ Count(v)
       \/ CommunicateTooLate(v)
       \/ ReduceOnNull(v)
  \/ \E p \in Pimpls :
       \/ DtorCall(p) \/ DtorPop(p) \/ DtorFinalize(p) \/ DtorEnd(p) \/ DtorThrow(p)
       \/ \E v \in Views : UseCaptured(p, v)

Spec == Init /\ [][Next]_vars

\* A destructor runs to its end: callbacks return, nothing else is scheduled
\* before it in the thread that released the last view.
FairSpec == Spec /\ WF_vars(Teardown)

-----------------------------------------------------------------------------
(* Properties *)

\* Types of the variables.
TypeOK ==
  /\ status \in {"running", "terminated", "used_after_finalize", "reduced_on_null"}
  /\ mpi \in MpiStates
  /\ hostInit \in BOOLEAN
  /\ view \in [Views -> Pimpls \cup {NoPimpl}]
  /\ phase \in [Pimpls -> Phases]
  /\ starter \in [Pimpls -> BOOLEAN]
  /\ comm \in [Pimpls -> Comms]
  /\ sets \in [Pimpls -> SUBSET (Ranks \cup {ProcNull})]
  /\ callbacks \in [Pimpls -> Seq(Callback)]
  /\ frames \in Seq(Frame)
  /\ registered \in [Pimpls -> Seq(Callback)]
  /\ ran \in [Pimpls -> Seq(Called)]

\* The use count is right: a PIMPL is alive exactly as long as a view, or a
\* callback that captured one, points to it; none points to a destroyed PIMPL.
LiveIffReferenced ==
  \A p \in Pimpls : phase[p] = "live" <=> Referenced(p, view, callbacks)

\* No destructor is entered twice, and every one that was entered is running.
OneDestructorEach ==
  /\ \A i, j \in DOMAIN frames : frames[i].pimpl = frames[j].pimpl => i = j
  /\ \A p \in Pimpls :
       phase[p] = "dying" <=> \E i \in DOMAIN frames : frames[i].pimpl = p

\* MPI has one owner, the program or one PIMPL, and an owner once it is up.
OneOwner ==
  /\ \A p, q \in Pimpls : starter[p] /\ starter[q] => p = q
  /\ hostInit => \A p \in Pimpls : ~starter[p]
  /\ mpi # "uninitialized" <=> hostInit \/ \E p \in Pimpls : starter[p]

\* While anything refers to the PIMPL that started MPI, MPI is up.
StarterKeepsMpi ==
  \A p \in Pimpls : starter[p] /\ phase[p] = "live" => mpi = "initialized"

\* Every callback of the PIMPL that started MPI, MPI_Finalize included, is
\* called while MPI is up: what depends on MPI is torn down before it is.
StarterTearsDownUnderMpi ==
  \A p \in Pimpls : \A i \in DOMAIN ran[p] :
     starter[p] => ran[p][i].mpi = "initialized"

\* The callbacks of p that are still to be called.
BeingCalled(p) == \E i \in DOMAIN frames : frames[i] = [pimpl |-> p, at |-> "call"]
Pending(p) == IF BeingCalled(p) THEN Front(callbacks[p]) ELSE callbacks[p]

\* Every registered callback is called once, in reverse order of registration.
CalledOnceInReverse ==
  \A p \in Pimpls :
    registered[p] =
      Pending(p) \o [i \in DOMAIN ran[p] |-> ran[p][Len(ran[p]) + 1 - i].entry]

\* A live PIMPL has this process's resource set, and no other rank's than its
\* communicator has.
ResourceSetsOfCommunicator ==
  \A p \in Pimpls : phase[p] = "live" =>
    /\ CommMe(comm[p]) \in sets[p]
    /\ sets[p] \subseteq {CommMe(comm[p])} \cup 0 .. CommSize(comm[p]) - 1

\* A callback of q captured a view of p.
Captures(q, p) == \E i \in DOMAIN callbacks[q] : callbacks[q][i].holds = p

\* q keeps p alive, by what its callbacks hold and so on: p is in every set that
\* has what q and the members of the set capture.
Keeps(q, p) ==
  \A kept \in SUBSET Pimpls :
    (\A s \in kept \cup {q}, r \in Pimpls : Captures(s, r) => r \in kept) => p \in kept

\* What is left when the program's last view has gone, and no destructor runs,
\* is held by a callback that (through others) holds itself: without such a
\* cycle RAII leaks nothing and MPI has been finalized if the library started it.
LeaksOnlyCycles ==
  (frames = <<>> /\ status = "running" /\ \A v \in Views : view[v] = NoPimpl)
    => \A p \in Pimpls : phase[p] = "live" => \E q \in Pimpls : Keeps(q, q) /\ Keeps(q, p)

\* A PIMPL whose last view went is destroyed, and MPI is finalized if it had
\* started it, unless the process does not live to see it.
TeardownCompletes ==
  \A p \in Pimpls :
    phase[p] = "dying"
      ~> \/ phase[p] = "dead" /\ (starter[p] => mpi = "finalized")
         \/ status # "running"

\* What the class comment promises: MPI is not finalized while a RuntimeView
\* is held, when the library is what started it.
HoldingAViewKeepsMpi ==
  \A v \in Views : view[v] # NoPimpl /\ ~hostInit => mpi = "initialized"

\* The process is part of the view's communicator (has_me).
HasMe(v) == view[v] # NoPimpl /\ CommMe(comm[view[v]]) # ProcNull

\* What my_resource_set documents: it returns a resource set only to a process
\* that is part of the view.
MyResourceSetOnlyForMembers ==
  \A v \in Views : ENABLED MyResourceSet(v) => HasMe(v)

-----------------------------------------------------------------------------
(* The abstract specification. *)

\* The shared_ptr p keeps MPI up.
KeepsMpiUp(p) == p # NoPimpl /\ starter[p]

MpiOwner ==
  IF hostInit THEN "host"
  ELSE IF \E p \in Pimpls : starter[p] THEN "library" ELSE "none"
Holding == {v \in Views : KeepsMpiUp(view[v])}
CallbackHolds ==
  \E q \in Pimpls : \E i \in DOMAIN callbacks[q] : KeepsMpiUp(callbacks[q][i].holds)

Lifetime == INSTANCE MpiLifetime WITH
  alive <- status = "running", owner <- MpiOwner, held <- Holding, captured <- CallbackHolds

\* PIMPLs, use counts, callback stacks and nested destructors implement what
\* the class comment boils down to: the first view owns MPI, its copies keep
\* MPI up, and MPI goes down when the last of them does, and not earlier.
LifetimeKept == Lifetime!LSpec

\* The same, and MPI does go down once the last of them is gone.
LifetimeEnds == Lifetime!LFairSpec

-----------------------------------------------------------------------------
(* What makes the safety properties inductive. *)

\* A destructor is inside a callback only while that callback is on its stack.
CallHasCallback ==
  \A i \in DOMAIN frames :
    frames[i].at = "call" => callbacks[frames[i].pimpl] # <<>>

\* MPI_Finalize is the starter's first callback, and nobody else's.
FinalizeAtBottom ==
  \A p \in Pimpls : \A i \in DOMAIN callbacks[p] :
    /\ callbacks[p][i].fn = "MPI_Finalize" <=> starter[p] /\ i = 1
    /\ callbacks[p][i].fn = "MPI_Finalize" => callbacks[p][i].holds = NoPimpl

\* The starter has something left to call as long as it lives, and MPI is up as
\* long as it has.
StarterStack ==
  \A p \in Pimpls : starter[p] =>
    /\ phase[p] = "live" => callbacks[p] # <<>>
    /\ callbacks[p] # <<>> => mpi = "initialized"

\* A PIMPL that is not allocated yet has no past.
UnbornIsBlank ==
  \A p \in Pimpls : phase[p] = "unborn" =>
    ~starter[p] /\ callbacks[p] = <<>> /\ ran[p] = <<>>

\* The inductive invariant: every operation preserves the conjunction, none of
\* the parts that relate a PIMPL to its views or to MPI stands alone.
IInv ==
  /\ TypeOK
  /\ LiveIffReferenced
  /\ OneDestructorEach
  /\ CallHasCallback
  /\ FinalizeAtBottom
  /\ StarterStack
  /\ UnbornIsBlank
  /\ OneOwner
  /\ StarterTearsDownUnderMpi
=============================================================================
