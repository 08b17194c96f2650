--------------------------------- MODULE Task ---------------------------------
(****************************************************************************)
(* Lazy calls.  make_task wraps a callable and the arguments of one call of *)
(* it in a TaskWrapper, to be made later: each argument is owned by the     *)
(* task or aliases the caller's object, which the type it was passed as     *)
(* decides, and the caller's objects meanwhile change, are moved from and   *)
(* die.  CPU::profile_it makes such a task and runs it at once.  An         *)
(* argument is of some type whose copies may throw and whose moved-from     *)
(* objects are recognizable, such as a std::vector.                         *)
(****************************************************************************)
EXTENDS Integers, SequencesExt

CONSTANTS
  Objects,  \* the caller's variables and temporaries
  Values,   \* the values of an argument
  Tasks,    \* the program's variables of type TaskWrapper
  MaxArgs,  \* bound: the arguments of a call
  MaxRuns,  \* bound: how often a task is run
  MaxMade,  \* bound: the tasks the program makes
  Null,     \* a TaskWrapper without a task, an empty std::any
  Moved,    \* the value of a moved-from object
  Dead      \* what a reference to a dead object reads

ASSUME TaskAssumption ==
  /\ MaxArgs \in Nat \ {0} /\ MaxRuns \in Nat \ {0} /\ MaxMade \in Nat \ {0}
  /\ Null \notin Values \cup Objects \cup {Moved, Dead}
  /\ Moved \notin Values \cup {Dead} /\ Dead \notin Values

VARIABLES
  obj,   \* the value of every object of the caller
  task,  \* the task in every TaskWrapper
  any,   \* the std::any the last call returned
  made,  \* how many tasks were made
  call,  \* history: the last call of a callable
  got,   \* history: what the last unwrapped result was, and what it had to be
  used   \* history: the times a task was called with the arguments it owns intact

vars == <<obj, task, any, made, call, got, used>>

-----------------------------------------------------------------------------
\* The types make_task deduces for an rvalue, a const rvalue, an lvalue and a
\* const lvalue, and which of them a caller must keep alive.
Types == {"T", "const T", "T&", "const T&"}
Lvalues == {"T&", "const T&"}

is_value(type) == type = "T"
is_rvalue_reference(type) == type = "T&&"

\* Mutant: only what is spelled T&& is owned.
OwnRvalueReferences(type) == is_rvalue_reference(type)
\* Mutant: every argument is copied, as std::bind does.
OwnEverything(type) == TRUE
hold_by_value(type) == is_value(type) \/ is_rvalue_reference(type)

\* An argument that x was passed for when it held "held", with what the caller
\* passed as history.
ArgumentWrapper(type, x, held) ==
  [type |-> type, passed |-> x, given |-> obj[x],
   at |-> IF hold_by_value(type) THEN Null ELSE x,
   value |-> IF hold_by_value(type) THEN held ELSE Null]

\* What a call that finds the caller's objects so is passed for a.
value(a, objects) == IF a.at = Null THEN a.value ELSE objects[a.at]

\* The ways to pass at most MaxArgs objects, an object twice or more included.
Passings == UNION {[1 .. n -> Types \X Objects] : n \in 0 .. MaxArgs}

\* The arguments are wrapped from the first to the last one.
wrap_args(p) ==
  [i \in DOMAIN p |->
     ArgumentWrapper(p[i][1], p[i][2],
       IF \E j \in 1 .. i - 1 : p[j] = <<"T", p[i][2]>> THEN Moved ELSE obj[p[i][2]])]

\* Another argument of the same call has moved from what the i-th was passed for.
GivenAway(args, i) ==
  \E j \in DOMAIN args :
    /\ args[j].passed = args[i].passed /\ args[j].type = "T"
    /\ args[i].type = "T" => j < i

\* The callers' objects after a call whose rvalues were moved from.
Consumed(p) ==
  [x \in Objects |-> IF \E i \in DOMAIN p : p[i] = <<"T", x>> THEN Moved ELSE obj[x]]

-----------------------------------------------------------------------------
Init ==
  /\ obj \in [Objects -> Values]
  /\ task = [t \in Tasks |-> Null]
  /\ any = Null
  /\ made = 0
  /\ call = Null
  /\ got = Null
  /\ used = [n \in 1 .. MaxMade |-> 0]

\* A fxn that returns something returns its first argument.
Callable(p, returns) ==
  /\ \A i \in DOMAIN p : obj[p[i][2]] # Dead
  /\ returns => p # <<>>

Fresh(p, returns) == [id |-> made + 1, args |-> wrap_args(p), returns |-> returns, runs |-> 0]

\* make_task(fxn, args...) into t, for a fxn that returns something or not.
MakeTask(t, p, returns) ==
  /\ made < MaxMade
  /\ Callable(p, returns)
  /\ made' = made + 1
  /\ task' = [task EXCEPT ![t] = Fresh(p, returns)]
  /\ obj' = Consumed(p)
  /\ UNCHANGED <<any, call, got, used>>

\* What fxn is called with.
Received(k, objects) == [i \in DOMAIN k.args |-> value(k.args[i], objects)]

\* The objects after a call that assigned "wrote" through its T& parameters.
Written(objects, k, wrote) ==
  [x \in Objects |-> IF \E i \in DOMAIN wrote : k.args[i].at = x
                     THEN wrote[CHOOSE i \in DOMAIN wrote : k.args[i].at = x]
                     ELSE objects[x]]

\* Mutant: the tuple of arguments is copied into the call.
KeepArguments(k) == [k EXCEPT !.runs = @ + 1]
\* A call of the lambda moves its tuple of arguments into apply_.
SpendArguments(k) ==
  [k EXCEPT !.runs = @ + 1,
            !.args = [i \in DOMAIN k.args |->
              IF k.args[i].at = Null THEN [k.args[i] EXCEPT !.value = Moved] ELSE k.args[i]]]

\* Mutant: every outer lambda gives back an empty std::any.
BoxedEmpty(k, objects) == Null
\* The contents of the std::any that a call gives back, Null if it is empty.
Boxed(k, objects) == IF k.returns THEN value(k.args[1], objects) ELSE Null

\* History: what the caller is to get back.  A task has an rvalue for one run.
Owed(k, objects) ==
  LET a == k.args[1] IN
  CASE ~k.returns -> Null
    [] k.returns /\ a.type = "T" -> IF k.runs = 0 THEN a.given ELSE Moved
    [] k.returns /\ a.type # "T" -> objects[a.passed]

\* One call of the wrapped fxn of k.
Called(k, objects, wrote, profiled) ==
  /\ call' = [id |-> k.id, run |-> k.runs + 1, args |-> k.args,
              seen |-> Received(k, objects), wrote |-> wrote, profiled |-> profiled]
  /\ used' = [used EXCEPT ![k.id] =
       IF \E i \in DOMAIN k.args : k.args[i].at = Null /\ k.args[i].value # Moved
       THEN @ + 1 ELSE @]

\* What a call may assign to: an object that was passed as a T&.
Writes(k) ==
  {w \in UNION {[I -> Values] : I \in SUBSET {i \in DOMAIN k.args : k.args[i].type = "T&"}} :
     \A i, j \in DOMAIN w : k.args[i].at = k.args[j].at => w[i] = w[j]}

\* t(): std::bad_function_call without a task; fxn may throw, having written.
Run(t) ==
  /\ task[t] # Null
  /\ task[t].runs < MaxRuns
  /\ \E wrote \in Writes(task[t]), threw \in BOOLEAN :
       /\ Called(task[t], obj, wrote, FALSE)
       /\ obj' = Written(obj, task[t], wrote)
       /\ any' = IF threw THEN any
                 ELSE [returns |-> task[t].returns, box |-> Boxed(task[t], obj),
                       owed |-> Owed(task[t], obj)]
       /\ task' = [task EXCEPT ![t] = SpendArguments(@)]
  /\ UNCHANGED <<made, got>>

\* unwrapper(std::move(any)) of a fxn that returns something, which throws
\* std::bad_any_cast, here Null, when there is nothing in any.
Unwrap ==
  /\ any # Null
  /\ any.returns
  /\ got' = [value |-> any.box, owed |-> any.owed]
  /\ any' = [any EXCEPT !.box = Moved, !.owed = Moved]
  /\ UNCHANGED <<obj, task, made, call, used>>

\* Mutant: the task is run once to warm up, and the second run is profiled.
ProfileWarm(p, returns) ==
  /\ made < MaxMade
  /\ Callable(p, returns)
  /\ made' = made + 1
  /\ Called(SpendArguments(Fresh(p, returns)), Consumed(p), <<>>, TRUE)
  /\ obj' = Consumed(p)
  /\ UNCHANGED <<task, any, got>>
\* profile_it(fxn, args...): a task that is run where it is made, and unwrapped.
Profile(p, returns) ==
  /\ made < MaxMade
  /\ Callable(p, returns)
  /\ made' = made + 1
  /\ LET k == Fresh(p, returns) IN
     \E wrote \in Writes(k), threw \in BOOLEAN :
       /\ Called(k, Consumed(p), wrote, TRUE)
       /\ obj' = Written(Consumed(p), k, wrote)
       /\ got' = IF threw \/ ~returns THEN got
                 ELSE [value |-> Boxed(k, Consumed(p)), owed |-> Owed(k, Consumed(p))]
  /\ UNCHANGED <<task, any>>

Owns(k) == \E i \in DOMAIN k.args : k.args[i].at = Null

\* t = std::move(u).  It leaves u unspecified: a std::function that keeps a small
\* target in place may copy it, which a target that owns an argument is not, for
\* its copy may throw.
Move(t, u) ==
  /\ t # u
  /\ \E left \in {Null} \cup (IF task[u] # Null /\ Owns(task[u]) THEN {} ELSE {task[u]}) :
       task' = [task EXCEPT ![t] = task[u], ![u] = left]
  /\ UNCHANGED <<obj, any, made, call, got, used>>

Destroy(t) ==
  /\ task[t] # Null
  /\ task' = [task EXCEPT ![t] = Null]
  /\ UNCHANGED <<obj, any, made, call, got, used>>

\* The caller's own steps.  Whoever passed an lvalue keeps it alive.
Borrowed(x) ==
  \E t \in Tasks : task[t] # Null /\ \E i \in DOMAIN task[t].args :
    task[t].args[i].type \in Lvalues /\ task[t].args[i].passed = x

Assign(x, v) ==
  /\ obj[x] # Dead
  /\ obj' = [obj EXCEPT ![x] = v]
  /\ UNCHANGED <<task, any, made, call, got, used>>

EndLife(x) ==
  /\ ~Borrowed(x)
  /\ obj' = [obj EXCEPT ![x] = Dead]
  /\ UNCHANGED <<task, any, made, call, got, used>>

Next ==
  \/ \E t \in Tasks, p \in Passings, returns \in BOOLEAN : MakeTask(t, p, returns)
  \/ \E t \in Tasks : Run(t)
  \/ Unwrap
  \/ \E p \in Passings, returns \in BOOLEAN : Profile(p, returns)
  \/ \E t, u \in Tasks : Move(t, u)
  \/ \E t \in Tasks : Destroy(t)
  \/ \E x \in Objects, v \in Values : Assign(x, v)
  \/ \E x \in Objects : EndLife(x)

Spec == Init /\ [][Next]_vars

-----------------------------------------------------------------------------
\* An argument passed as an rvalue reaches the first call of the task as it was
\* passed, whatever became of the caller's object since and however often the
\* task was moved: the lifetime ArgumentWrapper prolongs.  Only an object that
\* the same call moved from before is passed on empty.
OwnedArgumentsArrive ==
  call # Null /\ call.run = 1 =>
    \A i \in DOMAIN call.args :
      call.args[i].type = "T" /\ ~GivenAway(call.args, i) => call.seen[i] = call.args[i].given

\* The arguments a task owns are good for one call: of all the calls of a task,
\* through whichever TaskWrapper it went, at most one gets them, and a task
\* that is run again is called with moved-from objects.
UsedUpByOneRun == \A n \in 1 .. MaxMade : used[n] <= 1

\* An lvalue is never copied on the way: on every run the call sees what the
\* caller's object holds then, and what it assigns is in the caller's object.  A
\* profiled call finds the objects as wrapping its own rvalues left them.
LvaluesAreAliased ==
  [][call' # call =>
       \A i \in DOMAIN call'.args : call'.args[i].type \in Lvalues =>
         /\ call'.seen[i] = IF call'.profiled /\ GivenAway(call'.args, i)
                            THEN Moved ELSE obj[call'.args[i].passed]
         /\ i \in DOMAIN call'.wrote => obj'[call'.args[i].passed] = call'.wrote[i]]_vars

\* Where a profiled call differs from the call it measures: fxn sees every
\* argument as it was passed, a const rvalue too, unless the same object is also
\* passed as an rvalue, as in f(x, std::move(x)).  Wrapping has emptied that one
\* before fxn is called, whereas a plain call would only have bound a reference.
ProfilingIsCalling ==
  call # Null /\ call.profiled =>
    \A i \in DOMAIN call.args :
      call.seen[i] = IF GivenAway(call.args, i) THEN Moved ELSE call.args[i].given

\* What a fxn returns comes out of the unwrapper, over throwing calls and calls in
\* between: the rvalue it was given on the first run, what the caller's object
\* held when an lvalue was read, and never an empty std::any.
ResultsComeBack == got # Null => got.value = got.owed

\* What the documentation says of every argument passed by value or by rvalue
\* reference: its lifetime is prolonged, so a call never reads a dead object.
LifetimesAreProlonged ==
  call # Null => \A i \in DOMAIN call.args :
    call.args[i].type \notin Lvalues => call.seen[i] # Dead
=============================================================================
