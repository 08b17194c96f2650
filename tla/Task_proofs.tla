----------------------------- MODULE Task_proofs -----------------------------
(* Theorems about Task, for any objects, values and tasks, any number of      *)
(* arguments, of tasks and of runs.                                           *)
EXTENDS Task, TLAPS

-----------------------------------------------------------------------------
(* What makes the safety properties inductive. *)

\* Types of the variables.
Contents  == Values \cup {Moved, Dead}
Arguments == [type : Types, passed : Objects, given : Contents,
              at : Objects \cup {Null}, value : Contents \cup {Null}]
TaskState == [id : 1 .. MaxMade, args : Seq(Arguments), returns : BOOLEAN, runs : Nat]
Typed ==
  /\ obj \in [Objects -> Contents]
  /\ task \in [Tasks -> TaskState \cup {Null}]
  /\ made \in 0 .. MaxMade
  /\ used \in [1 .. MaxMade -> Nat]

\* A task owns what was passed as an rvalue, until its first run spends it, and
\* aliases everything else.
Holds(args, i, runs) ==
  IF args[i].type = "T"
  THEN /\ args[i].at = Null
       /\ args[i].value = IF runs = 0 /\ ~GivenAway(args, i) THEN args[i].given ELSE Moved
  ELSE args[i].at = args[i].passed
Right(k) ==
  /\ \A i \in DOMAIN k.args : Holds(k.args, i, k.runs)
  /\ k.returns => k.args # <<>>
TasksRight == \A t \in Tasks : task[t] # Null => Right(task[t]) /\ task[t].id <= made

\* A task that owns an argument is in one TaskWrapper.
OneWrapperEach ==
  \A t, u \in Tasks :
    task[t] # Null /\ task[u] # Null /\ task[t].id = task[u].id /\ t # u => ~Owns(task[t])

\* A task that was not made, or not run, has not been used.
NotUsedYet ==
  /\ \A n \in 1 .. MaxMade : n > made => used[n] = 0
  /\ \A t \in Tasks : task[t] # Null /\ task[t].runs = 0 => used[task[t].id] = 0

\* A result that is still in its std::any is what it has to be.
AnyRight == any # Null => any.box = any.owed

\* The inductive invariant.
IInv ==
  /\ Typed
  /\ TasksRight
  /\ OneWrapperEach
  /\ NotUsedYet
  /\ AnyRight
  /\ OwnedArgumentsArrive
  /\ ProfilingIsCalling
  /\ UsedUpByOneRun
  /\ ResultsComeBack

-----------------------------------------------------------------------------
(* The operators *)

\* Only what is passed as an rvalue that is not const is held by value.
LEMMA HeldByValue ==
  ASSUME NEW type \in Types
  PROVE  /\ hold_by_value(type) <=> type = "T"
         /\ type \in Lvalues => type # "T"
  BY DEF Types, Lvalues, hold_by_value, is_value, is_rvalue_reference

\* Any arguments may be passed, an object twice or more included.
LEMMA PassingFacts ==
  ASSUME NEW p \in Passings
  PROVE  \E n \in Nat : p \in [1 .. n -> Types \X Objects]
<1>1. PICK n \in 0 .. MaxArgs : p \in [1 .. n -> Types \X Objects]
  BY DEF Passings
<1>2. n \in Nat
  BY <1>1, TaskAssumption
<1>3. QED
  BY <1>1, <1>2

\* The task that make_task makes of p holds what was passed, as it was passed.
LEMMA FreshFacts ==
  ASSUME Typed, made < MaxMade, NEW p \in Passings, NEW returns \in BOOLEAN, Callable(p, returns)
  PROVE  /\ Fresh(p, returns) \in TaskState
         /\ Right(Fresh(p, returns))
         /\ Fresh(p, returns).id = made + 1
         /\ Fresh(p, returns).runs = 0
         /\ Fresh(p, returns).returns = returns
         /\ \A i \in DOMAIN Fresh(p, returns).args :
              LET a == Fresh(p, returns).args[i]
              IN  /\ a.passed \in Objects /\ a.given = obj[a.passed]
                  /\ a.type # "T" =>
                       Consumed(p)[a.passed] =
                         IF GivenAway(Fresh(p, returns).args, i) THEN Moved ELSE a.given
<1> DEFINE k == Fresh(p, returns)
<1>1. PICK n \in Nat : p \in [1 .. n -> Types \X Objects]
  BY PassingFacts
<1> DEFINE held == [i \in 1 .. n |->
             IF \E j \in 1 .. i - 1 : p[j] = <<"T", p[i][2]>> THEN Moved ELSE obj[p[i][2]]]
<1>2. k.args = [i \in 1 .. n |-> ArgumentWrapper(p[i][1], p[i][2], held[i])]
  BY <1>1 DEF Fresh, wrap_args
<1>3. \A i \in 1 .. n : p[i][1] \in Types /\ p[i][2] \in Objects /\ held[i] \in Contents
  BY <1>1 DEF Typed, Contents
<1>4. ASSUME NEW type \in Types, NEW x \in Objects, NEW h \in Contents
      PROVE  LET a == ArgumentWrapper(type, x, h)
             IN  /\ a \in Arguments /\ a.type = type /\ a.passed = x /\ a.given = obj[x]
                 /\ type = "T" => a.at = Null /\ a.value = h
                 /\ type # "T" => a.at = x
  <2>1. obj[x] \in Contents
    BY DEF Typed
  <2>2. CASE type = "T"
    BY <2>1, <2>2, HeldByValue DEF ArgumentWrapper, Arguments
  <2>3. CASE type # "T"
    BY <2>1, <2>3, HeldByValue DEF ArgumentWrapper, Arguments
  <2>4. QED
    BY <2>2, <2>3
<1> HIDE DEF held
<1>5. \A i \in 1 .. n :
        /\ k.args[i] \in Arguments /\ k.args[i].type = p[i][1] /\ k.args[i].passed = p[i][2]
        /\ k.args[i].given = obj[p[i][2]]
        /\ p[i][1] = "T" => k.args[i].at = Null /\ k.args[i].value = held[i]
        /\ p[i][1] # "T" => k.args[i].at = p[i][2]
  BY <1>2, <1>3, <1>4
<1>6. DOMAIN k.args = 1 .. n /\ k.args \in Seq(Arguments)
  BY <1>2, <1>5
<1>7. k.id = made + 1 /\ k.runs = 0 /\ k.returns = returns
  BY DEF Fresh
<1>8. made + 1 \in 1 .. MaxMade
  BY TaskAssumption DEF Typed
<1>9. k \in TaskState
  <2>1. k = [id |-> made + 1, args |-> k.args, returns |-> returns, runs |-> 0]
    BY DEF Fresh
  <2> HIDE DEF k
  <2>2. QED
    BY <1>6, <1>8, <2>1 DEF TaskState
<1> HIDE DEF k
<1>10. \A i, j \in 1 .. n : p[j] = <<"T", p[i][2]>> <=>
                              k.args[j].passed = k.args[i].passed /\ k.args[j].type = "T"
  <2> TAKE i, j \in 1 .. n
  <2>1. p[j] \in Types \X Objects /\ p[j] = <<p[j][1], p[j][2]>>
    BY <1>1
  <2>2. QED
    BY <1>5, <2>1
<1>11. ASSUME NEW i \in 1 .. n
       PROVE  /\ Holds(k.args, i, 0)
              /\ k.args[i].type # "T" =>
                   Consumed(p)[k.args[i].passed] =
                     IF GivenAway(k.args, i) THEN Moved ELSE k.args[i].given
  <2>1. CASE k.args[i].type = "T"
    <3>1. held[i] = IF \E j \in 1 .. i - 1 : p[j] = <<"T", p[i][2]>> THEN Moved ELSE obj[p[i][2]]
      BY DEF held
    <3>2. (\E j \in 1 .. i - 1 : p[j] = <<"T", p[i][2]>>) <=> GivenAway(k.args, i)
      <4>1. \A j \in 1 .. n : j \in 1 .. i - 1 <=> j < i
        OBVIOUS
      <4>2. \A j \in 1 .. i - 1 : j \in 1 .. n
        OBVIOUS
      <4>3. QED
        BY <1>6, <1>10, <2>1, <4>1, <4>2 DEF GivenAway
    <3>3. QED
      BY <1>5, <2>1, <3>1, <3>2 DEF Holds
  <2>2. CASE k.args[i].type # "T"
    <3>1. (\E j \in DOMAIN p : p[j] = <<"T", p[i][2]>>) <=> GivenAway(k.args, i)
      BY <1>1, <1>6, <1>10, <2>2 DEF GivenAway
    <3>2. Consumed(p)[p[i][2]] =
            IF \E j \in DOMAIN p : p[j] = <<"T", p[i][2]>> THEN Moved ELSE obj[p[i][2]]
      BY <1>3 DEF Consumed
    <3>3. QED
      BY <1>5, <2>2, <3>1, <3>2 DEF Holds
  <2>3. QED
    BY <2>1, <2>2
<1>12. Right(k)
  <2>1. returns => k.args # <<>>
    BY <1>1, <1>6 DEF Callable
  <2>2. QED
    BY <1>6, <1>7, <1>11, <2>1 DEF Right
<1>13. QED
  BY <1>3, <1>5, <1>6, <1>7, <1>9, <1>11, <1>12 DEF k

\* What a call receives of an argument: what the task owns, or what the caller's
\* object holds now.
LEMMA ValueFacts ==
  ASSUME NEW k \in TaskState, Right(k), NEW i \in DOMAIN k.args, NEW objects
  PROVE  /\ k.args[i] \in Arguments
         /\ k.args[i].type = "T" =>
              value(k.args[i], objects) =
                IF k.runs = 0 /\ ~GivenAway(k.args, i) THEN k.args[i].given ELSE Moved
         /\ k.args[i].type # "T" => value(k.args[i], objects) = objects[k.args[i].passed]
         /\ k.args[i].type # "T" => k.args[i].at = k.args[i].passed /\ k.args[i].at \in Objects
         /\ k.args[i].at = Null <=> k.args[i].type = "T"
         /\ Received(k, objects)[i] = value(k.args[i], objects)
<1>1. k.args \in Seq(Arguments)
  BY DEF TaskState
<1>2. k.args[i] \in Arguments
  BY <1>1
<1>3. Holds(k.args, i, k.runs)
  BY DEF Right
<1>4. k.args[i].passed \in Objects /\ Null \notin Objects
  BY <1>2, TaskAssumption DEF Arguments
<1>5. Received(k, objects)[i] = value(k.args[i], objects)
  BY DEF Received
<1>6. QED
  BY <1>2, <1>3, <1>4, <1>5 DEF Holds, value

\* A run spends what the task owns.
LEMMA SpendFacts ==
  ASSUME NEW k \in TaskState, Right(k)
  PROVE  /\ SpendArguments(k) \in TaskState
         /\ Right(SpendArguments(k))
         /\ SpendArguments(k).id = k.id
         /\ SpendArguments(k).runs = k.runs + 1 /\ k.runs + 1 # 0
         /\ Owns(SpendArguments(k)) <=> Owns(k)
<1> DEFINE spent == [i \in DOMAIN k.args |->
             IF k.args[i].at = Null THEN [k.args[i] EXCEPT !.value = Moved] ELSE k.args[i]]
           s == SpendArguments(k)
<1>1. /\ k.id \in 1 .. MaxMade /\ k.args \in Seq(Arguments)
      /\ k.returns \in BOOLEAN /\ k.runs \in Nat
      /\ k = [id |-> k.id, args |-> k.args, returns |-> k.returns, runs |-> k.runs]
  BY DEF TaskState
<1>2. s = [k EXCEPT !.runs = @ + 1, !.args = spent]
  BY DEF SpendArguments
<1> HIDE DEF spent, s
<1>3. s = [id |-> k.id, args |-> spent, returns |-> k.returns, runs |-> k.runs + 1]
  BY <1>1, <1>2
<1>4. \A i \in DOMAIN k.args :
        /\ spent[i] \in Arguments /\ spent[i].type = k.args[i].type /\ spent[i].passed = k.args[i].passed
        /\ spent[i].at = k.args[i].at
        /\ Holds(spent, i, k.runs + 1)
  <2> TAKE i \in DOMAIN k.args
  <2>1. /\ k.args[i] \in Arguments /\ Holds(k.args, i, k.runs)
        /\ k.args[i].at = Null <=> k.args[i].type = "T"
    BY ValueFacts DEF Right
  <2>2. spent[i] = IF k.args[i].at = Null THEN [k.args[i] EXCEPT !.value = Moved] ELSE k.args[i]
    BY DEF spent
  <2>3. CASE k.args[i].at = Null
    <3>1. spent[i] = [k.args[i] EXCEPT !.value = Moved]
      BY <2>2, <2>3
    <3>2. Moved \in Contents \cup {Null}
      BY DEF Contents
    <3>3. /\ spent[i] \in Arguments
          /\ spent[i].type = k.args[i].type /\ spent[i].passed = k.args[i].passed
          /\ spent[i].at = Null /\ spent[i].value = Moved
      BY <2>1, <2>3, <3>1, <3>2 DEF Arguments
    <3>4. k.runs + 1 # 0
      BY <1>1
    <3>5. QED
      BY <2>1, <2>3, <3>3, <3>4 DEF Holds
  <2>4. CASE k.args[i].at # Null
    BY <2>1, <2>2, <2>4 DEF Holds
  <2>5. QED
    BY <2>3, <2>4
<1>5. DOMAIN spent = DOMAIN k.args /\ spent \in Seq(Arguments)
  <2>1. PICK n \in Nat : k.args \in [1 .. n -> Arguments]
    BY <1>1
  <2>2. spent = [i \in 1 .. n |-> spent[i]]
    BY <2>1 DEF spent
  <2>3. \A i \in 1 .. n : spent[i] \in Arguments
    BY <1>4, <2>1
  <2> HIDE DEF spent
  <2>4. spent \in [1 .. n -> Arguments]
    BY <2>2, <2>3
  <2>5. QED
    BY <2>1, <2>4
<1>6. s \in TaskState
  BY <1>1, <1>3, <1>5 DEF TaskState
<1>7. Right(s)
  <2>1. s.args = spent /\ s.runs = k.runs + 1 /\ s.returns = k.returns
    BY <1>3
  <2>2. k.returns => spent # <<>>
    <3>1. k.returns => k.args # <<>>
      BY DEF Right
    <3>2. k.args # <<>> => 1 \in DOMAIN k.args
      BY <1>1
    <3>3. 1 \in DOMAIN spent => spent # <<>>
      BY <1>5
    <3>4. QED
      BY <1>5, <3>1, <3>2, <3>3
  <2>3. QED
    BY <1>4, <1>5, <2>1, <2>2 DEF Right
<1>8. s.id = k.id /\ s.runs = k.runs + 1 /\ k.runs + 1 # 0
  BY <1>1, <1>3
<1>9. Owns(s) <=> Owns(k)
  BY <1>3, <1>4, <1>5 DEF Owns
<1>10. QED
  BY <1>6, <1>7, <1>8, <1>9 DEF s

\* What a call may assign is an object of the caller's that was passed to it.
LEMMA WrittenFacts ==
  ASSUME NEW k \in TaskState, Right(k), NEW wrote \in Writes(k),
         NEW objects \in [Objects -> Contents]
  PROVE  /\ Written(objects, k, wrote) \in [Objects -> Contents]
         /\ DOMAIN wrote \subseteq DOMAIN k.args
         /\ \A i \in DOMAIN wrote : Written(objects, k, wrote)[k.args[i].passed] = wrote[i]
<1>1. PICK I \in SUBSET {i \in DOMAIN k.args : k.args[i].type = "T&"} :
        /\ wrote \in [I -> Values]
        /\ \A i, j \in I : k.args[i].at = k.args[j].at => wrote[i] = wrote[j]
  BY DEF Writes
<1>2. DOMAIN wrote = I /\ \A i \in I : wrote[i] \in Values /\ i \in DOMAIN k.args /\ k.args[i].type # "T"
  BY <1>1
<1>3. \A i \in I : k.args[i].at = k.args[i].passed /\ k.args[i].passed \in Objects
  BY <1>2, ValueFacts
<1>4. \A x \in Objects : Written(objects, k, wrote)[x] =
        IF \E i \in I : k.args[i].at = x
        THEN wrote[CHOOSE i \in I : k.args[i].at = x] ELSE objects[x]
  BY <1>2 DEF Written
<1>5. \A x \in Objects : Written(objects, k, wrote)[x] \in Contents
  <2> TAKE x \in Objects
  <2>1. CASE \E i \in I : k.args[i].at = x
    <3> DEFINE c == CHOOSE i \in I : k.args[i].at = x
    <3>1. c \in I
      BY <2>1
    <3>2. Written(objects, k, wrote)[x] = wrote[c]
      BY <1>4, <2>1
    <3> HIDE DEF c
    <3>3. QED
      BY <1>2, <3>1, <3>2 DEF Contents
  <2>2. CASE ~\E i \in I : k.args[i].at = x
    BY <1>4, <2>2
  <2>3. QED
    BY <2>1, <2>2
<1>6. ASSUME NEW i \in I
      PROVE  Written(objects, k, wrote)[k.args[i].passed] = wrote[i]
  <2> DEFINE x == k.args[i].passed
             c == CHOOSE j \in I : k.args[j].at = x
  <2>1. x \in Objects /\ k.args[i].at = x
    BY <1>3
  <2>2. c \in I /\ k.args[c].at = x
    BY <2>1
  <2>3. Written(objects, k, wrote)[x] = wrote[c]
    BY <1>4, <2>1
  <2> HIDE DEF c
  <2>4. wrote[c] = wrote[i]
    BY <1>1, <2>1, <2>2
  <2>5. QED
    BY <2>3, <2>4
<1>7. Written(objects, k, wrote) = [x \in Objects |-> Written(objects, k, wrote)[x]]
  BY DEF Written
<1>8. QED
  BY <1>2, <1>5, <1>6, <1>7

\* A call of the wrapped fxn sees what it has to, and uses the task up.
LEMMA CalledFacts ==
  ASSUME Typed, UsedUpByOneRun, NEW k \in TaskState, Right(k), k.runs = 0 => used[k.id] = 0,
         NEW objects, NEW wrote, NEW profiled \in BOOLEAN, Called(k, objects, wrote, profiled)
  PROVE  /\ used' \in [1 .. MaxMade -> Nat]
         /\ UsedUpByOneRun'
         /\ \A n \in 1 .. MaxMade : n # k.id \/ ~Owns(k) => used'[n] = used[n]
         /\ OwnedArgumentsArrive'
         /\ call'.args = k.args /\ call'.wrote = wrote /\ call'.profiled = profiled
         /\ \A i \in DOMAIN k.args : call'.seen[i] = value(k.args[i], objects)
<1>1. /\ call'.args = k.args /\ call'.wrote = wrote /\ call'.profiled = profiled
      /\ call'.seen = Received(k, objects) /\ call'.run = k.runs + 1
  BY DEF Called
<1>2. \A i \in DOMAIN k.args : call'.seen[i] = value(k.args[i], objects)
  BY <1>1, ValueFacts
<1>3. k.id \in 1 .. MaxMade /\ k.runs \in Nat
  BY DEF TaskState
<1>4. OwnedArgumentsArrive'
  <2> SUFFICES ASSUME call'.run = 1, NEW i \in DOMAIN call'.args, call'.args[i].type = "T",
                      ~GivenAway(call'.args, i)
               PROVE  call'.seen[i] = call'.args[i].given
    BY DEF OwnedArgumentsArrive, GivenAway
  <2>1. k.runs = 0 /\ i \in DOMAIN k.args /\ k.args[i].type = "T" /\ ~GivenAway(k.args, i)
    BY <1>1, <1>3
  <2>2. QED
    BY <1>1, <1>2, <2>1, ValueFacts
<1> DEFINE fresh == \E i \in DOMAIN k.args : k.args[i].at = Null /\ k.args[i].value # Moved
<1>5. fresh => k.runs = 0
  BY ValueFacts DEF Right, Holds
<1>6. used' = [used EXCEPT ![k.id] = IF fresh THEN @ + 1 ELSE @]
  BY DEF Called
<1> HIDE DEF fresh
<1>7. /\ used' \in [1 .. MaxMade -> Nat]
      /\ \A n \in 1 .. MaxMade : n # k.id => used'[n] = used[n]
      /\ ~fresh => used' = used
      /\ used'[k.id] = IF fresh THEN used[k.id] + 1 ELSE used[k.id]
  BY <1>3, <1>6 DEF Typed
<1>8. used'[k.id] <= 1
  BY <1>3, <1>5, <1>7 DEF UsedUpByOneRun
<1>9. UsedUpByOneRun'
  BY <1>7, <1>8 DEF UsedUpByOneRun
<1>10. ~Owns(k) => ~fresh
  BY DEF Owns, fresh
<1>11. QED
  BY <1>1, <1>2, <1>4, <1>7, <1>9, <1>10

\* A fxn that returns its first argument returns what it has to, on every run:
\* nothing that was passed before the first argument can have emptied it.
LEMMA BoxedFacts ==
  ASSUME NEW k \in TaskState, Right(k), NEW objects
  PROVE  Boxed(k, objects) = Owed(k, objects)
<1>1. CASE ~k.returns
  BY <1>1 DEF Boxed, Owed
<1>2. CASE k.returns
  <2>1. k.args \in Seq(Arguments) /\ k.args # <<>>
    BY <1>2 DEF TaskState, Right
  <2>2. 1 \in DOMAIN k.args /\ \A j \in DOMAIN k.args : ~(j < 1)
    BY <2>1
  <2>3. k.args[1].type = "T" => ~GivenAway(k.args, 1)
    BY <2>2 DEF GivenAway
  <2>4. Boxed(k, objects) = value(k.args[1], objects)
    BY <1>2 DEF Boxed
  <2>5. CASE k.args[1].type = "T"
    BY <1>2, <2>2, <2>3, <2>4, <2>5, ValueFacts DEF Owed
  <2>6. CASE k.args[1].type # "T"
    BY <1>2, <2>2, <2>4, <2>6, ValueFacts DEF Owed
  <2>7. QED
    BY <2>5, <2>6
<1>3. k.returns \in BOOLEAN
  BY DEF TaskState
<1>4. QED
  BY <1>1, <1>2, <1>3

\* Moving from the rvalues of a call leaves the caller's objects in some state.
LEMMA ConsumedType ==
  ASSUME Typed, NEW p
  PROVE  Consumed(p) \in [Objects -> Contents]
  BY DEF Typed, Consumed, Contents

-----------------------------------------------------------------------------
(* The steps *)

\* What a task is right for, and what was used, when tasks come, go and move.
TaskInv == TasksRight /\ OneWrapperEach /\ NotUsedYet

\* What is remembered of calls and results.
HistoryInv ==
  AnyRight /\ OwnedArgumentsArrive /\ ProfilingIsCalling /\ UsedUpByOneRun /\ ResultsComeBack

\* Nothing is called and no result handed over.
LEMMA HistoryUnchanged ==
  ASSUME HistoryInv, UNCHANGED <<any, call, got, used>>
  PROVE  HistoryInv'
  BY DEF HistoryInv, AnyRight, OwnedArgumentsArrive, ProfilingIsCalling, UsedUpByOneRun, ResultsComeBack

\* Tasks that are where they were, have moved, or are gone.
LEMMA TasksMoved ==
  ASSUME Typed, TaskInv, UNCHANGED <<made, used>>,
         \A t \in Tasks : task'[t] # Null => \E u \in Tasks : task[u] # Null /\ task'[t] = task[u],
         OneWrapperEach'
  PROVE  TaskInv'
<1>1. TasksRight'
  BY DEF TaskInv, TasksRight, Right, Holds, GivenAway
<1>2. NotUsedYet'
  BY DEF TaskInv, NotUsedYet
<1>3. QED
  BY <1>1, <1>2 DEF TaskInv

\* make_task keeps the invariant: the new task has an identity nobody had.
LEMMA MakeTaskStep ==
  ASSUME IInv, NEW t \in Tasks, NEW p \in Passings, NEW returns \in BOOLEAN, MakeTask(t, p, returns)
  PROVE  IInv'
<1> DEFINE k == Fresh(p, returns)
<1>t. Typed /\ TaskInv /\ HistoryInv
  BY DEF IInv, TaskInv, HistoryInv
<1>1. /\ made < MaxMade /\ made' = made + 1 /\ obj' = Consumed(p) /\ Callable(p, returns)
      /\ task' = [task EXCEPT ![t] = k] /\ UNCHANGED <<any, call, got, used>>
  BY DEF MakeTask
<1>2. k \in TaskState /\ Right(k) /\ k.id = made + 1 /\ k.runs = 0
  BY <1>t, <1>1, FreshFacts
<1> HIDE DEF k
<1>3. \A u \in Tasks : task'[u] = IF u = t THEN k ELSE task[u]
  BY <1>t, <1>1 DEF Typed
<1>4. made \in 0 .. MaxMade /\ made' \in 0 .. MaxMade /\ MaxMade \in Nat
  BY <1>t, <1>1, TaskAssumption DEF Typed
<1>5. Typed'
  <2>1. task' \in [Tasks -> TaskState \cup {Null}]
    BY <1>t, <1>1, <1>2 DEF Typed
  <2>2. obj' \in [Objects -> Contents]
    BY <1>t, <1>1, ConsumedType
  <2>3. QED
    BY <1>t, <1>1, <1>4, <2>1, <2>2 DEF Typed
<1>6. \A u \in Tasks : task[u] # Null => Right(task[u]) /\ task[u].id <= made /\ task[u].id \in 1 .. MaxMade
  BY <1>t DEF TaskInv, TasksRight, Typed, TaskState
<1>7. TasksRight'
  <2> SUFFICES ASSUME NEW u \in Tasks, task'[u] # Null
               PROVE  Right(task'[u]) /\ task'[u].id <= made'
    BY DEF TasksRight, Right, Holds, GivenAway
  <2>1. CASE u = t
    BY <1>1, <1>2, <1>3, <1>4, <2>1
  <2>2. CASE u # t
    BY <1>1, <1>3, <1>4, <1>6, <2>2
  <2>3. QED
    BY <2>1, <2>2
<1>8. OneWrapperEach'
  <2> SUFFICES ASSUME NEW u \in Tasks, NEW w \in Tasks, task'[u] # Null, task'[w] # Null,
                      task'[u].id = task'[w].id, u # w
               PROVE  ~Owns(task'[u])
    BY DEF OneWrapperEach, Owns
  <2>1. CASE u # t /\ w # t
    BY <1>t, <1>3, <2>1 DEF TaskInv, OneWrapperEach
  <2>2. CASE u = t /\ w # t
    BY <1>2, <1>3, <1>4, <1>6, <2>2
  <2>3. CASE u # t /\ w = t
    BY <1>2, <1>3, <1>4, <1>6, <2>3
  <2>4. QED
    BY <2>1, <2>2, <2>3
<1>9. NotUsedYet'
  <2>1. \A n \in 1 .. MaxMade : n > made' => used'[n] = 0
    BY <1>t, <1>1, <1>4 DEF TaskInv, NotUsedYet
  <2>2. used[made + 1] = 0
    <3>1. made + 1 \in 1 .. MaxMade /\ made + 1 > made
      BY <1>1, <1>4
    <3>2. QED
      BY <1>t, <3>1 DEF TaskInv, NotUsedYet
  <2>3. \A u \in Tasks : task'[u] # Null /\ task'[u].runs = 0 => used'[task'[u].id] = 0
    BY <1>t, <1>1, <1>2, <1>3, <2>2 DEF TaskInv, NotUsedYet
  <2>4. QED
    BY <2>1, <2>3 DEF NotUsedYet
<1>10. HistoryInv'
  BY <1>t, <1>1, HistoryUnchanged
<1>11. QED
  BY <1>5, <1>7, <1>8, <1>9, <1>10 DEF IInv, HistoryInv

\* A run keeps the invariant: it spends the task that it runs.
LEMMA RunStep ==
  ASSUME IInv, NEW t \in Tasks, Run(t)
  PROVE  IInv' /\ LET k == task[t] IN
         /\ k \in TaskState /\ Right(k)
         /\ call'.args = k.args
         /\ \A i \in DOMAIN k.args : call'.seen[i] = value(k.args[i], obj)
         /\ ~call'.profiled
         /\ \A i \in DOMAIN call'.wrote : i \in DOMAIN k.args /\ obj'[k.args[i].passed] = call'.wrote[i]
<1>t. Typed /\ TaskInv /\ HistoryInv
  BY DEF IInv, TaskInv, HistoryInv
<1>1. PICK k \in TaskState : k = task[t]
  BY <1>t DEF Run, Typed
<1>2. PICK wrote \in Writes(k), threw \in BOOLEAN :
        /\ Called(k, obj, wrote, FALSE)
        /\ obj' = Written(obj, k, wrote)
        /\ any' = IF threw THEN any
                  ELSE [returns |-> k.returns, box |-> Boxed(k, obj), owed |-> Owed(k, obj)]
        /\ task' = [task EXCEPT ![t] = SpendArguments(@)]
  BY <1>1 DEF Run
<1>3. task[t] # Null /\ UNCHANGED <<made, got>>
  BY DEF Run
<1>4. Right(k) /\ k.id <= made /\ k.id \in 1 .. MaxMade /\ (k.runs = 0 => used[k.id] = 0)
  BY <1>t, <1>1, <1>3 DEF TaskInv, TasksRight, NotUsedYet, TaskState
<1>5. UsedUpByOneRun
  BY <1>t DEF HistoryInv
<1>6. /\ used' \in [1 .. MaxMade -> Nat]
      /\ UsedUpByOneRun'
      /\ \A n \in 1 .. MaxMade : n # k.id \/ ~Owns(k) => used'[n] = used[n]
      /\ OwnedArgumentsArrive'
      /\ call'.args = k.args /\ call'.wrote = wrote /\ call'.profiled = FALSE
      /\ \A i \in DOMAIN k.args : call'.seen[i] = value(k.args[i], obj)
  BY <1>t, <1>2, <1>4, <1>5, CalledFacts
<1>7. /\ obj' \in [Objects -> Contents]
      /\ DOMAIN wrote \subseteq DOMAIN k.args
      /\ \A i \in DOMAIN wrote : obj'[k.args[i].passed] = wrote[i]
  BY <1>t, <1>2, <1>4, WrittenFacts DEF Typed
<1> DEFINE s == SpendArguments(k)
<1>8. s \in TaskState /\ Right(s) /\ s.id = k.id /\ s.runs # 0 /\ (Owns(s) <=> Owns(k))
  BY <1>4, SpendFacts
<1>9. task' = [task EXCEPT ![t] = s]
  BY <1>1, <1>2
<1> HIDE DEF s
<1>10. \A u \in Tasks : task'[u] = IF u = t THEN s ELSE task[u]
  BY <1>t, <1>9 DEF Typed
<1>11. Typed'
  BY <1>t, <1>3, <1>6, <1>7, <1>8, <1>9 DEF Typed
<1>12. \A u \in Tasks : task[u] # Null => task[u].id \in 1 .. MaxMade
  BY <1>t DEF Typed, TaskState
<1>13. TasksRight'
  <2> SUFFICES ASSUME NEW u \in Tasks, task'[u] # Null
               PROVE  Right(task'[u]) /\ task'[u].id <= made'
    BY DEF TasksRight, Right, Holds, GivenAway
  <2>1. QED
    BY <1>t, <1>3, <1>4, <1>8, <1>10 DEF TaskInv, TasksRight
<1>14. OneWrapperEach'
  <2> SUFFICES ASSUME NEW u \in Tasks, NEW w \in Tasks, task'[u] # Null, task'[w] # Null,
                      task'[u].id = task'[w].id, u # w
               PROVE  ~Owns(task'[u])
    BY DEF OneWrapperEach, Owns
  <2>1. task[u] # Null /\ task[w] # Null /\ task[u].id = task[w].id
    BY <1>1, <1>3, <1>8, <1>10
  <2>2. ~Owns(task[u])
    BY <1>t, <2>1 DEF TaskInv, OneWrapperEach
  <2>3. QED
    BY <1>1, <1>8, <1>10, <2>2
<1>15. NotUsedYet'
  <2>1. \A n \in 1 .. MaxMade : n > made' => used'[n] = 0
    <3> SUFFICES ASSUME NEW n \in 1 .. MaxMade, n > made PROVE used'[n] = 0
      BY <1>3
    <3>1. n # k.id
      BY <1>t, <1>4 DEF Typed
    <3>2. QED
      BY <1>t, <1>6, <3>1 DEF TaskInv, NotUsedYet
  <2>2. ASSUME NEW u \in Tasks, task'[u] # Null, task'[u].runs = 0
        PROVE  used'[task'[u].id] = 0
    <3>1. u # t /\ task'[u] = task[u]
      BY <1>8, <1>10, <2>2
    <3>2. task[u].id # k.id \/ ~Owns(k)
      BY <1>t, <1>1, <1>3, <2>2, <3>1 DEF TaskInv, OneWrapperEach
    <3>3. used[task[u].id] = 0 /\ task[u].id \in 1 .. MaxMade
      BY <1>t, <1>12, <2>2, <3>1 DEF TaskInv, NotUsedYet
    <3>4. QED
      BY <1>6, <3>1, <3>2, <3>3
  <2>3. QED
    BY <2>1, <2>2 DEF NotUsedYet
<1>16. AnyRight'
  <2>1. CASE any' = any
    BY <1>t, <2>1 DEF HistoryInv, AnyRight
  <2>2. CASE any' = [returns |-> k.returns, box |-> Boxed(k, obj), owed |-> Owed(k, obj)]
    BY <1>4, <2>2, BoxedFacts DEF AnyRight
  <2>3. QED
    BY <1>2, <2>1, <2>2
<1>17. ProfilingIsCalling' /\ ResultsComeBack'
  BY <1>t, <1>3, <1>6 DEF HistoryInv, ProfilingIsCalling, ResultsComeBack
<1>18. IInv'
  BY <1>6, <1>11, <1>13, <1>14, <1>15, <1>16, <1>17 DEF IInv
<1>19. QED
  BY <1>1, <1>4, <1>6, <1>7, <1>18

\* Profiling keeps the invariant: its task sees all that was passed, and nobody
\* runs it again.
LEMMA ProfileStep ==
  ASSUME IInv, NEW p \in Passings, NEW returns \in BOOLEAN, Profile(p, returns)
  PROVE  IInv' /\ LET k == Fresh(p, returns) IN
         /\ k \in TaskState /\ Right(k)
         /\ call'.args = k.args
         /\ \A i \in DOMAIN k.args : call'.seen[i] = value(k.args[i], Consumed(p))
         /\ call'.profiled
         /\ \A i \in DOMAIN k.args : k.args[i].type # "T" =>
              Consumed(p)[k.args[i].passed] =
                IF GivenAway(k.args, i) THEN Moved ELSE obj[k.args[i].passed]
         /\ \A i \in DOMAIN call'.wrote : i \in DOMAIN k.args /\ obj'[k.args[i].passed] = call'.wrote[i]
<1>t. Typed /\ TaskInv /\ HistoryInv
  BY DEF IInv, TaskInv, HistoryInv
<1>1. made < MaxMade /\ made' = made + 1 /\ Callable(p, returns) /\ UNCHANGED <<task, any>>
  BY DEF Profile
<1>2. PICK k \in TaskState :
        /\ k = Fresh(p, returns) /\ Right(k) /\ k.id = made + 1 /\ k.runs = 0
        /\ \A i \in DOMAIN k.args :
             /\ k.args[i].given = obj[k.args[i].passed]
             /\ k.args[i].type # "T" =>
                  Consumed(p)[k.args[i].passed] =
                    IF GivenAway(k.args, i) THEN Moved ELSE k.args[i].given
  BY <1>t, <1>1, FreshFacts
<1>3. PICK wrote \in Writes(k), threw \in BOOLEAN :
        /\ Called(k, Consumed(p), wrote, TRUE)
        /\ obj' = Written(Consumed(p), k, wrote)
        /\ got' = IF threw \/ ~returns THEN got
                  ELSE [value |-> Boxed(k, Consumed(p)), owed |-> Owed(k, Consumed(p))]
  BY <1>2 DEF Profile
<1>4. /\ made \in 0 .. MaxMade /\ made' \in 0 .. MaxMade /\ MaxMade \in Nat
      /\ made + 1 \in 1 .. MaxMade
  BY <1>t, <1>1, TaskAssumption DEF Typed
<1>5. k.runs = 0 => used[k.id] = 0
  <2>1. made + 1 > made
    BY <1>4
  <2>2. QED
    BY <1>t, <1>2, <1>4, <2>1 DEF TaskInv, NotUsedYet
<1>6. /\ used' \in [1 .. MaxMade -> Nat]
      /\ UsedUpByOneRun'
      /\ \A n \in 1 .. MaxMade : n # k.id \/ ~Owns(k) => used'[n] = used[n]
      /\ OwnedArgumentsArrive'
      /\ call'.args = k.args /\ call'.wrote = wrote /\ call'.profiled = TRUE
      /\ \A i \in DOMAIN k.args : call'.seen[i] = value(k.args[i], Consumed(p))
  BY <1>t, <1>2, <1>3, <1>5, CalledFacts DEF HistoryInv
<1>7. /\ obj' \in [Objects -> Contents]
      /\ DOMAIN wrote \subseteq DOMAIN k.args
      /\ \A i \in DOMAIN wrote : obj'[k.args[i].passed] = wrote[i]
  BY <1>t, <1>2, <1>3, ConsumedType, WrittenFacts
<1>8. Typed'
  BY <1>t, <1>1, <1>4, <1>6, <1>7 DEF Typed
<1>9. \A u \in Tasks : task[u] # Null => task[u].id \in 1 .. MaxMade /\ task[u].id <= made
  BY <1>t DEF Typed, TaskState, TaskInv, TasksRight
<1>10. TasksRight' /\ OneWrapperEach'
  <2>1. \A u \in Tasks : task[u] # Null => task[u].id <= made'
    BY <1>1, <1>4, <1>9
  <2>2. QED
    BY <1>t, <1>1, <2>1 DEF TaskInv, TasksRight, OneWrapperEach, Right, Holds, GivenAway, Owns
<1>11. NotUsedYet'
  <2>1. \A n \in 1 .. MaxMade : n > made' => used'[n] = 0
    BY <1>t, <1>1, <1>2, <1>4, <1>6 DEF TaskInv, NotUsedYet
  <2>2. \A u \in Tasks : task[u] # Null => task[u].id # k.id
    BY <1>2, <1>4, <1>9
  <2>3. \A u \in Tasks : task[u] # Null /\ task[u].runs = 0 => used'[task[u].id] = 0
    BY <1>t, <1>6, <1>9, <2>2 DEF TaskInv, NotUsedYet
  <2>4. QED
    BY <1>1, <2>1, <2>3 DEF NotUsedYet
<1>12. AnyRight'
  BY <1>t, <1>1 DEF HistoryInv, AnyRight
<1>13. ResultsComeBack'
  <2>1. CASE got' = got
    BY <1>t, <2>1 DEF HistoryInv, ResultsComeBack
  <2>2. CASE got' = [value |-> Boxed(k, Consumed(p)), owed |-> Owed(k, Consumed(p))]
    BY <1>2, <2>2, BoxedFacts DEF ResultsComeBack
  <2>3. QED
    BY <1>3, <2>1, <2>2
<1>14. ProfilingIsCalling'
  <2>1. ASSUME NEW i \in DOMAIN k.args
        PROVE  value(k.args[i], Consumed(p)) =
                 IF GivenAway(k.args, i) THEN Moved ELSE k.args[i].given
    BY <1>2, <2>1, ValueFacts
  <2>2. QED
    BY <1>6, <2>1 DEF ProfilingIsCalling, GivenAway
<1>15. IInv'
  BY <1>6, <1>8, <1>10, <1>11, <1>12, <1>13, <1>14 DEF IInv
<1>16. \A i \in DOMAIN k.args : k.args[i].type # "T" =>
         Consumed(p)[k.args[i].passed] =
           IF GivenAway(k.args, i) THEN Moved ELSE obj[k.args[i].passed]
  BY <1>2
<1>17. QED
  BY <1>2, <1>6, <1>7, <1>15, <1>16

\* Taking a result out of its std::any, moving and destroying a TaskWrapper, and
\* the caller's own steps call nothing.
LEMMA OtherSteps ==
  ASSUME IInv,
         \/ Unwrap
         \/ \E t, u \in Tasks : Move(t, u)
         \/ \E t \in Tasks : Destroy(t)
         \/ \E x \in Objects, v \in Values : Assign(x, v)
         \/ \E x \in Objects : EndLife(x)
         \/ UNCHANGED vars
  PROVE  IInv' /\ call' = call
<1>t. Typed /\ TaskInv /\ HistoryInv
  BY DEF IInv, TaskInv, HistoryInv
<1>1. ASSUME TaskInv', HistoryInv', Typed' PROVE IInv'
  BY <1>1 DEF IInv, TaskInv, HistoryInv
<1>2. ASSUME Unwrap PROVE IInv' /\ call' = call
  <2>1. /\ any # Null
        /\ got' = [value |-> any.box, owed |-> any.owed]
        /\ any' = [any EXCEPT !.box = Moved, !.owed = Moved]
        /\ UNCHANGED <<obj, task, made, call, used>>
    BY <1>2 DEF Unwrap
  <2>2. Typed' /\ TaskInv'
    BY <1>t, <2>1 DEF Typed, TaskInv, TasksRight, OneWrapperEach, NotUsedYet, Right, Holds, GivenAway, Owns
  <2>3. HistoryInv'
    <3>1. AnyRight' /\ ResultsComeBack'
      BY <1>t, <2>1 DEF HistoryInv, AnyRight, ResultsComeBack
    <3>2. OwnedArgumentsArrive' /\ ProfilingIsCalling' /\ UsedUpByOneRun'
      BY <1>t, <2>1 DEF HistoryInv, OwnedArgumentsArrive, ProfilingIsCalling, UsedUpByOneRun
    <3>3. QED
      BY <3>1, <3>2 DEF HistoryInv
  <2>4. QED
    BY <1>1, <2>1, <2>2, <2>3
<1>3. ASSUME NEW t \in Tasks, NEW u \in Tasks, Move(t, u) PROVE IInv' /\ call' = call
  <2>1. PICK left :
          /\ left \in {Null} \cup (IF task[u] # Null /\ Owns(task[u]) THEN {} ELSE {task[u]})
          /\ t # u /\ task' = [task EXCEPT ![t] = task[u], ![u] = left]
          /\ UNCHANGED <<obj, any, made, call, got, used>>
    BY <1>3 DEF Move
  <2>l. left = Null \/ (left = task[u] /\ ~Owns(left))
    BY <2>1
  <2>2. \A w \in Tasks : task'[w] = IF w = u THEN left ELSE IF w = t THEN task[u] ELSE task[w]
    BY <1>t, <2>1 DEF Typed
  <2>3. Typed'
    BY <1>t, <2>1, <2>l DEF Typed
  <2>4. \A w \in Tasks : task'[w] # Null => \E z \in Tasks : task[z] # Null /\ task'[w] = task[z]
    BY <2>2, <2>l
  <2>5. OneWrapperEach'
    <3> SUFFICES ASSUME NEW w \in Tasks, NEW z \in Tasks, task'[w] # Null, task'[z] # Null,
                        task'[w].id = task'[z].id, w # z
                 PROVE  ~Owns(task'[w])
      BY DEF OneWrapperEach, Owns
    <3> DEFINE From(y) == IF y = t THEN u ELSE y
    <3>1. CASE left = Null
      <4>1. w # u /\ z # u /\ task'[w] = task[From(w)] /\ task'[z] = task[From(z)]
        BY <2>2, <3>1
      <4>2. From(w) # From(z) /\ From(w) \in Tasks /\ From(z) \in Tasks
        BY <4>1
      <4> HIDE DEF From
      <4>3. QED
        BY <1>t, <4>1, <4>2 DEF TaskInv, OneWrapperEach
    <3>2. CASE left = task[u] /\ (left # Null => ~Owns(left))
      <4>1. task'[w] = task[From(w)] /\ task'[z] = task[From(z)]
        BY <2>2, <3>2
      <4>2. From(w) \in Tasks /\ From(z) \in Tasks
        OBVIOUS
      <4>3. CASE From(w) # From(z)
        <5> HIDE DEF From
        <5>1. QED
          BY <1>t, <4>1, <4>2, <4>3 DEF TaskInv, OneWrapperEach
      <4>4. CASE From(w) = From(z)
        <5>1. From(w) = u
          BY <4>4
        <5>2. QED
          BY <3>2, <4>1, <5>1
      <4>5. QED
        BY <4>3, <4>4
    <3>3. QED
      BY <2>l, <3>1, <3>2
  <2>6. TaskInv'
    BY <1>t, <2>1, <2>4, <2>5, TasksMoved
  <2>7. QED
    BY <1>1, <1>t, <2>1, <2>3, <2>6, HistoryUnchanged
<1>4. ASSUME NEW t \in Tasks, Destroy(t) PROVE IInv' /\ call' = call
  <2>1. task' = [task EXCEPT ![t] = Null] /\ UNCHANGED <<obj, any, made, call, got, used>>
    BY <1>4 DEF Destroy
  <2>2. \A w \in Tasks : task'[w] = IF w = t THEN Null ELSE task[w]
    BY <1>t, <2>1 DEF Typed
  <2>3. Typed'
    BY <1>t, <2>1 DEF Typed
  <2>4. OneWrapperEach'
    BY <1>t, <2>2 DEF TaskInv, OneWrapperEach, Owns
  <2>5. TaskInv'
    BY <1>t, <2>1, <2>2, <2>4, TasksMoved
  <2>6. QED
    BY <1>1, <1>t, <2>1, <2>3, <2>5, HistoryUnchanged
<1>5. ASSUME UNCHANGED <<task, any, made, call, got, used>>, obj' \in [Objects -> Contents]
      PROVE  IInv' /\ call' = call
  <2>1. TaskInv'
    BY <1>t, <1>5 DEF TaskInv, TasksRight, OneWrapperEach, NotUsedYet, Right, Holds, GivenAway, Owns
  <2>2. Typed'
    BY <1>t, <1>5 DEF Typed
  <2>3. QED
    BY <1>1, <1>5, <1>t, <2>1, <2>2, HistoryUnchanged
<1>6. ASSUME NEW x \in Objects, NEW v \in Values, Assign(x, v) PROVE IInv' /\ call' = call
  <2>1. obj' \in [Objects -> Contents]
    BY <1>t, <1>6 DEF Assign, Typed, Contents
  <2>2. QED
    BY <1>5, <1>6, <2>1 DEF Assign
<1>7. ASSUME NEW x \in Objects, EndLife(x) PROVE IInv' /\ call' = call
  <2>1. obj' \in [Objects -> Contents]
    BY <1>t, <1>7 DEF EndLife, Typed, Contents
  <2>2. QED
    BY <1>5, <1>7, <2>1 DEF EndLife
<1>8. ASSUME UNCHANGED vars PROVE IInv' /\ call' = call
  BY <1>5, <1>8, <1>t DEF vars, Typed
<1>9. QED
  BY <1>2, <1>3, <1>4, <1>6, <1>7, <1>8

\* Every step preserves the inductive invariant.
LEMMA InvStep == IInv /\ [Next]_vars => IInv'
<1> SUFFICES ASSUME IInv, [Next]_vars PROVE IInv'
  OBVIOUS
<1>1. CASE \E t \in Tasks, p \in Passings, returns \in BOOLEAN : MakeTask(t, p, returns)
  BY <1>1, MakeTaskStep
<1>2. CASE \E t \in Tasks : Run(t)
  BY <1>2, RunStep
<1>3. CASE \E p \in Passings, returns \in BOOLEAN : Profile(p, returns)
  BY <1>3, ProfileStep
<1>4. QED
  BY <1>1, <1>2, <1>3, OtherSteps DEF Next

\* It holds before the first task is made.
LEMMA InitInv == Init => IInv
<1> SUFFICES ASSUME Init PROVE IInv
  OBVIOUS
<1>1. /\ obj \in [Objects -> Values] /\ task = [t \in Tasks |-> Null]
      /\ any = Null /\ made = 0 /\ call = Null /\ got = Null
      /\ used = [n \in 1 .. MaxMade |-> 0]
  BY DEF Init
<1>2. Typed
  BY <1>1, TaskAssumption DEF Typed, Contents
<1>3. TasksRight /\ OneWrapperEach /\ NotUsedYet
  BY <1>1 DEF TasksRight, OneWrapperEach, NotUsedYet
<1>4. AnyRight /\ OwnedArgumentsArrive /\ ProfilingIsCalling /\ UsedUpByOneRun /\ ResultsComeBack
  BY <1>1 DEF AnyRight, OwnedArgumentsArrive, ProfilingIsCalling, UsedUpByOneRun, ResultsComeBack
<1>5. QED
  BY <1>2, <1>3, <1>4 DEF IInv

-----------------------------------------------------------------------------
\* The inductive invariant holds in every state.
THEOREM Invariance == Spec => []IInv
  BY InitInv, InvStep, PTL DEF Spec

\* An argument passed as an rvalue reaches the first call of its task as it was
\* passed, over any moves of the task and whatever became of the caller's object.
THEOREM OwnedArgumentsArriveAlways == Spec => []OwnedArgumentsArrive
<1>1. IInv => OwnedArgumentsArrive
  BY DEF IInv
<1>2. QED
  BY Invariance, <1>1, PTL

\* Of all the calls of a task, however many, at most one gets what it owns.
THEOREM UsedUpByOneRunAlways == Spec => []UsedUpByOneRun
<1>1. IInv => UsedUpByOneRun
  BY DEF IInv
<1>2. QED
  BY Invariance, <1>1, PTL

\* profile_it calls a fxn with every argument as it was passed, however that was,
\* but for an object which the same call also passes as an rvalue, as in
\* f(x, std::move(x)): that one is empty before fxn is called, where a plain call
\* would only have bound a reference to it.
THEOREM ProfilingIsCallingAlways == Spec => []ProfilingIsCalling
<1>1. IInv => ProfilingIsCalling
  BY DEF IInv
<1>2. QED
  BY Invariance, <1>1, PTL

\* The first argument of a fxn that returns it comes out of the unwrapper, as it was
\* passed or, an lvalue, as the call found it, for any number of arguments and runs.
THEOREM ResultsComeBackAlways == Spec => []ResultsComeBack
<1>1. IInv => ResultsComeBack
  BY DEF IInv
<1>2. QED
  BY Invariance, <1>1, PTL

\* On every run an lvalue is the caller's object: a call sees what it holds, and
\* what the call assigns is there after it, for any number of arguments.
THEOREM LvaluesAreAliasedAlways == Spec => LvaluesAreAliased
<1> DEFINE Aliased ==
      call' # call =>
        \A i \in DOMAIN call'.args : call'.args[i].type \in Lvalues =>
          /\ call'.seen[i] = IF call'.profiled /\ GivenAway(call'.args, i)
                             THEN Moved ELSE obj[call'.args[i].passed]
          /\ i \in DOMAIN call'.wrote => obj'[call'.args[i].passed] = call'.wrote[i]
<1>1. ASSUME NEW k \in TaskState, Right(k), NEW objects, call'.args = k.args,
             \A i \in DOMAIN k.args : call'.seen[i] = value(k.args[i], objects),
             \A i \in DOMAIN k.args : k.args[i].type # "T" =>
               objects[k.args[i].passed] = IF call'.profiled /\ GivenAway(k.args, i)
                                           THEN Moved ELSE obj[k.args[i].passed],
             \A i \in DOMAIN call'.wrote : i \in DOMAIN k.args /\ obj'[k.args[i].passed] = call'.wrote[i]
      PROVE  Aliased
  <2>1. ASSUME NEW i \in DOMAIN k.args, k.args[i].type \in Lvalues
        PROVE  value(k.args[i], objects) = IF call'.profiled /\ GivenAway(k.args, i)
                                           THEN Moved ELSE obj[k.args[i].passed]
    <3>1. k.args[i].type # "T"
      BY <2>1 DEF Lvalues
    <3>2. QED
      BY <1>1, <2>1, <3>1, ValueFacts
  <2>2. QED
    BY <1>1, <2>1 DEF GivenAway
<1> HIDE DEF Aliased
<1>2. IInv /\ [Next]_vars => [Aliased]_vars
  <2> SUFFICES ASSUME IInv, [Next]_vars PROVE Aliased
    OBVIOUS
  <2>1. ASSUME NEW t \in Tasks, Run(t) PROVE Aliased
    BY <1>1, <2>1, RunStep
  <2>2. ASSUME NEW p \in Passings, NEW returns \in BOOLEAN, Profile(p, returns) PROVE Aliased
    BY <1>1, <2>2, ProfileStep
  <2>3. ASSUME NEW t \in Tasks, NEW p \in Passings, NEW returns \in BOOLEAN, MakeTask(t, p, returns)
        PROVE  Aliased
    BY <2>3 DEF MakeTask, Aliased
  <2>4. CASE call' = call
    BY <2>4 DEF Aliased
  <2>5. QED
    BY <2>1, <2>2, <2>3, <2>4, OtherSteps DEF Next
<1>3. QED
  BY Invariance, <1>2, PTL DEF Spec, LvaluesAreAliased, Aliased
=============================================================================
