---------------------------- MODULE Logger_proofs ----------------------------
(****************************************************************************)
(* Proofs about Logger, for any number of loggers, names and files: what    *)
(* comparison tells, that critical messages always get through, and that    *)
(* the spdlog loggers behind pointers are the documented loggers.           *)
(*                                                                          *)
(* The pointers are those of Pimpl, whose lemmas say what every operation   *)
(* makes of the values that the variables hold.                             *)
(****************************************************************************)
EXTENDS Logger, TLAPS

Pointers == INSTANCE Pimpl_proofs WITH Values <- PimplState

\* The spdlog logger that every variable holds, or Null.
Held == Pointers!Seen

-----------------------------------------------------------------------------
(* Severities *)

\* spdlog's levels are ParallelZone's severities in the same order, counted
\* from zero.
LEMMA LevelIsImportance ==
  ASSUME NEW s \in {"trace", "debug", "info", "warn", "error", "critical"}
  PROVE  /\ Promised!Importance(s) \in 1 .. 6
         /\ map_severity_levels(s) = Promised!Importance(s) - 1
         /\ Promised!Severities[Promised!Importance(s)] = s
<1> DEFINE S == Promised!Severities
<1>1. /\ S[1] = "trace" /\ S[2] = "debug" /\ S[3] = "info"
      /\ S[4] = "warn" /\ S[5] = "error" /\ S[6] = "critical"
      /\ DOMAIN S = 1 .. 6
  BY DEF Promised!Severities
<1> HIDE DEF S
<1>2. \A i \in DOMAIN S : S[i] = s => Promised!Importance(s) \in DOMAIN S /\ S[Promised!Importance(s)] = s
  BY DEF Promised!Importance, S
<1>3. \E i \in DOMAIN S : S[i] = s
  BY <1>1
<1>4. Promised!Importance(s) \in 1 .. 6 /\ S[Promised!Importance(s)] = s
  BY <1>1, <1>2, <1>3
<1>5. \A i, j \in 1 .. 6 : S[i] = S[j] => i = j
  BY <1>1
<1>6. /\ Levels["trace"] = 0 /\ Levels["debug"] = 1 /\ Levels["info"] = 2
      /\ Levels["warn"] = 3 /\ Levels.err = 4 /\ Levels["critical"] = 5
  BY DEF Levels
<1>7. map_severity_levels(s) = Promised!Importance(s) - 1
  <2>1. CASE s = "trace"
    <3>1. map_severity_levels(s) = 0
      BY <1>6, <2>1 DEF map_severity_levels
    <3>2. Promised!Importance(s) = 1
      BY <1>1, <1>4, <1>5, <2>1
    <3>. QED
      BY <3>1, <3>2
  <2>2. CASE s = "debug"
    <3>1. map_severity_levels(s) = 1
      BY <1>6, <2>2 DEF map_severity_levels
    <3>2. Promised!Importance(s) = 2
      BY <1>1, <1>4, <1>5, <2>2
    <3>. QED
      BY <3>1, <3>2
  <2>3. CASE s = "info"
    <3>1. map_severity_levels(s) = 2
      BY <1>6, <2>3 DEF map_severity_levels
    <3>2. Promised!Importance(s) = 3
      BY <1>1, <1>4, <1>5, <2>3
    <3>. QED
      BY <3>1, <3>2
  <2>4. CASE s = "warn"
    <3>1. map_severity_levels(s) = 3
      BY <1>6, <2>4 DEF map_severity_levels
    <3>2. Promised!Importance(s) = 4
      BY <1>1, <1>4, <1>5, <2>4
    <3>. QED
      BY <3>1, <3>2
  <2>5. CASE s = "error"
    <3>1. map_severity_levels(s) = 4
      BY <1>6, <2>5 DEF map_severity_levels
    <3>2. Promised!Importance(s) = 5
      BY <1>1, <1>4, <1>5, <2>5
    <3>. QED
      BY <3>1, <3>2
  <2>6. CASE s = "critical"
    <3>1. map_severity_levels(s) = 5
      BY <1>6, <2>6 DEF map_severity_levels
    <3>2. Promised!Importance(s) = 6
      BY <1>1, <1>4, <1>5, <2>6
    <3>. QED
      BY <3>1, <3>2
  <2>. QED
    BY <2>1, <2>2, <2>3, <2>4, <2>5, <2>6
<1>. QED
  BY <1>4, <1>7 DEF S

\* The severities keep their order, and none is lost, on their way to spdlog
\* and back.
LEMMA SeveritiesSurvive ==
  ASSUME NEW s \in Used
  PROVE  /\ SeverityOf(map_severity_levels(s)) = s
         /\ map_severity_levels(s) \in 0 .. 5
         /\ \A t \in Used : map_severity_levels(s) >= map_severity_levels(t)
                              <=> Promised!Importance(t) <= Promised!Importance(s)
<1> DEFINE six == {"trace", "debug", "info", "warn", "error", "critical"}
<1>1. Used \subseteq six
  BY LoggerAssumption
<1>2. \A t \in Used :
        /\ Promised!Importance(t) \in 1 .. 6
        /\ map_severity_levels(t) = Promised!Importance(t) - 1
        /\ Promised!Severities[Promised!Importance(t)] = t
  BY <1>1, LevelIsImportance
<1>3. \A t \in Used : map_severity_levels(t) = map_severity_levels(s) => t = s
  <2>1. ASSUME NEW t \in Used, map_severity_levels(t) = map_severity_levels(s) PROVE t = s
    <3>1. Promised!Importance(t) = Promised!Importance(s)
      BY <1>2, <2>1
    <3>. QED
      BY <1>2, <3>1
  <2>. QED
    BY <2>1
<1>4. SeverityOf(map_severity_levels(s)) = s
  BY <1>3, Zenon DEF SeverityOf
<1>. QED
  BY <1>2, <1>4

-----------------------------------------------------------------------------
(* The invariant *)

\* What the spdlog loggers of a run can be: a PIMPL class that decides the sink
\* has one of its sinks, and no logger has the level "off".
Built ==
  {v \in PimplState :
     /\ v.sink \in SinksOf(v.kind)
     /\ \E s \in Used : v.level = map_severity_levels(s)}

LInv ==
  /\ Pointers!PInv
  /\ \A x \in Vars : Held[x] \in Built \cup {Null}

\* What Logger's own operators see is what is held.
LEMMA HeldIsSeen ==
  ASSUME LInv, NEW x \in Vars
  PROVE  /\ P!IsNull(x) <=> Held[x] = Null
         /\ ~P!IsNull(x) => Held[x] = Pimpl(x) /\ Held[x] \in Built
<1>1. Null \notin PimplState
  BY DEF LInv, Pointers!PInv, Pointers!PimplAssumption
<1>2. Held[x] = IF ptr[x] = Null THEN Null ELSE heap[ptr[x]]
  BY DEF Held, Pointers!Seen, Pointers!Content, Pointers!IsNull
<1>3. ptr[x] # Null => heap[ptr[x]] \in PimplState
  BY DEF LInv, Pointers!PInv, Pointers!TypeOK, Pointers!OneOwnerEach, Pointers!IsNull
<1>4. ptr[x] # Null => heap[ptr[x]] # Null
  BY <1>1, <1>3
<1>5. Held[x] \in Built \cup {Null}
  BY DEF LInv
<1>. QED
  BY <1>2, <1>4, <1>5 DEF P!IsNull, Pimpl

\* The domain of what is held.
LEMMA HeldIsFunction == Held = [x \in Vars |-> Held[x]]
  BY DEF Held, Pointers!Seen

\* The operations on pointers, on what is held.
LEMMA ConstructHeld ==
  ASSUME LInv, NEW x \in Vars, NEW v \in PimplState, P!Construct(x, v)
  PROVE  Pointers!PInv' /\ Held' = [Held EXCEPT ![x] = v]
<1>1. Pointers!Construct(x, v)
  BY DEF P!Construct, Pointers!Construct, P!Deallocate, Pointers!Deallocate
<1>. QED
  BY <1>1, Pointers!ConstructStep, Pointers!ConstructSeen DEF LInv, Held

\* A null logger holds nothing.
LEMMA DestroyHeld ==
  ASSUME LInv, NEW x \in Vars, P!Destroy(x)
  PROVE  Pointers!PInv' /\ Held' = [Held EXCEPT ![x] = Null]
<1>1. Pointers!Destroy(x)
  BY DEF P!Destroy, Pointers!Destroy, P!Deallocate, Pointers!Deallocate
<1>. QED
  BY <1>1, Pointers!DestroyStep, Pointers!DestroySeen DEF LInv, Held

\* A move hands the spdlog logger over.
LEMMA MoveHeld ==
  ASSUME LInv, NEW x \in Vars, NEW y \in Vars, P!Move(x, y)
  PROVE  Pointers!PInv' /\ Held' = [Held EXCEPT ![y] = Null, ![x] = Held[y]]
<1>1. Pointers!Move(x, y)
  BY DEF P!Move, Pointers!Move, P!Deallocate, Pointers!Deallocate
<1>. QED
  BY <1>1, Pointers!MoveStep, Pointers!MoveSeen DEF LInv, Held

\* A swap exchanges two of them.
LEMMA SwapHeld ==
  ASSUME LInv, NEW x \in Vars, NEW y \in Vars, P!Swap(x, y)
  PROVE  Pointers!PInv' /\ Held' = [Held EXCEPT ![x] = Held[y], ![y] = Held[x]]
<1>1. Pointers!Swap(x, y)
  BY DEF P!Swap, Pointers!Swap
<1>. QED
  BY <1>1, Pointers!SwapStep, Pointers!SwapSeen DEF LInv, Held

\* A modifier changes the one of its variable.
LEMMA UpdateHeld ==
  ASSUME LInv, NEW x \in Vars, NEW v \in PimplState, P!Update(x, v)
  PROVE  Pointers!PInv' /\ Held[x] # Null /\ Held' = [Held EXCEPT ![x] = v]
<1>1. Pointers!Update(x, v)
  BY DEF P!Update, Pointers!Update, P!IsNull, Pointers!IsNull
<1>. QED
  BY <1>1, Pointers!UpdateStep, Pointers!UpdateSeen DEF LInv, Held

\* A copy of a null logger is null, a copy of another one a clone.
LEMMA CopyHeld ==
  ASSUME LInv, NEW x \in Vars, NEW y \in Vars, P!Copy(x, y)
  PROVE  Pointers!PInv' /\ Held' = [Held EXCEPT ![x] = Held[y]]
<1>1. CASE P!IsNull(y)
  <2>1. P!Destroy(x)
    BY <1>1 DEF P!Copy
  <2>. QED
    BY <1>1, <2>1, HeldIsSeen, DestroyHeld
<1>2. CASE ~P!IsNull(y)
  <2>1. P!Construct(x, Held[y]) /\ Held[y] \in PimplState
    BY <1>2, HeldIsSeen DEF P!Copy, Pimpl, Built
  <2>. QED
    BY <2>1, ConstructHeld
<1>. QED
  BY <1>1, <1>2

-----------------------------------------------------------------------------
(* The documented logger *)

\* A spdlog logger as the documentation sees it.
Shown(v) ==
  IF v = Null THEN Null
  ELSE [sink |-> v.sink, id |-> v.id, threshold |-> SeverityOf(v.level)]
Documented == [x \in Vars |-> Shown(Held[x])]


\* The refinement mapping, and that it is what is held.
Mapped ==
  [x \in Vars |->
    IF P!IsNull(x) THEN Null
    ELSE [sink |-> Pimpl(x).sink, id |-> Pimpl(x).id, threshold |-> SeverityOf(Pimpl(x).level)]]

LEMMA MappedIsDocumented == LInv => Mapped = Documented
<1> SUFFICES ASSUME LInv PROVE Mapped = Documented
  OBVIOUS
<1>1. ASSUME NEW x \in Vars
      PROVE  (IF P!IsNull(x) THEN Null
              ELSE [sink |-> Pimpl(x).sink, id |-> Pimpl(x).id,
                    threshold |-> SeverityOf(Pimpl(x).level)]) = Shown(Held[x])
  <2>1. CASE P!IsNull(x)
    BY <2>1, HeldIsSeen DEF Shown
  <2>2. CASE ~P!IsNull(x)
    <3>1. Held[x] = Pimpl(x) /\ Held[x] # Null
      BY <2>2, HeldIsSeen
    <3>. QED
      BY <2>2, <3>1 DEF Shown
  <2>. QED
    BY <2>1, <2>2
<1>. QED
  BY <1>1 DEF Mapped, Documented

\* The same, after a step.
LEMMA MappedIsDocumentedNext == (LInv => Mapped = Documented)'
<1>1. LInv => Mapped = Documented
  BY MappedIsDocumented
<1>. QED
  BY <1>1, PTL
-----------------------------------------------------------------------------
(* The operations, on what is held and on the documented logger *)

\* A change of what one variable holds keeps the invariant, and shows in that
\* variable only.
LEMMA SetHeld ==
  ASSUME LInv, NEW x \in Vars, NEW v \in Built \cup {Null},
         Pointers!PInv', Held' = [Held EXCEPT ![x] = v]
  PROVE  LInv' /\ Mapped' = [Mapped EXCEPT ![x] = Shown(v)]
<1>1. \A y \in Vars : Held'[y] = IF y = x THEN v ELSE Held[y]
  BY HeldIsFunction
<1>2. LInv'
  BY <1>1 DEF LInv
<1>3. Documented' = [Documented EXCEPT ![x] = Shown(v)]
  BY <1>1 DEF Documented, Shown
<1>. QED
  BY <1>2, <1>3, MappedIsDocumented, MappedIsDocumentedNext

\* A new logger logs what is at least informative.
LEMMA CreateRefined ==
  ASSUME LInv, NEW x \in Vars, NEW kind \in Kinds, NEW id \in Ids, NEW k \in Sinks,
         Create(x, kind, id, k)
  PROVE  LInv' /\ Promised!SCreate(x, id, k)
<1> DEFINE v == [kind |-> kind, sink |-> k, id |-> id, level |-> Levels.info]
<1>1. Levels.info = map_severity_levels("info") /\ "info" \in Used
  BY LoggerAssumption DEF Levels, map_severity_levels
<1>2. Levels.info \in 0 .. 6
  BY DEF Levels
<1>3. v \in Built
  BY <1>1, <1>2 DEF Built, PimplState, Create
<1>4. Shown(v) = [sink |-> k, id |-> id, threshold |-> "info"]
  <2>1. v # Null
    BY <1>3 DEF Built, LInv, Pointers!PInv, Pointers!PimplAssumption
  <2>2. SeverityOf(Levels.info) = "info"
    BY <1>1, SeveritiesSurvive
  <2>. QED
    BY <2>1, <2>2 DEF Shown
<1>5. P!Construct(x, v) /\ written' = written
  BY DEF Create
<1>6. v \in PimplState
  BY <1>3 DEF Built
<1> HIDE DEF v
<1>7. LInv' /\ Mapped' = [Mapped EXCEPT ![x] = Shown(v)]
  BY <1>3, <1>5, <1>6, ConstructHeld, SetHeld
<1>. QED
  BY <1>4, <1>5, <1>7 DEF Promised!SCreate, Promised!Var!Construct, Mapped

\* A logger that is destroyed is null.
LEMMA DestroyRefined ==
  ASSUME LInv, NEW x \in Vars, Destroy(x)
  PROVE  LInv' /\ Promised!SDestroy(x)
<1>1. Pointers!PInv' /\ Held' = [Held EXCEPT ![x] = Null]
  BY DestroyHeld DEF Destroy
<1>2. LInv' /\ Mapped' = [Mapped EXCEPT ![x] = Shown(Null)]
  BY <1>1, SetHeld
<1>. QED
  BY <1>2 DEF Destroy, Promised!SDestroy, Promised!Var!Destroy, Mapped, Shown

\* The global logger is standard out on the first rank, and null on the others.
LEMMA DefaultGlobalRefined ==
  ASSUME LInv, NEW x \in Vars, NEW rank \in 0 .. 1, NEW id \in Ids,
         DefaultGlobal(x, rank, id)
  PROVE  LInv' /\ Promised!SDefaultGlobal(x, rank, id)
<1>1. CASE rank = 0
  <2>1. "stdout" \in Sinks
    BY DEF Sinks
  <2>. QED
    BY <1>1, <2>1, CreateRefined DEF DefaultGlobal, Promised!SDefaultGlobal
<1>2. CASE rank # 0
  <2>1. Destroy(x)
    BY <1>2 DEF DefaultGlobal, Destroy
  <2>. QED
    BY <1>2, <2>1, DestroyRefined DEF Promised!SDefaultGlobal, Promised!SDestroy
<1>. QED
  BY <1>1, <1>2

\* A copy has the name, the sink, and a threshold that starts out the same.
LEMMA CopyRefined ==
  ASSUME LInv, NEW x \in Vars, NEW y \in Vars, CopyAssign(x, y)
  PROVE  LInv' /\ Promised!SAssign(x, y)
<1>1. Pointers!PInv' /\ Held' = [Held EXCEPT ![x] = Held[y]]
  BY CopyHeld DEF CopyAssign
<1>2. Held[y] \in Built \cup {Null}
  BY DEF LInv
<1>3. LInv' /\ Mapped' = [Mapped EXCEPT ![x] = Shown(Held[y])]
  BY <1>1, <1>2, SetHeld
<1>4. Mapped[y] = Shown(Held[y])
  BY MappedIsDocumented DEF Documented
<1>5. Promised!Var!Copy(x, y)
  BY <1>3, <1>4 DEF Promised!Var!Copy, Mapped
<1>. QED
  BY <1>3, <1>5 DEF CopyAssign, Promised!SAssign

\* A null source after a move, unless the move is of a logger onto itself.
LEMMA MoveRefined ==
  ASSUME LInv, NEW x \in Vars, NEW y \in Vars, MoveAssign(x, y)
  PROVE  LInv' /\ Promised!SAssign(x, y)
<1>1. Pointers!PInv' /\ Held' = [Held EXCEPT ![y] = Null, ![x] = Held[y]]
  BY MoveHeld DEF MoveAssign
<1>2. \A z \in Vars : Held'[z] = IF z = x THEN Held[y] ELSE IF z = y THEN Null ELSE Held[z]
  BY <1>1, HeldIsFunction
<1>3. LInv'
  BY <1>1, <1>2 DEF LInv
<1>4. Documented' = [Documented EXCEPT ![y] = Null, ![x] = Documented[y]]
  BY <1>2 DEF Documented, Shown
<1>5. Promised!Var!Move(x, y)
  BY <1>3, <1>4, MappedIsDocumented, MappedIsDocumentedNext DEF Promised!Var!Move, Mapped
<1>. QED
  BY <1>3, <1>5 DEF MoveAssign, Promised!SAssign

\* A swap exchanges names, sinks and thresholds.
LEMMA SwapRefined ==
  ASSUME LInv, NEW x \in Vars, NEW y \in Vars, Swap(x, y)
  PROVE  LInv' /\ Promised!SAssign(x, y)
<1>1. Pointers!PInv' /\ Held' = [Held EXCEPT ![x] = Held[y], ![y] = Held[x]]
  BY SwapHeld DEF Swap
<1>2. \A z \in Vars : Held'[z] = IF z = y THEN Held[x] ELSE IF z = x THEN Held[y] ELSE Held[z]
  BY <1>1, HeldIsFunction
<1>3. LInv'
  BY <1>1, <1>2 DEF LInv
<1>4. Documented' = [Documented EXCEPT ![x] = Documented[y], ![y] = Documented[x]]
  BY <1>2 DEF Documented, Shown
<1>5. Promised!Var!Swap(x, y)
  BY <1>3, <1>4, MappedIsDocumented, MappedIsDocumentedNext DEF Promised!Var!Swap, Mapped
<1>. QED
  BY <1>3, <1>5 DEF Swap, Promised!SAssign

\* A threshold is set for one logger: no other one has the same PIMPL.
LEMMA SetSeverityRefined ==
  ASSUME LInv, NEW x \in Vars, NEW s \in Used, SetSeverity(x, s)
  PROVE  LInv' /\ Promised!SSetSeverity(x, s)
<1> DEFINE v == [Pimpl(x) EXCEPT !.level = map_severity_levels(s)]
<1>1. P!Update(x, v) /\ written' = written /\ ~P!IsNull(x)
  BY DEF SetSeverity, P!Update
<1>2. Held[x] = Pimpl(x) /\ Held[x] \in Built
  BY <1>1, HeldIsSeen
<1>3. /\ v \in PimplState /\ v.kind = Held[x].kind /\ v.sink = Held[x].sink
      /\ v.id = Held[x].id /\ v.level = map_severity_levels(s)
  BY <1>2, SeveritiesSurvive DEF Built, PimplState
<1>4. v \in Built
  BY <1>2, <1>3 DEF Built
<1>5. v # Null
  BY <1>3 DEF LInv, Pointers!PInv, Pointers!PimplAssumption
<1> HIDE DEF v
<1>6. Held[x] # Null /\ LInv' /\ Mapped' = [Mapped EXCEPT ![x] = Shown(v)]
  BY <1>1, <1>3, <1>4, UpdateHeld, SetHeld
<1>7. Mapped[x] = Shown(Held[x])
  BY MappedIsDocumented DEF Documented
<1>8. /\ Shown(Held[x]) = [sink |-> Held[x].sink, id |-> Held[x].id,
                           threshold |-> SeverityOf(Held[x].level)]
      /\ Shown(v) = [sink |-> Held[x].sink, id |-> Held[x].id, threshold |-> s]
  BY <1>3, <1>5, <1>6, SeveritiesSurvive DEF Shown
<1>9. Shown(v) = [Mapped[x] EXCEPT !.threshold = s]
  BY <1>7, <1>8
<1>10. Mapped[x] # Null
  <2>1. PICK t \in Used : Held[x].level = map_severity_levels(t)
    BY <1>2 DEF Built
  <2>2. SeverityOf(Held[x].level) \in Used
    BY <2>1, SeveritiesSurvive
  <2>3. Held[x].sink \in Sinks /\ Held[x].id \in Ids
    BY <1>2 DEF Built, PimplState
  <2>4. Shown(Held[x]) \in [sink : Sinks, id : Ids, threshold : Used]
    BY <1>8, <2>2, <2>3
  <2>. QED
    BY <1>7, <2>4, MarkersAssumption
<1>. QED
  BY <1>1, <1>6, <1>9, <1>10 DEF Promised!SSetSeverity, Promised!Var!Update, Mapped

\* A message gets through exactly if its severity is at least the threshold's,
\* and goes to the sink under the name.
LEMMA LogRefined ==
  ASSUME LInv, NEW x \in Vars, NEW s \in Used, Log(x, s)
  PROVE  LInv' /\ Promised!SLog(x, s)
<1>1. ~P!IsNull(x) /\ ptr' = ptr /\ heap' = heap
  BY DEF Log
<1>2. Held[x] = Pimpl(x) /\ Held[x] \in Built /\ Held[x] # Null
  BY <1>1, HeldIsSeen
<1>3. LInv' /\ Held' = Held
  <2>1. Pointers!PInv' /\ Held' = Held
    BY <1>1 DEF LInv, Held, Pointers!PInv, Pointers!TypeOK, Pointers!OneOwnerEach, Pointers!IsNull,
                Pointers!Seen, Pointers!Content, Pointers!PimplAssumption
  <2>. QED
    BY <2>1 DEF LInv
<1>4. PICK t \in Used : Held[x].level = map_severity_levels(t)
  BY <1>2 DEF Built
<1>5. SeverityOf(Held[x].level) = t
  BY <1>4, SeveritiesSurvive
<1>6. Mapped[x] = [sink |-> Held[x].sink, id |-> Held[x].id, threshold |-> t]
  BY <1>2, <1>5, MappedIsDocumented DEF Documented, Shown
<1>7. Mapped[x] # Null
  <2>1. Held[x].sink \in Sinks /\ Held[x].id \in Ids
    BY <1>2 DEF Built, PimplState
  <2>. QED
    BY <1>6, <2>1, MarkersAssumption
<1>8. map_severity_levels(s) >= map_severity_levels(t)
  BY <1>2, <1>4 DEF Log, ShouldLog
<1>9. Promised!Importance(Mapped[x].threshold) <= Promised!Importance(s)
  BY <1>6, <1>8, SeveritiesSurvive
<1>10. Mapped' = Mapped
  BY <1>1 DEF Mapped, P!IsNull, Pimpl
<1>11. written' = [written EXCEPT ![Mapped[x].sink] =
                     Append(@, [id |-> Mapped[x].id, severity |-> s])]
  <2>1. written' = [written EXCEPT ![Pimpl(x).sink] =
                     Append(@, [id |-> Pimpl(x).id, severity |-> s])]
    BY Zenon DEF Log
  <2>2. Pimpl(x).sink = Mapped[x].sink /\ Pimpl(x).id = Mapped[x].id
    BY <1>2, <1>6
  <2>. QED
    BY <2>1, <2>2
<1>. QED
  BY <1>3, <1>7, <1>9, <1>10, <1>11 DEF Promised!SLog, Mapped

\* Loggers start null.
LEMMA LInvInit == Init => LInv /\ Promised!SInit
<1> SUFFICES ASSUME Init PROVE LInv /\ Promised!SInit
  OBVIOUS
<1>1. Pointers!PInv
  <2>1. Pointers!PimplAssumption /\ Pointers!Init
    BY MarkersAssumption DEF Init, P!Init, P!PimplAssumption, Pointers!PimplAssumption, Pointers!Init
  <2>. QED
    BY <2>1, Pointers!PInvInit
<1>2. \A x \in Vars : ptr[x] = Null
  BY DEF Init, P!Init
<1>3. LInv
  BY <1>1, <1>2 DEF LInv, Held, Pointers!Seen, Pointers!Content, Pointers!IsNull
<1>4. Promised!SInit
  BY <1>2 DEF Init, Promised!SInit, Promised!Var!Init, P!IsNull, Promised!Sinks, Sinks
<1>. QED
  BY <1>3, <1>4

\* Every step keeps the invariant and is one of the documented logger, or none.
LEMMA LInvNext == LInv /\ [Next]_vars => LInv' /\ [Promised!SNext]_<<Mapped, written>>
<1> SUFFICES ASSUME LInv, [Next]_vars PROVE LInv' /\ [Promised!SNext]_<<Mapped, written>>
  OBVIOUS
<1>1. ASSUME NEW x \in Vars, NEW id \in Ids, NEW kind \in Kinds, NEW k \in Sinks,
             Create(x, kind, id, k)
      PROVE  LInv' /\ Promised!SNext
  <2>1. LInv' /\ Promised!SCreate(x, id, k)
    BY <1>1, CreateRefined
  <2>2. k \in Promised!Sinks
    BY DEF Promised!Sinks, Sinks
  <2>. QED
    BY <2>1, <2>2 DEF Promised!SNext
<1>2. ASSUME NEW x \in Vars, NEW id \in Ids, NEW rank \in 0 .. 1, DefaultGlobal(x, rank, id)
      PROVE  LInv' /\ Promised!SNext
  BY <1>2, DefaultGlobalRefined DEF Promised!SNext
<1>3. ASSUME NEW x \in Vars, NEW y \in Vars, CopyAssign(x, y) \/ MoveAssign(x, y) \/ Swap(x, y)
      PROVE  LInv' /\ Promised!SNext
  BY <1>3, CopyRefined, MoveRefined, SwapRefined DEF Promised!SNext
<1>4. ASSUME NEW x \in Vars, Destroy(x)
      PROVE  LInv' /\ Promised!SNext
  BY <1>4, DestroyRefined DEF Promised!SNext
<1>5. ASSUME NEW x \in Vars, NEW s \in Used, SetSeverity(x, s) \/ Log(x, s)
      PROVE  LInv' /\ Promised!SNext
  BY <1>5, SetSeverityRefined, LogRefined DEF Promised!SNext
<1>6. CASE UNCHANGED vars
  <2>1. ptr' = ptr /\ heap' = heap /\ written' = written
    BY <1>6 DEF vars
  <2>2. Pointers!PInv' /\ Held' = Held
    BY <2>1 DEF LInv, Held, Pointers!PInv, Pointers!TypeOK, Pointers!OneOwnerEach, Pointers!IsNull,
                Pointers!Seen, Pointers!Content, Pointers!PimplAssumption
  <2>3. LInv'
    BY <2>2 DEF LInv
  <2>4. Mapped' = Mapped
    BY <2>1 DEF Mapped, P!IsNull, Pimpl
  <2>. QED
    BY <2>1, <2>3, <2>4
<1>7. CASE Next
  BY <1>1, <1>2, <1>3, <1>4, <1>5, <1>7 DEF Next
<1>. QED
  BY <1>6, <1>7

-----------------------------------------------------------------------------
(* Theorems *)

\* The inductive invariant: pointers own what they point to, no sink is one that
\* the class could not have, and no level is one that no severity maps to.
THEOREM Invariance == Spec => []LInv
<1>1. Init => LInv
  BY LInvInit
<1>2. LInv /\ [Next]_vars => LInv'
  BY LInvNext
<1>. QED
  BY <1>1, <1>2, PTL DEF Spec

\* A critical message always gets through to the sink: whatever thresholds a
\* program sets on a logger, and on those it was copied from, none is so high.
THEOREM CriticalGetsThrough == Spec => []CriticalAlwaysLogged
<1>1. LInv => CriticalAlwaysLogged
  <2> SUFFICES ASSUME LInv, NEW x \in Vars, ~P!IsNull(x) PROVE ShouldLog(x, "critical")
    BY DEF CriticalAlwaysLogged
  <2>1. Held[x] = Pimpl(x) /\ Held[x] \in Built
    BY HeldIsSeen
  <2>2. PICK t \in Used : Pimpl(x).level = map_severity_levels(t)
    BY <2>1 DEF Built
  <2>3. map_severity_levels("critical") = 5
    BY DEF map_severity_levels, Levels
  <2>4. map_severity_levels(t) \in 0 .. 5
    BY SeveritiesSurvive
  <2>. QED
    BY <2>2, <2>3, <2>4 DEF ShouldLog
<1>. QED
  BY <1>1, Invariance, PTL

\* Asking both sides makes PIMPLs equal only within a class, although a bare
\* SpdlogPIMPL would take any other for its equal.
LEMMA EqualWithinAClass ==
  ASSUME NEW a \in PimplState, NEW b \in PimplState
  PROVE  AreEqual(a, b) <=>
           a.kind = b.kind /\ a.id = b.id /\ (a.kind = "FileSpdlog" => a.sink = b.sink)
  BY DEF AreEqual, AreEqual_

\* Comparison is an equivalence, on the loggers that a program has and on any
\* PIMPL that it may make; and equal loggers of the library's own classes write
\* to the same sink under the same name.
THEOREM ComparisonSound == Spec => []ComparisonIsSound
<1>1. LInv => EqualityIsEquivalence
  <2> SUFFICES ASSUME LInv, NEW x \in Vars, NEW y \in Vars
               PROVE  /\ Equal(x, x)
                      /\ Equal(x, y) =>
                           /\ Equal(y, x)
                           /\ ~P!IsNull(x) =>
                                \A c \in PimplState : AreEqual(Pimpl(x), c) <=> AreEqual(Pimpl(y), c)
    BY DEF EqualityIsEquivalence
  <2>1. \A z \in Vars : ~P!IsNull(z) => Pimpl(z) \in PimplState
    BY HeldIsSeen DEF Built
  <2>. QED
    BY <2>1, EqualWithinAClass DEF Equal
<1>2. LInv => EqualLoggersShareSink
  <2> SUFFICES ASSUME LInv, NEW x \in Vars, NEW y \in Vars,
                      Equal(x, y), ~P!IsNull(x), Pimpl(x).kind # "SpdlogPIMPL"
               PROVE  Pimpl(x).sink = Pimpl(y).sink /\ Pimpl(x).id = Pimpl(y).id
    BY DEF EqualLoggersShareSink
  <2>1. ~P!IsNull(y) /\ AreEqual(Pimpl(x), Pimpl(y))
    BY DEF Equal
  <2>2. Pimpl(x) \in Built /\ Pimpl(y) \in Built
    BY <2>1, HeldIsSeen
  <2>3. /\ Pimpl(x).kind = Pimpl(y).kind /\ Pimpl(x).id = Pimpl(y).id
        /\ Pimpl(x).kind = "FileSpdlog" => Pimpl(x).sink = Pimpl(y).sink
    BY <2>1, <2>2, EqualWithinAClass DEF Built
  <2>4. CASE Pimpl(x).kind = "FileSpdlog"
    BY <2>3, <2>4
  <2>5. CASE Pimpl(x).kind = "StdoutSpdlog"
    <3>1. Pimpl(x).sink \in SinksOf("StdoutSpdlog") /\ Pimpl(y).sink \in SinksOf("StdoutSpdlog")
      BY <2>2, <2>3, <2>5 DEF Built
    <3>2. SinksOf("StdoutSpdlog") = {"stdout"}
      BY DEF SinksOf
    <3>. QED
      BY <2>3, <3>1, <3>2
  <2>6. Pimpl(x).kind \in {"StdoutSpdlog", "FileSpdlog"}
    BY <2>2, LoggerAssumption DEF Built, PimplState
  <2>. QED
    BY <2>4, <2>5, <2>6
<1>. QED
  BY <1>1, <1>2, Invariance, PTL DEF ComparisonIsSound

\* The spdlog loggers behind pointers are the documented loggers: each has a
\* threshold of its own, in the order of the severities, copies share the sink,
\* and a sink gets exactly the messages that are important enough, under the
\* name of the logger and in order.
THEOREM Refinement == Spec => KeepsItsPromise
<1>1. Init => LInv /\ Promised!SInit
  BY LInvInit
<1>2. LInv /\ [Next]_vars => LInv' /\ [Promised!SNext]_<<Mapped, written>>
  BY LInvNext
<1>. QED
  BY <1>1, <1>2, PTL DEF Spec, KeepsItsPromise, Promised!SSpec, Promised!svars, Mapped
=============================================================================
