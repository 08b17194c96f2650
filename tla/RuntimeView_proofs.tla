------------------------- MODULE RuntimeView_proofs -------------------------
(* Theorems about RuntimeView, for any number of views, PIMPLs and callbacks. *)
EXTENDS RuntimeView, SequenceTheorems, FiniteSetTheorems, TLAPS

\* What a stack keeps when its top is popped.
LEMMA FrontOfStack ==
  ASSUME NEW S, NEW s \in Seq(S), s # <<>>
  PROVE  /\ Len(s) \in Nat /\ Len(s) >= 1
         /\ Last(s) \in S
         /\ Front(s) \in Seq(S)
         /\ Len(Front(s)) = Len(s) - 1
         /\ \A i \in 1 .. Len(s) - 1 : Front(s)[i] = s[i]
<1>1. Len(s) \in Nat /\ Len(s) >= 1
  BY EmptySeq
<1>2. Last(s) \in S
  BY DEF Last
<1>3. Front(s) \in Seq(S)
  BY DEF Front
<1>4. Len(Front(s)) = Len(s) - 1
  <2>1. CASE Len(s) = 1
    BY <2>1, SubSeqEmpty, EmptySeq DEF Front
  <2>2. CASE Len(s) > 1
    BY <1>1, <2>2 DEF Front
  <2>3. QED
    BY <1>1, <2>1, <2>2
<1>5. \A i \in 1 .. Len(s) - 1 : Front(s)[i] = s[i]
  BY DEF Front
<1>6. QED
  BY <1>1, <1>2, <1>3, <1>4, <1>5

\* Moving the top destructor in or out of a callback leaves the rest alone.
LEMMA SetTopOfFrames ==
  ASSUME TypeOK, frames # <<>>, NEW at \in {"loop", "call"}
  PROVE  /\ SetTop(at) \in Seq(Frame)
         /\ Len(SetTop(at)) = Len(frames)
         /\ \A i \in 1 .. Len(frames) : SetTop(at)[i].pimpl = frames[i].pimpl
         /\ \A i \in 1 .. Len(frames) - 1 : SetTop(at)[i] = frames[i]
         /\ SetTop(at)[Len(frames)].at = at
<1>1. frames \in Seq(Frame) /\ Len(frames) \in 1 .. Len(frames)
  BY EmptySeq DEF TypeOK
<1>2. frames[Len(frames)] \in Frame
  BY <1>1, ElementOfSeq
<1>3. [frames[Len(frames)] EXCEPT !.at = at] \in Frame
  BY <1>2 DEF Frame
<1>4. SetTop(at) = [frames EXCEPT ![Len(frames)] = [frames[Len(frames)] EXCEPT !.at = at]]
  BY DEF SetTop
<1>5. /\ [frames[Len(frames)] EXCEPT !.at = at].pimpl = frames[Len(frames)].pimpl
      /\ [frames[Len(frames)] EXCEPT !.at = at].at = at
  BY <1>2 DEF Frame
<1>6. QED
  BY <1>1, <1>3, <1>4, <1>5, ExceptSeq

\* The callbacks and frames the release of a pointer leaves behind are typed.
LEMMA ReleaseType ==
  ASSUME TypeOK, NEW p \in Pimpls \cup {NoPimpl}, NEW vw, NEW cb,
         NEW fr \in Seq(Frame), Release(p, vw, cb, fr)
  PROVE  /\ phase' \in [Pimpls -> Phases]
         /\ frames' \in Seq(Frame)
<1>1. phase \in [Pimpls -> Phases]
  BY DEF TypeOK
<1>2. CASE p # NoPimpl /\ ~Referenced(p, vw, cb)
  <2>1. [pimpl |-> p, at |-> "loop"] \in Frame
    BY <1>2 DEF Frame
  <2>2. phase' = [phase EXCEPT ![p] = "dying"] /\ frames' = Append(fr, [pimpl |-> p, at |-> "loop"])
    BY <1>2 DEF Release
  <2>3. phase' \in [Pimpls -> Phases]
    BY <1>1, <2>2 DEF Phases
  <2>4. frames' \in Seq(Frame)
    BY <2>1, <2>2, AppendProperties
  <2>5. QED
    BY <2>3, <2>4
<1>3. CASE ~(p # NoPimpl /\ ~Referenced(p, vw, cb))
  BY <1>1, <1>3 DEF Release
<1>4. QED
  BY <1>2, <1>3

\* The initial state is well typed.
LEMMA InitType == Init => TypeOK
<1> SUFFICES ASSUME Init PROVE TypeOK
  OBVIOUS
<1>1. /\ status \in {"running", "terminated", "used_after_finalize", "reduced_on_null"}
      /\ mpi \in MpiStates
      /\ hostInit \in BOOLEAN
      /\ view \in [Views -> Pimpls \cup {NoPimpl}]
  BY DEF Init, MpiStates
<1>2. /\ phase \in [Pimpls -> Phases]
      /\ starter \in [Pimpls -> BOOLEAN]
      /\ comm \in [Pimpls -> Comms]
      /\ sets \in [Pimpls -> SUBSET (Ranks \cup {ProcNull})]
  BY DEF Init, Comms, Phases
<1>3. /\ callbacks \in [Pimpls -> Seq(Callback)]
      /\ frames \in Seq(Frame)
      /\ registered \in [Pimpls -> Seq(Callback)]
  BY DEF Init
<1>4. ran \in [Pimpls -> Seq(Called)]
  BY DEF Init
<1>5. QED
  BY <1>1, <1>2, <1>3, <1>4 DEF TypeOK

\* Assigning, swapping or dropping a view keeps the types.
LEMMA RebindType ==
  ASSUME TypeOK, NEW vw \in [Views -> Pimpls \cup {NoPimpl}],
         NEW old \in Pimpls \cup {NoPimpl}, Rebind(vw, old)
  PROVE  TypeOK'
<1>1. phase' \in [Pimpls -> Phases] /\ frames' \in Seq(Frame)
  <2>1. frames \in Seq(Frame)
    BY DEF TypeOK
  <2>2. QED
    BY <2>1, ReleaseType DEF Rebind
<1>2. QED
  BY <1>1 DEF Rebind, TypeOK, pimplVars, history

\* Creating resource sets on demand keeps the types.
LEMMA InstantiateType ==
  ASSUME TypeOK, NEW p \in Pimpls, NEW ranks \in SUBSET (Ranks \cup {ProcNull}),
         Instantiate(p, ranks)
  PROVE  TypeOK'
<1>1. sets' \in [Pimpls -> SUBSET (Ranks \cup {ProcNull})]
  BY DEF TypeOK, Instantiate
<1>2. QED
  BY <1>1 DEF TypeOK, Instantiate, history

\* CommPP's rank is one of the communicator or MPI_PROC_NULL, and its size is that
\* of MPI_COMM_WORLD or 0.
LEMMA CommFacts ==
  ASSUME NEW c \in Comms
  PROVE  /\ CommMe(c) \in Ranks \cup {ProcNull}
         /\ CommSize(c) \in Nat
         /\ 0 .. CommSize(c) - 1 \subseteq Ranks
  BY ConstantsAssumption DEF CommMe, CommSize, Ranks, Comms

\* MPI_Finalize is a callback like any other.
LEMMA FinalizeCallbackType == FinalizeCallback \in Callback
  BY DEF FinalizeCallback, Callback

\* The constructor of a PIMPL keeps the types.
LEMMA NewPimplType ==
  ASSUME TypeOK, NEW p \in Pimpls, NEW c \in Comms, NEW starts \in BOOLEAN,
         NewPimpl(p, c, starts)
  PROVE  /\ phase' \in [Pimpls -> Phases]
         /\ starter' \in [Pimpls -> BOOLEAN]
         /\ comm' \in [Pimpls -> Comms]
         /\ sets' \in [Pimpls -> SUBSET (Ranks \cup {ProcNull})]
         /\ callbacks' \in [Pimpls -> Seq(Callback)]
         /\ registered' \in [Pimpls -> Seq(Callback)]
         /\ ran' = ran
<1> DEFINE stack == IF starts THEN <<FinalizeCallback>> ELSE <<>>
<1>1. stack \in Seq(Callback)
  BY FinalizeCallbackType
<1>2. /\ callbacks' = [callbacks EXCEPT ![p] = stack]
      /\ registered' = [registered EXCEPT ![p] = stack]
  BY DEF NewPimpl
<1> HIDE DEF stack
<1>3. /\ callbacks' \in [Pimpls -> Seq(Callback)]
      /\ registered' \in [Pimpls -> Seq(Callback)]
  BY <1>1, <1>2 DEF TypeOK
<1>4. /\ phase' \in [Pimpls -> Phases]
      /\ starter' \in [Pimpls -> BOOLEAN]
      /\ comm' \in [Pimpls -> Comms]
      /\ ran' = ran
  BY DEF NewPimpl, TypeOK, Phases
<1>5. sets' \in [Pimpls -> SUBSET (Ranks \cup {ProcNull})]
  BY CommFacts DEF NewPimpl, TypeOK
<1>6. QED
  BY <1>3, <1>4, <1>5

\* A destructor that is inside a callback has that callback to pop.
LEMMA PopHasCallback ==
  ASSUME TypeOK, CallHasCallback, NEW p \in Pimpls, InDtor(p, "call")
  PROVE  callbacks[p] # <<>>
<1>1. frames \in Seq(Frame) /\ frames # <<>>
  BY DEF InDtor, TypeOK
<1>2. Len(frames) \in DOMAIN frames
  BY <1>1, EmptySeq
<1>3. QED
  BY <1>2 DEF InDtor, CallHasCallback, Top, Last

\* What the callback that is running holds is a reference to be counted.
LEMMA TopHolds ==
  ASSUME TypeOK, CallHasCallback, NEW p \in Pimpls, InDtor(p, "call")
  PROVE  /\ TopCallback(p).holds \in Pimpls \cup {NoPimpl}
         /\ \E i \in DOMAIN callbacks[p] : callbacks[p][i].holds = TopCallback(p).holds
<1>1. callbacks[p] \in Seq(Callback) /\ callbacks[p] # <<>>
  BY PopHasCallback DEF TypeOK
<1>2. /\ Len(callbacks[p]) \in DOMAIN callbacks[p]
      /\ Last(callbacks[p]) \in Callback
      /\ TopCallback(p) = callbacks[p][Len(callbacks[p])]
  BY <1>1, FrontOfStack, LenProperties DEF TopCallback, Last
<1>3. TopCallback(p).holds \in Pimpls \cup {NoPimpl}
  BY <1>2 DEF TopCallback, Callback
<1>4. QED
  BY <1>2, <1>3

\* Every operation keeps the types.
LEMMA TypeStep == TypeOK /\ CallHasCallback /\ [Next]_vars => TypeOK'
<1> SUFFICES ASSUME TypeOK, CallHasCallback, [Next]_vars PROVE TypeOK'
  OBVIOUS
<1> USE DEF pimplVars, history
<1>1. CASE HostInit
  BY <1>1 DEF HostInit, TypeOK, MpiStates
<1>2. CASE HostFinalize
  BY <1>2 DEF HostFinalize, TypeOK, MpiStates
<1>3. ASSUME NEW v \in Views, NEW c \in Comms, Construct(v, c)
      PROVE  TypeOK'
  <2>1. PICK p \in Pimpls : NewPimpl(p, c, mpi = "uninitialized") /\ view' = [view EXCEPT ![v] = p]
    BY <1>3 DEF Construct
  <2>2. view' \in [Views -> Pimpls \cup {NoPimpl}]
    BY <2>1 DEF TypeOK
  <2>3. mpi' \in MpiStates
    BY <1>3 DEF Construct, TypeOK, MpiStates
  <2>4. (mpi = "uninitialized") \in BOOLEAN
    OBVIOUS
  <2>5. UNCHANGED <<status, hostInit, frames>>
    BY <1>3 DEF Construct
  <2>6. QED
    BY <2>1, <2>2, <2>3, <2>4, <2>5, NewPimplType DEF TypeOK
<1>4. ASSUME NEW v \in Views, ConstructTooLate(v) \/ CommunicateTooLate(v) \/ ReduceOnNull(v)
      PROVE  TypeOK'
  BY <1>4 DEF ConstructTooLate, CommunicateTooLate, ReduceOnNull, Abort, TypeOK
<1>5. ASSUME NEW v \in Views, NEW w \in Views, CopyAssign(v, w) \/ MoveAssign(v, w) \/ Swap(v, w)
      PROVE  TypeOK'
  <2>1. /\ [view EXCEPT ![v] = view[w]] \in [Views -> Pimpls \cup {NoPimpl}]
        /\ [view EXCEPT ![v] = view[w], ![w] = NoPimpl] \in [Views -> Pimpls \cup {NoPimpl}]
        /\ [view EXCEPT ![v] = view[w], ![w] = view[v]] \in [Views -> Pimpls \cup {NoPimpl}]
        /\ view[v] \in Pimpls \cup {NoPimpl}
    BY DEF TypeOK
  <2>2. QED
    BY <1>5, <2>1, RebindType DEF CopyAssign, MoveAssign, Swap
<1>6. ASSUME NEW v \in Views, Destroy(v)
      PROVE  TypeOK'
  <2>1. /\ [view EXCEPT ![v] = NoPimpl] \in [Views -> Pimpls \cup {NoPimpl}]
        /\ view[v] \in Pimpls \cup {NoPimpl}
    BY DEF TypeOK
  <2>2. QED
    BY <1>6, <2>1, RebindType DEF Destroy
<1>7. ASSUME NEW v \in Views, NEW fn \in Functions, NEW h \in Captured, StackCallback(v, fn, h)
      PROVE  TypeOK'
  <2>1. [fn |-> fn, holds |-> h] \in Callback
    BY DEF Callback, Captured, TypeOK
  <2>2. view[v] \in Pimpls
    BY <1>7 DEF StackCallback, TypeOK
  <2>3. /\ Append(callbacks[view[v]], [fn |-> fn, holds |-> h]) \in Seq(Callback)
        /\ Append(registered[view[v]], [fn |-> fn, holds |-> h]) \in Seq(Callback)
    BY <2>1, <2>2, AppendProperties DEF TypeOK
  <2>4. QED
    BY <1>7, <2>2, <2>3 DEF StackCallback, TypeOK
<1>8. ASSUME NEW v \in Views, (\E i \in Ranks : At(v, i)) \/ MyResourceSet(v) \/ Count(v)
      PROVE  TypeOK'
  <2>1. view[v] \in Pimpls
    <3>1. CASE \E i \in Ranks : At(v, i)
      BY <3>1 DEF At, ViewSize, TypeOK, Ranks
    <3>2. CASE MyResourceSet(v) \/ Count(v)
      BY <3>2 DEF MyResourceSet, Count, TypeOK
    <3>3. QED
      BY <1>8, <3>1, <3>2
  <2>2. comm[view[v]] \in Comms
    BY <2>1 DEF TypeOK
  <2>3. view[v] # NoPimpl
    BY <2>1, ConstantsAssumption
  <2>4. CASE \E i \in Ranks : At(v, i)
    BY <2>1, <2>4, InstantiateType DEF At
  <2>5. CASE MyResourceSet(v)
    <3>1. {CommMe(comm[view[v]])} \in SUBSET (Ranks \cup {ProcNull})
      BY <2>2, CommFacts
    <3>2. QED
      BY <2>1, <2>5, <3>1, InstantiateType DEF MyResourceSet
  <2>6. CASE Count(v)
    <3>1. 0 .. ViewSize(v) - 1 \in SUBSET (Ranks \cup {ProcNull})
      BY <2>2, <2>3, CommFacts DEF ViewSize
    <3>2. QED
      BY <2>1, <2>6, <3>1, InstantiateType DEF Count
  <2>7. QED
    BY <1>8, <2>4, <2>5, <2>6
<1>9. ASSUME NEW p \in Pimpls, DtorCall(p)
      PROVE  TypeOK'
  <2>1. callbacks[p] \in Seq(Callback) /\ callbacks[p] # <<>> /\ frames # <<>>
    BY <1>9 DEF DtorCall, InDtor, TypeOK
  <2>2. TopCallback(p) \in Callback
    BY <2>1, FrontOfStack DEF TopCallback
  <2>3. [entry |-> TopCallback(p), mpi |-> mpi] \in Called
    BY <2>2 DEF Called, TypeOK
  <2>4. SetTop("call") \in Seq(Frame)
    BY <2>1, SetTopOfFrames
  <2>5. Append(ran[p], [entry |-> TopCallback(p), mpi |-> mpi]) \in Seq(Called)
    BY <2>3, AppendProperties DEF TypeOK
  <2>6. QED
    BY <1>9, <2>4, <2>5 DEF DtorCall, TypeOK
<1>10. ASSUME NEW p \in Pimpls, DtorPop(p)
       PROVE  TypeOK'
  <2>1. callbacks[p] \in Seq(Callback) /\ callbacks[p] # <<>> /\ frames # <<>>
    BY <1>10, PopHasCallback DEF DtorPop, InDtor, TypeOK
  <2>2. TopCallback(p).holds \in Pimpls \cup {NoPimpl} /\ Front(callbacks[p]) \in Seq(Callback)
    <3>1. Last(callbacks[p]) \in Callback /\ Front(callbacks[p]) \in Seq(Callback)
      BY <2>1, FrontOfStack
    <3>2. QED
      BY <3>1 DEF TopCallback, Callback
  <2>3. SetTop("loop") \in Seq(Frame)
    BY <2>1, SetTopOfFrames
  <2>4. phase' \in [Pimpls -> Phases] /\ frames' \in Seq(Frame)
    BY <1>10, <2>2, <2>3, ReleaseType DEF DtorPop
  <2>5. QED
    BY <1>10, <2>2, <2>4 DEF DtorPop, TypeOK
<1>11. ASSUME NEW p \in Pimpls, DtorFinalize(p)
       PROVE  TypeOK'
  <2>1. callbacks[p] \in Seq(Callback) /\ callbacks[p] # <<>>
    BY <1>11 DEF DtorFinalize, TypeOK
  <2>2. TopCallback(p) \in Callback /\ Front(callbacks[p]) \in Seq(Callback)
    BY <2>1, FrontOfStack DEF TopCallback
  <2>3. [entry |-> TopCallback(p), mpi |-> mpi] \in Called
    BY <2>2 DEF Called, TypeOK
  <2>4. Append(ran[p], [entry |-> TopCallback(p), mpi |-> mpi]) \in Seq(Called)
    BY <2>3, AppendProperties DEF TypeOK
  <2>5. QED
    BY <1>11, <2>2, <2>4 DEF DtorFinalize, TypeOK, MpiStates
<1>12. ASSUME NEW p \in Pimpls, DtorEnd(p)
       PROVE  TypeOK'
  <2>1. Front(frames) \in Seq(Frame)
    BY <1>12, FrontOfStack DEF DtorEnd, InDtor, TypeOK
  <2>2. QED
    BY <1>12, <2>1 DEF DtorEnd, TypeOK, Phases
<1>13. ASSUME NEW p \in Pimpls, DtorThrow(p)
       PROVE  TypeOK'
  BY <1>13 DEF DtorThrow, TypeOK
<1>14. ASSUME NEW p \in Pimpls, NEW v \in Views, UseCaptured(p, v)
       PROVE  TypeOK'
  <2>1. TopCallback(p).holds \in Pimpls \cup {NoPimpl} /\ view[v] \in Pimpls \cup {NoPimpl}
    BY <1>14, TopHolds DEF UseCaptured, TypeOK
  <2>2. [view EXCEPT ![v] = TopCallback(p).holds] \in [Views -> Pimpls \cup {NoPimpl}]
    BY <2>1 DEF TypeOK
  <2>3. QED
    BY <1>14, <2>1, <2>2, RebindType DEF UseCaptured
<1>15. CASE UNCHANGED vars
  BY <1>15 DEF vars, TypeOK
<1>16. QED
  BY <1>1, <1>2, <1>3, <1>4, <1>5, <1>6, <1>7, <1>8, <1>9, <1>10, <1>11, <1>12,
     <1>13, <1>14, <1>15 DEF Next

\* The inductive invariant holds before anything has happened.
LEMMA InitInv == Init => IInv
<1> SUFFICES ASSUME Init PROVE IInv
  OBVIOUS
<1>1. TypeOK
  BY InitType
<1>2. LiveIffReferenced /\ OneDestructorEach /\ CallHasCallback
  BY ConstantsAssumption DEF Init, LiveIffReferenced, Referenced, OneDestructorEach, CallHasCallback
<1>3. FinalizeAtBottom /\ StarterStack /\ UnbornIsBlank
  BY DEF Init, FinalizeAtBottom, StarterStack, UnbornIsBlank
<1>4. OneOwner /\ StarterTearsDownUnderMpi
  BY DEF Init, OneOwner, StarterTearsDownUnderMpi
<1>5. QED
  BY <1>1, <1>2, <1>3, <1>4 DEF IInv

-----------------------------------------------------------------------------
(* References and destructors *)

\* Dropping one pointer keeps the use counts right and enters no destructor twice.
LEMMA ReleaseStep ==
  ASSUME IInv, NEW old \in Pimpls \cup {NoPimpl}, NEW fr \in Seq(Frame),
         Len(fr) = Len(frames),
         \A i \in 1 .. Len(frames) : fr[i].pimpl = frames[i].pimpl,
         Release(old, view', callbacks', fr),
         old # NoPimpl => Referenced(old, view, callbacks),
         \A q \in Pimpls : q # old =>
           (Referenced(q, view', callbacks') <=> Referenced(q, view, callbacks))
  PROVE  LiveIffReferenced' /\ OneDestructorEach'
<1>1. phase \in [Pimpls -> Phases] /\ frames \in Seq(Frame)
  BY DEF IInv, TypeOK
<1>2. CASE old # NoPimpl /\ ~Referenced(old, view', callbacks')
  <2>1. phase' = [phase EXCEPT ![old] = "dying"] /\ frames' = Append(fr, [pimpl |-> old, at |-> "loop"])
    BY <1>2 DEF Release
  <2>2. old \in Pimpls /\ phase[old] = "live"
    BY <1>2 DEF IInv, LiveIffReferenced
  <2>3. LiveIffReferenced'
    BY <1>1, <1>2, <2>1, <2>2 DEF IInv, LiveIffReferenced
  <2>4. /\ Len(frames') = Len(fr) + 1
        /\ \A i \in 1 .. Len(fr) : frames'[i].pimpl = frames[i].pimpl
        /\ frames'[Len(fr) + 1].pimpl = old
        /\ DOMAIN frames' = 1 .. Len(fr) + 1
        /\ DOMAIN frames = 1 .. Len(fr)
        /\ Len(fr) \in Nat
    <3>1. [pimpl |-> old, at |-> "loop"] \in Frame
      BY <2>2 DEF Frame
    <3>2. QED
      BY <1>1, <2>1, <3>1, AppendProperties, LenProperties
  <2>5. \A i \in 1 .. Len(fr) : frames[i].pimpl # old
    BY <2>2, <2>4 DEF IInv, OneDestructorEach
  <2>6. OneDestructorEach'
    <3>1. ASSUME NEW i \in DOMAIN frames', NEW j \in DOMAIN frames',
                 frames'[i].pimpl = frames'[j].pimpl
          PROVE  i = j
      BY <2>4, <2>5, <3>1 DEF IInv, OneDestructorEach
    <3>2. ASSUME NEW q \in Pimpls
          PROVE  phase'[q] = "dying" <=> \E i \in DOMAIN frames' : frames'[i].pimpl = q
      <4>1. CASE q = old
        BY <1>1, <2>1, <2>2, <2>4, <4>1
      <4>2. CASE q # old
        <5>1. phase'[q] = phase[q]
          BY <1>1, <2>1, <4>2
        <5>2. (\E i \in DOMAIN frames' : frames'[i].pimpl = q)
                <=> \E i \in DOMAIN frames : frames[i].pimpl = q
          BY <2>4, <4>2
        <5>3. QED
          BY <5>1, <5>2 DEF IInv, OneDestructorEach
      <4>3. QED
        BY <4>1, <4>2
    <3>3. QED
      BY <3>1, <3>2 DEF OneDestructorEach
  <2>7. QED
    BY <2>3, <2>6
<1>3. CASE ~(old # NoPimpl /\ ~Referenced(old, view', callbacks'))
  <2>1. phase' = phase /\ frames' = fr
    BY <1>3 DEF Release
  <2>2. LiveIffReferenced'
    BY <1>3, <2>1, ConstantsAssumption DEF IInv, LiveIffReferenced
  <2>3. OneDestructorEach'
    <3>1. DOMAIN frames' = DOMAIN frames /\ \A i \in DOMAIN frames : frames'[i].pimpl = frames[i].pimpl
      BY <1>1, <2>1, LenProperties
    <3>2. QED
      BY <2>1, <3>1 DEF IInv, OneDestructorEach
  <2>4. QED
    BY <2>2, <2>3
<1>4. QED
  BY <1>2, <1>3

\* The frames of the call stack are destructors of PIMPLs.
LEMMA FramesOfPimpls ==
  ASSUME TypeOK, NEW i \in DOMAIN frames
  PROVE  frames[i] \in Frame /\ frames[i].pimpl \in Pimpls
<1>1. frames \in Seq(Frame)
  BY DEF TypeOK
<1>2. frames[i] \in Frame
  BY <1>1, ElementOfSeq, LenProperties
<1>3. QED
  BY <1>2 DEF Frame

\* What is said of references and destructors, to be preserved by every step.
RefInv == LiveIffReferenced /\ OneDestructorEach /\ CallHasCallback

\* Assigning, swapping or dropping a view keeps the use counts right: a PIMPL
\* loses its last reference exactly when its destructor starts.
LEMMA RebindStep ==
  ASSUME IInv, NEW vw, NEW old \in Pimpls \cup {NoPimpl}, Rebind(vw, old),
         old # NoPimpl => \E v \in Views : view[v] = old,
         \A q \in Pimpls : q # old =>
           (Referenced(q, vw, callbacks) <=> Referenced(q, view, callbacks))
  PROVE  RefInv'
<1>1. frames \in Seq(Frame)
  BY DEF IInv, TypeOK
<1>2. view' = vw /\ callbacks' = callbacks /\ Release(old, view', callbacks', frames)
  BY DEF Rebind
<1>3. LiveIffReferenced' /\ OneDestructorEach'
  <2>1. old # NoPimpl => Referenced(old, view, callbacks)
    BY DEF Referenced
  <2>2. \A q \in Pimpls : q # old =>
          (Referenced(q, view', callbacks') <=> Referenced(q, view, callbacks))
    BY <1>2
  <2>3. QED
    BY <1>1, <1>2, <2>1, <2>2, ReleaseStep
<1>4. CallHasCallback'
  <2>1. CASE frames' = frames
    BY <1>2, <2>1 DEF IInv, CallHasCallback
  <2>2. CASE old # NoPimpl /\ frames' = Append(frames, [pimpl |-> old, at |-> "loop"])
    <3>1. [pimpl |-> old, at |-> "loop"] \in Frame
      BY <2>2 DEF Frame
    <3>2. /\ DOMAIN frames' = 1 .. Len(frames) + 1
          /\ DOMAIN frames = 1 .. Len(frames)
          /\ \A i \in 1 .. Len(frames) : frames'[i] = frames[i]
          /\ frames'[Len(frames) + 1].at = "loop"
          /\ Len(frames) \in Nat
      BY <1>1, <2>2, <3>1, AppendProperties, LenProperties
    <3>3. QED
      BY <1>2, <3>2 DEF IInv, CallHasCallback
  <2>3. QED
    BY <1>2, <2>1, <2>2 DEF Release
<1>5. QED
  BY <1>3, <1>4 DEF RefInv

\* A step that touches no pointer, phase, callback or frame.
LEMMA RefUnchanged ==
  ASSUME IInv, UNCHANGED <<view, phase, callbacks, frames>>
  PROVE  RefInv'
  BY DEF IInv, RefInv, LiveIffReferenced, Referenced, OneDestructorEach, CallHasCallback

\* The destructor that runs is the only one of its PIMPL.
LEMMA TopFrame ==
  ASSUME IInv, NEW p \in Pimpls, NEW at, InDtor(p, at)
  PROVE  /\ Len(frames) \in Nat /\ Len(frames) >= 1
         /\ DOMAIN frames = 1 .. Len(frames)
         /\ frames[Len(frames)].pimpl = p
         /\ frames[Len(frames)].at = at
         /\ \A i \in 1 .. Len(frames) - 1 : frames[i].pimpl # p
         /\ phase[p] = "dying"
<1>1. frames \in Seq(Frame) /\ frames # <<>> /\ Top.pimpl = p /\ Top.at = at
  BY DEF IInv, TypeOK, InDtor
<1>2. Len(frames) \in Nat /\ Len(frames) >= 1 /\ DOMAIN frames = 1 .. Len(frames)
  BY <1>1, EmptySeq, LenProperties
<1>3. frames[Len(frames)].pimpl = p /\ frames[Len(frames)].at = at
  BY <1>1 DEF Top, Last
<1>4. \A i \in 1 .. Len(frames) - 1 : frames[i].pimpl # p
  BY <1>2, <1>3 DEF IInv, OneDestructorEach
<1>5. phase[p] = "dying"
  BY <1>2, <1>3 DEF IInv, OneDestructorEach
<1>6. QED
  BY <1>2, <1>3, <1>4, <1>5

\* Popping a callback drops the pointer it holds and no other.
LEMMA PopRefs ==
  ASSUME TypeOK, NEW p \in Pimpls, callbacks[p] # <<>>, view' = view,
         callbacks' = [callbacks EXCEPT ![p] = Front(@)]
  PROVE  /\ TopCallback(p).holds \in Pimpls \cup {NoPimpl}
         /\ Referenced(TopCallback(p).holds, view, callbacks)
         /\ \A q \in Pimpls : q # TopCallback(p).holds =>
              (Referenced(q, view', callbacks') <=> Referenced(q, view, callbacks))
<1>1. callbacks[p] \in Seq(Callback)
  BY DEF TypeOK
<1>2. /\ Len(callbacks[p]) \in Nat /\ Len(callbacks[p]) >= 1
      /\ DOMAIN callbacks[p] = 1 .. Len(callbacks[p])
      /\ Last(callbacks[p]) \in Callback
      /\ TopCallback(p) = callbacks[p][Len(callbacks[p])]
  BY <1>1, FrontOfStack, LenProperties DEF TopCallback, Last
<1>3. /\ callbacks'[p] = Front(callbacks[p])
      /\ \A q \in Pimpls : q # p => callbacks'[q] = callbacks[q]
  BY DEF TypeOK
<1>4. /\ DOMAIN callbacks'[p] = 1 .. Len(callbacks[p]) - 1
      /\ \A i \in 1 .. Len(callbacks[p]) - 1 : callbacks'[p][i] = callbacks[p][i]
  BY <1>1, <1>3, FrontOfStack, LenProperties
<1>5. TopCallback(p).holds \in Pimpls \cup {NoPimpl}
  BY <1>2 DEF TopCallback, Callback
<1>6. Referenced(TopCallback(p).holds, view, callbacks)
  BY <1>2 DEF Referenced
<1>7. ASSUME NEW q \in Pimpls, q # TopCallback(p).holds
      PROVE  Referenced(q, view', callbacks') <=> Referenced(q, view, callbacks)
  <2>1. \A i \in DOMAIN callbacks[p] : i \in DOMAIN callbacks'[p] \/ i = Len(callbacks[p])
    BY <1>2, <1>4
  <2>2. \A i \in DOMAIN callbacks'[p] : i \in DOMAIN callbacks[p]
    BY <1>2, <1>4
  <2>3. (\E i \in DOMAIN callbacks'[p] : callbacks'[p][i].holds = q)
          <=> \E i \in DOMAIN callbacks[p] : callbacks[p][i].holds = q
    BY <1>2, <1>4, <1>7, <2>1, <2>2, Zenon
  <2>4. (\E r \in Pimpls : \E i \in DOMAIN callbacks'[r] : callbacks'[r][i].holds = q)
          <=> \E r \in Pimpls : \E i \in DOMAIN callbacks[r] : callbacks[r][i].holds = q
    BY <1>3, <2>3
  <2>5. QED
    BY <2>4 DEF Referenced
<1>8. QED
  BY <1>5, <1>6, <1>7

\* Every operation keeps the use counts right and the call stack in order.
LEMMA RefStep == IInv /\ [Next]_vars => RefInv'
<1> SUFFICES ASSUME IInv, [Next]_vars PROVE RefInv'
  OBVIOUS
<1> USE DEF pimplVars, history
<1>t. TypeOK
  BY DEF IInv
<1>1. CASE HostInit \/ HostFinalize
  BY <1>1, RefUnchanged DEF HostInit, HostFinalize
<1>2. ASSUME NEW v \in Views, ConstructTooLate(v) \/ CommunicateTooLate(v) \/ ReduceOnNull(v)
      PROVE  RefInv'
  BY <1>2, RefUnchanged DEF ConstructTooLate, CommunicateTooLate, ReduceOnNull, Abort
<1>3. ASSUME NEW v \in Views, NEW c \in Comms, Construct(v, c)
      PROVE  RefInv'
  <2>1. PICK p \in Pimpls : /\ phase[p] = "unborn"
                            /\ NewPimpl(p, c, mpi = "uninitialized")
                            /\ view' = [view EXCEPT ![v] = p]
    BY <1>3 DEF Construct
  <2>2. view[v] = NoPimpl /\ frames' = frames
    BY <1>3 DEF Construct
  <2>3. callbacks[p] = <<>>
    BY <2>1 DEF IInv, UnbornIsBlank
  <2>4. /\ phase' = [phase EXCEPT ![p] = "live"]
        /\ \A q \in Pimpls : q # p => callbacks'[q] = callbacks[q]
        /\ callbacks'[p] \in {<<>>, <<FinalizeCallback>>}
    BY <1>t, <2>1 DEF NewPimpl, TypeOK
  <2>5. \A i \in DOMAIN callbacks'[p] : callbacks'[p][i].holds = NoPimpl
    BY <2>4 DEF FinalizeCallback
  <2>6. LiveIffReferenced'
    <3> SUFFICES ASSUME NEW q \in Pimpls
                 PROVE  phase'[q] = "live" <=> Referenced(q, view', callbacks')
      BY DEF LiveIffReferenced
    <3>1. CASE q = p
      BY <1>t, <2>1, <2>4, <3>1 DEF Referenced, TypeOK
    <3>2. CASE q # p
      <4>1. phase'[q] = phase[q]
        BY <1>t, <2>4, <3>2 DEF TypeOK
      <4>2. q # NoPimpl
        BY ConstantsAssumption
      <4>3. (\E w \in Views : view'[w] = q) <=> (\E w \in Views : view[w] = q)
        BY <1>t, <2>1, <2>2, <3>2, <4>2 DEF TypeOK
      <4>4. (\E r \in Pimpls : \E i \in DOMAIN callbacks'[r] : callbacks'[r][i].holds = q)
              <=> \E r \in Pimpls : \E i \in DOMAIN callbacks[r] : callbacks[r][i].holds = q
        BY <2>3, <2>4, <2>5, <4>2
      <4>5. QED
        BY <4>1, <4>3, <4>4 DEF IInv, LiveIffReferenced, Referenced
    <3>3. QED
      BY <3>1, <3>2
  <2>7. \A i \in DOMAIN frames : frames[i].pimpl # p /\ frames[i].pimpl \in Pimpls
    <3>1. \A i \in DOMAIN frames : frames[i].pimpl \in Pimpls
      BY <1>t, FramesOfPimpls
    <3>2. QED
      BY <2>1, <3>1 DEF IInv, OneDestructorEach
  <2>8. OneDestructorEach'
    BY <1>t, <2>1, <2>2, <2>4, <2>7 DEF IInv, OneDestructorEach, TypeOK
  <2>9. CallHasCallback'
    BY <2>2, <2>4, <2>7 DEF IInv, CallHasCallback
  <2>10. QED
    BY <2>6, <2>8, <2>9 DEF RefInv
<1>4. ASSUME NEW v \in Views, NEW w \in Views, CopyAssign(v, w)
      PROVE  RefInv'
  <2> DEFINE vw == [view EXCEPT ![v] = view[w]]
  <2>1. v # w /\ Rebind(vw, view[v]) /\ view[v] \in Pimpls \cup {NoPimpl}
    BY <1>t, <1>4 DEF CopyAssign, TypeOK
  <2>2. \A q \in Pimpls : q # view[v] =>
          ((\E u \in Views : vw[u] = q) <=> (\E u \in Views : view[u] = q))
    <3>1. \A u \in Views : vw[u] = IF u = v THEN view[w] ELSE view[u]
      BY <1>t DEF TypeOK
    <3>2. QED
      BY <2>1, <3>1
  <2>3. \E u \in Views : view[u] = view[v]
    OBVIOUS
  <2> HIDE DEF vw
  <2>4. \A q \in Pimpls : q # view[v] =>
          (Referenced(q, vw, callbacks) <=> Referenced(q, view, callbacks))
    BY <2>2 DEF Referenced
  <2>5. QED
    BY <2>1, <2>3, <2>4, RebindStep
<1>5. ASSUME NEW v \in Views, NEW w \in Views, MoveAssign(v, w)
      PROVE  RefInv'
  <2> DEFINE vw == [view EXCEPT ![v] = view[w], ![w] = NoPimpl]
  <2>1. v # w /\ Rebind(vw, view[v]) /\ view[v] \in Pimpls \cup {NoPimpl}
    BY <1>t, <1>5 DEF MoveAssign, TypeOK
  <2>2. \A q \in Pimpls : q # view[v] =>
          ((\E u \in Views : vw[u] = q) <=> (\E u \in Views : view[u] = q))
    <3>1. \A u \in Views : vw[u] = IF u = w THEN NoPimpl ELSE IF u = v THEN view[w] ELSE view[u]
      BY <1>t, <2>1 DEF TypeOK
    <3>2. QED
      BY <2>1, <3>1, ConstantsAssumption
  <2>3. \E u \in Views : view[u] = view[v]
    OBVIOUS
  <2> HIDE DEF vw
  <2>4. \A q \in Pimpls : q # view[v] =>
          (Referenced(q, vw, callbacks) <=> Referenced(q, view, callbacks))
    BY <2>2 DEF Referenced
  <2>5. QED
    BY <2>1, <2>3, <2>4, RebindStep
<1>6. ASSUME NEW v \in Views, NEW w \in Views, Swap(v, w)
      PROVE  RefInv'
  <2> DEFINE vw == [view EXCEPT ![v] = view[w], ![w] = view[v]]
  <2>1. v # w /\ Rebind(vw, NoPimpl)
    BY <1>6 DEF Swap
  <2>2. \A q \in Pimpls :
          ((\E u \in Views : vw[u] = q) <=> (\E u \in Views : view[u] = q))
    <3>1. \A u \in Views : vw[u] = IF u = w THEN view[v] ELSE IF u = v THEN view[w] ELSE view[u]
      BY <1>t, <2>1 DEF TypeOK
    <3>2. QED
      BY <2>1, <3>1
  <2>3. \E u \in Views : view[u] = view[v]
    OBVIOUS
  <2> HIDE DEF vw
  <2>4. \A q \in Pimpls :
          (Referenced(q, vw, callbacks) <=> Referenced(q, view, callbacks))
    BY <2>2 DEF Referenced
  <2>5. QED
    BY <2>1, <2>3, <2>4, RebindStep
<1>7. ASSUME NEW v \in Views, Destroy(v)
      PROVE  RefInv'
  <2> DEFINE vw == [view EXCEPT ![v] = NoPimpl]
  <2>1. Rebind(vw, view[v]) /\ view[v] \in Pimpls \cup {NoPimpl}
    BY <1>t, <1>7 DEF Destroy, TypeOK
  <2>2. \A q \in Pimpls : q # view[v] =>
          ((\E u \in Views : vw[u] = q) <=> (\E u \in Views : view[u] = q))
    <3>1. \A u \in Views : vw[u] = IF u = v THEN NoPimpl ELSE view[u]
      BY <1>t DEF TypeOK
    <3>2. QED
      BY <2>1, <3>1, ConstantsAssumption
  <2>3. \E u \in Views : view[u] = view[v]
    OBVIOUS
  <2> HIDE DEF vw
  <2>4. \A q \in Pimpls : q # view[v] =>
          (Referenced(q, vw, callbacks) <=> Referenced(q, view, callbacks))
    BY <2>2 DEF Referenced
  <2>5. QED
    BY <2>1, <2>3, <2>4, RebindStep
<1>8. ASSUME NEW v \in Views, NEW fn \in Functions, NEW h \in Captured, StackCallback(v, fn, h)
      PROVE  RefInv'
  <2> DEFINE p == view[v]
             e == [fn |-> fn, holds |-> h]
  <2>1. /\ p \in Pimpls /\ callbacks[p] \in Seq(Callback)
        /\ callbacks' = [callbacks EXCEPT ![p] = Append(@, e)]
        /\ UNCHANGED <<view, phase, frames>>
    BY <1>t, <1>8 DEF StackCallback, TypeOK
  <2>2. e \in Callback
    BY <1>t DEF Callback, Captured, TypeOK
  <2>3. /\ callbacks'[p] = Append(callbacks[p], e)
        /\ \A q \in Pimpls : q # p => callbacks'[q] = callbacks[q]
    BY <1>t, <2>1 DEF TypeOK
  <2>4. /\ DOMAIN callbacks'[p] = 1 .. Len(callbacks[p]) + 1
        /\ DOMAIN callbacks[p] = 1 .. Len(callbacks[p])
        /\ \A i \in DOMAIN callbacks[p] : callbacks'[p][i] = callbacks[p][i]
        /\ callbacks'[p][Len(callbacks[p]) + 1].holds = h
        /\ callbacks'[p] # <<>>
        /\ Len(callbacks[p]) \in Nat
    BY <2>1, <2>2, <2>3, AppendProperties, LenProperties
  <2>5. h = NoPimpl \/ \E u \in Views : view[u] = h
    BY DEF Captured
  <2>6. ASSUME NEW q \in Pimpls
        PROVE  Referenced(q, view', callbacks') <=> Referenced(q, view, callbacks)
    <3>1. q # NoPimpl
      BY ConstantsAssumption
    <3>2. CASE \E u \in Views : view[u] = q
      BY <2>1, <3>2 DEF Referenced
    <3>3. CASE ~\E u \in Views : view[u] = q
      <4>1. h # q
        BY <2>5, <3>1, <3>3
      <4>2. (\E r \in Pimpls : \E i \in DOMAIN callbacks'[r] : callbacks'[r][i].holds = q)
              <=> \E r \in Pimpls : \E i \in DOMAIN callbacks[r] : callbacks[r][i].holds = q
        <5>1. (\E i \in DOMAIN callbacks'[p] : callbacks'[p][i].holds = q)
                <=> \E i \in DOMAIN callbacks[p] : callbacks[p][i].holds = q
          <6>1. \A i \in DOMAIN callbacks'[p] : i \in DOMAIN callbacks[p] \/ i = Len(callbacks[p]) + 1
            BY <2>4
          <6>2. \A i \in DOMAIN callbacks[p] : i \in DOMAIN callbacks'[p]
            BY <2>4
          <6> HIDE DEF p
          <6>3. QED
            BY <2>4, <4>1, <6>1, <6>2, Zenon
        <5>2. QED
          BY <2>1, <2>3, <5>1
      <4>3. QED
        BY <2>1, <4>2 DEF Referenced
    <3>4. QED
      BY <3>2, <3>3
  <2>7. LiveIffReferenced' /\ OneDestructorEach'
    BY <2>1, <2>6 DEF IInv, LiveIffReferenced, OneDestructorEach
  <2>8. CallHasCallback'
    <3>1. \A i \in DOMAIN frames : frames[i].pimpl \in Pimpls
      BY <1>t, FramesOfPimpls
    <3>2. QED
      BY <2>1, <2>3, <2>4, <3>1 DEF IInv, CallHasCallback
  <2>9. QED
    BY <2>7, <2>8 DEF RefInv
<1>9. ASSUME NEW v \in Views, (\E i \in Ranks : At(v, i)) \/ MyResourceSet(v) \/ Count(v)
      PROVE  RefInv'
  BY <1>9, RefUnchanged DEF At, MyResourceSet, Count, Instantiate
<1>10. ASSUME NEW p \in Pimpls, DtorCall(p)
       PROVE  RefInv'
  <2>1. /\ InDtor(p, "loop") /\ callbacks[p] # <<>> /\ frames # <<>>
        /\ frames' = SetTop("call") /\ UNCHANGED <<view, phase, callbacks>>
    BY <1>10 DEF DtorCall, InDtor
  <2>2. /\ DOMAIN frames' = DOMAIN frames
        /\ \A i \in DOMAIN frames : frames'[i].pimpl = frames[i].pimpl
        /\ \A i \in DOMAIN frames : i # Len(frames) => frames'[i] = frames[i]
    BY <1>t, <2>1, SetTopOfFrames, TopFrame, LenProperties
  <2>3. LiveIffReferenced' /\ OneDestructorEach'
    BY <2>1, <2>2 DEF IInv, LiveIffReferenced, Referenced, OneDestructorEach
  <2>4. CallHasCallback'
    BY <2>1, <2>2, TopFrame DEF IInv, CallHasCallback
  <2>5. QED
    BY <2>3, <2>4 DEF RefInv
<1>11. ASSUME NEW p \in Pimpls, DtorPop(p)
       PROVE  RefInv'
  <2> DEFINE old == TopCallback(p).holds
  <2>1. /\ InDtor(p, "call") /\ frames # <<>>
        /\ callbacks' = [callbacks EXCEPT ![p] = Front(@)]
        /\ view' = view
        /\ Release(old, view', callbacks', SetTop("loop"))
    BY <1>11 DEF DtorPop, InDtor
  <2>2. callbacks[p] # <<>>
    BY <1>t, <2>1, PopHasCallback DEF IInv
  <2>3. /\ SetTop("loop") \in Seq(Frame)
        /\ Len(SetTop("loop")) = Len(frames)
        /\ \A i \in 1 .. Len(frames) : SetTop("loop")[i].pimpl = frames[i].pimpl
        /\ \A i \in 1 .. Len(frames) - 1 : SetTop("loop")[i] = frames[i]
        /\ SetTop("loop")[Len(frames)].at = "loop"
    BY <1>t, <2>1, SetTopOfFrames
  <2>4. LiveIffReferenced' /\ OneDestructorEach'
    BY <1>t, <2>1, <2>2, <2>3, PopRefs, ReleaseStep
  <2>5. CallHasCallback'
    <3>1. /\ \A i \in 1 .. Len(frames) - 1 :
               frames'[i] = frames[i] /\ frames[i].pimpl \in Pimpls /\ frames[i].pimpl # p
          /\ \A i \in DOMAIN frames' : i \in 1 .. Len(frames) - 1 \/ frames'[i].at = "loop"
      <4>1. CASE frames' = SetTop("loop")
        BY <1>t, <2>1, <2>3, <4>1, TopFrame, FramesOfPimpls, LenProperties
      <4>2. CASE old # NoPimpl /\ frames' = Append(SetTop("loop"), [pimpl |-> old, at |-> "loop"])
        <5>1. [pimpl |-> old, at |-> "loop"] \in Frame
          BY <1>t, <2>1, <2>2, <4>2, PopRefs DEF Frame
        <5>2. /\ DOMAIN frames' = 1 .. Len(frames) + 1
              /\ \A i \in 1 .. Len(frames) : frames'[i] = SetTop("loop")[i]
              /\ frames'[Len(frames) + 1].at = "loop"
          BY <2>3, <4>2, <5>1, AppendProperties, LenProperties
        <5>3. QED
          BY <1>t, <2>1, <2>3, <5>2, TopFrame, FramesOfPimpls
      <4>3. QED
        BY <2>1, <4>1, <4>2 DEF Release
    <3>2. \A q \in Pimpls : q # p => callbacks'[q] = callbacks[q]
      BY <1>t, <2>1 DEF TypeOK
    <3>3. \A i \in 1 .. Len(frames) - 1 : i \in DOMAIN frames
      BY <2>1, TopFrame
    <3>4. QED
      BY <3>1, <3>2, <3>3 DEF IInv, CallHasCallback
  <2>6. QED
    BY <2>4, <2>5 DEF RefInv
<1>12. ASSUME NEW p \in Pimpls, DtorFinalize(p)
       PROVE  RefInv'
  <2>1. /\ InDtor(p, "loop") /\ callbacks[p] # <<>>
        /\ TopCallback(p).fn = "MPI_Finalize"
        /\ callbacks' = [callbacks EXCEPT ![p] = Front(@)]
        /\ UNCHANGED <<view, phase, frames>>
    BY <1>12 DEF DtorFinalize
  <2>2. TopCallback(p).holds = NoPimpl
    BY <1>t, <2>1, EmptySeq, LenProperties DEF IInv, FinalizeAtBottom, TopCallback, Last, TypeOK
  <2>3. LiveIffReferenced' /\ OneDestructorEach'
    BY <1>t, <2>1, <2>2, PopRefs, ConstantsAssumption DEF IInv, LiveIffReferenced, OneDestructorEach
  <2>4. CallHasCallback'
    <3>1. \A q \in Pimpls : q # p => callbacks'[q] = callbacks[q]
      BY <1>t, <2>1 DEF TypeOK
    <3>2. \A i \in DOMAIN frames : frames[i].at = "call" =>
            frames[i].pimpl \in Pimpls /\ frames[i].pimpl # p
      BY <1>t, <2>1, TopFrame, FramesOfPimpls
    <3>3. QED
      BY <2>1, <3>1, <3>2 DEF IInv, CallHasCallback
  <2>5. QED
    BY <2>3, <2>4 DEF RefInv
<1>13. ASSUME NEW p \in Pimpls, DtorEnd(p)
       PROVE  RefInv'
  <2>1. /\ InDtor(p, "loop") /\ phase' = [phase EXCEPT ![p] = "dead"]
        /\ frames' = Front(frames) /\ frames # <<>>
        /\ UNCHANGED <<view, callbacks>>
    BY <1>13 DEF DtorEnd, InDtor
  <2>2. /\ DOMAIN frames' = 1 .. Len(frames) - 1
        /\ \A i \in 1 .. Len(frames) - 1 : frames'[i] = frames[i]
    BY <1>t, <2>1, FrontOfStack, LenProperties DEF TypeOK
  <2>3. \A q \in Pimpls : phase'[q] = IF q = p THEN "dead" ELSE phase[q]
    BY <1>t, <2>1 DEF TypeOK
  <2>4. LiveIffReferenced'
    BY <2>1, <2>3, TopFrame DEF IInv, LiveIffReferenced
  <2>5. OneDestructorEach'
    <3>1. \A i \in DOMAIN frames : i \in DOMAIN frames' \/ i = Len(frames)
      BY <2>1, <2>2, TopFrame
    <3>2. \A i \in DOMAIN frames' : i \in DOMAIN frames /\ frames[i].pimpl # p
      BY <2>1, <2>2, TopFrame
    <3>3. frames[Len(frames)].pimpl = p
      BY <2>1, TopFrame
    <3>4. QED
      BY <2>2, <2>3, <3>1, <3>2, <3>3 DEF IInv, OneDestructorEach
  <2>6. CallHasCallback'
    BY <2>1, <2>2, TopFrame DEF IInv, CallHasCallback
  <2>7. QED
    BY <2>4, <2>5, <2>6 DEF RefInv
<1>14. ASSUME NEW p \in Pimpls, DtorThrow(p)
       PROVE  RefInv'
  BY <1>14, RefUnchanged DEF DtorThrow
<1>15. ASSUME NEW p \in Pimpls, NEW v \in Views, UseCaptured(p, v)
       PROVE  RefInv'
  <2> DEFINE h  == TopCallback(p).holds
             vw == [view EXCEPT ![v] = h]
  <2>1. /\ Rebind(vw, view[v]) /\ view[v] \in Pimpls \cup {NoPimpl}
        /\ \E i \in DOMAIN callbacks[p] : callbacks[p][i].holds = h
    BY <1>t, <1>15, TopHolds DEF UseCaptured, TypeOK, IInv
  <2>2. \A u \in Views : vw[u] = IF u = v THEN h ELSE view[u]
    BY <1>t DEF TypeOK
  <2> HIDE DEF vw, h
  <2>3. \A q \in Pimpls : q # view[v] =>
          (Referenced(q, vw, callbacks) <=> Referenced(q, view, callbacks))
    BY <2>1, <2>2 DEF Referenced
  <2>4. QED
    BY <2>1, <2>3, RebindStep
<1>16. CASE UNCHANGED vars
  BY <1>16, RefUnchanged DEF vars
<1>17. QED
  BY <1>1, <1>2, <1>3, <1>4, <1>5, <1>6, <1>7, <1>8, <1>9, <1>10, <1>11, <1>12,
     <1>13, <1>14, <1>15, <1>16 DEF Next

-----------------------------------------------------------------------------
(* The owner of MPI and its callbacks *)

MpiInv ==
  FinalizeAtBottom /\ StarterStack /\ UnbornIsBlank /\ OneOwner /\ StarterTearsDownUnderMpi

\* A step after which nothing is born, called or finalized.
LEMMA MpiUnchanged ==
  ASSUME IInv, UNCHANGED <<mpi, hostInit, starter, callbacks, ran>>,
         \A q \in Pimpls : phase'[q] \in {"live", "unborn"} => phase'[q] = phase[q]
  PROVE  MpiInv'
<1>1. FinalizeAtBottom' /\ OneOwner' /\ StarterTearsDownUnderMpi'
  BY DEF IInv, FinalizeAtBottom, OneOwner, StarterTearsDownUnderMpi
<1>2. StarterStack' /\ UnbornIsBlank'
  BY DEF IInv, StarterStack, UnbornIsBlank
<1>3. QED
  BY <1>1, <1>2 DEF MpiInv

\* Dropping a reference allocates no PIMPL and revives none.
LEMMA ReleasePhase ==
  ASSUME TypeOK, NEW old \in Pimpls \cup {NoPimpl}, NEW vw, NEW cb, NEW fr, Release(old, vw, cb, fr)
  PROVE  \A q \in Pimpls : phase'[q] \in {"live", "unborn"} => phase'[q] = phase[q]
<1>1. phase' = phase \/ phase' = [phase EXCEPT ![old] = "dying"]
  BY DEF Release
<1>2. QED
  BY <1>1 DEF TypeOK

\* A callback is called while its PIMPL is destroyed: if it is the starter's,
\* it is not the last on its stack, so MPI is up.
LEMMA CalledStep ==
  ASSUME TypeOK, IInv, NEW p \in Pimpls, NEW at, InDtor(p, at), callbacks[p] # <<>>,
         ran' = [ran EXCEPT ![p] = Append(@, [entry |-> TopCallback(p), mpi |-> mpi])],
         UNCHANGED <<phase, starter>>,
         \A q \in Pimpls : phase[q] = "unborn" => callbacks'[q] = callbacks[q] \/ callbacks'[q] = <<>>
  PROVE  UnbornIsBlank' /\ StarterTearsDownUnderMpi'
<1>1. phase[p] = "dying"
  BY TopFrame
<1>2. starter[p] => mpi = "initialized"
  BY DEF IInv, StarterStack
<1>3. \A q \in Pimpls : q # p => ran'[q] = ran[q]
  BY DEF TypeOK
<1>4. UnbornIsBlank'
  BY <1>1, <1>3 DEF IInv, UnbornIsBlank
<1>5. StarterTearsDownUnderMpi'
  <2>1. ASSUME NEW q \in Pimpls, NEW i \in DOMAIN ran'[q], starter'[q]
        PROVE  ran'[q][i].mpi = "initialized"
    <3>1. CASE q # p
      BY <1>3, <2>1, <3>1 DEF IInv, StarterTearsDownUnderMpi
    <3>2. CASE q = p
      <4>1. /\ callbacks[p] \in Seq(Callback)
            /\ ran[p] \in Seq(Called)
            /\ ran'[p] = Append(ran[p], [entry |-> TopCallback(p), mpi |-> mpi])
        BY DEF TypeOK
      <4>2. TopCallback(p) \in Callback
        BY <4>1, FrontOfStack DEF TopCallback
      <4>3. [entry |-> TopCallback(p), mpi |-> mpi] \in Called
        BY <4>2 DEF Called, TypeOK
      <4>4. CASE i \in DOMAIN ran[p]
        <5>1. ran'[p][i] = ran[p][i]
          BY <4>1, <4>3, <4>4, AppendProperties, LenProperties
        <5>2. QED
          BY <2>1, <3>2, <4>4, <5>1 DEF IInv, StarterTearsDownUnderMpi
      <4>5. CASE i \notin DOMAIN ran[p]
        <5>1. ran'[p][i] = [entry |-> TopCallback(p), mpi |-> mpi]
          BY <2>1, <3>2, <4>1, <4>3, <4>5, AppendProperties, LenProperties
        <5>2. QED
          BY <1>2, <2>1, <3>2, <5>1
      <4>6. QED
        BY <4>4, <4>5
    <3>3. QED
      BY <3>1, <3>2
  <2>2. QED
    BY <2>1 DEF StarterTearsDownUnderMpi
<1>6. QED
  BY <1>4, <1>5

\* Popping changes one stack, and there only the top.
LEMMA PoppedStack ==
  ASSUME TypeOK, NEW p \in Pimpls, callbacks[p] # <<>>,
         callbacks' = [callbacks EXCEPT ![p] = Front(@)]
  PROVE  /\ \A q \in Pimpls : q # p => callbacks'[q] = callbacks[q]
         /\ \A i \in DOMAIN callbacks'[p] : i \in DOMAIN callbacks[p] /\ callbacks'[p][i] = callbacks[p][i]
<1>1. /\ callbacks[p] \in Seq(Callback) /\ callbacks'[p] = Front(callbacks[p])
      /\ \A q \in Pimpls : q # p => callbacks'[q] = callbacks[q]
  BY DEF TypeOK
<1>2. QED
  BY <1>1, FrontOfStack, LenProperties

\* Every operation keeps MPI's owner, its stack and its calls in order.
LEMMA MpiStep == IInv /\ [Next]_vars => MpiInv'
<1> SUFFICES ASSUME IInv, [Next]_vars PROVE MpiInv'
  OBVIOUS
<1> USE DEF pimplVars, history
<1>t. TypeOK
  BY DEF IInv
<1>1. CASE HostInit \/ HostFinalize
  <2>1. \A p \in Pimpls : ~starter[p]
    BY <1>1 DEF HostInit, HostFinalize, IInv, OneOwner
  <2>2. /\ UNCHANGED <<phase, starter, callbacks, ran>>
        /\ mpi' # "uninitialized" /\ hostInit'
    BY <1>1 DEF HostInit, HostFinalize
  <2>3. QED
    BY <2>1, <2>2 DEF IInv, MpiInv, FinalizeAtBottom, StarterStack, UnbornIsBlank, OneOwner,
       StarterTearsDownUnderMpi
<1>2. ASSUME NEW v \in Views, ConstructTooLate(v) \/ CommunicateTooLate(v) \/ ReduceOnNull(v)
      PROVE  MpiInv'
  BY <1>2, MpiUnchanged DEF ConstructTooLate, CommunicateTooLate, ReduceOnNull, Abort
<1>3. ASSUME NEW v \in Views, NEW c \in Comms, Construct(v, c)
      PROVE  MpiInv'
  <2> DEFINE starts == mpi = "uninitialized"
             stack  == IF starts THEN <<FinalizeCallback>> ELSE <<>>
  <2>1. PICK p \in Pimpls : phase[p] = "unborn" /\ NewPimpl(p, c, starts)
    BY <1>3 DEF Construct
  <2>2. /\ mpi' = IF starts THEN "initialized" ELSE mpi
        /\ hostInit' = hostInit /\ ran' = ran
    BY <1>3, <2>1 DEF Construct, NewPimpl
  <2>3. /\ \A q \in Pimpls : q # p => /\ phase'[q] = phase[q] /\ starter'[q] = starter[q]
                                      /\ callbacks'[q] = callbacks[q]
        /\ starter'[p] = starts /\ callbacks'[p] = stack /\ phase'[p] = "live"
    BY <1>t, <2>1 DEF NewPimpl, TypeOK
  <2>4. ~starter[p] /\ callbacks[p] = <<>> /\ ran[p] = <<>>
    BY <2>1 DEF IInv, UnbornIsBlank
  <2>5. /\ \A i \in DOMAIN stack : i = 1 /\ starts /\ stack[i] = FinalizeCallback
        /\ starts => stack # <<>>
    OBVIOUS
  <2> HIDE DEF stack
  <2>6. FinalizeAtBottom'
    <3>1. ASSUME NEW q \in Pimpls, NEW i \in DOMAIN callbacks'[q]
          PROVE  /\ callbacks'[q][i].fn = "MPI_Finalize" <=> starter'[q] /\ i = 1
                 /\ callbacks'[q][i].fn = "MPI_Finalize" => callbacks'[q][i].holds = NoPimpl
      <4>1. CASE q = p
        <5>1. callbacks'[q] = stack /\ starter'[q] = starts
          BY <2>3, <4>1
        <5>2. i = 1 /\ starts /\ stack[i] = FinalizeCallback
          BY <2>5, <3>1, <5>1
        <5>3. callbacks'[q][i] = FinalizeCallback /\ starter'[q]
          BY <5>1, <5>2
        <5>4. FinalizeCallback.fn = "MPI_Finalize" /\ FinalizeCallback.holds = NoPimpl
          BY DEF FinalizeCallback
        <5>5. QED
          BY <5>2, <5>3, <5>4
      <4>2. CASE q # p
        BY <2>3, <3>1, <4>2 DEF IInv, FinalizeAtBottom
      <4>3. QED
        BY <4>1, <4>2
    <3>2. QED
      BY <3>1 DEF FinalizeAtBottom
  <2>7. OneOwner'
    <3>1. starts => ~hostInit /\ \A q \in Pimpls : ~starter[q]
      BY DEF IInv, OneOwner
    <3>2. mpi' # "uninitialized"
      BY <1>t, <2>2 DEF TypeOK
    <3>3. QED
      BY <2>2, <2>3, <2>4, <3>1, <3>2 DEF IInv, OneOwner
  <2>8. StarterStack'
    <3>1. ASSUME NEW q \in Pimpls, starter'[q]
          PROVE  /\ phase'[q] = "live" => callbacks'[q] # <<>>
                 /\ callbacks'[q] # <<>> => mpi' = "initialized"
      <4>1. CASE q = p
        BY <2>2, <2>3, <2>5, <3>1, <4>1
      <4>2. CASE q # p
        BY <2>2, <2>3, <3>1, <4>2 DEF IInv, StarterStack, OneOwner
      <4>3. QED
        BY <4>1, <4>2
    <3>2. QED
      BY <3>1 DEF StarterStack
  <2>9. UnbornIsBlank' /\ StarterTearsDownUnderMpi'
    BY <2>2, <2>3, <2>4 DEF IInv, UnbornIsBlank, StarterTearsDownUnderMpi
  <2>10. QED
    BY <2>6, <2>7, <2>8, <2>9 DEF MpiInv
<1>4. ASSUME NEW vw, NEW old \in Pimpls \cup {NoPimpl}, Rebind(vw, old)
      PROVE  MpiInv'
  BY <1>t, <1>4, ReleasePhase, MpiUnchanged DEF Rebind
<1>5. ASSUME NEW v \in Views, NEW w \in Views, CopyAssign(v, w) \/ MoveAssign(v, w) \/ Swap(v, w) \/ Destroy(v)
      PROVE  MpiInv'
  <2>1. view[v] \in Pimpls \cup {NoPimpl}
    BY <1>t DEF TypeOK
  <2>2. QED
    BY <1>4, <1>5, <2>1 DEF CopyAssign, MoveAssign, Swap, Destroy
<1>6. ASSUME NEW v \in Views, NEW fn \in Functions, NEW h \in Captured, StackCallback(v, fn, h)
      PROVE  MpiInv'
  <2> DEFINE p == view[v]
             e == [fn |-> fn, holds |-> h]
  <2>1. /\ p \in Pimpls /\ callbacks[p] \in Seq(Callback)
        /\ callbacks' = [callbacks EXCEPT ![p] = Append(@, e)]
        /\ UNCHANGED <<mpi, hostInit, phase, starter, ran>>
    BY <1>t, <1>6 DEF StackCallback, TypeOK
  <2>2. e \in Callback /\ e.fn # "MPI_Finalize"
    BY <1>t, ConstantsAssumption DEF Callback, Captured, TypeOK
  <2>3. /\ callbacks'[p] = Append(callbacks[p], e)
        /\ \A q \in Pimpls : q # p => callbacks'[q] = callbacks[q]
    BY <1>t, <2>1 DEF TypeOK
  <2>4. /\ DOMAIN callbacks'[p] = 1 .. Len(callbacks[p]) + 1
        /\ DOMAIN callbacks[p] = 1 .. Len(callbacks[p])
        /\ \A i \in DOMAIN callbacks[p] : callbacks'[p][i] = callbacks[p][i]
        /\ callbacks'[p][Len(callbacks[p]) + 1] = e
        /\ callbacks'[p] # <<>>
        /\ Len(callbacks[p]) \in Nat
    BY <2>1, <2>2, <2>3, AppendProperties, LenProperties
  <2>5. phase[p] = "live"
    BY <2>1 DEF IInv, LiveIffReferenced, Referenced
  <2>6. starter[p] => callbacks[p] # <<>> /\ Len(callbacks[p]) >= 1 /\ mpi = "initialized"
    BY <2>1, <2>5, EmptySeq DEF IInv, StarterStack
  <2>7. FinalizeAtBottom'
    <3>1. ASSUME NEW q \in Pimpls, NEW i \in DOMAIN callbacks'[q]
          PROVE  /\ callbacks'[q][i].fn = "MPI_Finalize" <=> starter'[q] /\ i = 1
                 /\ callbacks'[q][i].fn = "MPI_Finalize" => callbacks'[q][i].holds = NoPimpl
      <4>1. CASE q # p
        BY <2>1, <2>3, <3>1, <4>1 DEF IInv, FinalizeAtBottom
      <4>2. CASE q = p /\ i = Len(callbacks[p]) + 1
        BY <2>1, <2>2, <2>4, <2>6, <4>2
      <4>3. CASE q = p /\ i # Len(callbacks[p]) + 1
        <5>1. i \in DOMAIN callbacks[p] /\ callbacks'[p][i] = callbacks[p][i]
          BY <2>4, <4>3
        <5>2. QED
          BY <2>1, <4>3, <5>1 DEF IInv, FinalizeAtBottom
      <4>4. QED
        BY <4>1, <4>2, <4>3
    <3>2. QED
      BY <3>1 DEF FinalizeAtBottom
  <2>8. StarterStack'
    BY <2>1, <2>3, <2>4, <2>6 DEF IInv, StarterStack
  <2>9. UnbornIsBlank' /\ OneOwner' /\ StarterTearsDownUnderMpi'
    BY <2>1, <2>3, <2>5 DEF IInv, UnbornIsBlank, OneOwner, StarterTearsDownUnderMpi
  <2>10. QED
    BY <2>7, <2>8, <2>9 DEF MpiInv
<1>7. ASSUME NEW v \in Views, (\E i \in Ranks : At(v, i)) \/ MyResourceSet(v) \/ Count(v)
      PROVE  MpiInv'
  BY <1>7, MpiUnchanged DEF At, MyResourceSet, Count, Instantiate
<1>8. ASSUME NEW p \in Pimpls, DtorCall(p)
      PROVE  MpiInv'
  <2>1. /\ InDtor(p, "loop") /\ callbacks[p] # <<>>
        /\ ran' = [ran EXCEPT ![p] = Append(@, [entry |-> TopCallback(p), mpi |-> mpi])]
        /\ UNCHANGED <<mpi, hostInit, phase, starter, callbacks>>
    BY <1>8 DEF DtorCall
  <2>2. FinalizeAtBottom' /\ StarterStack' /\ OneOwner'
    BY <2>1 DEF IInv, FinalizeAtBottom, StarterStack, OneOwner
  <2>3. UnbornIsBlank' /\ StarterTearsDownUnderMpi'
    BY <1>t, <2>1, CalledStep
  <2>4. QED
    BY <2>2, <2>3 DEF MpiInv
<1>9. ASSUME NEW p \in Pimpls, DtorPop(p)
      PROVE  MpiInv'
  <2>1. /\ InDtor(p, "call")
        /\ callbacks' = [callbacks EXCEPT ![p] = Front(@)]
        /\ Release(TopCallback(p).holds, view, callbacks', SetTop("loop"))
        /\ UNCHANGED <<view, mpi, hostInit, starter, ran>>
    BY <1>9 DEF DtorPop
  <2>2. callbacks[p] # <<>>
    BY <1>t, <2>1, PopHasCallback DEF IInv
  <2>3. \A q \in Pimpls : phase'[q] \in {"live", "unborn"} => phase'[q] = phase[q] /\ q # p
    <3>1. \A q \in Pimpls : phase'[q] \in {"live", "unborn"} => phase'[q] = phase[q]
      BY <1>t, <2>1, <2>2, PopRefs, ReleasePhase
    <3>2. phase[p] = "dying"
      BY <2>1, TopFrame
    <3>3. QED
      BY <3>1, <3>2
  <2>4. /\ \A q \in Pimpls : q # p => callbacks'[q] = callbacks[q]
        /\ \A i \in DOMAIN callbacks'[p] : i \in DOMAIN callbacks[p] /\ callbacks'[p][i] = callbacks[p][i]
    BY <1>t, <2>1, <2>2, PoppedStack
  <2>5. FinalizeAtBottom'
    BY <2>1, <2>4 DEF IInv, FinalizeAtBottom
  <2>6. StarterStack' /\ UnbornIsBlank'
    BY <2>1, <2>2, <2>3, <2>4 DEF IInv, StarterStack, UnbornIsBlank
  <2>7. OneOwner' /\ StarterTearsDownUnderMpi'
    BY <2>1 DEF IInv, OneOwner, StarterTearsDownUnderMpi
  <2>8. QED
    BY <2>5, <2>6, <2>7 DEF MpiInv
<1>10. ASSUME NEW p \in Pimpls, DtorFinalize(p)
       PROVE  MpiInv'
  <2>1. /\ InDtor(p, "loop") /\ callbacks[p] # <<>>
        /\ TopCallback(p).fn = "MPI_Finalize"
        /\ mpi' = "finalized"
        /\ callbacks' = [callbacks EXCEPT ![p] = Front(@)]
        /\ ran' = [ran EXCEPT ![p] = Append(@, [entry |-> TopCallback(p), mpi |-> mpi])]
        /\ UNCHANGED <<hostInit, phase, starter>>
    BY <1>10 DEF DtorFinalize
  <2>2. phase[p] = "dying"
    BY <2>1, TopFrame
  <2>3. starter[p] /\ callbacks'[p] = <<>>
    <3>1. /\ callbacks[p] \in Seq(Callback)
          /\ Len(callbacks[p]) \in DOMAIN callbacks[p]
          /\ TopCallback(p) = callbacks[p][Len(callbacks[p])]
      BY <1>t, <2>1, EmptySeq, LenProperties DEF TypeOK, TopCallback, Last
    <3>2. starter[p] /\ Len(callbacks[p]) = 1
      BY <2>1, <3>1 DEF IInv, FinalizeAtBottom
    <3>3. callbacks'[p] = Front(callbacks[p])
      BY <1>t, <2>1 DEF TypeOK
    <3>4. Front(callbacks[p]) = <<>>
      BY <3>1, <3>2, SubSeqEmpty DEF Front
    <3>5. QED
      BY <3>2, <3>3, <3>4
  <2>4. /\ \A q \in Pimpls : q # p => callbacks'[q] = callbacks[q] /\ ~starter[q]
        /\ \A i \in DOMAIN callbacks'[p] : i \in DOMAIN callbacks[p] /\ callbacks'[p][i] = callbacks[p][i]
    BY <1>t, <2>1, <2>3, PoppedStack DEF IInv, OneOwner
  <2>5. FinalizeAtBottom'
    BY <2>1, <2>4 DEF IInv, FinalizeAtBottom
  <2>6. StarterStack'
    BY <2>1, <2>2, <2>3, <2>4 DEF StarterStack
  <2>7. OneOwner'
    BY <2>1, <2>3 DEF IInv, OneOwner
  <2>8. UnbornIsBlank' /\ StarterTearsDownUnderMpi'
    <3>1. /\ UnbornIsBlank /\ StarterStack /\ StarterTearsDownUnderMpi
          /\ \A q \in Pimpls : phase[q] = "unborn" => callbacks'[q] = <<>>
      BY <2>2, <2>4 DEF IInv, UnbornIsBlank
    <3>2. QED
      BY <1>t, <2>1, <3>1, CalledStep
  <2>9. QED
    BY <2>5, <2>6, <2>7, <2>8 DEF MpiInv
<1>11. ASSUME NEW p \in Pimpls, DtorEnd(p)
       PROVE  MpiInv'
  <2>1. \A q \in Pimpls : phase'[q] \in {"live", "unborn"} => phase'[q] = phase[q]
    BY <1>t, <1>11 DEF DtorEnd, TypeOK
  <2>2. QED
    BY <1>11, <2>1, MpiUnchanged DEF DtorEnd
<1>12. ASSUME NEW p \in Pimpls, DtorThrow(p)
       PROVE  MpiInv'
  BY <1>12, MpiUnchanged DEF DtorThrow
<1>13. ASSUME NEW p \in Pimpls, NEW v \in Views, UseCaptured(p, v)
       PROVE  MpiInv'
  <2>1. view[v] \in Pimpls \cup {NoPimpl}
    BY <1>t DEF TypeOK
  <2>2. QED
    BY <1>4, <1>13, <2>1 DEF UseCaptured
<1>14. CASE UNCHANGED vars
  BY <1>14, MpiUnchanged DEF vars
<1>15. QED
  BY <1>1, <1>2, <1>3, <1>5, <1>6, <1>7, <1>8, <1>9, <1>10, <1>11, <1>12, <1>13, <1>14 DEF Next

-----------------------------------------------------------------------------
(* Resource sets *)

\* Only the constructor, the getters that create resource sets, and the end of
\* the destructor touch what a PIMPL's resource sets are right for.
LEMMA ResourceSetsUnchanged ==
  ASSUME ResourceSetsOfCommunicator, comm' = comm, sets' = sets,
         \A p \in Pimpls : phase'[p] = "live" => phase[p] = "live"
  PROVE  ResourceSetsOfCommunicator'
  BY DEF ResourceSetsOfCommunicator, CommMe, CommSize

\* A resource set of the process itself or of a rank in the communicator may be
\* created at any time.
LEMMA InstantiateSets ==
  ASSUME TypeOK, ResourceSetsOfCommunicator, NEW p \in Pimpls, NEW ranks,
         Instantiate(p, ranks),
         ranks \subseteq {CommMe(comm[p])} \cup 0 .. CommSize(comm[p]) - 1
  PROVE  ResourceSetsOfCommunicator'
<1>1. /\ comm' = comm /\ phase' = phase
      /\ sets' = [sets EXCEPT ![p] = @ \cup ranks]
  BY DEF Instantiate
<1>2. \A q \in Pimpls : sets'[q] = IF q = p THEN sets[p] \cup ranks ELSE sets[q]
  BY <1>1 DEF TypeOK
<1>3. QED
  BY <1>1, <1>2 DEF ResourceSetsOfCommunicator

\* Every operation keeps a PIMPL's resource sets to the ranks there are.
LEMMA ResourceSetsStep ==
  IInv /\ ResourceSetsOfCommunicator /\ [Next]_vars => ResourceSetsOfCommunicator'
<1> SUFFICES ASSUME IInv, ResourceSetsOfCommunicator, [Next]_vars
             PROVE  ResourceSetsOfCommunicator'
  OBVIOUS
<1>t. TypeOK
  BY DEF IInv
<1>1. ASSUME NEW v \in Views, NEW c \in Comms, Construct(v, c)
      PROVE  ResourceSetsOfCommunicator'
  <2>1. PICK p \in Pimpls : NewPimpl(p, c, mpi = "uninitialized")
    BY <1>1 DEF Construct
  <2>2. \A q \in Pimpls :
          /\ comm'[q] = IF q = p THEN c ELSE comm[q]
          /\ sets'[q] = IF q = p THEN {CommMe(c)} ELSE sets[q]
          /\ phase'[q] = IF q = p THEN "live" ELSE phase[q]
    BY <1>t, <2>1 DEF NewPimpl, TypeOK
  <2>3. QED
    BY <2>2 DEF ResourceSetsOfCommunicator
<1>2. ASSUME NEW v \in Views, (\E i \in Ranks : At(v, i)) \/ MyResourceSet(v) \/ Count(v)
      PROVE  ResourceSetsOfCommunicator'
  <2>1. view[v] \in Pimpls
    <3>1. CASE \E i \in Ranks : At(v, i)
      BY <1>t, <3>1 DEF At, ViewSize, TypeOK, Ranks
    <3>2. CASE MyResourceSet(v) \/ Count(v)
      BY <1>t, <3>2 DEF MyResourceSet, Count, TypeOK
    <3>3. QED
      BY <1>2, <3>1, <3>2
  <2>2. ViewSize(v) = CommSize(comm[view[v]])
    BY <2>1, ConstantsAssumption DEF ViewSize
  <2>3. comm[view[v]] \in Comms /\ CommSize(comm[view[v]]) \in Nat
    BY <1>t, <2>1, CommFacts DEF TypeOK
  <2>4. CASE \E i \in Ranks : At(v, i)
    <3>1. PICK i \in Ranks : i < CommSize(comm[view[v]]) /\ Instantiate(view[v], {i})
      BY <2>2, <2>4 DEF At
    <3>2. i \in 0 .. CommSize(comm[view[v]]) - 1
      BY <2>3, <3>1, ConstantsAssumption DEF Ranks
    <3>3. QED
      BY <1>t, <2>1, <3>1, <3>2, InstantiateSets
  <2>5. CASE MyResourceSet(v)
    BY <1>t, <2>1, <2>5, InstantiateSets DEF MyResourceSet
  <2>6. CASE Count(v)
    BY <1>t, <2>1, <2>2, <2>6, InstantiateSets DEF Count
  <2>7. QED
    BY <1>2, <2>4, <2>5, <2>6
<1>3. ASSUME NEW vw, NEW old \in Pimpls \cup {NoPimpl}, Rebind(vw, old)
      PROVE  ResourceSetsOfCommunicator'
  <2>1. comm' = comm /\ sets' = sets /\ Release(old, vw, callbacks, frames)
    BY <1>3 DEF Rebind, pimplVars
  <2>2. QED
    BY <1>t, <2>1, ReleasePhase, ResourceSetsUnchanged
<1>4. ASSUME NEW v \in Views, \/ \E w \in Views : CopyAssign(v, w) \/ MoveAssign(v, w) \/ Swap(v, w)
                              \/ Destroy(v)
      PROVE  ResourceSetsOfCommunicator'
  <2>1. view[v] \in Pimpls \cup {NoPimpl}
    BY <1>t DEF TypeOK
  <2>2. QED
    BY <1>3, <1>4, <2>1 DEF CopyAssign, MoveAssign, Swap, Destroy
<1>5. ASSUME NEW p \in Pimpls, NEW v \in Views, UseCaptured(p, v)
      PROVE  ResourceSetsOfCommunicator'
  <2>1. view[v] \in Pimpls \cup {NoPimpl}
    BY <1>t DEF TypeOK
  <2>2. QED
    BY <1>3, <1>5, <2>1 DEF UseCaptured
<1>6. ASSUME NEW p \in Pimpls, DtorPop(p)
      PROVE  ResourceSetsOfCommunicator'
  <2>1. comm' = comm /\ sets' = sets
    BY <1>6 DEF DtorPop, pimplVars
  <2>2. Release(TopCallback(p).holds, view, callbacks', SetTop("loop"))
    BY <1>6 DEF DtorPop
  <2>3. TopCallback(p).holds \in Pimpls \cup {NoPimpl}
    BY <1>t, <1>6, TopHolds DEF IInv, DtorPop
  <2>4. QED
    BY <1>t, <2>1, <2>2, <2>3, ReleasePhase, ResourceSetsUnchanged
<1>7. ASSUME NEW p \in Pimpls, DtorEnd(p)
      PROVE  ResourceSetsOfCommunicator'
  <2>1. \A q \in Pimpls :
          /\ comm'[q] = comm[q]
          /\ sets'[q] = IF q = p THEN {} ELSE sets[q]
          /\ phase'[q] = IF q = p THEN "dead" ELSE phase[q]
    BY <1>t, <1>7 DEF DtorEnd, TypeOK
  <2>2. QED
    BY <2>1 DEF ResourceSetsOfCommunicator
<1>8. CASE UNCHANGED <<phase, pimplVars>>
  BY <1>8, ResourceSetsUnchanged DEF pimplVars
<1>9. QED
  <2>1. HostInit \/ HostFinalize => UNCHANGED <<phase, pimplVars>>
    BY DEF HostInit, HostFinalize
  <2>2. ASSUME NEW v \in Views, ConstructTooLate(v) \/ CommunicateTooLate(v) \/ ReduceOnNull(v)
        PROVE  UNCHANGED <<phase, pimplVars>>
    BY <2>2 DEF ConstructTooLate, CommunicateTooLate, ReduceOnNull, Abort
  <2>3. ASSUME NEW v \in Views, NEW fn \in Functions, NEW h \in Captured, StackCallback(v, fn, h)
        PROVE  UNCHANGED <<phase, pimplVars>>
    BY <2>3 DEF StackCallback
  <2>4. ASSUME NEW p \in Pimpls, DtorCall(p) \/ DtorFinalize(p) \/ DtorThrow(p)
        PROVE  UNCHANGED <<phase, pimplVars>>
    BY <2>4 DEF DtorCall, DtorFinalize, DtorThrow
  <2>5. UNCHANGED vars => UNCHANGED <<phase, pimplVars>>
    BY DEF vars, pimplVars
  <2>6. QED
    BY <1>1, <1>2, <1>4, <1>5, <1>6, <1>7, <1>8, <2>1, <2>2, <2>3, <2>4, <2>5 DEF Next

-----------------------------------------------------------------------------
(* The order of callbacks *)

\* What was called of p, latest first.
Undone(s) == [i \in DOMAIN s |-> s[Len(s) + 1 - i].entry]

\* Callbacks are called only by the destructor.
NothingCalledYet == \A p \in Pimpls : phase[p] \in {"unborn", "live"} => ran[p] = <<>>

\* Calling one more callback puts it before those that were called already.
LEMMA UndoneAppend ==
  ASSUME NEW s \in Seq(Called), NEW e \in Called
  PROVE  /\ Undone(s) \in Seq(Callback)
         /\ Undone(Append(s, e)) = <<e.entry>> \o Undone(s)
<1>1. \A t \in Seq(Called) : Undone(t) \in Seq(Callback) /\ Len(Undone(t)) = Len(t)
  <2> SUFFICES ASSUME NEW t \in Seq(Called)
               PROVE  Undone(t) \in Seq(Callback) /\ Len(Undone(t)) = Len(t)
    OBVIOUS
  <2>1. Len(t) \in Nat /\ DOMAIN t = 1 .. Len(t)
    OBVIOUS
  <2>2. \A i \in 1 .. Len(t) : Len(t) + 1 - i \in 1 .. Len(t)
    BY <2>1
  <2>3. \A i \in 1 .. Len(t) : t[i] \in Called
    OBVIOUS
  <2>4. \A i \in 1 .. Len(t) : t[Len(t) + 1 - i].entry \in Callback
    BY <2>2, <2>3 DEF Called
  <2>5. Undone(t) = [i \in 1 .. Len(t) |-> t[Len(t) + 1 - i].entry]
    BY <2>1 DEF Undone
  <2>6. QED
    BY <2>1, <2>4, <2>5
<1>2. Append(s, e) \in Seq(Called) /\ Len(Append(s, e)) = Len(s) + 1 /\ Len(s) \in Nat
  OBVIOUS
<1>3. e.entry \in Callback
  BY DEF Called
<1>4. /\ <<e.entry>> \o Undone(s) \in Seq(Callback)
      /\ Len(<<e.entry>> \o Undone(s)) = Len(s) + 1
  BY <1>1, <1>2, <1>3
<1>5. \A i \in 1 .. Len(s) + 1 : Undone(Append(s, e))[i] = Append(s, e)[Len(s) + 2 - i].entry
  BY <1>2 DEF Undone
<1>6. Append(s, e)[Len(s) + 1] = e /\ \A i \in 1 .. Len(s) : Append(s, e)[i] = s[i]
  OBVIOUS
<1>7. \A i \in 1 .. Len(s) : Undone(s)[i] = s[Len(s) + 1 - i].entry
  BY DEF Undone
<1>8. \A i \in 1 .. Len(s) + 1 : Undone(Append(s, e))[i] = (<<e.entry>> \o Undone(s))[i]
  <2> TAKE i \in 1 .. Len(s) + 1
  <2>1. CASE i = 1
    BY <1>1, <1>2, <1>3, <1>5, <1>6, <2>1
  <2>2. CASE i # 1
    <3>1. i - 1 \in 1 .. Len(s) /\ Len(s) + 2 - i \in 1 .. Len(s) /\ i \in 2 .. Len(s) + 1
      BY <1>2, <2>2
    <3>2. (<<e.entry>> \o Undone(s))[i] = Undone(s)[i - 1]
      BY <1>1, <1>2, <1>3, <3>1
    <3>3. Undone(s)[i - 1] = s[Len(s) + 1 - (i - 1)].entry
      BY <1>7, <3>1
    <3>4. Len(s) + 1 - (i - 1) = Len(s) + 2 - i
      BY <1>2
    <3>5. QED
      BY <1>5, <1>6, <3>1, <3>2, <3>3, <3>4
  <2>3. QED
    BY <2>1, <2>2
<1>9. Undone(Append(s, e)) \in Seq(Callback) /\ Len(Undone(Append(s, e))) = Len(s) + 1
  BY <1>1, <1>2
<1> DEFINE a == Undone(Append(s, e))
           b == <<e.entry>> \o Undone(s)
<1>10. a \in Seq(Callback) /\ b \in Seq(Callback) /\ Len(a) = Len(b) /\ \A i \in 1 .. Len(a) : a[i] = b[i]
  BY <1>4, <1>8, <1>9
<1> HIDE DEF a, b
<1>11. a = b
  BY <1>10, SeqEqual
<1>12. QED
  BY <1>1, <1>11 DEF a, b

\* The callback at the top is the first of those that have been called.
LEMMA CallTop ==
  ASSUME NEW s \in Seq(Callback), s # <<>>, NEW r \in Seq(Callback)
  PROVE  s \o r = Front(s) \o (<<Last(s)>> \o r)
<1> DEFINE a == Append(Front(s), Last(s))
<1>0. /\ Len(s) \in Nat /\ Len(s) >= 1 /\ Front(s) \in Seq(Callback) /\ Last(s) \in Callback
      /\ Len(Front(s)) = Len(s) - 1
      /\ \A i \in 1 .. Len(s) - 1 : Front(s)[i] = s[i]
      /\ Last(s) = s[Len(s)]
  BY FrontOfStack DEF Last
<1>1. a = s
  <2>1. a \in Seq(Callback) /\ Len(a) = Len(s)
    BY <1>0
  <2>2. \A i \in 1 .. Len(a) : a[i] = s[i]
    BY <1>0, <2>1
  <2> HIDE DEF a
  <2>3. QED
    BY <2>1, <2>2, SeqEqual
<1>2. Front(s) \in Seq(Callback) /\ Last(s) \in Callback
  BY FrontOfStack
<1>3. Append(Front(s), Last(s)) \o r = Front(s) \o (<<Last(s)>> \o r)
  BY <1>2
<1>4. QED
  BY <1>1, <1>3

\* Neither its history, nor its stack, nor whether its destructor is in a
\* callback changes for p.
PastKept(p) ==
  /\ registered'[p] = registered[p] /\ ran'[p] = ran[p] /\ callbacks'[p] = callbacks[p]
  /\ BeingCalled(p)' <=> BeingCalled(p)

\* What CalledOnceInReverse says of one PIMPL.
InReverse(p) == registered[p] = Pending(p) \o Undone(ran[p])

\* Then the order of its callbacks is kept.
LEMMA InReverseKept ==
  ASSUME NEW p \in Pimpls, InReverse(p), PastKept(p)
  PROVE  InReverse(p)'
<1>1. Pending(p)' = Pending(p) /\ Undone(ran[p])' = Undone(ran[p])
  BY DEF PastKept, Pending, Undone
<1>2. QED
  BY <1>1 DEF PastKept, InReverse

\* CalledOnceInReverse speaks of the PIMPLs one by one.
LEMMA InReverseEach == CalledOnceInReverse <=> \A p \in Pimpls : InReverse(p)
  BY DEF CalledOnceInReverse, InReverse, Undone

\* The stack of destructors has one that is inside a callback of p.
InCall(fr, p) == \E i \in DOMAIN fr : fr[i] = [pimpl |-> p, at |-> "call"]

\* A destructor that is entered is not inside a callback yet.
LEMMA ReleaseInCall ==
  ASSUME NEW old \in Pimpls \cup {NoPimpl}, NEW vw, NEW cb, NEW fr \in Seq(Frame),
         Release(old, vw, cb, fr), NEW p \in Pimpls
  PROVE  BeingCalled(p)' <=> InCall(fr, p)
<1>1. CASE frames' = fr
  BY <1>1 DEF BeingCalled, InCall
<1>2. CASE old # NoPimpl /\ frames' = Append(fr, [pimpl |-> old, at |-> "loop"])
  <2> DEFINE f == [pimpl |-> old, at |-> "loop"]
  <2>1. f \in Frame /\ f # [pimpl |-> p, at |-> "call"]
    BY <1>2 DEF Frame
  <2> HIDE DEF f
  <2>2. /\ Len(fr) \in Nat /\ DOMAIN fr = 1 .. Len(fr)
        /\ DOMAIN frames' = 1 .. Len(fr) + 1
        /\ \A i \in 1 .. Len(fr) : frames'[i] = fr[i]
        /\ frames'[Len(fr) + 1] = f
    BY <1>2, <2>1 DEF f
  <2>3. QED
    BY <2>1, <2>2 DEF BeingCalled, InCall
<1>3. QED
  BY <1>1, <1>2 DEF Release

\* Moving the top destructor in or out of a callback is all that changes of who
\* is being called.
LEMMA SetTopInCall ==
  ASSUME IInv, NEW p \in Pimpls, NEW from \in {"loop", "call"}, NEW to \in {"loop", "call"},
         InDtor(p, from), NEW q \in Pimpls
  PROVE  /\ BeingCalled(p) <=> from = "call"
         /\ InCall(SetTop(to), q) <=> IF q = p THEN to = "call" ELSE BeingCalled(q)
<1>1. TypeOK /\ frames # <<>> /\ frames \in Seq(Frame)
  BY DEF IInv, TypeOK, InDtor
<1>2. /\ Len(frames) \in Nat /\ Len(frames) >= 1
      /\ DOMAIN frames = 1 .. Len(frames)
      /\ frames[Len(frames)].pimpl = p
      /\ frames[Len(frames)].at = from
      /\ \A i \in 1 .. Len(frames) - 1 : frames[i].pimpl # p
  BY TopFrame
<1>3. /\ SetTop(to) \in Seq(Frame)
      /\ Len(SetTop(to)) = Len(frames)
      /\ \A i \in 1 .. Len(frames) - 1 : SetTop(to)[i] = frames[i]
      /\ SetTop(to)[Len(frames)].at = to
      /\ SetTop(to)[Len(frames)].pimpl = p
  BY <1>1, <1>2, SetTopOfFrames
<1>4. /\ frames[Len(frames)] = [pimpl |-> p, at |-> from]
      /\ SetTop(to)[Len(frames)] = [pimpl |-> p, at |-> to]
      /\ DOMAIN SetTop(to) = 1 .. Len(frames)
  <2>1. frames[Len(frames)] \in Frame /\ SetTop(to)[Len(frames)] \in Frame
    BY <1>1, <1>2, <1>3
  <2>2. QED
    BY <1>2, <1>3, <2>1 DEF Frame
<1>5. BeingCalled(p) <=> from = "call"
  <2>1. \A i \in DOMAIN frames : frames[i] = [pimpl |-> p, at |-> "call"] => i = Len(frames)
    BY <1>2
  <2>2. Len(frames) \in DOMAIN frames
    BY <1>2
  <2>3. frames[Len(frames)] = [pimpl |-> p, at |-> "call"] <=> from = "call"
    BY <1>4
  <2>4. QED
    BY <2>1, <2>2, <2>3 DEF BeingCalled
<1> DEFINE st == SetTop(to)
           n == Len(frames)
<1>s. /\ n \in Nat /\ n >= 1 /\ DOMAIN st = 1 .. n /\ DOMAIN frames = 1 .. n
      /\ \A i \in 1 .. n - 1 : st[i] = frames[i] /\ frames[i].pimpl # p
      /\ st[n] = [pimpl |-> p, at |-> to] /\ frames[n] = [pimpl |-> p, at |-> from]
  BY <1>2, <1>3, <1>4
<1> HIDE DEF st, n
<1>d. n \in 1 .. n /\ \A i \in 1 .. n : i \in 1 .. n - 1 \/ i = n
  BY <1>s
<1>6. CASE q = p
  <2>1. \A i \in DOMAIN st : st[i] = [pimpl |-> p, at |-> "call"] => i = n
    BY <1>s, <1>d
  <2>2. st[n] = [pimpl |-> p, at |-> "call"] <=> to = "call"
    BY <1>s
  <2>3. InCall(st, p) <=> to = "call"
    BY <1>s, <1>d, <2>1, <2>2 DEF InCall
  <2>4. QED
    BY <1>5, <1>6, <2>3 DEF st
<1>7. CASE q # p
  <2>1. /\ frames[n] # [pimpl |-> q, at |-> "call"]
        /\ st[n] # [pimpl |-> q, at |-> "call"]
    BY <1>s, <1>7
  <2>2. \A i \in 1 .. n : st[i] = [pimpl |-> q, at |-> "call"] <=> frames[i] = [pimpl |-> q, at |-> "call"]
    BY <1>s, <1>d, <2>1
  <2>3. InCall(st, q) <=> BeingCalled(q)
    BY <1>s, <2>2 DEF InCall, BeingCalled
  <2>4. QED
    BY <1>5, <1>7, <2>3 DEF st
<1>8. QED
  BY <1>5, <1>6, <1>7

\* A PIMPL whose destructor does not run is not in a callback.
LEMMA AliveNotInCall ==
  ASSUME IInv, NEW p \in Pimpls, phase[p] # "dying"
  PROVE  ~BeingCalled(p)
  BY DEF IInv, OneDestructorEach, BeingCalled

\* A PIMPL that a view points to is alive.
LEMMA ViewedIsLive ==
  ASSUME IInv, NEW v \in Views, view[v] # NoPimpl
  PROVE  view[v] \in Pimpls /\ phase[view[v]] = "live"
  BY DEF IInv, TypeOK, LiveIffReferenced, Referenced

\* The callback at the top of p is called: it leaves what is pending, and joins
\* what has been called.
LEMMA InReverseCalled ==
  ASSUME IInv, NEW p \in Pimpls, InReverse(p), callbacks[p] # <<>>, ~BeingCalled(p),
         registered'[p] = registered[p], Pending(p)' = Front(callbacks[p]),
         ran' = [ran EXCEPT ![p] = Append(@, [entry |-> TopCallback(p), mpi |-> mpi])]
  PROVE  InReverse(p)'
<1> DEFINE e == [entry |-> TopCallback(p), mpi |-> mpi]
<1>1. callbacks[p] \in Seq(Callback) /\ ran[p] \in Seq(Called) /\ ran'[p] = Append(ran[p], e)
  BY DEF IInv, TypeOK
<1>2. TopCallback(p) \in Callback /\ TopCallback(p) = Last(callbacks[p])
  BY <1>1, FrontOfStack DEF TopCallback
<1>3. e \in Called /\ e.entry = Last(callbacks[p])
  BY <1>2 DEF Called, IInv, TypeOK
<1> HIDE DEF e
<1>4. Undone(ran[p]) \in Seq(Callback) /\ Undone(ran'[p]) = <<Last(callbacks[p])>> \o Undone(ran[p])
  BY <1>1, <1>3, UndoneAppend
<1>5. registered[p] = callbacks[p] \o Undone(ran[p])
  BY DEF InReverse, Pending
<1>6. callbacks[p] \o Undone(ran[p]) = Front(callbacks[p]) \o (<<Last(callbacks[p])>> \o Undone(ran[p]))
  BY <1>1, <1>4, CallTop
<1>7. InReverse(p)' <=> registered'[p] = Pending(p)' \o Undone(ran'[p])
  BY DEF InReverse, Undone
<1>8. QED
  BY <1>4, <1>5, <1>6, <1>7

\* A step that calls nothing, pushes nothing and runs no destructor.
LEMMA OrderUnchanged ==
  ASSUME CalledOnceInReverse, \A p \in Pimpls : PastKept(p)
  PROVE  CalledOnceInReverse'
<1>1. \A p \in Pimpls : InReverse(p)'
  BY InReverseEach, InReverseKept
<1>2. QED
  BY <1>1 DEF CalledOnceInReverse, InReverse, Undone

\* Nothing is called before the destructor runs, by any operation.
LEMMA NothingCalledStep == IInv /\ NothingCalledYet /\ [Next]_vars => NothingCalledYet'
<1> SUFFICES ASSUME IInv, NothingCalledYet, [Next]_vars PROVE NothingCalledYet'
  OBVIOUS
<1> USE DEF pimplVars, history
<1>t. TypeOK
  BY DEF IInv
<1>1. ASSUME NEW v \in Views, NEW c \in Comms, Construct(v, c)
      PROVE  NothingCalledYet'
  <2>1. PICK p \in Pimpls : phase[p] = "unborn" /\ NewPimpl(p, c, mpi = "uninitialized")
    BY <1>1 DEF Construct
  <2>2. ran' = ran /\ \A q \in Pimpls : phase'[q] = IF q = p THEN "live" ELSE phase[q]
    BY <1>t, <2>1 DEF NewPimpl, TypeOK
  <2>3. QED
    BY <2>1, <2>2 DEF NothingCalledYet
<1>2. ASSUME ran' = ran, \A q \in Pimpls : phase'[q] \in {"live", "unborn"} => phase'[q] = phase[q]
      PROVE  NothingCalledYet'
  BY <1>2 DEF NothingCalledYet
<1>3. ASSUME NEW vw, NEW old \in Pimpls \cup {NoPimpl}, Rebind(vw, old)
      PROVE  NothingCalledYet'
  <2>1. ran' = ran /\ Release(old, vw, callbacks, frames)
    BY <1>3 DEF Rebind
  <2>2. \A q \in Pimpls : phase'[q] \in {"live", "unborn"} => phase'[q] = phase[q]
    BY <1>t, <2>1, ReleasePhase
  <2>3. QED
    BY <1>2, <2>1, <2>2
<1>4. ASSUME NEW v \in Views, \/ \E w \in Views : CopyAssign(v, w) \/ MoveAssign(v, w) \/ Swap(v, w)
                              \/ Destroy(v)
      PROVE  NothingCalledYet'
  <2>1. view[v] \in Pimpls \cup {NoPimpl}
    BY <1>t DEF TypeOK
  <2>2. QED
    BY <1>3, <1>4, <2>1 DEF CopyAssign, MoveAssign, Swap, Destroy
<1>5. ASSUME NEW p \in Pimpls, NEW v \in Views, UseCaptured(p, v)
      PROVE  NothingCalledYet'
  <2>1. view[v] \in Pimpls \cup {NoPimpl}
    BY <1>t DEF TypeOK
  <2>2. QED
    BY <1>3, <1>5, <2>1 DEF UseCaptured
<1>6. ASSUME NEW p \in Pimpls, DtorPop(p)
      PROVE  NothingCalledYet'
  <2>1. TopCallback(p).holds \in Pimpls \cup {NoPimpl}
    BY <1>t, <1>6, TopHolds DEF IInv, DtorPop
  <2>2. ran' = ran /\ Release(TopCallback(p).holds, view, callbacks', SetTop("loop"))
    BY <1>6 DEF DtorPop
  <2>3. \A q \in Pimpls : phase'[q] \in {"live", "unborn"} => phase'[q] = phase[q]
    BY <1>t, <2>1, <2>2, ReleasePhase
  <2>4. QED
    BY <1>2, <2>2, <2>3
<1>7. ASSUME NEW p \in Pimpls, DtorEnd(p)
      PROVE  NothingCalledYet'
  <2>1. ran' = ran /\ \A q \in Pimpls : phase'[q] = IF q = p THEN "dead" ELSE phase[q]
    BY <1>t, <1>7 DEF DtorEnd, TypeOK
  <2>2. QED
    BY <1>2, <2>1
<1>8. ASSUME NEW p \in Pimpls, DtorCall(p) \/ DtorFinalize(p)
      PROVE  NothingCalledYet'
  <2>1. phase[p] = "dying"
    BY <1>8, TopFrame DEF DtorCall, DtorFinalize
  <2>2. phase' = phase /\ \A q \in Pimpls : q # p => ran'[q] = ran[q]
    BY <1>t, <1>8 DEF DtorCall, DtorFinalize, TypeOK
  <2>3. QED
    BY <2>1, <2>2 DEF NothingCalledYet
<1>9. CASE UNCHANGED <<phase, ran>>
  BY <1>9 DEF NothingCalledYet
<1>10. QED
  <2>1. HostInit \/ HostFinalize => UNCHANGED <<phase, ran>>
    BY DEF HostInit, HostFinalize
  <2>2. ASSUME NEW v \in Views, ConstructTooLate(v) \/ CommunicateTooLate(v) \/ ReduceOnNull(v)
        PROVE  UNCHANGED <<phase, ran>>
    BY <2>2 DEF ConstructTooLate, CommunicateTooLate, ReduceOnNull, Abort
  <2>3. ASSUME NEW v \in Views, NEW fn \in Functions, NEW h \in Captured, StackCallback(v, fn, h)
        PROVE  UNCHANGED <<phase, ran>>
    BY <2>3 DEF StackCallback
  <2>4. ASSUME NEW v \in Views, (\E i \in Ranks : At(v, i)) \/ MyResourceSet(v) \/ Count(v)
        PROVE  UNCHANGED <<phase, ran>>
    BY <2>4 DEF At, MyResourceSet, Count, Instantiate
  <2>5. ASSUME NEW p \in Pimpls, DtorThrow(p)
        PROVE  UNCHANGED <<phase, ran>>
    BY <2>5 DEF DtorThrow
  <2>6. UNCHANGED vars => UNCHANGED <<phase, ran>>
    BY DEF vars
  <2>7. QED
    BY <1>1, <1>4, <1>5, <1>6, <1>7, <1>8, <1>9, <2>1, <2>2, <2>3, <2>4, <2>5, <2>6 DEF Next

\* Every operation keeps the callbacks in order: those called, latest first,
\* follow those still to be called.
LEMMA OrderStep ==
  IInv /\ NothingCalledYet /\ CalledOnceInReverse /\ [Next]_vars => CalledOnceInReverse'
<1> SUFFICES ASSUME IInv, NothingCalledYet, CalledOnceInReverse, [Next]_vars
             PROVE  CalledOnceInReverse'
  OBVIOUS
<1> USE DEF pimplVars, history
<1>t. TypeOK
  BY DEF IInv
<1>r. \A q \in Pimpls : InReverse(q)
  BY InReverseEach
<1>e. (\A q \in Pimpls : InReverse(q)') => CalledOnceInReverse'
  BY DEF CalledOnceInReverse, InReverse, Undone
<1>1. ASSUME NEW v \in Views, NEW c \in Comms, Construct(v, c)
      PROVE  CalledOnceInReverse'
  <2>1. PICK p \in Pimpls : phase[p] = "unborn" /\ NewPimpl(p, c, mpi = "uninitialized")
    BY <1>1 DEF Construct
  <2>2. frames' = frames
    BY <1>1 DEF Construct
  <2>3. \A q \in Pimpls : BeingCalled(q)' <=> BeingCalled(q)
    BY <2>2 DEF BeingCalled
  <2>4. /\ callbacks'[p] = registered'[p]
        /\ registered'[p] \in Seq(Callback)
        /\ ran' = ran
        /\ \A q \in Pimpls : q # p => callbacks'[q] = callbacks[q] /\ registered'[q] = registered[q]
    <3> DEFINE stack == IF mpi = "uninitialized" THEN <<FinalizeCallback>> ELSE <<>>
    <3>1. stack \in Seq(Callback)
      BY FinalizeCallbackType
    <3>2. callbacks' = [callbacks EXCEPT ![p] = stack] /\ registered' = [registered EXCEPT ![p] = stack] /\ ran' = ran
      BY <2>1 DEF NewPimpl
    <3> HIDE DEF stack
    <3>3. QED
      BY <1>t, <3>1, <3>2 DEF TypeOK
  <2>5. ran[p] = <<>>
    BY <2>1 DEF NothingCalledYet
  <2>6. Undone(ran'[p]) = <<>>
    BY <2>4, <2>5 DEF Undone
  <2>7. ~BeingCalled(p)'
    BY <2>1, <2>3, AliveNotInCall
  <2>8. InReverse(p)'
    <3>1. Pending(p)' = callbacks'[p]
      BY <2>7 DEF Pending
    <3>2. InReverse(p)' <=> registered'[p] = Pending(p)' \o Undone(ran'[p])
      BY DEF InReverse, Undone
    <3>3. registered'[p] = registered'[p] \o <<>>
      BY <2>4
    <3>4. QED
      BY <2>4, <2>6, <3>1, <3>2, <3>3
  <2>9. \A q \in Pimpls : q # p => PastKept(q)
    BY <2>3, <2>4 DEF PastKept
  <2>10. QED
    BY <1>e, <1>r, <2>8, <2>9, InReverseKept
<1>2. ASSUME NEW vw, NEW old \in Pimpls \cup {NoPimpl}, Rebind(vw, old)
      PROVE  CalledOnceInReverse'
  <2>1. UNCHANGED <<callbacks, registered, ran>> /\ Release(old, vw, callbacks, frames)
    BY <1>2 DEF Rebind
  <2>2. \A q \in Pimpls : BeingCalled(q)' <=> BeingCalled(q)
    <3>1. frames \in Seq(Frame)
      BY <1>t DEF TypeOK
    <3>2. \A q \in Pimpls : BeingCalled(q)' <=> InCall(frames, q)
      BY <2>1, <3>1, ReleaseInCall
    <3>3. QED
      BY <3>2 DEF InCall, BeingCalled
  <2>3. QED
    BY <2>1, <2>2, OrderUnchanged DEF PastKept
<1>3. ASSUME NEW v \in Views, \/ \E w \in Views : CopyAssign(v, w) \/ MoveAssign(v, w) \/ Swap(v, w)
                              \/ Destroy(v)
      PROVE  CalledOnceInReverse'
  <2>1. view[v] \in Pimpls \cup {NoPimpl}
    BY <1>t DEF TypeOK
  <2>2. QED
    BY <1>2, <1>3, <2>1 DEF CopyAssign, MoveAssign, Swap, Destroy
<1>4. ASSUME NEW p \in Pimpls, NEW v \in Views, UseCaptured(p, v)
      PROVE  CalledOnceInReverse'
  <2>1. view[v] \in Pimpls \cup {NoPimpl}
    BY <1>t DEF TypeOK
  <2>2. QED
    BY <1>2, <1>4, <2>1 DEF UseCaptured
<1>5. ASSUME NEW v \in Views, NEW fn \in Functions, NEW h \in Captured, StackCallback(v, fn, h)
      PROVE  CalledOnceInReverse'
  <2> DEFINE e == [fn |-> fn, holds |-> h]
  <2>1. PICK p \in Pimpls : p = view[v] /\ phase[p] = "live"
    BY <1>5, ViewedIsLive DEF StackCallback
  <2>2. e \in Callback
    BY <1>t DEF Callback, Captured, TypeOK
  <2>3. /\ callbacks' = [callbacks EXCEPT ![p] = Append(@, e)]
        /\ registered' = [registered EXCEPT ![p] = Append(@, e)]
        /\ UNCHANGED <<ran, frames>>
    BY <1>5, <2>1 DEF StackCallback
  <2> HIDE DEF e
  <2>4. /\ callbacks'[p] = Append(callbacks[p], e) /\ callbacks[p] \in Seq(Callback)
        /\ registered'[p] = Append(registered[p], e)
        /\ \A q \in Pimpls : q # p => callbacks'[q] = callbacks[q] /\ registered'[q] = registered[q]
    BY <1>t, <2>1, <2>3 DEF TypeOK
  <2>5. \A q \in Pimpls : BeingCalled(q)' <=> BeingCalled(q)
    BY <2>3 DEF BeingCalled
  <2>6. ~BeingCalled(p) /\ ran[p] = <<>>
    BY <2>1, AliveNotInCall DEF NothingCalledYet
  <2>7. Undone(ran[p]) = <<>> /\ Undone(ran'[p]) = <<>>
    BY <2>3, <2>6 DEF Undone
  <2>8. Pending(p) = callbacks[p] /\ Pending(p)' = callbacks'[p]
    BY <2>5, <2>6 DEF Pending
  <2>9. registered[p] = callbacks[p]
    <3>1. registered[p] = Pending(p) \o Undone(ran[p])
      BY <1>r, <2>1 DEF InReverse
    <3>2. callbacks[p] \o <<>> = callbacks[p]
      BY <2>4
    <3>3. QED
      BY <2>7, <2>8, <3>1, <3>2
  <2>10. InReverse(p)'
    <3>1. InReverse(p)' <=> registered'[p] = Pending(p)' \o Undone(ran'[p])
      BY DEF InReverse, Undone
    <3>2. Append(callbacks[p], e) \o <<>> = Append(callbacks[p], e)
      BY <2>2, <2>4
    <3>3. QED
      BY <2>4, <2>7, <2>8, <2>9, <3>1, <3>2
  <2>11. \A q \in Pimpls : q # p => PastKept(q)
    BY <2>3, <2>4, <2>5 DEF PastKept
  <2>12. QED
    BY <1>e, <1>r, <2>10, <2>11, InReverseKept
<1>6. ASSUME NEW p \in Pimpls, DtorCall(p)
      PROVE  CalledOnceInReverse'
  <2>1. /\ InDtor(p, "loop") /\ callbacks[p] # <<>> /\ frames' = SetTop("call")
        /\ UNCHANGED <<callbacks, registered>>
        /\ ran' = [ran EXCEPT ![p] = Append(@, [entry |-> TopCallback(p), mpi |-> mpi])]
    BY <1>6 DEF DtorCall
  <2>2. ~BeingCalled(p) /\ \A q \in Pimpls : BeingCalled(q)' <=> (q = p \/ BeingCalled(q))
    <3>1. \A q \in Pimpls : InCall(SetTop("call"), q) <=> IF q = p THEN "call" = "call" ELSE BeingCalled(q)
      BY <2>1, SetTopInCall
    <3>2. ~BeingCalled(p)
      BY <2>1, SetTopInCall
    <3>3. \A q \in Pimpls : BeingCalled(q)' <=> InCall(SetTop("call"), q)
      BY <2>1 DEF BeingCalled, InCall
    <3>4. QED
      BY <3>1, <3>2, <3>3
  <2>3. Pending(p)' = Front(callbacks[p])
    BY <2>1, <2>2 DEF Pending
  <2>4. InReverse(p)'
    BY <1>r, <2>1, <2>2, <2>3, InReverseCalled
  <2>5. \A q \in Pimpls : q # p => PastKept(q)
    BY <1>t, <2>1, <2>2 DEF PastKept, TypeOK
  <2>6. QED
    BY <1>e, <1>r, <2>4, <2>5, InReverseKept
<1>7. ASSUME NEW p \in Pimpls, DtorPop(p)
      PROVE  CalledOnceInReverse'
  <2>1. /\ InDtor(p, "call") /\ UNCHANGED <<registered, ran>>
        /\ callbacks' = [callbacks EXCEPT ![p] = Front(@)]
        /\ Release(TopCallback(p).holds, view, callbacks', SetTop("loop"))
    BY <1>7 DEF DtorPop
  <2>2. TopCallback(p).holds \in Pimpls \cup {NoPimpl} /\ callbacks[p] # <<>>
    BY <1>t, <2>1, TopHolds, PopHasCallback DEF IInv
  <2>3. BeingCalled(p) /\ \A q \in Pimpls : BeingCalled(q)' <=> (q # p /\ BeingCalled(q))
    <3>1. \A q \in Pimpls : InCall(SetTop("loop"), q) <=> IF q = p THEN "loop" = "call" ELSE BeingCalled(q)
      BY <2>1, SetTopInCall
    <3>2. BeingCalled(p)
      BY <2>1, SetTopInCall
    <3>3. SetTop("loop") \in Seq(Frame)
      BY <1>t, <2>1, SetTopOfFrames DEF InDtor
    <3>4. \A q \in Pimpls : BeingCalled(q)' <=> InCall(SetTop("loop"), q)
      BY <2>1, <2>2, <3>3, ReleaseInCall
    <3>5. QED
      BY <3>1, <3>2, <3>4
  <2>4. /\ callbacks'[p] = Front(callbacks[p])
        /\ \A q \in Pimpls : q # p => callbacks'[q] = callbacks[q]
    BY <1>t, <2>1 DEF TypeOK
  <2>5. InReverse(p)'
    <3>1. Pending(p)' = Pending(p)
      BY <2>3, <2>4 DEF Pending
    <3>2. InReverse(p)' <=> registered'[p] = Pending(p)' \o Undone(ran'[p])
      BY DEF InReverse, Undone
    <3>3. QED
      BY <1>r, <2>1, <3>1, <3>2 DEF InReverse
  <2>6. \A q \in Pimpls : q # p => PastKept(q)
    BY <2>1, <2>3, <2>4 DEF PastKept
  <2>7. QED
    BY <1>e, <1>r, <2>5, <2>6, InReverseKept
<1>8. ASSUME NEW p \in Pimpls, DtorFinalize(p)
      PROVE  CalledOnceInReverse'
  <2>1. /\ InDtor(p, "loop") /\ callbacks[p] # <<>> /\ UNCHANGED <<frames, registered>>
        /\ callbacks' = [callbacks EXCEPT ![p] = Front(@)]
        /\ ran' = [ran EXCEPT ![p] = Append(@, [entry |-> TopCallback(p), mpi |-> mpi])]
    BY <1>8 DEF DtorFinalize
  <2>2. ~BeingCalled(p) /\ \A q \in Pimpls : BeingCalled(q)' <=> BeingCalled(q)
    <3>1. ~BeingCalled(p)
      BY <2>1, SetTopInCall
    <3>2. QED
      BY <2>1, <3>1 DEF BeingCalled
  <2>3. /\ callbacks'[p] = Front(callbacks[p])
        /\ \A q \in Pimpls : q # p => callbacks'[q] = callbacks[q] /\ ran'[q] = ran[q]
    BY <1>t, <2>1 DEF TypeOK
  <2>4. Pending(p)' = Front(callbacks[p])
    BY <2>2, <2>3 DEF Pending
  <2>5. InReverse(p)'
    BY <1>r, <2>1, <2>2, <2>4, InReverseCalled
  <2>6. \A q \in Pimpls : q # p => PastKept(q)
    BY <2>1, <2>2, <2>3 DEF PastKept
  <2>7. QED
    BY <1>e, <1>r, <2>5, <2>6, InReverseKept
<1>9. ASSUME NEW p \in Pimpls, DtorEnd(p)
      PROVE  CalledOnceInReverse'
  <2>1. InDtor(p, "loop") /\ frames' = Front(frames) /\ UNCHANGED <<callbacks, registered, ran>>
    BY <1>9 DEF DtorEnd
  <2>2. \A q \in Pimpls : BeingCalled(q)' <=> BeingCalled(q)
    <3> DEFINE n == Len(frames)
    <3>1. /\ n \in Nat /\ n >= 1 /\ DOMAIN frames = 1 .. n /\ frames[n].at = "loop"
      BY <2>1, TopFrame
    <3>2. DOMAIN frames' = 1 .. n - 1 /\ \A i \in 1 .. n - 1 : frames'[i] = frames[i]
      <4>1. frames \in Seq(Frame) /\ frames # <<>>
        BY <1>t, <2>1 DEF TypeOK, InDtor
      <4>2. QED
        BY <2>1, <4>1, FrontOfStack
    <3> HIDE DEF n
    <3>3. \A i \in 1 .. n : i \in 1 .. n - 1 \/ i = n
      BY <3>1
    <3>4. \A i \in 1 .. n - 1 : i \in 1 .. n
      BY <3>1
    <3>5. \A q \in Pimpls : frames[n] # [pimpl |-> q, at |-> "call"]
      BY <3>1
    <3>6. QED
      BY <3>1, <3>2, <3>3, <3>4, <3>5 DEF BeingCalled
  <2>3. QED
    BY <2>1, <2>2, OrderUnchanged DEF PastKept
<1>10. CASE UNCHANGED <<callbacks, frames, history>>
  BY <1>10, OrderUnchanged DEF PastKept, BeingCalled
<1>11. QED
  <2>1. HostInit \/ HostFinalize => UNCHANGED <<callbacks, frames, history>>
    BY DEF HostInit, HostFinalize
  <2>2. ASSUME NEW v \in Views, ConstructTooLate(v) \/ CommunicateTooLate(v) \/ ReduceOnNull(v)
        PROVE  UNCHANGED <<callbacks, frames, history>>
    BY <2>2 DEF ConstructTooLate, CommunicateTooLate, ReduceOnNull, Abort
  <2>3. ASSUME NEW v \in Views, (\E i \in Ranks : At(v, i)) \/ MyResourceSet(v) \/ Count(v)
        PROVE  UNCHANGED <<callbacks, frames, history>>
    BY <2>3 DEF At, MyResourceSet, Count, Instantiate
  <2>4. ASSUME NEW p \in Pimpls, DtorThrow(p)
        PROVE  UNCHANGED <<callbacks, frames, history>>
    BY <2>4 DEF DtorThrow
  <2>5. UNCHANGED vars => UNCHANGED <<callbacks, frames, history>>
    BY DEF vars
  <2>6. QED
    BY <1>1, <1>3, <1>4, <1>5, <1>6, <1>7, <1>8, <1>9, <1>10, <2>1, <2>2, <2>3, <2>4, <2>5 DEF Next

-----------------------------------------------------------------------------
\* IInv is an invariant, and so is everything that it implies.
THEOREM Invariance == Spec => []IInv
<1>1. IInv /\ [Next]_vars => IInv'
  <2>1. IInv => TypeOK /\ CallHasCallback
    BY DEF IInv
  <2>2. QED
    BY <2>1, TypeStep, RefStep, MpiStep DEF IInv, RefInv, MpiInv
<1>2. QED
  BY InitInv, <1>1, PTL DEF Spec

\* The variables keep their types: no operation of RuntimeView leaves its state.
THEOREM TypeCorrect == Spec => []TypeOK
<1>1. IInv => TypeOK
  BY DEF IInv
<1>2. QED
  BY Invariance, <1>1, PTL

\* A PIMPL lives exactly as long as something points to it: no view, and no
\* callback that captured one, is ever left with a destroyed PIMPL.
THEOREM UseCountIsRight == Spec => []LiveIffReferenced
<1>1. IInv => LiveIffReferenced
  BY DEF IInv
<1>2. QED
  BY Invariance, <1>1, PTL

\* No destructor is entered twice, however deep destructors nest, and a PIMPL is
\* dying exactly while its destructor is on the call stack.
THEOREM DestructorsRunOnce == Spec => []OneDestructorEach
<1>1. IInv => OneDestructorEach
  BY DEF IInv
<1>2. QED
  BY Invariance, <1>1, PTL

\* At most one PIMPL takes on MPI_Finalize, over any number of views created
\* and dropped, and none does if the program started MPI itself.
THEOREM MpiHasOneOwner == Spec => []OneOwner
<1>1. IInv => OneOwner
  BY DEF IInv
<1>2. QED
  BY Invariance, <1>1, PTL

\* While anything refers to the PIMPL that started MPI, MPI is not finalized.
THEOREM StarterKeepsMpiUp == Spec => []StarterKeepsMpi
<1>1. IInv => StarterKeepsMpi
  BY DEF IInv, StarterStack, StarterKeepsMpi
<1>2. QED
  BY Invariance, <1>1, PTL

\* MPI_Finalize is called once, on an initialized MPI, after every callback of
\* the PIMPL that started MPI has been called with MPI still up.
THEOREM TeardownUnderMpi == Spec => []StarterTearsDownUnderMpi
<1>1. IInv => StarterTearsDownUnderMpi
  BY DEF IInv
<1>2. QED
  BY Invariance, <1>1, PTL

\* A live PIMPL has this process's resource set and no other rank's than its
\* communicator has, for any communicator and any calls of at() and count().
THEOREM ResourceSetsRight == Spec => []ResourceSetsOfCommunicator
<1>1. Init => ResourceSetsOfCommunicator
  BY DEF Init, ResourceSetsOfCommunicator
<1>2. QED
  BY Invariance, ResourceSetsStep, <1>1, PTL DEF Spec

\* Every registered callback is called once, in reverse order of registration,
\* whatever callbacks do meanwhile: none is lost, none is called twice.
THEOREM CallbacksInReverse == Spec => []CalledOnceInReverse
<1>1. Init => NothingCalledYet /\ CalledOnceInReverse
  <2> SUFFICES ASSUME Init PROVE NothingCalledYet /\ CalledOnceInReverse
    OBVIOUS
  <2>1. frames = <<>> /\ \A p \in Pimpls : callbacks[p] = <<>> /\ registered[p] = <<>> /\ ran[p] = <<>>
    BY DEF Init
  <2>2. NothingCalledYet
    BY <2>1 DEF NothingCalledYet
  <2>3. \A p \in Pimpls : Pending(p) = <<>> /\ Undone(ran[p]) = <<>>
    <3>1. \A p \in Pimpls : ~BeingCalled(p)
      BY <2>1 DEF BeingCalled
    <3>2. Undone(<<>>) = <<>>
      BY DEF Undone
    <3>3. QED
      BY <2>1, <3>1, <3>2 DEF Pending
  <2>4. \A p \in Pimpls : InReverse(p)
    <3>1. <<>> \in Seq(Callback) /\ <<>> \o <<>> = <<>>
      OBVIOUS
    <3>2. QED
      BY <2>1, <2>3, <3>1, Zenon DEF InReverse
  <2>5. QED
    BY <2>2, <2>4, InReverseEach
<1>2. IInv /\ NothingCalledYet /\ CalledOnceInReverse /\ [Next]_vars
        => NothingCalledYet' /\ CalledOnceInReverse'
  BY NothingCalledStep, OrderStep
<1>3. QED
  BY Invariance, <1>1, <1>2, PTL DEF Spec

-----------------------------------------------------------------------------
(* What is left when the program has dropped its views.                        *)

\* A set of numbers that is not empty has a smallest one.
LEMMA Smallest ==
  ASSUME NEW T, T \subseteq Nat, T # {}
  PROVE  \E m \in T : \A n \in T : m <= n
<1>1. PICK m \in T : \A n \in T : ~ (<<n, m>> \in OpToRel(<, Nat))
  BY NatLessThanWellFounded, WFMin, Zenon
<1>2. ASSUME NEW n \in T PROVE m <= n
  <2>1. ~ (<<n, m>> \in OpToRel(<, Nat))
    BY <1>1
  <2>2. ~ (n < m)
    BY <2>1 DEF OpToRel
  <2>. QED
    BY <2>2
<1>. QED
  BY <1>2

\* A set of numbers with 0 and every successor has all of them.
LEMMA InductionOnSet ==
  ASSUME NEW S, 0 \in S, \A n \in Nat : n \in S => n + 1 \in S
  PROVE  Nat \subseteq S
<1> SUFFICES ASSUME Nat \ S # {} PROVE FALSE
  OBVIOUS
<1>1. PICK m \in Nat \ S : \A n \in Nat \ S : m <= n
  <2>1. Nat \ S \subseteq Nat
    OBVIOUS
  <2>. QED
    BY <2>1, Smallest, Zenon
<1>2. m # 0 /\ m - 1 \in Nat /\ m = (m - 1) + 1
  BY <1>1
<1>3. m - 1 \in S
  BY <1>1, <1>2
<1>. QED
  BY <1>1, <1>2, <1>3

\* A PIMPL that is gone has called all of its callbacks.
DeadIsEmpty == \A p \in Pimpls : phase[p] = "dead" => callbacks[p] = <<>>

\* Nothing dies but a PIMPL whose stack is empty, and the dead get no callbacks.
LEMMA DeadIsEmptyStep == IInv /\ DeadIsEmpty /\ [Next]_vars => DeadIsEmpty'
<1> SUFFICES ASSUME IInv, DeadIsEmpty, [Next]_vars PROVE DeadIsEmpty'
  OBVIOUS
<1> USE DEF pimplVars, history
<1>t. TypeOK
  BY DEF IInv
<1>1. ASSUME \A q \in Pimpls : phase'[q] = "dead" => phase[q] = "dead" /\ callbacks'[q] = callbacks[q]
      PROVE  DeadIsEmpty'
  BY <1>1 DEF DeadIsEmpty
<1>2. ASSUME NEW old \in Pimpls \cup {NoPimpl}, NEW vw, NEW cb, NEW fr, Release(old, vw, cb, fr)
      PROVE  \A q \in Pimpls : phase'[q] = "dead" => phase[q] = "dead"
  <2>1. phase' = phase \/ phase' = [phase EXCEPT ![old] = "dying"]
    BY <1>2 DEF Release
  <2>. QED
    BY <1>t, <2>1 DEF TypeOK
<1>3. ASSUME NEW v \in Views, NEW c \in Comms, Construct(v, c)
      PROVE  DeadIsEmpty'
  <2>1. PICK p \in Pimpls : phase[p] = "unborn" /\ NewPimpl(p, c, mpi = "uninitialized")
    BY <1>3 DEF Construct
  <2>2. \A q \in Pimpls : /\ phase'[q] = IF q = p THEN "live" ELSE phase[q]
                          /\ q # p => callbacks'[q] = callbacks[q]
    BY <1>t, <2>1 DEF NewPimpl, TypeOK
  <2>. QED
    BY <1>1, <2>2
<1>4. ASSUME NEW vw, NEW old \in Pimpls \cup {NoPimpl}, Rebind(vw, old)
      PROVE  DeadIsEmpty'
  <2>1. callbacks' = callbacks /\ Release(old, vw, callbacks, frames)
    BY <1>4 DEF Rebind
  <2>2. \A q \in Pimpls : phase'[q] = "dead" => phase[q] = "dead"
    BY <1>2, <2>1
  <2>. QED
    BY <1>1, <2>1, <2>2
<1>5. ASSUME NEW v \in Views, \/ \E w \in Views : CopyAssign(v, w) \/ MoveAssign(v, w) \/ Swap(v, w)
                              \/ Destroy(v)
      PROVE  DeadIsEmpty'
  <2>1. view[v] \in Pimpls \cup {NoPimpl}
    BY <1>t DEF TypeOK
  <2>. QED
    BY <1>4, <1>5, <2>1 DEF CopyAssign, MoveAssign, Swap, Destroy
<1>6. ASSUME NEW p \in Pimpls, NEW v \in Views, UseCaptured(p, v)
      PROVE  DeadIsEmpty'
  <2>1. view[v] \in Pimpls \cup {NoPimpl}
    BY <1>t DEF TypeOK
  <2>. QED
    BY <1>4, <1>6, <2>1 DEF UseCaptured
<1>7. ASSUME NEW v \in Views, NEW fn \in Functions, NEW h \in Captured, StackCallback(v, fn, h)
      PROVE  DeadIsEmpty'
  <2>1. view[v] \in Pimpls /\ phase[view[v]] = "live"
    BY <1>t, <1>7 DEF StackCallback, TypeOK, IInv, LiveIffReferenced, Referenced
  <2>2. phase' = phase /\ \A q \in Pimpls : q # view[v] => callbacks'[q] = callbacks[q]
    BY <1>t, <1>7 DEF StackCallback, TypeOK
  <2>. QED
    BY <1>1, <2>1, <2>2
<1>8. ASSUME NEW p \in Pimpls, DtorPop(p)
      PROVE  DeadIsEmpty'
  <2>1. TopCallback(p).holds \in Pimpls \cup {NoPimpl}
    BY <1>t, <1>8, TopHolds DEF IInv, DtorPop
  <2>2. /\ Release(TopCallback(p).holds, view, callbacks', SetTop("loop"))
        /\ \A q \in Pimpls : q # p => callbacks'[q] = callbacks[q]
    BY <1>t, <1>8 DEF DtorPop, TypeOK
  <2>3. phase[p] = "dying"
    BY <1>8, TopFrame DEF DtorPop
  <2>4. \A q \in Pimpls : phase'[q] = "dead" => phase[q] = "dead"
    BY <1>2, <2>1, <2>2
  <2>. QED
    BY <1>1, <2>2, <2>3, <2>4
<1>9. ASSUME NEW p \in Pimpls, DtorFinalize(p)
      PROVE  DeadIsEmpty'
  <2>1. phase' = phase /\ \A q \in Pimpls : q # p => callbacks'[q] = callbacks[q]
    BY <1>t, <1>9 DEF DtorFinalize, TypeOK
  <2>2. phase[p] = "dying"
    BY <1>9, TopFrame DEF DtorFinalize
  <2>. QED
    BY <1>1, <2>1, <2>2
<1>10. ASSUME NEW p \in Pimpls, DtorEnd(p)
       PROVE  DeadIsEmpty'
  <2>1. /\ callbacks[p] = <<>> /\ callbacks' = callbacks
        /\ \A q \in Pimpls : phase'[q] = IF q = p THEN "dead" ELSE phase[q]
    BY <1>t, <1>10 DEF DtorEnd, TypeOK
  <2>. QED
    BY <2>1 DEF DeadIsEmpty
<1>11. CASE UNCHANGED <<phase, callbacks>>
  BY <1>11 DEF DeadIsEmpty
<1>12. HostInit \/ HostFinalize => UNCHANGED <<phase, callbacks>>
  BY DEF HostInit, HostFinalize
<1>13. ASSUME NEW v \in Views, ConstructTooLate(v) \/ CommunicateTooLate(v) \/ ReduceOnNull(v)
       PROVE  UNCHANGED <<phase, callbacks>>
  BY <1>13 DEF ConstructTooLate, CommunicateTooLate, ReduceOnNull, Abort
<1>14. ASSUME NEW v \in Views, (\E i \in Ranks : At(v, i)) \/ MyResourceSet(v) \/ Count(v)
       PROVE  UNCHANGED <<phase, callbacks>>
  BY <1>14 DEF At, MyResourceSet, Count, Instantiate
<1>15. ASSUME NEW p \in Pimpls, DtorCall(p) \/ DtorThrow(p)
       PROVE  UNCHANGED <<phase, callbacks>>
  BY <1>15 DEF DtorCall, DtorThrow
<1>16. UNCHANGED vars => UNCHANGED <<phase, callbacks>>
  BY DEF vars
<1>. QED
  BY <1>3, <1>5, <1>6, <1>7, <1>8, <1>9, <1>10, <1>11, <1>12, <1>13, <1>14, <1>15, <1>16 DEF Next

\* A step changes the phase of one PIMPL at most.
LEMMA PhaseStep ==
  [Next]_vars => \E q, ph : phase' = phase \/ phase' = [phase EXCEPT ![q] = ph]
<1> SUFFICES ASSUME [Next]_vars
             PROVE  \E q, ph : phase' = phase \/ phase' = [phase EXCEPT ![q] = ph]
  OBVIOUS
<1>1. ASSUME NEW old, NEW vw, NEW cb, NEW fr, Release(old, vw, cb, fr)
      PROVE  \E q, ph : phase' = phase \/ phase' = [phase EXCEPT ![q] = ph]
  <2>1. phase' = phase \/ phase' = [phase EXCEPT ![old] = "dying"]
    BY <1>1 DEF Release
  <2>. QED
    BY <2>1, Zenon
<1>2. ASSUME NEW v \in Views, NEW c \in Comms, Construct(v, c)
      PROVE  \E q, ph : phase' = phase \/ phase' = [phase EXCEPT ![q] = ph]
  <2>1. PICK p \in Pimpls : phase' = [phase EXCEPT ![p] = "live"]
    BY <1>2 DEF Construct, NewPimpl
  <2>. QED
    BY <2>1, Zenon
<1>3. ASSUME NEW vw, NEW old, Rebind(vw, old)
      PROVE  \E q, ph : phase' = phase \/ phase' = [phase EXCEPT ![q] = ph]
  BY <1>1, <1>3 DEF Rebind
<1>4. ASSUME NEW v \in Views, \/ \E w \in Views : CopyAssign(v, w) \/ MoveAssign(v, w) \/ Swap(v, w)
                              \/ Destroy(v)
      PROVE  \E q, ph : phase' = phase \/ phase' = [phase EXCEPT ![q] = ph]
  BY <1>3, <1>4 DEF CopyAssign, MoveAssign, Swap, Destroy
<1>5. ASSUME NEW p \in Pimpls, NEW v \in Views, UseCaptured(p, v)
      PROVE  \E q, ph : phase' = phase \/ phase' = [phase EXCEPT ![q] = ph]
  BY <1>3, <1>5 DEF UseCaptured
<1>6. ASSUME NEW p \in Pimpls, DtorPop(p)
      PROVE  \E q, ph : phase' = phase \/ phase' = [phase EXCEPT ![q] = ph]
  BY <1>1, <1>6 DEF DtorPop
<1>7. ASSUME NEW p \in Pimpls, DtorEnd(p)
      PROVE  \E q, ph : phase' = phase \/ phase' = [phase EXCEPT ![q] = ph]
  BY <1>7 DEF DtorEnd
<1>8. ASSUME NEW p \in Pimpls, DtorCall(p) \/ DtorFinalize(p) \/ DtorThrow(p)
      PROVE  phase' = phase
  BY <1>8 DEF DtorCall, DtorFinalize, DtorThrow
<1>9. ASSUME NEW v \in Views, \/ \E fn \in Functions, h \in Captured : StackCallback(v, fn, h)
                              \/ \E i \in Ranks : At(v, i)
                              \/ MyResourceSet(v) \/ Count(v)
      PROVE  phase' = phase
  BY <1>9 DEF StackCallback, At, MyResourceSet, Count, Instantiate
<1>10. ASSUME NEW v \in Views, ConstructTooLate(v) \/ CommunicateTooLate(v) \/ ReduceOnNull(v)
       PROVE  phase' = phase
  BY <1>10 DEF ConstructTooLate, CommunicateTooLate, ReduceOnNull, Abort
<1>11. HostInit \/ HostFinalize \/ UNCHANGED vars => phase' = phase
  BY DEF HostInit, HostFinalize, vars
<1>. QED
  BY <1>2, <1>4, <1>5, <1>6, <1>7, <1>8, <1>9, <1>10, <1>11 DEF Next

\* However long a program runs, it has made finitely many PIMPLs so far.
Born == {q \in Pimpls : phase[q] # "unborn"}

\* A step adds one PIMPL at most.
LEMMA BornStep == TypeOK /\ IsFiniteSet(Born) /\ [Next]_vars => IsFiniteSet(Born)'
<1> SUFFICES ASSUME TypeOK, IsFiniteSet(Born), [Next]_vars PROVE IsFiniteSet(Born')
  OBVIOUS
<1>1. PICK x, ph : phase' = phase \/ phase' = [phase EXCEPT ![x] = ph]
  BY PhaseStep
<1>2. Born' \subseteq Born \cup {x}
  BY <1>1 DEF Born, TypeOK
<1>3. IsFiniteSet(Born \cup {x})
  BY FS_AddElement
<1>. QED
  BY <1>2, <1>3, FS_Subset

\* What keeps something that captures p keeps p.
LEMMA KeepsOn ==
  ASSUME NEW q \in Pimpls, NEW s \in Pimpls, NEW p \in Pimpls, s = q \/ Keeps(q, s), Captures(s, p)
  PROVE  Keeps(q, p)
  BY DEF Keeps

\* What is kept by something that is kept is kept.
LEMMA KeepsThrough ==
  ASSUME NEW q \in Pimpls, NEW s \in Pimpls, NEW p \in Pimpls, Keeps(q, s), Keeps(s, p)
  PROVE  Keeps(q, p)
  BY DEF Keeps

\* A walk from one PIMPL to another that it captures, and so on, backwards.
Backwards(w) == \A n \in Nat : Captures(w[n + 1], w[n])

\* The start of a walk keeps what comes after.
LEMMA WalkKeeps ==
  ASSUME NEW w \in [Nat -> Pimpls], Backwards(w), NEW i \in Nat, NEW j \in Nat, i < j
  PROVE  Keeps(w[j], w[i])
<1> DEFINE S == {k \in Nat : i + 1 + k <= j => Keeps(w[j], w[j - 1 - k])}
<1>1. 0 \in S
  <2>1. j - 1 \in Nat /\ (j - 1) + 1 = j /\ j - 1 - 0 = j - 1
    OBVIOUS
  <2>2. Captures(w[j], w[j - 1])
    BY <2>1 DEF Backwards
  <2>3. Keeps(w[j], w[j - 1])
    BY <2>1, <2>2, KeepsOn
  <2>. QED
    BY <2>1, <2>3
<1>2. ASSUME NEW k \in Nat, k \in S PROVE k + 1 \in S
  <2> SUFFICES ASSUME i + 1 + (k + 1) <= j PROVE Keeps(w[j], w[j - 1 - (k + 1)])
    OBVIOUS
  <2>1. /\ j - 1 - (k + 1) \in Nat /\ j - 1 - k \in Nat
        /\ (j - 1 - (k + 1)) + 1 = j - 1 - k
    OBVIOUS
  <2>2. Keeps(w[j], w[j - 1 - k])
    BY <1>2
  <2>3. Captures(w[j - 1 - k], w[j - 1 - (k + 1)])
    BY <2>1 DEF Backwards
  <2>. QED
    BY <2>1, <2>2, <2>3, KeepsOn
<1>3. Nat \subseteq S
  <2> HIDE DEF S
  <2>. QED
    BY <1>1, <1>2, InductionOnSet
<1>4. j - 1 - i \in Nat /\ i + 1 + (j - 1 - i) <= j /\ j - 1 - (j - 1 - i) = i
  OBVIOUS
<1>5. j - 1 - i \in S
  BY <1>3, <1>4
<1>. QED
  BY <1>4, <1>5

\* Without the program's views and destructors, what lives is captured by what
\* lives; a walk back along the captures comes around, as only finitely many were made.
LEMMA LeakHasCycle == IInv /\ DeadIsEmpty /\ IsFiniteSet(Born) => LeaksOnlyCycles
<1> SUFFICES ASSUME IInv, DeadIsEmpty, IsFiniteSet(Born),
                    frames = <<>>, \A v \in Views : view[v] = NoPimpl,
                    NEW p \in Pimpls, phase[p] = "live"
             PROVE  \E q \in Pimpls : Keeps(q, q) /\ Keeps(q, p)
  BY DEF LeaksOnlyCycles
<1>t. TypeOK
  BY DEF IInv
<1>1. ASSUME NEW s \in Pimpls, phase[s] = "live"
      PROVE  \E r \in Pimpls : phase[r] = "live" /\ Captures(r, s)
  <2>1. Referenced(s, view, callbacks) /\ s # NoPimpl
    BY <1>1, ConstantsAssumption DEF IInv, LiveIffReferenced
  <2>2. PICK r \in Pimpls : Captures(r, s)
    BY <2>1 DEF Referenced, Captures
  <2>3. callbacks[r] # <<>>
    BY <2>2 DEF Captures
  <2>4. phase[r] # "dying"
    BY DEF IInv, OneDestructorEach
  <2>5. phase[r] # "dead" /\ phase[r] # "unborn"
    BY <2>3 DEF DeadIsEmpty, IInv, UnbornIsBlank
  <2>6. phase[r] = "live"
    BY <1>t, <2>4, <2>5 DEF TypeOK, Phases
  <2>. QED
    BY <2>2, <2>6
<1> DEFINE A == {s \in Pimpls : phase[s] = "live" /\ (s = p \/ Keeps(s, p))}
           R == {e \in A \X A : Captures(e[1], e[2])}
<1>2. \A s \in A : \E r \in A : <<r, s>> \in R
  <2> SUFFICES ASSUME NEW s \in A PROVE \E r \in A : <<r, s>> \in R
    OBVIOUS
  <2>1. PICK r \in Pimpls : phase[r] = "live" /\ Captures(r, s)
    BY <1>1
  <2>2. Keeps(r, s)
    BY <2>1, KeepsOn
  <2>3. Keeps(r, p)
    BY <2>2, KeepsThrough
  <2>. QED
    BY <2>1, <2>3
<1>3. p \in A
  OBVIOUS
<1>4. PICK w \in [Nat -> A] : \A n \in Nat : <<w[n + 1], w[n]>> \in R
  <2> HIDE DEF A, R
  <2>1. ~IsWellFoundedOn(R, A)
    <3>1. SUFFICES ASSUME IsWellFoundedOn(R, A) PROVE FALSE
      OBVIOUS
    <3>2. \E x \in A : \A y \in A : ~(<<y, x>> \in R)
      <4>1. A \subseteq A /\ A # {}
        BY <1>3
      <4>. QED
        BY <3>1, <4>1, WFMin, Zenon
    <3>. QED
      BY <1>2, <3>2
  <2>. QED
    BY <2>1 DEF IsWellFoundedOn
<1>5. w \in [Nat -> Pimpls] /\ Backwards(w)
  BY <1>4 DEF Backwards
<1>6. w[0] = p \/ Keeps(w[0], p)
  BY <1>4
<1> DEFINE N == Cardinality(Born)
<1>7. PICK i \in 0 .. N, j \in 0 .. N : i # j /\ w[i] = w[j]
  <2>1. N \in Nat
    BY FS_CardinalityType
  <2>2. IsFiniteSet(0 .. N) /\ Cardinality(0 .. N) = N + 1
    BY <2>1, FS_Interval
  <2> DEFINE f == [k \in 0 .. N |-> w[k]]
  <2>3. f \in [0 .. N -> Born]
    BY <1>4, <2>1 DEF Born
  <2>4. \E i, j \in 0 .. N : i # j /\ f[i] = f[j]
    <3> HIDE DEF f
    <3>1. Cardinality(Born) < Cardinality(0 .. N)
      BY <2>1, <2>2
    <3>. QED
      BY <2>1, <2>2, <2>3, <3>1, FS_PigeonHole
  <2>. QED
    BY <2>4
<1>8. ASSUME NEW k \in Nat, NEW l \in Nat, k < l, w[k] = w[l]
      PROVE  \E q \in Pimpls : Keeps(q, q) /\ Keeps(q, p)
  <2>1. w[l] \in Pimpls /\ w[0] \in Pimpls
    BY <1>5
  <2>2. Keeps(w[l], w[k]) /\ Keeps(w[l], w[0])
    BY <1>5, <1>8, WalkKeeps
  <2>3. Keeps(w[l], p)
    BY <1>6, <2>1, <2>2, KeepsThrough
  <2>. QED
    BY <1>8, <2>1, <2>2, <2>3
<1>9. i \in Nat /\ j \in Nat /\ (i < j \/ j < i)
  <2>1. N \in Nat
    BY FS_CardinalityType
  <2>. QED
    BY <1>7, <2>1
<1>. QED
  BY <1>7, <1>8, <1>9

\* What RAII leaves behind, when the program's last view has gone, is kept by a
\* cycle of callbacks that capture views: nothing else can leak.
THEOREM OnlyCyclesLeak == Spec => []LeaksOnlyCycles
<1>1. Init => DeadIsEmpty /\ IsFiniteSet(Born)
  <2>1. Init => DeadIsEmpty
    BY DEF Init, DeadIsEmpty
  <2>2. Init => Born = {}
    BY DEF Init, Born
  <2>. QED
    BY <2>1, <2>2, FS_EmptySet
<1>2. IInv /\ DeadIsEmpty /\ [Next]_vars => DeadIsEmpty'
  BY DeadIsEmptyStep
<1>3. IInv /\ IsFiniteSet(Born) /\ [Next]_vars => IsFiniteSet(Born)'
  BY BornStep DEF IInv
<1>4. IInv /\ DeadIsEmpty /\ IsFiniteSet(Born) => LeaksOnlyCycles
  BY LeakHasCycle
<1>. QED
  BY Invariance, <1>1, <1>2, <1>3, <1>4, PTL DEF Spec

-----------------------------------------------------------------------------
(* RuntimeView implements MpiLifetime. *)

\* What RuntimeView shows of its state at the level of MpiLifetime.
Shown == <<status = "running", mpi, MpiOwner, Holding, CallbackHolds>>

\* Who owns MPI and what callbacks hold depends on these variables only.
LEMMA OthersUnchanged ==
  ASSUME UNCHANGED <<status, mpi, hostInit, starter, callbacks>>
  PROVE  /\ UNCHANGED <<status = "running", mpi, MpiOwner>>
         /\ CallbackHolds' = CallbackHolds
         /\ \A p : KeepsMpiUp(p)' <=> p # NoPimpl /\ starter[p]
<1>1. UNCHANGED <<status = "running", mpi, MpiOwner>>
  BY DEF MpiOwner
<1>2. CallbackHolds' = CallbackHolds
  BY DEF CallbackHolds, KeepsMpiUp
<1>3. QED
  BY <1>1, <1>2 DEF KeepsMpiUp

\* A step that leaves the views alone too shows nothing.
LEMMA NothingShown ==
  ASSUME UNCHANGED <<status, mpi, hostInit, starter, callbacks, view>>
  PROVE  UNCHANGED Shown
BY OthersUnchanged DEF Shown, Holding, KeepsMpiUp

\* An assignment to a view changes what is held, and nothing else.
LEMMA RebindHolds ==
  ASSUME NEW vw, NEW old, Rebind(vw, old)
  PROVE  /\ UNCHANGED <<status = "running", mpi, MpiOwner>>
         /\ CallbackHolds' = CallbackHolds
         /\ Holding' = {u \in Views : KeepsMpiUp(vw[u])}
         /\ status' = status
<1>1. UNCHANGED <<status, mpi, hostInit, starter, callbacks>> /\ view' = vw
  BY DEF Rebind, pimplVars, history
<1>2. QED
  BY <1>1, OthersUnchanged DEF Holding, KeepsMpiUp

\* An assignment to a view becomes the abstract one.
LEMMA LHoldStep ==
  ASSUME NEW vw, NEW old, Rebind(vw, old), status = "running"
  PROVE  Lifetime!LHold({u \in Views : KeepsMpiUp(vw[u])})
BY RebindHolds DEF Lifetime!LHold

\* A process that MPI or a callback ends early.
LEMMA DeathStep ==
  ASSUME status = "running", status' # "running",
         UNCHANGED <<mpi, hostInit, starter, callbacks, view>>
  PROVE  Lifetime!LDie
<1>1. UNCHANGED <<mpi, MpiOwner, Holding>>
  BY DEF MpiOwner, Holding, KeepsMpiUp
<1>2. CallbackHolds' = CallbackHolds
  BY DEF CallbackHolds, KeepsMpiUp
<1>3. QED
  BY <1>1, <1>2 DEF Lifetime!LDie

\* What a callback holds is a pointer.
LEMMA HeldPointers ==
  ASSUME TypeOK, NEW q \in Pimpls, NEW i \in DOMAIN callbacks[q]
  PROVE  callbacks[q][i].holds \in Pimpls \cup {NoPimpl}
<1>1. callbacks[q] \in Seq(Callback)
  BY DEF TypeOK
<1>2. callbacks[q][i] \in Callback
  BY <1>1, ElementOfSeq, LenProperties
<1>3. QED
  BY <1>2 DEF Callback

\* The first view starts MPI; a later one does not touch what keeps it up.
LEMMA ConstructStep ==
  ASSUME IInv, NEW v \in Views, NEW c \in Comms, Construct(v, c)
  PROVE  Lifetime!LStart(v) \/ UNCHANGED Shown
<1>1. PICK p \in Pimpls : /\ phase[p] = "unborn"
                          /\ NewPimpl(p, c, mpi = "uninitialized")
                          /\ view' = [view EXCEPT ![v] = p]
  BY DEF Construct
<1>2. /\ status = "running" /\ UNCHANGED <<status, hostInit>> /\ view[v] = NoPimpl
      /\ mpi' = IF mpi = "uninitialized" THEN "initialized" ELSE mpi
  BY DEF Construct, Running
<1>3. /\ p # NoPimpl /\ ~starter[p] /\ callbacks[p] = <<>>
      /\ \A u \in Views : view[u] # p
      /\ \A q \in Pimpls : \A i \in DOMAIN callbacks[q] : callbacks[q][i].holds # p
  BY <1>1, ConstantsAssumption DEF IInv, UnbornIsBlank, LiveIffReferenced, Referenced
<1>4. /\ starter' = [starter EXCEPT ![p] = mpi = "uninitialized"]
      /\ callbacks' = [callbacks EXCEPT ![p] = IF mpi = "uninitialized" THEN <<FinalizeCallback>> ELSE <<>>]
  BY <1>1 DEF NewPimpl
<1>5. /\ starter'[p] = (mpi = "uninitialized")
      /\ \A q \in Pimpls : q # p => starter'[q] = starter[q] /\ callbacks'[q] = callbacks[q]
      /\ callbacks'[p] = IF mpi = "uninitialized" THEN <<FinalizeCallback>> ELSE <<>>
      /\ view'[v] = p /\ \A u \in Views : u # v => view'[u] = view[u] /\ view[u] \in Pimpls \cup {NoPimpl}
  BY <1>1, <1>4 DEF IInv, TypeOK
<1>6. \A q \in Pimpls : \A i \in DOMAIN callbacks'[q] :
        callbacks'[q][i].holds = NoPimpl
        \/ (i \in DOMAIN callbacks[q] /\ callbacks'[q][i] = callbacks[q][i])
  <2>1. \A i \in DOMAIN <<FinalizeCallback>> : <<FinalizeCallback>>[i].holds = NoPimpl
    BY DEF FinalizeCallback
  <2>2. DOMAIN callbacks'[p] # {} => callbacks'[p] = <<FinalizeCallback>>
    BY <1>5
  <2>3. QED
    BY <1>5, <2>1, <2>2
<1>7. \A q \in Pimpls : \A i \in DOMAIN callbacks[q] : callbacks[q][i].holds \in Pimpls \cup {NoPimpl}
  BY HeldPointers DEF IInv
<1>8. CASE mpi = "uninitialized"
  <2>1. ~hostInit /\ \A q \in Pimpls : ~starter[q]
    BY <1>8 DEF IInv, OneOwner
  <2>2. MpiOwner' = "library"
    BY <1>2, <1>5, <1>8, <2>1 DEF MpiOwner
  <2>3. Holding' = {v}
    <3>1. KeepsMpiUp(view[v])'
      BY <1>3, <1>5, <1>8 DEF KeepsMpiUp
    <3>2. \A u \in Views : u # v => ~KeepsMpiUp(view[u])'
      BY <1>3, <1>5, <2>1 DEF KeepsMpiUp
    <3>3. QED
      BY <3>1, <3>2 DEF Holding
  <2>4. ~CallbackHolds
    BY <1>7, <2>1 DEF CallbackHolds, KeepsMpiUp
  <2>5. ~CallbackHolds'
    BY <1>3, <1>5, <1>6, <1>7, <2>1 DEF CallbackHolds, KeepsMpiUp
  <2>6. CallbackHolds' = CallbackHolds
    BY <2>4, <2>5 DEF CallbackHolds
  <2>7. QED
    BY <1>2, <1>8, <2>2, <2>3, <2>6 DEF Lifetime!LStart
<1>9. CASE mpi # "uninitialized"
  <2>1. \A q \in Pimpls : starter'[q] <=> starter[q]
    BY <1>3, <1>5, <1>9
  <2>2. MpiOwner' = MpiOwner
    BY <1>2, <2>1 DEF MpiOwner
  <2>3. Holding' = Holding
    BY <1>2, <1>3, <1>5, <1>9, <2>1 DEF Holding, KeepsMpiUp
  <2>4. callbacks' = callbacks
    BY <1>3, <1>4, <1>9 DEF IInv, TypeOK
  <2>5. CallbackHolds' = CallbackHolds
    BY <1>7, <2>1, <2>4 DEF CallbackHolds, KeepsMpiUp
  <2>6. QED
    BY <1>2, <1>9, <2>2, <2>3, <2>5 DEF Shown
<1>10. QED
  BY <1>8, <1>9

\* A callback that captures a view that keeps MPI up keeps it up as well.
LEMMA StackStep ==
  ASSUME IInv, NEW v \in Views, NEW fn \in Functions, NEW h \in Captured, StackCallback(v, fn, h)
  PROVE  Lifetime!LCapture \/ UNCHANGED Shown
<1> DEFINE p == view[v]
           e == [fn |-> fn, holds |-> h]
<1>1. /\ status = "running" /\ p \in Pimpls
      /\ UNCHANGED <<status, mpi, hostInit, starter, view>>
      /\ callbacks' = [callbacks EXCEPT ![p] = Append(@, e)]
  BY DEF StackCallback, Running, pimplVars, IInv, TypeOK
<1>2. callbacks[p] \in Seq(Callback) /\ e \in Callback
  BY <1>1 DEF IInv, TypeOK, Callback, Captured
<1>3. /\ Len(callbacks[p]) \in Nat
      /\ DOMAIN callbacks[p] = 1 .. Len(callbacks[p])
      /\ DOMAIN callbacks'[p] = 1 .. Len(callbacks[p]) + 1
      /\ \A i \in DOMAIN callbacks[p] : callbacks'[p][i] = callbacks[p][i]
      /\ callbacks'[p][Len(callbacks[p]) + 1] = e
      /\ \A q \in Pimpls : q # p => callbacks'[q] = callbacks[q]
  BY <1>1, <1>2, AppendProperties, LenProperties DEF IInv, TypeOK
<1>4. UNCHANGED <<status = "running", mpi, MpiOwner, Holding>>
  BY <1>1 DEF MpiOwner, Holding, KeepsMpiUp
<1>5. CallbackHolds' <=> CallbackHolds \/ KeepsMpiUp(h)
  <2>1. \A i \in DOMAIN callbacks'[p] : i \in DOMAIN callbacks[p] \/ i = Len(callbacks[p]) + 1
    BY <1>3
  <2>2. \A i \in DOMAIN callbacks[p] : i \in DOMAIN callbacks'[p]
    BY <1>3
  <2>3. Len(callbacks[p]) + 1 \in DOMAIN callbacks'[p]
    BY <1>3
  <2>4. callbacks'[p][Len(callbacks[p]) + 1].holds = h
    BY <1>3
  <2>5. \A x : KeepsMpiUp(x)' <=> KeepsMpiUp(x)
    BY <1>1 DEF KeepsMpiUp
  <2> HIDE DEF p, e
  <2>6. CallbackHolds' => CallbackHolds \/ KeepsMpiUp(h)
    BY <1>1, <1>3, <2>1, <2>4 DEF CallbackHolds, KeepsMpiUp
  <2>7. CallbackHolds => CallbackHolds'
    BY <1>1, <1>3, <2>2 DEF CallbackHolds, KeepsMpiUp
  <2>8. KeepsMpiUp(h) => CallbackHolds'
    BY <1>1, <2>3, <2>4 DEF CallbackHolds, KeepsMpiUp
  <2>9. QED
    BY <2>6, <2>7, <2>8
<1>6. CASE KeepsMpiUp(h)
  <2>1. Holding # {}
    BY <1>6 DEF Holding, Captured, KeepsMpiUp
  <2>2. CallbackHolds' = TRUE
    BY <1>5, <1>6 DEF CallbackHolds
  <2>3. QED
    BY <1>1, <1>4, <2>1, <2>2 DEF Lifetime!LCapture
<1>7. CASE ~KeepsMpiUp(h)
  <2>1. CallbackHolds' = CallbackHolds
    BY <1>5, <1>7 DEF CallbackHolds
  <2>2. QED
    BY <1>4, <2>1 DEF Shown
<1>8. QED
  BY <1>6, <1>7

\* A callback that is popped releases what it captured, or held nothing.
LEMMA PopHolds ==
  ASSUME IInv, NEW p \in Pimpls, callbacks[p] # <<>>,
         UNCHANGED <<status, hostInit, starter, view>>,
         callbacks' = [callbacks EXCEPT ![p] = Front(@)]
  PROVE  /\ UNCHANGED <<status = "running", MpiOwner, Holding>>
         /\ CallbackHolds' => CallbackHolds
<1>1. UNCHANGED <<status = "running", MpiOwner, Holding>>
  BY DEF MpiOwner, Holding, KeepsMpiUp
<1>2. callbacks[p] \in Seq(Callback)
  BY DEF IInv, TypeOK
<1>3. /\ callbacks'[p] = Front(callbacks[p])
      /\ \A q \in Pimpls : q # p => callbacks'[q] = callbacks[q]
  BY DEF IInv, TypeOK
<1>4. \A i \in DOMAIN callbacks'[p] : i \in DOMAIN callbacks[p] /\ callbacks'[p][i] = callbacks[p][i]
  BY <1>2, <1>3, FrontOfStack, LenProperties
<1>5. CallbackHolds' => CallbackHolds
  BY <1>3, <1>4 DEF CallbackHolds, KeepsMpiUp
<1>6. QED
  BY <1>1, <1>5

LEMMA PopStep ==
  ASSUME IInv, NEW p \in Pimpls, DtorPop(p)
  PROVE  Lifetime!LReleaseCaptured \/ UNCHANGED Shown
<1>1. callbacks[p] # <<>>
  BY PopHasCallback DEF DtorPop, IInv
<1>2. /\ status = "running" /\ mpi' = mpi
      /\ UNCHANGED <<status, hostInit, starter, view>>
      /\ callbacks' = [callbacks EXCEPT ![p] = Front(@)]
  BY DEF DtorPop, InDtor, pimplVars
<1>3. /\ UNCHANGED <<status = "running", MpiOwner, Holding>>
      /\ CallbackHolds' => CallbackHolds
  BY <1>1, <1>2, PopHolds
<1>4. CASE CallbackHolds'
  <2>1. CallbackHolds' = CallbackHolds
    BY <1>3, <1>4 DEF CallbackHolds
  <2>2. QED
    BY <1>2, <1>3, <2>1 DEF Shown
<1>5. CASE ~CallbackHolds'
  <2>1. CallbackHolds' = FALSE
    BY <1>5 DEF CallbackHolds
  <2>2. QED
    BY <1>2, <1>3, <2>1 DEF Lifetime!LReleaseCaptured
<1>6. QED
  BY <1>4, <1>5

\* The destructor that finalizes MPI is the starter's, and nothing refers to it.
LEMMA FinalizeStep ==
  ASSUME IInv, NEW p \in Pimpls, DtorFinalize(p)
  PROVE  Lifetime!LFinalize
<1>1. /\ status = "running" /\ mpi' = "finalized" /\ callbacks[p] # <<>>
      /\ UNCHANGED <<status, hostInit, starter, view>>
      /\ callbacks' = [callbacks EXCEPT ![p] = Front(@)]
      /\ TopCallback(p).fn = "MPI_Finalize" /\ InDtor(p, "loop")
  BY DEF DtorFinalize, InDtor, pimplVars
<1>2. starter[p]
  <2>1. callbacks[p] \in Seq(Callback)
    BY DEF IInv, TypeOK
  <2>2. Len(callbacks[p]) \in DOMAIN callbacks[p]
    BY <1>1, <2>1, FrontOfStack, LenProperties
  <2>3. QED
    BY <1>1, <2>2 DEF IInv, FinalizeAtBottom, TopCallback, Last
<1>3. mpi = "initialized" /\ ~hostInit /\ \A q \in Pimpls : starter[q] <=> q = p
  BY <1>1, <1>2 DEF IInv, StarterStack, OneOwner
<1>4. phase[p] = "dying" /\ ~Referenced(p, view, callbacks)
  BY <1>1, TopFrame DEF IInv, LiveIffReferenced
<1>5. MpiOwner = "library"
  BY <1>2, <1>3 DEF MpiOwner
<1>6. Holding = {}
  BY <1>3, <1>4 DEF Holding, KeepsMpiUp, Referenced, IInv, TypeOK
<1>7. ~CallbackHolds
  BY <1>3, <1>4, HeldPointers DEF CallbackHolds, KeepsMpiUp, Referenced, IInv
<1>8. /\ UNCHANGED <<status = "running", MpiOwner, Holding>>
      /\ CallbackHolds' => CallbackHolds
  BY <1>1, PopHolds
<1>9. CallbackHolds' = CallbackHolds
  BY <1>7, <1>8 DEF CallbackHolds
<1>10. QED
  BY <1>1, <1>3, <1>5, <1>6, <1>7, <1>8, <1>9 DEF Lifetime!LFinalize

\* Assignments, swaps and destruction of views become the abstract ones.
LEMMA ViewStep ==
  ASSUME IInv, NEW v \in Views, NEW w \in Views,
         CopyAssign(v, w) \/ MoveAssign(v, w) \/ Swap(v, w) \/ Destroy(v)
  PROVE  Lifetime!LCopy(v, w) \/ Lifetime!LMove(v, w) \/ Lifetime!LSwap(v, w) \/ Lifetime!LDestroy(v)
<1>1. status = "running" /\ view \in [Views -> Pimpls \cup {NoPimpl}] /\ ~KeepsMpiUp(NoPimpl)
  BY DEF CopyAssign, MoveAssign, Swap, Destroy, Running, IInv, TypeOK, KeepsMpiUp
<1>2. CASE CopyAssign(v, w)
  <2> DEFINE vw == [view EXCEPT ![v] = view[w]]
  <2>1. Lifetime!LHold({u \in Views : KeepsMpiUp(vw[u])})
    BY <1>1, <1>2, LHoldStep DEF CopyAssign
  <2>2. \A u \in Views : vw[u] = IF u = v THEN view[w] ELSE view[u]
    BY <1>1
  <2>3. {u \in Views : KeepsMpiUp(vw[u])} = IF w \in Holding THEN Holding \cup {v} ELSE Holding \ {v}
    BY <2>2 DEF Holding
  <2>4. QED
    BY <2>1, <2>3 DEF Lifetime!LCopy
<1>3. CASE MoveAssign(v, w)
  <2> DEFINE vw == [view EXCEPT ![v] = view[w], ![w] = NoPimpl]
  <2>1. v # w /\ Lifetime!LHold({u \in Views : KeepsMpiUp(vw[u])})
    BY <1>1, <1>3, LHoldStep DEF MoveAssign
  <2>2. \A u \in Views : vw[u] = IF u = w THEN NoPimpl ELSE IF u = v THEN view[w] ELSE view[u]
    BY <1>1, <2>1
  <2>3. {u \in Views : KeepsMpiUp(vw[u])} = (IF w \in Holding THEN Holding \cup {v} ELSE Holding \ {v}) \ {w}
    BY <1>1, <2>1, <2>2 DEF Holding
  <2>4. QED
    BY <2>1, <2>3 DEF Lifetime!LMove
<1>4. CASE Swap(v, w)
  <2> DEFINE vw == [view EXCEPT ![v] = view[w], ![w] = view[v]]
  <2>1. v # w /\ Lifetime!LHold({u \in Views : KeepsMpiUp(vw[u])})
    BY <1>1, <1>4, LHoldStep DEF Swap
  <2>2. \A u \in Views : vw[u] = IF u = w THEN view[v] ELSE IF u = v THEN view[w] ELSE view[u]
    BY <1>1, <2>1
  <2>3. {u \in Views : KeepsMpiUp(vw[u])}
          = {u \in Views : IF u = v THEN w \in Holding ELSE IF u = w THEN v \in Holding ELSE u \in Holding}
    BY <2>1, <2>2 DEF Holding
  <2>4. QED
    BY <2>1, <2>3 DEF Lifetime!LSwap
<1>5. CASE Destroy(v)
  <2> DEFINE vw == [view EXCEPT ![v] = NoPimpl]
  <2>1. Lifetime!LHold({u \in Views : KeepsMpiUp(vw[u])})
    BY <1>1, <1>5, LHoldStep DEF Destroy
  <2>2. \A u \in Views : vw[u] = IF u = v THEN NoPimpl ELSE view[u]
    BY <1>1
  <2>3. {u \in Views : KeepsMpiUp(vw[u])} = Holding \ {v}
    BY <1>1, <2>2 DEF Holding
  <2>4. QED
    BY <2>1, <2>3 DEF Lifetime!LDestroy
<1>6. QED
  BY <1>2, <1>3, <1>4, <1>5

\* A callback that is running may copy the view it captured.
LEMMA UseStep ==
  ASSUME IInv, NEW p \in Pimpls, NEW v \in Views, UseCaptured(p, v)
  PROVE  Lifetime!LCopyCaptured(v) \/ Lifetime!LDestroy(v)
<1> DEFINE h == TopCallback(p).holds
           vw == [view EXCEPT ![v] = h]
<1>1. status = "running" /\ view \in [Views -> Pimpls \cup {NoPimpl}]
  BY DEF UseCaptured, InDtor, IInv, TypeOK
<1>2. \E i \in DOMAIN callbacks[p] : callbacks[p][i].holds = h
  BY TopHolds DEF UseCaptured, IInv
<1>3. \A u \in Views : vw[u] = IF u = v THEN h ELSE view[u]
  BY <1>1
<1>4. Lifetime!LHold({u \in Views : KeepsMpiUp(vw[u])})
  BY <1>1, LHoldStep DEF UseCaptured
<1> HIDE DEF h, vw
<1>5. CASE KeepsMpiUp(h)
  <2>1. CallbackHolds
    BY <1>2, <1>5 DEF CallbackHolds
  <2>2. {u \in Views : KeepsMpiUp(vw[u])} = Holding \cup {v}
    BY <1>3, <1>5 DEF Holding
  <2>3. QED
    BY <1>4, <2>1, <2>2 DEF Lifetime!LCopyCaptured
<1>6. CASE ~KeepsMpiUp(h)
  <2>1. {u \in Views : KeepsMpiUp(vw[u])} = Holding \ {v}
    BY <1>3, <1>6 DEF Holding
  <2>2. QED
    BY <1>4, <2>1 DEF Lifetime!LDestroy
<1>7. QED
  BY <1>5, <1>6

\* Every step of the process is a step of MPI's life, or shows nothing of it.
LEMMA StepShown == IInv /\ [Next]_vars => [Lifetime!LNext]_Shown
<1> SUFFICES ASSUME IInv, [Next]_vars PROVE Lifetime!LNext \/ UNCHANGED Shown
  OBVIOUS
<1> USE DEF pimplVars, history
<1>1. CASE HostInit
  <2>1. ~hostInit /\ (\A q \in Pimpls : ~starter[q]) /\ UNCHANGED <<status, starter, callbacks, view>>
    BY <1>1 DEF HostInit, IInv, OneOwner
  <2>2. /\ status = "running" /\ mpi = "uninitialized" /\ mpi' = "initialized"
        /\ MpiOwner' = "host" /\ Holding' = Holding /\ CallbackHolds' = CallbackHolds
    BY <1>1, <2>1 DEF HostInit, Running, MpiOwner, Holding, CallbackHolds, KeepsMpiUp
  <2>3. Lifetime!LHostInit
    BY <2>1, <2>2 DEF Lifetime!LHostInit
  <2>4. QED
    BY <2>3 DEF Lifetime!LNext
<1>2. CASE HostFinalize
  <2>1. /\ status = "running" /\ mpi = "initialized" /\ mpi' = "finalized" /\ status' = status
        /\ MpiOwner = "host" /\ MpiOwner' = MpiOwner /\ Holding' = Holding
        /\ CallbackHolds' = CallbackHolds
    BY <1>2 DEF HostFinalize, Running, MpiOwner, Holding, CallbackHolds, KeepsMpiUp
  <2>2. Lifetime!LHostFinalize
    BY <2>1 DEF Lifetime!LHostFinalize
  <2>3. QED
    BY <2>2 DEF Lifetime!LNext
<1>3. ASSUME NEW v \in Views, ConstructTooLate(v) \/ CommunicateTooLate(v) \/ ReduceOnNull(v)
      PROVE  Lifetime!LNext
  <2>1. Lifetime!LDie
    BY <1>3, DeathStep DEF ConstructTooLate, CommunicateTooLate, ReduceOnNull, Abort, Running
  <2>2. QED
    BY <2>1 DEF Lifetime!LNext
<1>4. ASSUME NEW p \in Pimpls, DtorThrow(p)
      PROVE  Lifetime!LNext
  <2>1. Lifetime!LDie
    BY <1>4, DeathStep DEF DtorThrow, InDtor
  <2>2. QED
    BY <2>1 DEF Lifetime!LNext
<1>5. ASSUME NEW v \in Views, NEW c \in Comms, Construct(v, c)
      PROVE  Lifetime!LNext \/ UNCHANGED Shown
  BY <1>5, ConstructStep DEF Lifetime!LNext
<1>6. ASSUME NEW v \in Views, NEW w \in Views,
             CopyAssign(v, w) \/ MoveAssign(v, w) \/ Swap(v, w) \/ Destroy(v)
      PROVE  Lifetime!LNext
  BY <1>6, ViewStep DEF Lifetime!LNext
<1>7. ASSUME NEW v \in Views, NEW fn \in Functions, NEW h \in Captured, StackCallback(v, fn, h)
      PROVE  Lifetime!LNext \/ UNCHANGED Shown
  BY <1>7, StackStep DEF Lifetime!LNext
<1>8. ASSUME NEW v \in Views, (\E i \in Ranks : At(v, i)) \/ MyResourceSet(v) \/ Count(v)
      PROVE  UNCHANGED Shown
  BY <1>8, NothingShown DEF At, MyResourceSet, Count, Instantiate
<1>9. ASSUME NEW p \in Pimpls, DtorCall(p) \/ DtorEnd(p)
      PROVE  UNCHANGED Shown
  BY <1>9, NothingShown DEF DtorCall, DtorEnd
<1>10. ASSUME NEW p \in Pimpls, DtorPop(p)
       PROVE  Lifetime!LNext \/ UNCHANGED Shown
  BY <1>10, PopStep DEF Lifetime!LNext
<1>11. ASSUME NEW p \in Pimpls, DtorFinalize(p)
       PROVE  Lifetime!LNext
  BY <1>11, FinalizeStep DEF Lifetime!LNext
<1>12. ASSUME NEW p \in Pimpls, NEW v \in Views, UseCaptured(p, v)
       PROVE  Lifetime!LNext
  BY <1>12, UseStep DEF Lifetime!LNext
<1>13. CASE UNCHANGED vars
  BY <1>13, NothingShown DEF vars
<1>14. QED
  BY <1>1, <1>2, <1>3, <1>4, <1>5, <1>6, <1>7, <1>8, <1>9, <1>10, <1>11, <1>12, <1>13
     DEF Next

\* The class comment's promise, made precise: the library finalizes MPI exactly
\* if it initialized it, and only when no copy of the first view is left, in a
\* variable or in a callback.
THEOREM LifetimeRefined == Spec => LifetimeKept
<1>1. Init => Lifetime!LInit
  <2> SUFFICES ASSUME Init PROVE Lifetime!LInit
    OBVIOUS
  <2>1. /\ status = "running" /\ mpi = "uninitialized" /\ MpiOwner = "none"
        /\ Holding = {} /\ ~CallbackHolds
    BY DEF Init, MpiOwner, Holding, CallbackHolds, KeepsMpiUp
  <2>2. CallbackHolds = FALSE
    BY <2>1 DEF CallbackHolds
  <2>3. QED
    BY <2>1, <2>2 DEF Lifetime!LInit
<1>2. IInv /\ [Next]_vars => [Lifetime!LNext]_Shown
  BY StepShown
<1>3. QED
  BY <1>1, <1>2, Invariance, PTL DEF Spec, LifetimeKept, Lifetime!LSpec, Lifetime!lvars, Shown
=============================================================================
