------------------------------- MODULE Logger -------------------------------
(****************************************************************************)
(* Logger on top of SpdlogPIMPL: a unique_ptr to an object that wraps a     *)
(* spdlog::logger.  A spdlog::logger has a name, a level (an int) and a     *)
(* shared_ptr to its sink; copying it copies the first two.                 *)
(****************************************************************************)
EXTENDS Sequences, Integers
LOCAL INSTANCE Functions

CONSTANTS
  Vars, Objects, Null, Free,  \* see Pimpl
  Kinds,                      \* the classes of PIMPLs in use
  Ids, Files, Used,           \* see LoggerSpec
  MaxWritten                  \* bound: the messages written in a run

VARIABLES
  ptr,     \* m_pimpl_ of every logger
  heap,    \* the PIMPLs
  written  \* what spdlog's sinks have been given

vars == <<ptr, heap, written>>

-----------------------------------------------------------------------------
Sinks == {"stdout"} \cup Files

ASSUME LoggerAssumption ==
  /\ "stdout" \notin Files
  /\ {"info", "critical"} \subseteq Used
  /\ Used \subseteq {"trace", "debug", "info", "warn", "error", "critical"}
  /\ Kinds \subseteq {"StdoutSpdlog", "FileSpdlog", "SpdlogPIMPL"}

\* spdlog::level::level_enum
Levels == [trace |-> 0, debug |-> 1, info |-> 2, warn |-> 3, err |-> 4, critical |-> 5, off |-> 6]

\* Mutant: two entries of the map are swapped.
MapSwapped(s) ==
  CASE s = "error" -> Levels.critical [] s = "critical" -> Levels.err [] OTHER -> Levels[s]

\* ParallelZone's severities are spdlog's, but for the name of one.
map_severity_levels(s) == IF s = "error" THEN Levels.err ELSE Levels[s]

\* A PIMPL's class, and the spdlog::logger in it.  Only a bare SpdlogPIMPL may
\* wrap a logger with any sink.
PimplState == [kind : Kinds, sink : Sinks, id : Ids, level : 0 .. 6]
SinksOf(kind) ==
  CASE kind = "StdoutSpdlog" -> {"stdout"}
    [] kind = "FileSpdlog"   -> Files
    [] kind = "SpdlogPIMPL"  -> Sinks

P == INSTANCE Pimpl WITH Values <- PimplState
Pimpl(x) == heap[ptr[x]]

\* The markers are no PIMPL's state, and null is no documented logger either.
ASSUME MarkersAssumption ==
  /\ P!PimplAssumption
  /\ Null \notin [sink : Sinks, id : Ids, threshold : Used]

-----------------------------------------------------------------------------
Init ==
  /\ P!Init
  /\ written = [k \in Sinks |-> <<>>]

\* A PIMPL is built around a new spdlog::logger, whose level becomes info.
Create(x, kind, id, k) ==
  /\ k \in SinksOf(kind)
  /\ P!Construct(x, [kind |-> kind, sink |-> k, id |-> id, level |-> Levels.info])
  /\ UNCHANGED written

\* LoggerFactory::default_global_logger
DefaultGlobal(x, rank, id) ==
  /\ "StdoutSpdlog" \in Kinds
  /\ IF rank = 0 THEN Create(x, "StdoutSpdlog", id, "stdout")
                 ELSE P!Destroy(x) /\ UNCHANGED written

CopyAssign(x, y) == P!Copy(x, y) /\ UNCHANGED written
MoveAssign(x, y) == P!Move(x, y) /\ UNCHANGED written
Swap(x, y)       == P!Swap(x, y) /\ UNCHANGED written
Destroy(x)       == P!Destroy(x) /\ UNCHANGED written

\* Mutant: the sink's threshold is set, which copies share.
SetSeverityOfSink(x, s) ==
  /\ ~P!IsNull(x)
  /\ heap' = [o \in Objects |->
       IF heap[o] # Free /\ heap[o].sink = Pimpl(x).sink
       THEN [heap[o] EXCEPT !.level = map_severity_levels(s)] ELSE heap[o]]
  /\ UNCHANGED <<ptr, written>>

\* set_severity: nothing happens to a null logger.
SetSeverity(x, s) ==
  /\ P!Update(x, [Pimpl(x) EXCEPT !.level = map_severity_levels(s)])
  /\ UNCHANGED written

\* spdlog::logger::should_log
ShouldLog(x, s) == map_severity_levels(s) >= Pimpl(x).level

\* log(s, msg), which trace() to critical() and << come down to.  A null logger,
\* and a message below the level, write nothing.
Log(x, s) ==
  /\ ~P!IsNull(x) /\ ShouldLog(x, s)
  /\ FoldFunction(+, 0, [k \in Sinks |-> Len(written[k])]) < MaxWritten
  /\ written' = [written EXCEPT ![Pimpl(x).sink] =
                   Append(@, [id |-> Pimpl(x).id, severity |-> s])]
  /\ UNCHANGED <<ptr, heap>>

Next ==
  \E x \in Vars :
    \/ \E id \in Ids :
         \/ \E kind \in Kinds, k \in Sinks : Create(x, kind, id, k)
         \/ \E rank \in 0 .. 1 : DefaultGlobal(x, rank, id)
    \/ \E y \in Vars : CopyAssign(x, y) \/ MoveAssign(x, y) \/ Swap(x, y)
    \/ Destroy(x)
    \/ \E s \in Used : SetSeverity(x, s) \/ Log(x, s)

Spec == Init /\ [][Next]_vars

-----------------------------------------------------------------------------
(* Comparison *)

\* are_equal_ of a's class: a bare SpdlogPIMPL takes any other for its equal.
\* The levels are not compared, on the theory that spdlog keeps them in step.
AreEqual_(a, b) ==
  /\ a.kind \in {b.kind, "SpdlogPIMPL"}
  /\ a.kind = "FileSpdlog" => a.sink = b.sink
  /\ a.id = b.id

\* Mutant: only one side is asked.
AreEqualOneSided(a, b) == AreEqual_(a, b)

\* LoggerPIMPL::are_equal asks both sides.
AreEqual(a, b) == AreEqual_(a, b) /\ AreEqual_(b, a)

\* Logger::operator==
Equal(x, y) ==
  \/ P!IsNull(x) /\ P!IsNull(y)
  \/ ~P!IsNull(x) /\ ~P!IsNull(y) /\ AreEqual(Pimpl(x), Pimpl(y))

-----------------------------------------------------------------------------
(* Properties *)

\* A logger that is not null logs critical messages, whatever severities have
\* been set on it and on what it was copied from.
CriticalAlwaysLogged == \A x \in Vars : ~P!IsNull(x) => ShouldLog(x, "critical")

\* Comparison is an equivalence, across the classes of PIMPLs and null: equal
\* loggers are equal to the same ones, whatever else a program may have made.
EqualityIsEquivalence ==
  \A x, y \in Vars :
    /\ Equal(x, x)
    /\ Equal(x, y) =>
         /\ Equal(y, x)
         /\ ~P!IsNull(x) =>
              \A c \in PimplState : AreEqual(Pimpl(x), c) <=> AreEqual(Pimpl(y), c)

\* Equal loggers of the library's own classes write to the same sink under the
\* same name: the half of the documented promise that holds.
EqualLoggersShareSink ==
  \A x, y \in Vars : Equal(x, y) /\ ~P!IsNull(x) /\ Pimpl(x).kind # "SpdlogPIMPL" =>
    Pimpl(x).sink = Pimpl(y).sink /\ Pimpl(x).id = Pimpl(y).id

\* What comparison tells of two loggers, whichever classes they are of.
ComparisonIsSound == EqualityIsEquivalence /\ EqualLoggersShareSink

\* The documented logger: independent thresholds, shared sinks, and the
\* severities in their order although spdlog compares ints.
SeverityOf(level) == CHOOSE s \in Used : map_severity_levels(s) = level
Promised == INSTANCE LoggerSpec WITH
  value <- [x \in Vars |->
    IF P!IsNull(x) THEN Null
    ELSE [sink |-> Pimpl(x).sink, id |-> Pimpl(x).id, threshold |-> SeverityOf(Pimpl(x).level)]]
KeepsItsPromise == Promised!SSpec
=============================================================================
