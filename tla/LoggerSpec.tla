----------------------------- MODULE LoggerSpec -----------------------------
(****************************************************************************)
(* What Logger promises to the program (logger.hpp).  A logger is null, or  *)
(* it has a name, a sink and a threshold of its own.  It writes the         *)
(* messages of at least that severity to its sink, which copies share.      *)
(****************************************************************************)
EXTENDS Sequences, Naturals

CONSTANTS
  Vars,       \* the program's loggers
  Null,       \* the null logger
  Ids,        \* names of loggers
  Files,      \* names of files
  Used        \* the severities a program uses

VARIABLES
  value,   \* what each logger is
  written  \* the messages in each sink, oldest first

svars == <<value, written>>

\* From the least to the most important.
Severities == <<"trace", "debug", "info", "warn", "error", "critical">>
Importance(s) == CHOOSE i \in DOMAIN Severities : Severities[i] = s

Sinks == {"stdout"} \cup Files

Values == [sink : Sinks, id : Ids, threshold : Used]
Var    == INSTANCE ValueSemantics

-----------------------------------------------------------------------------
SInit ==
  /\ Var!Init
  /\ written = [k \in Sinks |-> <<>>]

\* A logger that ParallelZone sets up logs what is at least informative.
SCreate(x, id, k) ==
  /\ Var!Construct(x, [sink |-> k, id |-> id, threshold |-> "info"])
  /\ UNCHANGED written

\* The global logger: the first rank's goes to standard out, the others' are null.
SDefaultGlobal(x, rank, id) ==
  IF rank = 0 THEN SCreate(x, id, "stdout")
              ELSE Var!Destroy(x) /\ UNCHANGED written

SAssign(x, y) ==
  /\ Var!Copy(x, y) \/ Var!Move(x, y) \/ Var!Swap(x, y)
  /\ UNCHANGED written

SDestroy(x) == Var!Destroy(x) /\ UNCHANGED written

\* The threshold is inclusive; a null logger has none.
SSetSeverity(x, s) ==
  /\ Var!Update(x, [value[x] EXCEPT !.threshold = s])
  /\ UNCHANGED written

\* A message that is important enough is written to the sink, with the name.
SLog(x, s) ==
  /\ value[x] # Null
  /\ Importance(value[x].threshold) <= Importance(s)
  /\ written' = [written EXCEPT ![value[x].sink] =
                   Append(@, [id |-> value[x].id, severity |-> s])]
  /\ UNCHANGED value

SNext ==
  \E x \in Vars :
    \/ \E id \in Ids :
         \/ \E k \in Sinks : SCreate(x, id, k)
         \/ \E rank \in 0 .. 1 : SDefaultGlobal(x, rank, id)
    \/ \E y \in Vars : SAssign(x, y)
    \/ SDestroy(x)
    \/ \E s \in Used : SSetSeverity(x, s) \/ SLog(x, s)

SSpec == SInit /\ [][SNext]_svars
=============================================================================
