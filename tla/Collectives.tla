----------------------------- MODULE Collectives -----------------------------
(****************************************************************************)
(* What the collective operations of CommPP promise to the program.         *)
(*                                                                          *)
(* Every rank makes the same sequence of calls.  A rank enters a call with  *)
(* its contribution and comes back with a std::optional: the root, or       *)
(* everybody when there is no root, gets what all the ranks contributed, in *)
(* the order of their ranks; the others get nothing.  How many MPI calls    *)
(* that takes, and when the ranks make them, is not the program's concern.  *)
(****************************************************************************)
EXTENDS Integers, SequencesExt

CONSTANTS
  N,         \* size of the communicator
  NoRoot,    \* std::nullopt for a root: everybody is root
  Mine,      \* every rank passes its own resource set's rank as the root
  Roots,     \* the roots a program uses
  Lengths,   \* the bytes in a rank's contribution
  MaxCalls,  \* bound: the collective calls in a program
  MaxInt     \* the largest int, INT_MAX

Ranks == 0 .. N - 1

ASSUME CollectivesAssumption ==
  /\ N \in Nat \ {0}
  /\ NoRoot \notin Ranks
  /\ Mine \notin Ranks \cup {NoRoot}
  /\ Roots \subseteq Ranks \cup {NoRoot, Mine}
  /\ MaxInt \in Nat
  /\ Lengths \subseteq Nat
  /\ MaxCalls \in Nat

VARIABLES
  program,  \* the calls every rank makes
  entered,  \* how many of them each rank has taken to MPI
  results,  \* the std::optionals each rank got back, oldest first
  failed    \* the ranks that an exception, MPI or a bad write has stopped

cvars == <<program, entered, results, failed>>

-----------------------------------------------------------------------------
\* A std::optional is the set of the values it holds: none or one.
Objects == {"gather_object", "gatherv_object"}
Arrays  == {"gather_array", "gatherv_array"}
Uneven  == {"gatherv_object", "gatherv_array"}
Ops     == Objects \cup Arrays \cup {"reduce"}

\* gather and reduce require as much from every rank, gatherv does not.
Calls ==
  {c \in [op : Ops, root : Roots, len : [Ranks -> Lengths]] :
     c.op \notin Uneven => \A q, r \in Ranks : c.len[q] = c.len[r]}

\* Who gets a value from the k-th call: the root, or everybody.  A rank that
\* names itself as the root expects a value too.
Receives(r, k) == program[k].root \in {NoRoot, Mine, r}

\* Mutant: sizes are not confined to an int.
UnboundedInt(n) == n

\* A size_t or the sum of two ints, stored in an int.
ToInt(n) == ((n + MaxInt + 1) % (2 * (MaxInt + 1))) - (MaxInt + 1)

\* The count that MPI is given for rank r's contribution: an int.
Counted(r, k) == ToInt(program[k].len[r])

\* The bytes of rank r's contribution to the k-th call, as many as are sent.
Contribution(r, k) == [i \in 1 .. Counted(r, k) |-> <<r, k, i>>]

\* A buffer of n bytes is value-initialized: s is its beginning, if s is shorter.
Unwritten == <<>>
Filled(s, n) == [i \in 1 .. n |-> IF i <= Len(s) THEN s[i] ELSE Unwritten]

\* What the k-th call computes.  A gatherv sizes its buffer by what was sent,
\* gather and reduce by what was to be sent.
InRankOrder(k) == [i \in 1 .. N |-> Contribution(i - 1, k)]
Reduced(k)     == [i \in 1 .. Counted(0, k) |-> {<<q, k, i>> : q \in Ranks}]
Outcome(k) ==
  LET c == program[k]
  IN  CASE c.op \in Objects       -> InRankOrder(k)
        [] c.op = "gatherv_array" -> FlattenSeq(InRankOrder(k))
        [] c.op = "gather_array"  -> Filled(FlattenSeq(InRankOrder(k)), N * c.len[0])
        [] c.op = "reduce"        -> Filled(Reduced(k), c.len[0])

\* All the bytes of a call, which some operations count in an int.
Bytes(k)  == FoldFunction(+, 0, program[k].len)
TooBig(k) == program[k].op \notin {"gather_array", "reduce"} /\ Bytes(k) > MaxInt

\* What may stop rank r in the k-th call: it is to receive more bytes than an
\* int counts, or the count of its own bytes has become negative.
MayFail(r, k) == (Receives(r, k) /\ TooBig(k)) \/ Counted(r, k) < 0

-----------------------------------------------------------------------------
CInit ==
  /\ program \in [1 .. MaxCalls -> Calls]
  /\ entered = [r \in Ranks |-> 0]
  /\ results = [r \in Ranks |-> <<>>]
  /\ failed  = {}

\* Rank r brings its contribution to its next call.
CEnter(r) ==
  /\ r \notin failed
  /\ entered[r] = Len(results[r]) /\ entered[r] < MaxCalls
  /\ entered' = [entered EXCEPT ![r] = @ + 1]
  /\ UNCHANGED <<program, results, failed>>

\* Rank r comes back.  A rank that gets a value waited for all the others.
CReturn(r) ==
  LET k == entered[r]
  IN  /\ r \notin failed
      /\ k = Len(results[r]) + 1
      /\ Receives(r, k) => \A q \in Ranks : entered[q] >= k
      /\ results' = [results EXCEPT ![r] =
                       Append(@, IF Receives(r, k) THEN {Outcome(k)} ELSE {})]
      /\ UNCHANGED <<program, entered, failed>>

\* Rank r cannot count the bytes in an int.
CFail(r) ==
  LET k == Len(results[r]) + 1
  IN  /\ r \notin failed
      /\ k <= MaxCalls
      /\ MayFail(r, k)
      /\ failed' = failed \cup {r}
      /\ UNCHANGED <<program, entered, results>>

CNext == \E r \in Ranks : CEnter(r) \/ CReturn(r) \/ CFail(r)

CSpec == CInit /\ [][CNext]_cvars
=============================================================================
