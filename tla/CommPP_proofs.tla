----------------------------- MODULE CommPP_proofs -----------------------------
(****************************************************************************)
(* Proofs about CommPP, for any number of ranks, any program and any int:   *)
(* the ranks' MPI calls match, the root's buffer is laid out right, and     *)
(* every value is what Collectives promises.                                *)
(*                                                                          *)
(* First induction, over the numbers and over the ranks, as facts about     *)
(* sets, and that a function which is computed from rank to rank exists.    *)
(* Then the layout of a buffer, then which MPI calls belong to which call,  *)
(* then the inductive invariant and the steps.                              *)
(****************************************************************************)
EXTENDS CommPP, SequenceTheorems, FiniteSetTheorems, TLAPS

-----------------------------------------------------------------------------
(* Induction and recursion. *)

\* A set of numbers with 0 and every successor has all of them: otherwise
\* adding 1 would map its part below a missing number one-to-one, but not onto,
\* itself.
LEMMA InductionOnSet ==
  ASSUME NEW S, 0 \in S, \A n \in Nat : n \in S => n + 1 \in S
  PROVE  Nat \subseteq S
<1> SUFFICES ASSUME NEW n \in Nat, n \notin S PROVE FALSE
  OBVIOUS
<1> DEFINE T == {m \in 0 .. n : m \in S}
           next == [m \in T |-> m + 1]
<1>1. IsFiniteSet(T)
  <2>1. IsFiniteSet(0 .. n) /\ T \in SUBSET (0 .. n)
    BY FS_Interval
  <2>2. QED
    BY <2>1, FS_Subset
<1>2. next \in Injection(T, T)
  <2>1. \A m \in T : m + 1 \in T
    OBVIOUS
  <2>2. QED
    BY <2>1 DEF Injection, IsInjective
<1>3. next \in Surjection(T, T)
  <2> HIDE DEF T, next
  <2>1. QED
    BY <1>1, <1>2, FS_Injection
<1>4. 0 \in T /\ \A m \in T : next[m] # 0
  OBVIOUS
<1>5. QED
  <2> HIDE DEF T, next
  <2>1. QED
    BY <1>3, <1>4 DEF Surjection

\* f is defined on 0 .. n by its first value and a step.
Iterates(f, n, T, c, step) ==
  f \in [0 .. n -> T] /\ f[0] = c /\ \A i \in 1 .. n : f[i] = step[i][f[i - 1]]

\* A function on an interval is defined by its first value and a step.
LEMMA RecursionOnInterval ==
  ASSUME NEW n \in Nat, NEW T, NEW c \in T, NEW step \in [1 .. n -> [T -> T]]
  PROVE  \E f : Iterates(f, n, T, c, step)
<1> USE DEF Iterates
<1> DEFINE S == {m \in Nat : m <= n =>
                  \E f \in [0 .. m -> T] : f[0] = c /\ \A i \in 1 .. m : f[i] = step[i][f[i - 1]]}
<1>1. 0 \in S
  <2> DEFINE f == [i \in 0 .. 0 |-> c]
  <2>1. f \in [0 .. 0 -> T] /\ f[0] = c /\ \A i \in 1 .. 0 : f[i] = step[i][f[i - 1]]
    OBVIOUS
  <2>2. QED
    BY <2>1, Zenon
<1>2. ASSUME NEW m \in Nat, m \in S PROVE m + 1 \in S
  <2> SUFFICES ASSUME m + 1 <= n
               PROVE  \E f \in [0 .. m + 1 -> T] :
                        f[0] = c /\ \A i \in 1 .. m + 1 : f[i] = step[i][f[i - 1]]
    OBVIOUS
  <2>0. \E f \in [0 .. m -> T] : f[0] = c /\ \A i \in 1 .. m : f[i] = step[i][f[i - 1]]
    <3>1. m <= n
      OBVIOUS
    <3>2. QED
      BY <3>1, <1>2, Zenon
  <2>1. PICK f \in [0 .. m -> T] : f[0] = c /\ \A i \in 1 .. m : f[i] = step[i][f[i - 1]]
    BY <2>0, Zenon
  <2>2. PICK v \in T : v = step[m + 1][f[m]]
    OBVIOUS
  <2> DEFINE g == [i \in 0 .. m + 1 |-> IF i = m + 1 THEN v ELSE f[i]]
  <2>3. g \in [0 .. m + 1 -> T]
    OBVIOUS
  <2>4. (\A i \in 0 .. m : g[i] = f[i]) /\ g[m + 1] = v
    OBVIOUS
  <2> HIDE DEF g
  <2>5. g[0] = c
    BY <2>1, <2>4
  <2>6. ASSUME NEW i \in 1 .. m + 1 PROVE g[i] = step[i][g[i - 1]]
    <3>1. CASE i = m + 1
      BY <2>2, <2>4, <3>1
    <3>2. CASE i \in 1 .. m
      BY <2>1, <2>4, <3>2
    <3>3. QED
      BY <3>1, <3>2
  <2>7. QED
    BY <2>3, <2>5, <2>6
<1>3. n \in S
  <2> HIDE DEF S
  <2>1. QED
    BY <1>1, <1>2, InductionOnSet
<1>4. QED
  BY <1>3

-----------------------------------------------------------------------------
(* Arithmetic and layout. *)

\* What becomes of a number that is stored in an int: it never grows, and only
\* a number that does not fit changes.
LEMMA IntFacts ==
  ASSUME NEW n \in Int, n >= -(MaxInt + 1)
  PROVE  /\ ToInt(n) \in -(MaxInt + 1) .. MaxInt
         /\ ToInt(n) <= n
         /\ n <= MaxInt => ToInt(n) = n
<1> DEFINE m == 2 * (MaxInt + 1)
           x == n + MaxInt + 1
<1>1. MaxInt \in Nat /\ m \in Nat /\ m > 0 /\ x \in Nat
  BY CollectivesAssumption
<1>2. ToInt(n) = (x % m) - (MaxInt + 1)
  BY DEF ToInt
<1> HIDE DEF m, x
<1>3. x % m \in 0 .. m - 1
  BY <1>1
<1>4. x % m <= x
  BY <1>1
<1>5. x < m => x % m = x
  BY <1>1
<1>6. QED
  BY <1>1, <1>2, <1>3, <1>4, <1>5 DEF m, x

\* There is a first and a last rank.
LEMMA RankFacts == N \in Nat /\ N >= 1 /\ Ranks = 0 .. N - 1 /\ 0 \in Ranks /\ N - 1 \in Ranks
  BY CollectivesAssumption DEF Ranks

\* What holds of the first rank and is handed from rank to rank holds of all.
LEMMA InductionOnRanks ==
  ASSUME NEW S, 0 \in S, \A i \in 1 .. N - 1 : i - 1 \in S => i \in S
  PROVE  Ranks \subseteq S
<1> USE RankFacts
<1> DEFINE M == {m \in Nat : m \in Ranks => m \in S}
<1>1. 0 \in M
  OBVIOUS
<1>2. ASSUME NEW m \in Nat, m \in M PROVE m + 1 \in M
  <2>1. CASE m + 1 \in Ranks
    <3>1. m + 1 \in 1 .. N - 1 /\ (m + 1) - 1 = m /\ m \in Ranks
      BY <2>1
    <3>2. QED
      BY <1>2, <3>1
  <2>2. QED
    BY <2>1
<1>3. Nat \subseteq M
  <2> HIDE DEF M
  <2>1. QED
    BY <1>1, <1>2, InductionOnSet
<1>4. QED
  BY <1>3

\* f is computed from rank to rank.
RankByRank(f, T, c, step) ==
  f \in [Ranks -> T] /\ f = [i \in Ranks |-> IF i = 0 THEN c ELSE step[i][f[i - 1]]]

\* A function that is computed from rank to rank exists.
LEMMA RecursionOnRanks ==
  ASSUME NEW T, NEW c \in T, NEW step \in [1 .. N - 1 -> [T -> T]]
  PROVE  \E f : RankByRank(f, T, c, step)
<1> USE RankFacts
<1>1. N - 1 \in Nat
  OBVIOUS
<1>2. PICK f : Iterates(f, N - 1, T, c, step)
  BY <1>1, RecursionOnInterval
<1>3. f \in [Ranks -> T] /\ f[0] = c /\ \A i \in 1 .. N - 1 : f[i] = step[i][f[i - 1]]
  BY <1>2 DEF Iterates
<1>4. f = [i \in Ranks |-> IF i = 0 THEN c ELSE step[i][f[i - 1]]]
  BY <1>3
<1>5. QED
  BY <1>3, <1>4 DEF RankByRank

\* The displacements that gatherv computes exist and are the partial sums.
LEMMA DisplacementsDef ==
  ASSUME NEW s \in [Ranks -> Nat]
  PROVE  /\ Displacements(s) \in [Ranks -> Nat]
         /\ Displacements(s)[0] = 0
         /\ \A i \in 1 .. N - 1 : Displacements(s)[i] = Displacements(s)[i - 1] + s[i - 1]
<1> USE RankFacts
<1> DEFINE add == [i \in 1 .. N - 1 |-> [x \in Nat |-> x + s[i - 1]]]
           Def(d) == d = [i \in Ranks |-> IF i = 0 THEN 0 ELSE d[i - 1] + s[i - 1]]
           d == Displacements(s)
<1>1. add \in [1 .. N - 1 -> [Nat -> Nat]] /\ 0 \in Nat
  OBVIOUS
<1>2. \E f : RankByRank(f, Nat, 0, add)
  <2> HIDE DEF add
  <2>1. QED
    BY <1>1, RecursionOnRanks
<1>3. PICK f \in [Ranks -> Nat] : f = [i \in Ranks |-> IF i = 0 THEN 0 ELSE add[i][f[i - 1]]]
  BY <1>2 DEF RankByRank
<1>4. Def(f)
  <2>1. ASSUME NEW i \in 1 .. N - 1 PROVE add[i][f[i - 1]] = f[i - 1] + s[i - 1]
    <3>1. f[i - 1] \in Nat
      OBVIOUS
    <3>2. add[i] = [x \in Nat |-> x + s[i - 1]]
      OBVIOUS
    <3>3. QED
      BY <3>1, <3>2
  <2> HIDE DEF add
  <2>2. QED
    BY <1>3, <2>1
<1>5. Def(d)
  BY <1>4 DEF Displacements
<1> HIDE DEF d
<1>6. d[0] = 0 /\ \A i \in 1 .. N - 1 : d[i] = d[i - 1] + s[i - 1]
  BY <1>5
<1>7. \A i \in Ranks : d[i] \in Nat
  <2> DEFINE S == {i \in Ranks : d[i] \in Nat}
  <2>1. 0 \in S
    BY <1>6
  <2>2. \A i \in 1 .. N - 1 : i - 1 \in S => i \in S
    BY <1>6
  <2>3. Ranks \subseteq S
    <3> HIDE DEF S
    <3>1. QED
      BY <2>1, <2>2, InductionOnRanks
  <2>4. QED
    BY <2>3
<1>8. QED
  BY <1>5, <1>6, <1>7 DEF d

\* The bytes of all ranks.
End(s) == Displacements(s)[N - 1] + s[N - 1]

\* Ranks write one after the other, and all of the buffer.
LEMMA SlicesAreDisjoint ==
  ASSUME NEW s \in [Ranks -> Nat]
  PROVE  \A i, j \in Ranks : i < j =>
           Displacements(s)[i] + s[i] <= Displacements(s)[j]
<1> USE RankFacts
<1> DEFINE d == Displacements(s)
           S == {j \in Ranks : \A i \in Ranks : i < j => d[i] + s[i] <= d[j]}
<1>1. d \in [Ranks -> Nat] /\ d[0] = 0 /\ \A i \in 1 .. N - 1 : d[i] = d[i - 1] + s[i - 1]
  BY DisplacementsDef
<1> HIDE DEF d
<1>2. 0 \in S
  OBVIOUS
<1>3. ASSUME NEW j \in 1 .. N - 1, j - 1 \in S PROVE j \in S
  <2>1. ASSUME NEW i \in Ranks, i < j PROVE d[i] + s[i] <= d[j]
    <3>1. CASE i = j - 1
      BY <1>1, <3>1
    <3>2. CASE i < j - 1
      <4>1. d[i] + s[i] <= d[j - 1]
        BY <1>3, <3>2
      <4>2. d[j] = d[j - 1] + s[j - 1] /\ d[j - 1] \in Nat /\ s[j - 1] \in Nat
        BY <1>1
      <4>3. d[i] \in Nat /\ s[i] \in Nat /\ d[j] \in Nat
        BY <1>1
      <4>4. QED
        BY <4>1, <4>2, <4>3
    <3>3. QED
      BY <2>1, <3>1, <3>2
  <2>2. QED
    BY <2>1
<1>4. Ranks \subseteq S
  <2> HIDE DEF S
  <2>1. QED
    BY <1>2, <1>3, InductionOnRanks
<1>5. QED
  BY <1>4 DEF d

\* No rank writes past the end of all ranks' bytes.
LEMMA SlicesFit ==
  ASSUME NEW s \in [Ranks -> Nat]
  PROVE  /\ End(s) \in Nat
         /\ \A i \in Ranks : Displacements(s)[i] + s[i] <= End(s)
<1> USE RankFacts
<1> DEFINE d == Displacements(s)
<1>1. d \in [Ranks -> Nat] /\ \A i, j \in Ranks : i < j => d[i] + s[i] <= d[j]
  BY DisplacementsDef, SlicesAreDisjoint
<1> HIDE DEF d
<1>2. d[N - 1] \in Nat /\ s[N - 1] \in Nat
  BY <1>1
<1>3. ASSUME NEW i \in Ranks PROVE d[i] + s[i] <= d[N - 1] + s[N - 1]
  <2>1. CASE i = N - 1
    BY <1>2, <2>1
  <2>2. CASE i < N - 1
    BY <1>1, <1>2, <2>2
  <2>3. QED
    BY <2>1, <2>2
<1>4. QED
  BY <1>2, <1>3 DEF End, d

\* Every byte of the buffer is some rank's.
LEMMA SlicesCover ==
  ASSUME NEW s \in [Ranks -> Nat], NEW j \in 1 .. End(s)
  PROVE  \E i \in Ranks : Displacements(s)[i] < j /\ j <= Displacements(s)[i] + s[i]
<1> USE RankFacts
<1> DEFINE d == Displacements(s)
           e(i) == d[i] + s[i]
           S == {i \in Ranks : j <= e(i) => \E w \in Ranks : d[w] < j /\ j <= e(w)}
<1>1. d \in [Ranks -> Nat] /\ d[0] = 0 /\ \A i \in 1 .. N - 1 : d[i] = e(i - 1)
  BY DisplacementsDef
<1>2. End(s) = e(N - 1) /\ End(s) \in Nat
  BY SlicesFit DEF End
<1> HIDE DEF d
<1>3. j \in Nat /\ j > 0
  BY <1>2
<1>4. 0 \in S
  BY <1>1, <1>3
<1>5. ASSUME NEW i \in 1 .. N - 1, i - 1 \in S PROVE i \in S
  <2>1. CASE j <= e(i - 1)
    BY <1>5, <2>1
  <2>2. CASE ~ (j <= e(i - 1))
    <3>1. d[i] = e(i - 1) /\ d[i] \in Nat
      BY <1>1
    <3>2. d[i] < j
      BY <1>3, <2>2, <3>1
    <3>3. QED
      BY <3>2
  <2>3. QED
    BY <2>1, <2>2
<1>6. N - 1 \in S
  <2> HIDE DEF S
  <2>1. QED
    BY <1>4, <1>5, InductionOnRanks
<1>7. QED
  BY <1>2, <1>6 DEF d

\* Rank i's bytes are where its displacement says.
LEMMA BufferHoldsSlices ==
  ASSUME NEW s \in [Ranks -> Nat], NEW data, NEW i \in Ranks, NEW m \in 1 .. s[i]
  PROVE  Displacements(s)[i] + m \in 1 .. End(s)
         /\ Buffer(s, Displacements(s), End(s), data)[Displacements(s)[i] + m] = data[i][m]
<1> USE RankFacts
<1> DEFINE d == Displacements(s)
           j == d[i] + m
           writers == {w \in Ranks : d[w] < j /\ j <= d[w] + s[w]}
<1>1. d \in [Ranks -> Nat] /\ End(s) \in Nat /\ d[i] + s[i] <= End(s)
  BY DisplacementsDef, SlicesFit
<1>2. \A v, w \in Ranks : v < w => d[v] + s[v] <= d[w]
  BY SlicesAreDisjoint
<1>3. j \in 1 .. End(s) /\ j - d[i] = m
  <2> HIDE DEF d
  <2>1. d[i] \in Nat /\ s[i] \in Nat
    BY <1>1
  <2>2. QED
    BY <1>1, <2>1
<1>4. i \in writers /\ \A w \in writers : w = i
  <2> HIDE DEF d
  <2>1. \A w \in Ranks : d[w] \in Nat /\ s[w] \in Nat
    BY <1>1
  <2>2. i \in writers
    BY <2>1
  <2>3. ASSUME NEW w \in writers PROVE w = i
    <3>1. CASE w < i
      <4>1. d[w] + s[w] <= d[i]
        BY <1>2, <3>1
      <4>2. QED
        BY <2>1, <4>1
    <3>2. CASE i < w
      <4>1. d[i] + s[i] <= d[w]
        BY <1>2, <3>2
      <4>2. QED
        BY <2>1, <4>1
    <3>3. QED
      BY <3>1, <3>2
  <2>4. QED
    BY <2>2, <2>3
<1>5. (CHOOSE x \in writers : \A w \in writers : w <= x) = i
  <2> HIDE DEF writers
  <2>1. \A w \in writers : w <= i
    BY <1>4
  <2>2. \A x \in writers : x = i
    BY <1>4
  <2>3. QED
    BY <1>4, <2>1, <2>2
<1>6. Buffer(s, d, End(s), data)[j] = data[i][j - d[i]]
  <2>1. writers # {}
    BY <1>4
  <2>2. QED
    BY <1>3, <1>5, <2>1 DEF Buffer
<1>7. QED
  BY <1>3, <1>6

\* Contributions of the lengths s.
Sends(s, data) == data = [q \in Ranks |-> [m \in 1 .. s[q] |-> data[q][m]]]

\* The same for all ranks and bytes.
LEMMA BufferSlices ==
  ASSUME NEW s \in [Ranks -> Nat], NEW data
  PROVE  \A q \in Ranks : \A m \in 1 .. s[q] :
           Buffer(s, Displacements(s), End(s), data)[Displacements(s)[q] + m] = data[q][m]
  BY BufferHoldsSlices

\* Cut into slices the buffer gives back the ranks' bytes.
LEMMA SlicesOfBuffer ==
  ASSUME NEW s \in [Ranks -> Nat], NEW data, Sends(s, data)
  PROVE  Slices(Buffer(s, Displacements(s), End(s), data), s) = [i \in 1 .. N |-> data[i - 1]]
<1> USE RankFacts
<1> DEFINE d == Displacements(s)
           buffer == Buffer(s, d, End(s), data)
<1>1. d \in [Ranks -> Nat]
  BY DisplacementsDef
<1>2. ASSUME NEW q \in Ranks
      PROVE  SubSeq(buffer, d[q] + 1, d[q] + s[q]) = data[q]
  <2>1. d[q] \in Nat /\ s[q] \in Nat
    BY <1>1
  <2>2. \A m \in 1 .. s[q] : buffer[d[q] + m] = data[q][m]
    BY BufferHoldsSlices
  <2>3. data[q] = [m \in 1 .. s[q] |-> data[q][m]]
    BY DEF Sends
  <2> HIDE DEF buffer, d
  <2> DEFINE X == {buffer[j] : j \in d[q] + 1 .. d[q] + s[q]}
             sub == SubSeq(buffer, d[q] + 1, d[q] + s[q])
  <2>4. \A j \in d[q] + 1 .. d[q] + s[q] : buffer[j] \in X
    OBVIOUS
  <2>5. /\ sub \in Seq(X)
        /\ Len(sub) = s[q]
        /\ \A m \in 1 .. s[q] : sub[m] = buffer[d[q] + m]
    <3> DEFINE a == d[q] + 1
               b == d[q] + s[q]
    <3>1. a \in Int /\ b \in Int /\ b - a + 1 = s[q] /\ (b < a => s[q] = 0)
      <4> HIDE DEF sub, X
      <4>1. QED
        BY <2>1, SMTT(30)
    <3>2. \A m \in 1 .. s[q] : a + m - 1 = d[q] + m
      BY <2>1
    <3> HIDE DEF a, b
    <3>3. /\ SubSeq(buffer, a, b) \in Seq(X)
          /\ Len(SubSeq(buffer, a, b)) = IF a <= b THEN b - a + 1 ELSE 0
          /\ \A m \in 1 .. b - a + 1 : SubSeq(buffer, a, b)[m] = buffer[a + m - 1]
      <4> HIDE DEF X
      <4>1. \A j \in a .. b : buffer[j] \in X
        BY <2>4 DEF a, b
      <4>2. QED
        BY <3>1, <4>1
    <3>4. QED
      BY <3>1, <3>2, <3>3 DEF a, b
  <2> HIDE DEF sub, X
  <2>6. sub = [m \in 1 .. s[q] |-> sub[m]]
    BY <2>1, <2>5
  <2>7. QED
    BY <2>2, <2>3, <2>5, <2>6 DEF sub
<1> HIDE DEF buffer, d
<1>3. \A i \in 1 .. N : i - 1 \in Ranks
  OBVIOUS
<1>4. QED
  BY <1>2, <1>3 DEF Slices, d, buffer

\* Concatenation in the order of the ranks is a buffer, too.
LEMMA FlattenIsBuffer ==
  ASSUME NEW X, NEW s \in [Ranks -> Nat], NEW data \in [Ranks -> Seq(X)],
         \A q \in Ranks : Len(data[q]) = s[q]
  PROVE  FlattenSeq([i \in 1 .. N |-> data[i - 1]]) = Buffer(s, Displacements(s), End(s), data)
<1>slices. \A q \in Ranks : \A m \in 1 .. s[q] :
        Buffer(s, Displacements(s), End(s), data)[Displacements(s)[q] + m] = data[q][m]
  BY BufferSlices
<1> USE RankFacts
<1> DEFINE d == Displacements(s)
           buffer == Buffer(s, d, End(s), data)
           seqs == [i \in 1 .. N |-> data[i - 1]]
           Flat(f) == f = [i \in 1 .. Len(seqs) |-> IF i = 1 THEN seqs[i] ELSE f[i - 1] \o seqs[i]]
           flatten == CHOOSE f : Flat(f)
<1>1. d \in [Ranks -> Nat] /\ d[0] = 0 /\ \A i \in 1 .. N - 1 : d[i] = d[i - 1] + s[i - 1]
  BY DisplacementsDef
<1>disjoint. \A i, j \in Ranks : i < j => d[i] + s[i] <= d[j]
  BY SlicesAreDisjoint
<1>end. End(s) = d[N - 1] + s[N - 1] /\ End(s) \in Nat
  BY SlicesFit DEF End
<1>written. \A q \in Ranks : \A m \in 1 .. s[q] : buffer[d[q] + m] = data[q][m]
  BY <1>slices
<1>covered. \A j \in 1 .. End(s) : \E q \in Ranks : d[q] < j /\ j <= d[q] + s[q]
  BY SlicesCover
<1>2. Len(seqs) = N /\ \A i \in 1 .. N : seqs[i] = data[i - 1]
  <2>1. seqs \in Seq(Seq(X))
    BY IsASeq
  <2>2. QED
    BY <2>1
<1>3. \E f : Flat(f)
  <2> DEFINE add == [i \in 1 .. N - 1 |-> [x \in Seq(X) |-> x \o data[i]]]
  <2>1. add \in [1 .. N - 1 -> [Seq(X) -> Seq(X)]] /\ data[0] \in Seq(X)
    OBVIOUS
  <2>2. PICK h : RankByRank(h, Seq(X), data[0], add)
    <3> HIDE DEF add
    <3>1. QED
      BY <2>1, RecursionOnRanks
  <2>3. h \in [Ranks -> Seq(X)] /\ h[0] = data[0] /\ \A i \in 1 .. N - 1 : h[i] = h[i - 1] \o data[i]
    <3>1. h \in [Ranks -> Seq(X)] /\ h[0] = data[0] /\ \A i \in 1 .. N - 1 : h[i] = add[i][h[i - 1]]
      <4> HIDE DEF add
      <4>1. QED
        BY <2>2 DEF RankByRank
    <3>2. ASSUME NEW i \in 1 .. N - 1 PROVE add[i][h[i - 1]] = h[i - 1] \o data[i]
      <4>1. h[i - 1] \in Seq(X)
        BY <3>1
      <4>2. add[i] = [x \in Seq(X) |-> x \o data[i]]
        OBVIOUS
      <4>3. QED
        BY <4>1, <4>2
    <3> HIDE DEF add
    <3>3. QED
      BY <3>1, <3>2
  <2> DEFINE f == [i \in 1 .. N |-> h[i - 1]]
  <2>4. ASSUME NEW i \in 1 .. N
        PROVE  f[i] = IF i = 1 THEN seqs[i] ELSE f[i - 1] \o seqs[i]
    <3>1. f[i] = h[i - 1] /\ seqs[i] = data[i - 1]
      BY <1>2
    <3>2. CASE i = 1
      BY <2>3, <3>1, <3>2
    <3>3. CASE i # 1
      <4>1. i - 1 \in 1 .. N - 1 /\ i - 1 \in 1 .. N
        BY <3>3
      <4>2. f[i - 1] = h[i - 1 - 1]
        BY <4>1
      <4>3. h[i - 1] = h[i - 1 - 1] \o data[i - 1]
        BY <2>3, <4>1
      <4>4. QED
        BY <3>1, <3>3, <4>2, <4>3
    <3>4. QED
      BY <3>2, <3>3
  <2>5. Flat(f)
    <3>1. f = [i \in 1 .. N |-> f[i]]
      OBVIOUS
    <3> HIDE DEF f, seqs
    <3>2. QED
      BY <1>2, <2>4, <3>1
  <2>6. QED
    BY <2>5
<1>4. Flat(flatten)
  <2> HIDE DEF Flat
  <2>1. QED
    BY <1>3
<1>5. FlattenSeq(seqs) = flatten[N]
  <2>1. FlattenSeq(seqs) = IF Len(seqs) = 0 THEN seqs ELSE flatten[Len(seqs)]
    <3> HIDE DEF seqs
    <3>1. QED
      BY DEF FlattenSeq
  <2> HIDE DEF seqs, flatten, Flat
  <2>2. QED
    BY <1>2, <2>1
<1> HIDE DEF seqs, flatten, d, buffer
<1>6. flatten[1] = data[0] /\ \A i \in 1 .. N - 1 : flatten[i + 1] = flatten[i] \o data[i]
  <2>1. flatten[1] = data[0]
    BY <1>2, <1>4
  <2>2. ASSUME NEW i \in 1 .. N - 1 PROVE flatten[i + 1] = flatten[i] \o data[i]
    <3>1. i + 1 \in 1 .. N /\ i + 1 # 1 /\ (i + 1) - 1 = i
      OBVIOUS
    <3>2. flatten[i + 1] = flatten[(i + 1) - 1] \o seqs[i + 1]
      BY <1>2, <1>4, <3>1
    <3>3. QED
      BY <1>2, <3>1, <3>2
  <2>3. QED
    BY <2>1, <2>2
<1> DEFINE g == [i \in Ranks |-> flatten[i + 1]]
<1>7. g[0] = data[0] /\ g[N - 1] = flatten[N] /\ \A i \in 1 .. N - 1 : g[i] = g[i - 1] \o data[i]
  <2>1. \A i \in Ranks : g[i] = flatten[i + 1]
    OBVIOUS
  <2> HIDE DEF g
  <2>2. \A i \in 1 .. N - 1 : (i - 1) + 1 = i /\ i - 1 \in Ranks /\ i \in Ranks
    OBVIOUS
  <2>3. QED
    BY <1>6, <2>1, <2>2
<1> HIDE DEF g
<1> DEFINE Holds(x, i) == /\ x \in Seq(X)
                          /\ Len(x) = d[i] + s[i]
                          /\ \A q \in 0 .. i : \A m \in 1 .. s[q] : x[d[q] + m] = data[q][m]
           S == {i \in Ranks : Holds(g[i], i)}
<1>8. 0 \in S
  <2>1. data[0] \in Seq(X) /\ Len(data[0]) = s[0] /\ s[0] \in Nat
    OBVIOUS
  <2>2. \A q \in 0 .. 0 : q = 0
    OBVIOUS
  <2>3. \A m \in 1 .. s[0] : 0 + m = m
    BY <2>1
  <2>4. QED
    BY <1>1, <1>7, <2>1, <2>2, <2>3
<1>9. ASSUME NEW i \in 1 .. N - 1, i - 1 \in S PROVE i \in S
  <2>1. Holds(g[i - 1], i - 1)
    BY <1>9
  <2>2. g[i] = g[i - 1] \o data[i]
    BY <1>7
  <2>3. d[i] = d[i - 1] + s[i - 1] /\ d[i] \in Nat /\ s[i] \in Nat
    BY <1>1
  <2>4. g[i - 1] \in Seq(X) /\ Len(g[i - 1]) = d[i] /\ data[i] \in Seq(X) /\ Len(data[i]) = s[i]
    BY <2>1, <2>3
  <2>5. /\ g[i] \in Seq(X)
        /\ Len(g[i]) = d[i] + s[i]
        /\ \A j \in 1 .. d[i] + s[i] :
             g[i][j] = IF j <= d[i] THEN g[i - 1][j] ELSE data[i][j - d[i]]
    <3> DEFINE x == g[i - 1]
               y == data[i]
    <3>1. x \in Seq(X) /\ y \in Seq(X) /\ g[i] = x \o y /\ Len(x) = d[i] /\ Len(y) = s[i]
      BY <2>2, <2>4
    <3> HIDE DEF x, y
    <3>2. /\ x \o y \in Seq(X)
          /\ Len(x \o y) = Len(x) + Len(y)
          /\ \A j \in 1 .. Len(x) + Len(y) :
               (x \o y)[j] = IF j <= Len(x) THEN x[j] ELSE y[j - Len(x)]
      BY <3>1, ConcatProperties, Zenon
    <3>3. QED
      BY <3>1, <3>2 DEF x, y
  <2>6. ASSUME NEW q \in 0 .. i, NEW m \in 1 .. s[q]
        PROVE  g[i][d[q] + m] = data[q][m]
    <3>1. q \in Ranks /\ d[q] \in Nat /\ s[q] \in Nat
      BY <1>1
    <3>2. CASE q = i
      <4>1. d[i] + m \in 1 .. d[i] + s[i] /\ ~ (d[i] + m <= d[i]) /\ (d[i] + m) - d[i] = m
        BY <2>3, <3>1, <3>2
      <4>2. QED
        BY <2>5, <3>2, <4>1
    <3>3. CASE q < i
      <4>1. d[q] + s[q] <= d[i]
        BY <1>disjoint, <3>1, <3>3
      <4>2. d[q] + m \in 1 .. d[i] + s[i] /\ d[q] + m <= d[i] /\ q \in 0 .. i - 1
        BY <2>3, <3>1, <3>3, <4>1, SMTT(30)
      <4>3. g[i][d[q] + m] = g[i - 1][d[q] + m]
        BY <2>5, <4>2
      <4>4. g[i - 1][d[q] + m] = data[q][m]
        BY <2>1, <4>2
      <4>5. QED
        BY <4>3, <4>4
    <3>4. QED
      BY <3>1, <3>2, <3>3
  <2>7. QED
    BY <2>5, <2>6
<1>10. Holds(flatten[N], N - 1)
  <2>1. N - 1 \in S
    <3> HIDE DEF S
    <3>1. QED
      BY <1>8, <1>9, InductionOnRanks
  <2>2. QED
    BY <1>7, <2>1
<1>11. flatten[N] = buffer
  <2>2. /\ flatten[N] \in Seq(X)
        /\ Len(flatten[N]) = End(s)
        /\ \A q \in Ranks : \A m \in 1 .. s[q] : flatten[N][d[q] + m] = data[q][m]
    BY <1>10, <1>end
  <2>4. ASSUME NEW j \in 1 .. End(s) PROVE flatten[N][j] = buffer[j]
    <3>1. PICK q \in Ranks : d[q] < j /\ j <= d[q] + s[q]
      BY <1>covered
    <3>2. j - d[q] \in 1 .. s[q] /\ d[q] + (j - d[q]) = j
      <4>1. d[q] \in Nat /\ s[q] \in Nat
        BY <1>1
      <4>2. QED
        BY <1>end, <3>1, <4>1
    <3>3. QED
      BY <2>2, <1>written, <3>2
  <2>5. buffer = [j \in 1 .. End(s) |-> buffer[j]]
    BY DEF buffer, Buffer
  <2>6. flatten[N] = [j \in 1 .. End(s) |-> flatten[N][j]]
    BY <2>2
  <2>7. QED
    BY <2>4, <2>5, <2>6
<1>12. QED
  BY <1>5, <1>11 DEF seqs, d, buffer

\* The int that the loop over the sizes ends with is never too large, and is
\* right if the bytes fit an int.
LEMMA TotalFacts ==
  ASSUME NEW s \in [Ranks -> 0 .. MaxInt]
  PROVE  /\ Total(s) \in -(MaxInt + 1) .. MaxInt
         /\ Total(s) <= End(s)
         /\ End(s) <= MaxInt => Total(s) = End(s)
<1> USE RankFacts
<1> DEFINE T == -(MaxInt + 1) .. MaxInt
           add == [i \in 1 .. N - 1 |-> [x \in T |-> ToInt(x + s[i])]]
           Sums(t) == t = [i \in Ranks |-> IF i = 0 THEN ToInt(s[0]) ELSE ToInt(t[i - 1] + s[i])]
           t == CHOOSE t : Sums(t)
           d == Displacements(s)
<1>1. MaxInt \in Nat /\ s \in [Ranks -> Nat] /\ \A i \in Ranks : s[i] <= MaxInt
  BY CollectivesAssumption
<1>2. d \in [Ranks -> Nat] /\ d[0] = 0 /\ \A i \in 1 .. N - 1 : d[i] = d[i - 1] + s[i - 1]
  BY <1>1, DisplacementsDef
<1>3. End(s) = d[N - 1] + s[N - 1]
  BY DEF End
<1> HIDE DEF d
<1>4. ASSUME NEW x \in T, NEW i \in Ranks
      PROVE  /\ ToInt(x + s[i]) \in T
             /\ ToInt(x + s[i]) <= x + s[i]
             /\ x + s[i] <= MaxInt => ToInt(x + s[i]) = x + s[i]
  <2>1. x + s[i] \in Int /\ x + s[i] >= -(MaxInt + 1)
    BY <1>1
  <2>2. QED
    BY <2>1, IntFacts
<1>5. ToInt(s[0]) = s[0] /\ s[0] \in T
  <2>1. s[0] \in Int /\ s[0] >= -(MaxInt + 1) /\ s[0] <= MaxInt
    BY <1>1
  <2>2. QED
    BY <2>1, IntFacts
<1>6. \E f : Sums(f)
  <2>1. add \in [1 .. N - 1 -> [T -> T]]
    <3> HIDE DEF T
    <3>1. QED
      BY <1>4
  <2>2. PICK f : RankByRank(f, T, s[0], add)
    <3> HIDE DEF add, T
    <3>1. QED
      BY <1>5, <2>1, RecursionOnRanks
  <2>3. f \in [Ranks -> T] /\ f = [i \in Ranks |-> IF i = 0 THEN s[0] ELSE add[i][f[i - 1]]]
    BY <2>2 DEF RankByRank
  <2>4. ASSUME NEW i \in 1 .. N - 1 PROVE add[i][f[i - 1]] = ToInt(f[i - 1] + s[i])
    <3>1. f[i - 1] \in T
      <4> HIDE DEF T, add
      <4>1. i - 1 \in Ranks
        OBVIOUS
      <4>2. QED
        BY <2>3, <4>1
    <3>2. add[i] = [x \in T |-> ToInt(x + s[i])]
      OBVIOUS
    <3> HIDE DEF T
    <3>3. QED
      BY <3>1, <3>2
  <2>5. \A i \in Ranks : i # 0 => i \in 1 .. N - 1
    OBVIOUS
  <2> HIDE DEF add, T
  <2>6. Sums(f)
    BY <1>5, <2>3, <2>4, <2>5
  <2>7. QED
    BY <2>6
<1>7. Sums(t)
  <2> HIDE DEF Sums
  <2>1. QED
    BY <1>6
<1>8. Total(s) = t[N - 1]
  BY DEF Total
<1> HIDE DEF t
<1>9. t[0] = s[0] /\ \A i \in 1 .. N - 1 : t[i] = ToInt(t[i - 1] + s[i])
  BY <1>5, <1>7
<1> DEFINE S == {i \in Ranks : /\ t[i] \in T
                               /\ t[i] <= d[i] + s[i]
                               /\ d[i] + s[i] <= MaxInt => t[i] = d[i] + s[i]}
<1>10. 0 \in S
  BY <1>1, <1>2, <1>5, <1>9
<1>11. ASSUME NEW i \in 1 .. N - 1, i - 1 \in S PROVE i \in S
  <2> DEFINE e == d[i - 1] + s[i - 1]
             x == t[i - 1]
             y == s[i]
  <2>1. x \in T /\ x <= e /\ (e <= MaxInt => x = e) /\ d[i] = e /\ e \in Nat /\ y \in Nat
    BY <1>1, <1>2, <1>11
  <2>2. t[i] = ToInt(x + y)
    BY <1>9
  <2>3. /\ ToInt(x + y) \in T
        /\ ToInt(x + y) <= x + y
        /\ x + y <= MaxInt => ToInt(x + y) = x + y
    <3>1. \A v \in T : \A q \in Ranks :
            /\ ToInt(v + s[q]) \in T
            /\ ToInt(v + s[q]) <= v + s[q]
            /\ v + s[q] <= MaxInt => ToInt(v + s[q]) = v + s[q]
      BY <1>4
    <3> HIDE DEF T, x
    <3>2. i \in Ranks
      OBVIOUS
    <3>3. QED
      BY <2>1, <3>1, <3>2
  <2> HIDE DEF e, x, y
  <2>4. t[i] \in T /\ t[i] <= e + y /\ (e + y <= MaxInt => t[i] = e + y)
    BY <1>1, <2>1, <2>2, <2>3
  <2>5. QED
    BY <2>1, <2>4 DEF y
<1>12. N - 1 \in S
  <2> HIDE DEF S
  <2>1. QED
    BY <1>10, <1>11, InductionOnRanks
<1>13. QED
  BY <1>3, <1>8, <1>12

\* s, but nothing from the ranks outside A.
Only(A, s) == [q \in Ranks |-> IF q \in A THEN s[q] ELSE 0]

\* A rank adds its own bytes to those of the others.
LEMMA EndOfOnly ==
  ASSUME NEW s \in [Ranks -> Nat], NEW A \in SUBSET Ranks, NEW x \in A
  PROVE  End(Only(A, s)) = s[x] + End(Only(A \ {x}, s))
<1> USE RankFacts
<1> DEFINE a == Only(A, s)
           b == Only(A \ {x}, s)
           d == Displacements(a)
           e == Displacements(b)
<1>1. a \in [Ranks -> Nat] /\ b \in [Ranks -> Nat]
  BY DEF Only
<1>2. \A q \in Ranks : a[q] = IF q = x THEN s[x] ELSE b[q]
  BY DEF Only
<1>3. b[x] = 0 /\ s[x] \in Nat /\ x \in Ranks
  BY DEF Only
<1>4. d \in [Ranks -> Nat] /\ d[0] = 0 /\ \A i \in 1 .. N - 1 : d[i] = d[i - 1] + a[i - 1]
  BY <1>1, DisplacementsDef
<1>5. e \in [Ranks -> Nat] /\ e[0] = 0 /\ \A i \in 1 .. N - 1 : e[i] = e[i - 1] + b[i - 1]
  BY <1>1, DisplacementsDef
<1>6. End(a) = d[N - 1] + a[N - 1] /\ End(b) = e[N - 1] + b[N - 1]
  BY DEF End
<1> HIDE DEF a, b, d, e
<1> DEFINE S == {i \in Ranks : d[i] + a[i] = e[i] + b[i] + (IF x <= i THEN s[x] ELSE 0)}
<1>7. 0 \in S
  <2>1. x = 0 \/ ~ x <= 0
    BY <1>3
  <2>2. QED
    BY <1>1, <1>2, <1>3, <1>4, <1>5, <2>1
<1>8. ASSUME NEW i \in 1 .. N - 1, i - 1 \in S PROVE i \in S
  <2>1. d[i] = d[i - 1] + a[i - 1] /\ e[i] = e[i - 1] + b[i - 1]
    BY <1>4, <1>5
  <2>2. d[i] = e[i] + (IF x <= i - 1 THEN s[x] ELSE 0)
    BY <1>8, <2>1
  <2>3. d[i] \in Nat /\ e[i] \in Nat /\ a[i] \in Nat /\ b[i] \in Nat /\ x \in Nat /\ i \in Ranks
    BY <1>1, <1>3, <1>4, <1>5, SMTT(30)
  <2>4. CASE i = x
    <3>1. a[i] = s[x] /\ b[i] = 0 /\ x <= i /\ ~ x <= i - 1
      BY <1>2, <1>3, <2>4
    <3>2. QED
      BY <1>3, <2>2, <2>3, <3>1, SMTT(30)
  <2>5. CASE i # x
    <3>1. a[i] = b[i] /\ (x <= i <=> x <= i - 1)
      BY <1>2, <2>3, <2>5, SMTT(30)
    <3>2. CASE x <= i
      <4>1. d[i] = e[i] + s[x]
        BY <2>2, <3>1, <3>2
      <4>2. QED
        BY <1>3, <2>3, <3>1, <3>2, <4>1
    <3>3. CASE ~ x <= i
      <4>1. d[i] = e[i] + 0
        BY <2>2, <3>1, <3>3
      <4>2. QED
        BY <1>3, <2>3, <3>1, <3>3, <4>1
    <3>4. QED
      BY <3>2, <3>3
  <2>6. QED
    BY <2>4, <2>5
<1>9. N - 1 \in S
  <2> HIDE DEF S
  <2>1. QED
    BY <1>7, <1>8, InductionOnRanks
<1>10. x <= N - 1
  BY <1>3
<1>11. End(a) = s[x] + End(b)
  <2>1. e[N - 1] \in Nat /\ b[N - 1] \in Nat
    BY <1>1, <1>5
  <2>2. QED
    BY <1>3, <1>6, <1>9, <1>10, <2>1
<1>12. QED
  BY <1>11 DEF a, b

\* Nobody's bytes add up to none.
LEMMA EndOfNothing ==
  ASSUME NEW s \in [Ranks -> Nat], \A q \in Ranks : s[q] = 0
  PROVE  End(s) = 0
<1> USE RankFacts
<1> DEFINE d == Displacements(s)
           S == {i \in Ranks : d[i] = 0}
<1>1. d \in [Ranks -> Nat] /\ d[0] = 0 /\ \A i \in 1 .. N - 1 : d[i] = d[i - 1] + s[i - 1]
  BY DisplacementsDef
<1> HIDE DEF d
<1>2. 0 \in S
  BY <1>1
<1>3. \A i \in 1 .. N - 1 : i - 1 \in S => i \in S
  BY <1>1
<1>4. N - 1 \in S
  <2> HIDE DEF S
  <2>1. QED
    BY <1>2, <1>3, InductionOnRanks
<1>5. QED
  BY <1>4 DEF End, d

\* All the bytes, in whatever order they are added up.
LEMMA SumIsEnd ==
  ASSUME NEW s \in [Ranks -> Nat]
  PROVE  FoldFunction(+, 0, s) = End(s)
<1> DEFINE pick(A) == CHOOSE x \in A : TRUE
           Sum(f) == f = [A \in SUBSET Ranks |->
                            IF A = {} THEN 0 ELSE s[pick(A)] + f[A \ {pick(A)}]]
           sum == CHOOSE f : Sum(f)
<1>1. \A A \in SUBSET Ranks : A # {} => pick(A) \in A
  OBVIOUS
<1> HIDE DEF pick
<1>2. \E f : Sum(f)
  <2> DEFINE f == [A \in SUBSET Ranks |-> End(Only(A, s))]
  <2>1. End(Only({}, s)) = 0
    <3>1. Only({}, s) \in [Ranks -> Nat] /\ \A q \in Ranks : Only({}, s)[q] = 0
      BY DEF Only
    <3>2. QED
      BY <3>1, EndOfNothing
  <2>2. ASSUME NEW A \in SUBSET Ranks, A # {}
        PROVE  f[A] = s[pick(A)] + f[A \ {pick(A)}]
    <3>1. pick(A) \in A /\ A \ {pick(A)} \in SUBSET Ranks
      BY <1>1, <2>2
    <3>2. End(Only(A, s)) = s[pick(A)] + End(Only(A \ {pick(A)}, s))
      BY <3>1, EndOfOnly
    <3>3. QED
      BY <3>1, <3>2
  <2>3. Sum(f)
    BY <2>1, <2>2
  <2>4. QED
    BY <2>3
<1>3. Sum(sum)
  <2> HIDE DEF Sum
  <2>1. QED
    BY <1>2
<1>4. FoldFunction(+, 0, s) = sum[Ranks]
  BY DEF FoldFunction, FoldFunctionOnSet, MapThenFoldSet, pick
<1> HIDE DEF sum
<1>5. \A n \in Nat : \A A \in SUBSET Ranks : Cardinality(A) = n => sum[A] = End(Only(A, s))
  <2> DEFINE S == {n \in Nat : \A A \in SUBSET Ranks : Cardinality(A) = n => sum[A] = End(Only(A, s))}
  <2>1. IsFiniteSet(Ranks) /\ \A A \in SUBSET Ranks : IsFiniteSet(A)
    <3>1. IsFiniteSet(Ranks)
      BY RankFacts, FS_Interval
    <3>2. QED
      BY <3>1, FS_Subset
  <2>2. 0 \in S
    <3>1. \A A \in SUBSET Ranks : Cardinality(A) = 0 => A = {}
      BY <2>1, FS_EmptySet
    <3>2. sum[{}] = 0
      BY <1>3
    <3>3. End(Only({}, s)) = 0
      <4>1. Only({}, s) \in [Ranks -> Nat] /\ \A q \in Ranks : Only({}, s)[q] = 0
        BY DEF Only
      <4>2. QED
        BY <4>1, EndOfNothing
    <3>4. QED
      BY <3>1, <3>2, <3>3
  <2>3. ASSUME NEW n \in Nat, n \in S PROVE n + 1 \in S
    <3>1. ASSUME NEW A \in SUBSET Ranks, Cardinality(A) = n + 1
          PROVE  sum[A] = End(Only(A, s))
      <4>1. A # {}
        BY <3>1, FS_EmptySet
      <4>2. pick(A) \in A
        BY <1>1, <4>1
      <4>3. Cardinality(A \ {pick(A)}) = n
        <5>1. IsFiniteSet(A)
          BY <2>1
        <5>2. Cardinality(A \ {pick(A)}) = Cardinality(A) - 1
          BY <4>2, <5>1, FS_RemoveElement
        <5>3. QED
          BY <3>1, <5>2
      <4>4. A \ {pick(A)} \in SUBSET Ranks
        OBVIOUS
      <4>5. sum[A \ {pick(A)}] = End(Only(A \ {pick(A)}, s))
        BY <2>3, <4>3, <4>4
      <4>6. sum[A] = s[pick(A)] + sum[A \ {pick(A)}]
        BY <1>3, <4>1
      <4>7. QED
        BY <4>2, <4>5, <4>6, EndOfOnly
    <3>2. QED
      BY <3>1
  <2>4. Nat \subseteq S
    <3> HIDE DEF S
    <3>1. QED
      BY <2>2, <2>3, InductionOnSet
  <2>5. QED
    BY <2>4
<1>6. Only(Ranks, s) = s
  BY DEF Only
<1>7. Cardinality(Ranks) \in Nat
  <2>1. IsFiniteSet(Ranks)
    BY RankFacts, FS_Interval
  <2>2. QED
    BY <2>1, FS_CardinalityType
<1>8. QED
  BY <1>4, <1>5, <1>6, <1>7

\* Ranks that contribute equally contribute N times as much as each.
LEMMA EvenEnd ==
  ASSUME NEW s \in [Ranks -> Nat], NEW n \in Nat, \A q \in Ranks : s[q] = n
  PROVE  End(s) = N * n
<1> USE RankFacts
<1> DEFINE d == Displacements(s)
           S == {i \in Ranks : d[i] = i * n}
<1>1. d \in [Ranks -> Nat] /\ d[0] = 0 /\ \A i \in 1 .. N - 1 : d[i] = d[i - 1] + s[i - 1]
  BY DisplacementsDef
<1>2. End(s) = d[N - 1] + n
  BY DEF End
<1> HIDE DEF d
<1>3. 0 \in S
  BY <1>1
<1>4. ASSUME NEW i \in 1 .. N - 1, i - 1 \in S PROVE i \in S
  <2>1. d[i] = (i - 1) * n + n
    BY <1>1, <1>4
  <2>2. (i - 1) * n + n = i * n
    OBVIOUS
  <2>3. QED
    BY <2>1, <2>2
<1>5. N - 1 \in S
  <2> HIDE DEF S
  <2>1. QED
    BY <1>3, <1>4, InductionOnRanks
<1>6. (N - 1) * n + n = N * n
  OBVIOUS
<1>7. QED
  BY <1>2, <1>5, <1>6

\* The bytes end later, if no rank contributes less.
LEMMA EndMonotone ==
  ASSUME NEW s \in [Ranks -> Nat], NEW t \in [Ranks -> Nat], \A q \in Ranks : s[q] <= t[q]
  PROVE  End(s) <= End(t)
<1> USE RankFacts
<1> DEFINE d == Displacements(s)
           e == Displacements(t)
           S == {i \in Ranks : d[i] <= e[i]}
<1>1. d \in [Ranks -> Nat] /\ d[0] = 0 /\ \A i \in 1 .. N - 1 : d[i] = d[i - 1] + s[i - 1]
  BY DisplacementsDef
<1>2. e \in [Ranks -> Nat] /\ e[0] = 0 /\ \A i \in 1 .. N - 1 : e[i] = e[i - 1] + t[i - 1]
  BY DisplacementsDef
<1>3. End(s) = d[N - 1] + s[N - 1] /\ End(t) = e[N - 1] + t[N - 1]
  BY DEF End
<1> HIDE DEF d, e
<1>4. 0 \in S
  BY <1>1, <1>2
<1>5. ASSUME NEW i \in 1 .. N - 1, i - 1 \in S PROVE i \in S
  <2>1. i - 1 \in Ranks /\ i \in Ranks
    OBVIOUS
  <2>2. d[i - 1] \in Nat /\ e[i - 1] \in Nat /\ s[i - 1] \in Nat /\ t[i - 1] \in Nat
    BY <1>1, <1>2, <2>1
  <2>3. d[i - 1] <= e[i - 1] /\ s[i - 1] <= t[i - 1]
    BY <1>5, <2>1
  <2>4. QED
    BY <1>1, <1>2, <2>1, <2>2, <2>3
<1>6. N - 1 \in S
  <2> HIDE DEF S
  <2>1. QED
    BY <1>4, <1>5, InductionOnRanks
<1>7. d[N - 1] \in Nat /\ e[N - 1] \in Nat /\ s[N - 1] \in Nat /\ t[N - 1] \in Nat /\ s[N - 1] <= t[N - 1]
  BY <1>1, <1>2
<1>8. QED
  BY <1>3, <1>6, <1>7

\* Nobody writes into what a buffer has beyond the ranks' bytes.
LEMMA BufferFilled ==
  ASSUME NEW s \in [Ranks -> Nat], NEW data, NEW n \in Nat, End(s) <= n
  PROVE  Buffer(s, Displacements(s), n, data) = Filled(Buffer(s, Displacements(s), End(s), data), n)
<1> DEFINE d == Displacements(s)
           Byte == [j \in Nat |->
                      LET writers == {i \in Ranks : d[i] < j /\ j <= d[i] + s[i]}
                      IN  IF writers = {} THEN Unwritten
                          ELSE LET i == CHOOSE i \in writers : \A w \in writers : w <= i
                               IN  data[i][j - d[i]]]
           laid == [j \in 1 .. End(s) |-> Byte[j]]
<1>1. /\ End(s) \in Nat
      /\ d \in [Ranks -> Nat]
      /\ \A i \in Ranks : d[i] + s[i] <= End(s)
  BY SlicesFit, DisplacementsDef
<1>2. /\ Buffer(s, d, n, data) = [j \in 1 .. n |-> Byte[j]]
      /\ Buffer(s, d, End(s), data) = laid
  BY <1>1 DEF Buffer
<1>3. ASSUME NEW j \in 1 .. n, j > End(s) PROVE Byte[j] = Unwritten
  <2>1. {i \in Ranks : d[i] < j /\ j <= d[i] + s[i]} = {}
    <3> SUFFICES ASSUME NEW i \in Ranks, j <= d[i] + s[i] PROVE FALSE
      OBVIOUS
    <3> HIDE DEF d
    <3>1. d[i] \in Nat /\ s[i] \in Nat /\ d[i] + s[i] <= End(s)
      BY <1>1
    <3>2. QED
      BY <1>1, <1>3, <3>1
  <2>2. j \in Nat
    OBVIOUS
  <2> HIDE DEF d
  <2>3. QED
    BY <2>1, <2>2
<1> HIDE DEF d, Byte
<1>4. Len(laid) = End(s)
  BY <1>1
<1>5. \A j \in 1 .. n : Byte[j] = IF j <= Len(laid) THEN laid[j] ELSE Unwritten
  BY <1>1, <1>3, <1>4
<1> HIDE DEF laid
<1>6. [j \in 1 .. n |-> Byte[j]] = Filled(laid, n)
  BY <1>5 DEF Filled
<1>7. QED
  BY <1>2, <1>6 DEF d

\* The parts of a call.
LEMMA CallType ==
  ASSUME NEW c \in Calls
  PROVE  /\ c.op \in Ops
         /\ c.root \in Ranks \cup {NoRoot, Mine}
         /\ c.len \in [Ranks -> Nat]
         /\ c.op \notin Uneven => \A q, r \in Ranks : c.len[q] = c.len[r]
<1>1. c \in [op : Ops, root : Roots, len : [Ranks -> Lengths]]
  BY DEF Calls
<1>2. c.op \notin Uneven => \A q, r \in Ranks : c.len[q] = c.len[r]
  BY DEF Calls
<1>3. Lengths \subseteq Nat
  BY CollectivesAssumption
<1>4. Roots \subseteq Ranks \cup {NoRoot, Mine}
  BY CollectivesAssumption
<1>5. c.len \in [Ranks -> Lengths] /\ c.op \in Ops /\ c.root \in Roots
  BY <1>1
<1>6. QED
  BY <1>2, <1>3, <1>4, <1>5

\* Whoever is the root is who gets a value.
LEMMA RootFacts ==
  ASSUME NEW r \in Ranks, NEW k, program[k] \in Calls
  PROVE  /\ AmIRoot(r, program[k]) <=> Receives(r, k)
         /\ RootOf(r, program[k]) \in Ranks \cup {NoRoot}
         /\ program[k].root = Mine => RootOf(r, program[k]) = r
         /\ program[k].root # Mine => RootOf(r, program[k]) = program[k].root
<1>1. program[k].root \in Ranks \cup {NoRoot, Mine}
  BY CallType
<1>2. NoRoot \notin Ranks /\ Mine \notin Ranks \cup {NoRoot}
  BY CollectivesAssumption
<1>3. QED
  BY <1>1, <1>2 DEF AmIRoot, RootOf, Receives

\* The bytes of a call end where the last rank's do.
LEMMA BytesIsEnd ==
  ASSUME NEW k, program[k] \in Calls
  PROVE  Bytes(k) = End(program[k].len)
<1>1. program[k].len \in [Ranks -> Nat]
  BY CallType
<1>2. QED
  BY <1>1, SumIsEnd, Zenon DEF Bytes

\* All the counts of a call.
Counts(k) == [q \in Ranks |-> Counted(q, k)]

\* A count is an int; it is never more than the bytes, and less only if they do
\* not fit an int.
LEMMA CountFacts ==
  ASSUME NEW k, program[k] \in Calls, NEW q \in Ranks
  PROVE  /\ Counted(q, k) \in -(MaxInt + 1) .. MaxInt
         /\ Counted(q, k) <= program[k].len[q]
         /\ program[k].len[q] <= MaxInt => Counted(q, k) = program[k].len[q]
         /\ program[k].len[q] \in Nat
         /\ program[k].len[q] <= Bytes(k)
         /\ Bytes(k) \in Nat
<1> DEFINE s == program[k].len
<1>1. s \in [Ranks -> Nat]
  BY CallType
<1>2. Bytes(k) = End(s)
  BY BytesIsEnd
<1>3. Counted(q, k) = ToInt(s[q])
  BY DEF Counted
<1> HIDE DEF s
<1>4. s[q] \in Nat /\ s[q] \in Int /\ s[q] >= -(MaxInt + 1)
  BY <1>1, CollectivesAssumption
<1>5. End(s) \in Nat /\ s[q] <= End(s)
  <2>1. Displacements(s)[q] \in Nat /\ Displacements(s)[q] + s[q] <= End(s) /\ End(s) \in Nat
    BY <1>1, SlicesFit, DisplacementsDef
  <2>2. QED
    BY <1>4, <2>1
<1>6. /\ ToInt(s[q]) \in -(MaxInt + 1) .. MaxInt
      /\ ToInt(s[q]) <= s[q]
      /\ s[q] <= MaxInt => ToInt(s[q]) = s[q]
  BY <1>4, IntFacts
<1>7. QED
  BY <1>2, <1>3, <1>4, <1>5, <1>6 DEF s

\* Counts that are not negative add up to no more than the bytes.
LEMMA CountsFacts ==
  ASSUME NEW k, program[k] \in Calls, \A q \in Ranks : Counted(q, k) >= 0
  PROVE  /\ Counts(k) \in [Ranks -> 0 .. MaxInt]
         /\ Counts(k) \in [Ranks -> Nat]
         /\ End(Counts(k)) <= Bytes(k)
<1>1. ASSUME NEW q \in Ranks PROVE Counted(q, k) \in 0 .. MaxInt /\ Counted(q, k) <= program[k].len[q]
  <2>1. Counted(q, k) \in -(MaxInt + 1) .. MaxInt /\ Counted(q, k) <= program[k].len[q]
    BY CountFacts
  <2>2. QED
    BY <2>1, CollectivesAssumption
<1>2. Counts(k) \in [Ranks -> 0 .. MaxInt] /\ Counts(k) \in [Ranks -> Nat]
  BY <1>1, CollectivesAssumption DEF Counts
<1>3. \A q \in Ranks : Counts(k)[q] <= program[k].len[q]
  BY <1>1 DEF Counts
<1>4. End(Counts(k)) <= End(program[k].len)
  <2>1. program[k].len \in [Ranks -> Nat]
    BY CallType
  <2>2. QED
    BY <1>2, <1>3, <2>1, EndMonotone
<1>5. QED
  BY <1>2, <1>4, BytesIsEnd

\* In a call that requires as much from every rank, all counts are the same.
LEMMA EvenCounts ==
  ASSUME NEW k, program[k] \in Calls, program[k].op \notin Uneven,
         NEW r \in Ranks, Counted(r, k) >= 0
  PROVE  /\ \A q \in Ranks : program[k].len[q] = program[k].len[r] /\ Counted(q, k) = Counted(r, k)
         /\ Counts(k) = [q \in Ranks |-> Counted(r, k)]
         /\ Counts(k) \in [Ranks -> Nat]
         /\ Counted(r, k) \in Nat
         /\ End(Counts(k)) = N * Counted(r, k)
<1>1. \A q \in Ranks : program[k].len[q] = program[k].len[r]
  BY CallType
<1>2. \A q \in Ranks : Counted(q, k) = Counted(r, k)
  BY <1>1 DEF Counted
<1>3. Counts(k) = [q \in Ranks |-> Counted(r, k)]
  BY <1>2 DEF Counts
<1>4. Counts(k) \in [Ranks -> Nat]
  BY <1>2, CountsFacts
<1>5. Counted(r, k) \in Nat
  BY <1>3, <1>4
<1>6. End(Counts(k)) = N * Counted(r, k)
  BY <1>3, <1>4, <1>5, EvenEnd
<1>7. QED
  BY <1>1, <1>2, <1>3, <1>4, <1>5, <1>6

-----------------------------------------------------------------------------
(* Which MPI calls belong to which call. *)

\* The k-th call is a gatherv.
UnevenCall(k) == program[k].op \in Uneven

\* The MPI calls that the first k calls of the program take.
Offset(k) == k + Cardinality({j \in 1 .. k : UnevenCall(j)})

\* Offsets are natural numbers.
LEMMA OffsetType ==
  ASSUME NEW k \in Nat
  PROVE  Offset(k) \in Nat /\ IsFiniteSet({j \in 1 .. k : UnevenCall(j)})
<1>1. IsFiniteSet(1 .. k)
  BY FS_Interval
<1>2. IsFiniteSet({j \in 1 .. k : UnevenCall(j)})
  BY <1>1, FS_Subset
<1>3. QED
  BY <1>2, FS_CardinalityType DEF Offset

\* Nothing has been posted before the first call.
LEMMA OffsetZero == Offset(0) = 0
<1>1. {j \in 1 .. 0 : UnevenCall(j)} = {}
  OBVIOUS
<1>2. QED
  BY <1>1, FS_EmptySet DEF Offset

\* A gatherv takes two MPI calls, any other call one.
LEMMA OffsetStep ==
  ASSUME NEW k \in Nat \ {0}
  PROVE  Offset(k) = Offset(k - 1) + (IF UnevenCall(k) THEN 2 ELSE 1)
<1> DEFINE old == {j \in 1 .. k - 1 : UnevenCall(j)}
           new == {j \in 1 .. k : UnevenCall(j)}
<1>1. k - 1 \in Nat
  OBVIOUS
<1>2. IsFiniteSet(old) /\ Cardinality(old) \in Nat
  BY <1>1, OffsetType, FS_CardinalityType
<1>3. CASE UnevenCall(k)
  <2>1. new = old \cup {k} /\ k \notin old
    BY <1>3
  <2> HIDE DEF old, new
  <2>2. Cardinality(new) = Cardinality(old) + 1
    BY <1>2, <2>1, FS_AddElement
  <2>3. QED
    BY <1>2, <1>3, <2>2 DEF Offset, old, new
<1>4. CASE ~UnevenCall(k)
  <2>1. new = old
    <3>1. \A j \in 1 .. k : j = k \/ j \in 1 .. k - 1
      OBVIOUS
    <3>2. QED
      BY <1>4, <3>1
  <2> HIDE DEF old, new
  <2>2. QED
    BY <1>2, <1>4, <2>1 DEF Offset, old, new
<1>5. QED
  BY <1>3, <1>4

\* More calls take more MPI calls.
LEMMA OffsetMonotone ==
  ASSUME NEW j \in Nat, NEW k \in Nat, j <= k
  PROVE  Offset(j) <= Offset(k)
<1> DEFINE A == {i \in 1 .. j : UnevenCall(i)}
           B == {i \in 1 .. k : UnevenCall(i)}
<1>1. IsFiniteSet(A) /\ IsFiniteSet(B)
  BY OffsetType
<1>2. A \in SUBSET B
  OBVIOUS
<1>3. Offset(j) = j + Cardinality(A) /\ Offset(k) = k + Cardinality(B)
  BY DEF Offset
<1> HIDE DEF A, B
<1>4. Cardinality(A) <= Cardinality(B)
  BY <1>1, <1>2, FS_Subset
<1>5. Cardinality(A) \in Nat /\ Cardinality(B) \in Nat
  BY <1>1, FS_CardinalityType
<1>6. QED
  BY <1>3, <1>4, <1>5

\* Every MPI call belongs to a call of the program.
LEMMA OffsetCover ==
  ASSUME NEW n \in Nat, NEW m \in 1 .. Offset(n)
  PROVE  \E k \in 1 .. n : m = Offset(k) \/ (UnevenCall(k) /\ m = Offset(k) - 1)
<1> DEFINE Is(k) == m = Offset(k) \/ (UnevenCall(k) /\ m = Offset(k) - 1)
           S == {i \in Nat : m <= Offset(i) => \E k \in 1 .. i : Is(k)}
<1>1. m \in Nat /\ m > 0 /\ m <= Offset(n)
  BY OffsetType
<1>2. 0 \in S
  BY <1>1, OffsetZero
<1>3. ASSUME NEW i \in Nat, i \in S PROVE i + 1 \in S
  <2>1. SUFFICES ASSUME m <= Offset(i + 1) PROVE \E k \in 1 .. i + 1 : Is(k)
    OBVIOUS
  <2>2. CASE m <= Offset(i)
    <3>1. PICK k \in 1 .. i : Is(k)
      BY <1>3, <2>2
    <3>2. k \in 1 .. i + 1
      OBVIOUS
    <3>3. QED
      BY <3>1, <3>2
  <2>3. CASE ~ m <= Offset(i)
    <3>1. i + 1 \in Nat \ {0} /\ (i + 1) - 1 = i /\ i + 1 \in 1 .. i + 1
      OBVIOUS
    <3>2. Offset(i + 1) = Offset(i) + (IF UnevenCall(i + 1) THEN 2 ELSE 1)
      BY <3>1, OffsetStep
    <3>3. Offset(i) \in Nat
      BY OffsetType
    <3>4. Is(i + 1)
      BY <1>1, <2>1, <2>3, <3>2, <3>3
    <3>5. QED
      BY <3>1, <3>4
  <2>4. QED
    BY <2>2, <2>3
<1>4. n \in S
  <2> HIDE DEF S
  <2>1. QED
    BY <1>2, <1>3, InductionOnSet
<1>5. QED
  BY <1>1, <1>4

-----------------------------------------------------------------------------
(* What the root makes of the contributions. *)

\* The contributions to a call as sequences, one for each rank.
LEMMA ContributionFacts ==
  ASSUME NEW k, Counts(k) \in [Ranks -> Nat],
         NEW data, data = [q \in Ranks |-> Contribution(q, k)]
  PROVE  /\ Sends(Counts(k), data)
         /\ data \in [Ranks -> Seq(Ranks \X {k} \X Nat)]
         /\ \A q \in Ranks : Len(data[q]) = Counts(k)[q]
         /\ InRankOrder(k) = [i \in 1 .. N |-> data[i - 1]]
<1> DEFINE s == Counts(k)
           X == Ranks \X {k} \X Nat
<1>1. s \in [Ranks -> Nat]
  OBVIOUS
<1>2. ASSUME NEW q \in Ranks
      PROVE  /\ Contribution(q, k) \in Seq(X)
             /\ Len(Contribution(q, k)) = s[q]
             /\ data[q] = Contribution(q, k)
             /\ data[q] = [m \in 1 .. s[q] |-> data[q][m]]
  <2>1. s[q] \in Nat
    BY <1>1
  <2>2. Contribution(q, k) = [i \in 1 .. s[q] |-> <<q, k, i>>]
    BY DEF Contribution, Counts
  <2> HIDE DEF s
  <2>3. \A i \in 1 .. s[q] : <<q, k, i>> \in X
    BY <2>1
  <2>4. [i \in 1 .. s[q] |-> <<q, k, i>>] \in Seq(X)
    <3> HIDE DEF X
    <3>1. QED
      BY <2>1, <2>3, IsASeq
  <2>5. Len([i \in 1 .. s[q] |-> <<q, k, i>>]) = s[q]
    BY <2>1
  <2>6. data[q] = Contribution(q, k)
    OBVIOUS
  <2>7. QED
    BY <2>2, <2>4, <2>5, <2>6
<1>3. Sends(s, data)
  <2>1. data = [q \in Ranks |-> data[q]]
    OBVIOUS
  <2> HIDE DEF s
  <2>2. QED
    BY <1>2, <2>1 DEF Sends
<1>4. data \in [Ranks -> Seq(X)]
  <2> HIDE DEF X
  <2>1. QED
    BY <1>2
<1>5. InRankOrder(k) = [i \in 1 .. N |-> data[i - 1]]
  <2>1. \A i \in 1 .. N : i - 1 \in Ranks
    BY RankFacts
  <2>2. QED
    BY <1>2, <2>1 DEF InRankOrder
<1>6. QED
  BY <1>2, <1>3, <1>4, <1>5

\* A serialized gather that the root has not refused fits an int.
LEMMA NotRefused ==
  ASSUME NEW r \in Ranks, NEW k, program[k] \in Calls, Receives(r, k),
         program[k].op = "gather_object", ~GatherBufferRefused(r, k)
  PROVE  Counted(r, k) = program[k].len[r]
<1> DEFINE n == program[k].len[r]
           b == N * n
<1>1. n \in Nat /\ (n <= MaxInt => Counted(r, k) = n)
  BY CountFacts
<1>2. ~ (ToInt(b) < b)
  BY RootFacts DEF GatherBufferRefused
<1> HIDE DEF n
<1>3. b \in Nat /\ n <= b
  BY <1>1, RankFacts
<1> HIDE DEF b
<1>4. MaxInt \in Nat /\ b \in Int /\ b >= -(MaxInt + 1)
  BY <1>3, CollectivesAssumption
<1>5. ToInt(b) \in -(MaxInt + 1) .. MaxInt
  BY <1>4, IntFacts
<1>6. n <= MaxInt
  BY <1>1, <1>2, <1>3, <1>4, <1>5
<1>7. QED
  BY <1>1, <1>6 DEF n

\* What the root makes of everybody's contributions is the outcome.
LEMMA ValueIsOutcome ==
  ASSUME NEW r \in Ranks, NEW k, program[k] \in Calls,
         \A q \in Ranks : Sent(q, r) = Contribution(q, k),
         UnevenCall(k) => /\ Counts(k) \in [Ranks -> Nat]
                          /\ sizes[r] = Counts(k)
                          /\ total[r] = End(Counts(k)),
         Counted(r, k) >= 0,
         Receives(r, k), ~GatherBufferRefused(r, k)
  PROVE  Value(r, k) = Outcome(k)
<1> DEFINE c == program[k]
           s == Counts(k)
           n == N * c.len[r]
           data == [q \in Ranks |-> Contribution(q, k)]
           laid == Buffer(s, Displacements(s), End(s), data)
           even == [q \in Ranks |-> Counted(r, k)]
           reduced == [i \in 1 .. Counted(r, k) |-> {data[q][i] : q \in Ranks}]
<1>1. c.op \in Ops
  BY CallType
<1>2. data = [q \in Ranks |-> Sent(q, r)]
  OBVIOUS
<1>3. s \in [Ranks -> Nat]
  BY EvenCounts DEF UnevenCall
<1>4. FlattenSeq(InRankOrder(k)) = laid /\ InRankOrder(k) = Slices(laid, s)
  <2>1. /\ Sends(s, data)
        /\ data \in [Ranks -> Seq(Ranks \X {k} \X Nat)]
        /\ \A q \in Ranks : Len(data[q]) = s[q]
        /\ InRankOrder(k) = [i \in 1 .. N |-> data[i - 1]]
    BY <1>3, ContributionFacts
  <2> HIDE DEF data, s
  <2>2. FlattenSeq([i \in 1 .. N |-> data[i - 1]]) = laid
    BY <1>3, <2>1, FlattenIsBuffer
  <2>3. Slices(laid, s) = [i \in 1 .. N |-> data[i - 1]]
    BY <1>3, <2>1, SlicesOfBuffer
  <2>4. QED
    BY <2>1, <2>2, <2>3
<1>5. c.op \notin Uneven => /\ even = s
                            /\ c.len[0] = c.len[r]
                            /\ Counted(0, k) = Counted(r, k)
                            /\ Buffer(even, Displacements(even), n, data) = Filled(laid, n)
  <2>1. SUFFICES ASSUME c.op \notin Uneven
                 PROVE  /\ even = s
                        /\ c.len[0] = c.len[r]
                        /\ Counted(0, k) = Counted(r, k)
                        /\ Buffer(s, Displacements(s), n, data) = Filled(laid, n)
    OBVIOUS
  <2>2. /\ even = s
        /\ \A q \in Ranks : c.len[q] = c.len[r] /\ Counted(q, k) = Counted(r, k)
        /\ End(s) = N * Counted(r, k)
        /\ Counted(r, k) \in Nat
    BY <2>1, EvenCounts
  <2>3. c.len[0] = c.len[r] /\ Counted(0, k) = Counted(r, k)
    BY <2>2, RankFacts
  <2>4. c.len[r] \in Nat /\ Counted(r, k) <= c.len[r]
    BY CountFacts
  <2> HIDE DEF s, data, c
  <2>5. n \in Nat /\ End(s) <= n
    BY <2>2, <2>4, RankFacts
  <2> HIDE DEF n
  <2>6. Buffer(s, Displacements(s), n, data) = Filled(laid, n)
    BY <1>3, <2>5, BufferFilled
  <2>7. QED
    BY <2>2, <2>3, <2>6
<1>6. Value(r, k) =
        CASE c.op = "gather_array"   -> Buffer(even, Displacements(even), n, data)
          [] c.op = "gather_object"  -> Slices(Buffer(even, Displacements(even), n, data), [q \in Ranks |-> c.len[r]])
          [] c.op = "gatherv_array"  -> Buffer(sizes[r], Displacements(sizes[r]), total[r], data)
          [] c.op = "gatherv_object" -> Slices(Buffer(sizes[r], Displacements(sizes[r]), total[r], data), sizes[r])
          [] c.op = "reduce"         -> Filled(reduced, c.len[r])
  <2> HIDE DEF data
  <2>1. QED
    BY <1>2 DEF Value
<1>7. Outcome(k) =
        CASE c.op \in Objects       -> InRankOrder(k)
          [] c.op = "gatherv_array" -> FlattenSeq(InRankOrder(k))
          [] c.op = "gather_array"  -> Filled(FlattenSeq(InRankOrder(k)), N * c.len[0])
          [] c.op = "reduce"        -> Filled(Reduced(k), c.len[0])
  BY DEF Outcome
<1>8. c.op = "reduce" => reduced = Reduced(k)
  <2>1. SUFFICES ASSUME c.op = "reduce" PROVE reduced = Reduced(k)
    OBVIOUS
  <2>2. c.op \notin Uneven
    BY <2>1 DEF Uneven
  <2>3. \A q \in Ranks : Counted(q, k) = Counted(r, k)
    BY <2>2, EvenCounts
  <2>4. ASSUME NEW i \in 1 .. Counted(r, k)
        PROVE  {data[q][i] : q \in Ranks} = {<<q, k, i>> : q \in Ranks}
    <3>1. ASSUME NEW q \in Ranks PROVE data[q][i] = <<q, k, i>>
      BY <2>3 DEF Contribution
    <3> HIDE DEF data
    <3>2. QED
      BY <3>1
  <2>5. Reduced(k) = [i \in 1 .. Counted(r, k) |-> {<<q, k, i>> : q \in Ranks}]
    BY <1>5, <2>2 DEF Reduced
  <2> HIDE DEF data
  <2>6. QED
    BY <2>4, <2>5
<1>9. c.op = "gather_object" => [q \in Ranks |-> c.len[r]] = s /\ n = End(s)
  <2>1. SUFFICES ASSUME c.op = "gather_object"
                 PROVE  [q \in Ranks |-> c.len[r]] = s /\ n = End(s)
    OBVIOUS
  <2>2. c.op \notin Uneven
    BY <2>1 DEF Uneven
  <2>3. Counted(r, k) = c.len[r]
    BY <2>1, NotRefused
  <2>4. s = even /\ End(s) = N * Counted(r, k)
    BY <2>2, EvenCounts
  <2>5. QED
    BY <2>3, <2>4
<1> HIDE DEF data, laid, even, reduced, n
<1>10. CASE c.op = "gather_array"
  <2>1. c.op \notin Uneven /\ c.op \notin Objects
    BY <1>10 DEF Uneven, Objects
  <2>2. Value(r, k) = Filled(laid, n)
    BY <1>5, <1>6, <1>10, <2>1
  <2>3. n = N * c.len[0]
    BY <1>5, <2>1 DEF n
  <2>4. QED
    BY <1>4, <1>7, <1>10, <2>1, <2>2, <2>3
<1>11. CASE c.op = "gather_object"
  <2>1. c.op \notin Uneven /\ c.op \in Objects
    BY <1>11 DEF Uneven, Objects
  <2>2. Value(r, k) = Slices(laid, s)
    BY <1>5, <1>6, <1>9, <1>11, <2>1 DEF laid
  <2>3. QED
    BY <1>4, <1>7, <1>11, <2>1, <2>2
<1>12. CASE c.op = "gatherv_array"
  <2>1. UnevenCall(k) /\ c.op \notin Objects
    BY <1>12 DEF Uneven, Objects, UnevenCall
  <2>2. Value(r, k) = laid
    BY <1>6, <1>12, <2>1 DEF laid
  <2>3. QED
    BY <1>4, <1>7, <1>12, <2>1, <2>2
<1>13. CASE c.op = "gatherv_object"
  <2>1. UnevenCall(k) /\ c.op \in Objects
    BY <1>13 DEF Uneven, Objects, UnevenCall
  <2>2. Value(r, k) = Slices(laid, s)
    BY <1>6, <1>13, <2>1 DEF laid
  <2>3. QED
    BY <1>4, <1>7, <1>13, <2>1, <2>2
<1>14. CASE c.op = "reduce"
  <2>1. c.op \notin Objects /\ c.op \notin Uneven
    BY <1>14 DEF Objects, Uneven
  <2>2. Value(r, k) = Filled(Reduced(k), c.len[r])
    BY <1>6, <1>8, <1>14
  <2>3. QED
    BY <1>5, <1>7, <1>14, <2>1, <2>2
<1>15. QED
  BY <1>1, <1>10, <1>11, <1>12, <1>13, <1>14 DEF Ops, Objects, Arrays

-----------------------------------------------------------------------------
(* The inductive invariant. *)

\* What rank r posts for the k-th call: the sizes if it is a gatherv, the data.
MpiCall(r, k, fn, all, send) ==
  [fn   |-> Rooted(fn, all, RootOf(r, program[k])),
   root |-> RootOf(r, program[k]),
   send |-> send]
SizesCall(r, k) == MpiCall(r, k, "MPI_Gather", "MPI_Allgather", <<Counted(r, k)>>)
DataCall(r, k) ==
  CASE program[k].op \in Uneven ->
         MpiCall(r, k, "MPI_Gatherv", "MPI_Allgatherv", Contribution(r, k))
    [] program[k].op = "reduce" ->
         MpiCall(r, k, "MPI_Reduce", "MPI_Allreduce", Contribution(r, k))
    [] program[k].op \in {"gather_object", "gather_array"} ->
         MpiCall(r, k, "MPI_Gather", "MPI_Allgather", Contribution(r, k))

\* Everything that is ever posted, and every std::optional.
Messages ==
  {SizesCall(r, k) : r \in Ranks, k \in 1 .. MaxCalls} \cup
  {DataCall(r, k) : r \in Ranks, k \in 1 .. MaxCalls}
Optionals == {{}} \cup {{Outcome(k)} : k \in 1 .. MaxCalls}

\* Types, with what is posted and returned.
Typed ==
  /\ program \in [1 .. MaxCalls -> Calls]
  /\ entered \in [Ranks -> 0 .. MaxCalls]
  /\ results \in [Ranks -> Seq(Optionals)]
  /\ failed \in SUBSET Ranks
  /\ pc \in [Ranks -> {"user", "sizes", "data"}]
  /\ posted \in [Ranks -> Seq(Messages)]
  /\ sizes \in [Ranks -> [Ranks -> 0 .. MaxInt]]
  /\ total \in [Ranks -> 0 .. MaxInt]

\* Rank r is between two calls, or in the one after its last result.
InTurn(r) ==
  /\ entered[r] = Len(results[r]) + (IF pc[r] = "user" THEN 0 ELSE 1)
  /\ pc[r] = "sizes" => UnevenCall(entered[r])

\* Rank r has posted the MPI calls of the calls it entered, and no others.
InStep(r) ==
  /\ Len(posted[r]) = Offset(entered[r]) - (IF pc[r] = "sizes" THEN 1 ELSE 0)
  /\ \A k \in 1 .. entered[r] :
       /\ UnevenCall(k) => posted[r][Offset(k) - 1] = SizesCall(r, k)
       /\ k < entered[r] \/ pc[r] # "sizes" => posted[r][Offset(k)] = DataCall(r, k)

\* MPI has accepted what a rank that waits for data has to send.
Accepted(r) ==
  pc[r] = "data" => Counted(r, entered[r]) >= 0 /\ ~GatherBufferRefused(r, entered[r])

\* A root that waits for the data of a gatherv knows all the sizes.
LaidOut(r) ==
  pc[r] = "data" /\ UnevenCall(entered[r]) /\ Receives(r, entered[r]) =>
    /\ \A q \in Ranks : Counted(q, entered[r]) >= 0
    /\ sizes[r] = Counts(entered[r])
    /\ total[r] = Total(Counts(entered[r]))

\* The data of the k-th call stops whoever receives it: it is more than the int
\* that sizes the buffer counts, or an object has been cut short.
Breaks(k) ==
  /\ UnevenCall(k)
  /\ \/ Total(Counts(k)) < End(Counts(k))
     \/ program[k].op = "gatherv_object" /\ \E q \in Ranks : Counted(q, k) # program[k].len[q]

\* All results of rank r are right, and none is of a call that cannot return.
Answered(r) ==
  \A k \in DOMAIN results[r] :
    /\ results[r][k] = IF Receives(r, k) THEN {Outcome(k)} ELSE {}
    /\ Receives(r, k) => ~Breaks(k)
    /\ N > 1 => program[k].root # Mine

\* If rank r has failed, it had to; and once it had sent its data, it was the
\* data that stopped it.
Excused(r) ==
  r \in failed =>
    /\ Len(results[r]) + 1 <= MaxCalls
    /\ MayFail(r, Len(results[r]) + 1)
    /\ pc[r] = "data" => Breaks(entered[r])

\* The part of the invariant that is about rank r.
Local(r) == InTurn(r) /\ InStep(r) /\ Accepted(r) /\ LaidOut(r) /\ Answered(r) /\ Excused(r)

\* Every rank has sent the data of a call that some rank got a value from.
Together ==
  \A r \in Ranks : \A k \in DOMAIN results[r] :
    Receives(r, k) => \A q \in Ranks : Len(posted[q]) >= Offset(k)

IInv == Typed /\ (\A r \in Ranks : Local(r)) /\ Together

\* The parts of what is posted.
LEMMA MessageFacts ==
  ASSUME NEW r \in Ranks, NEW k, program[k] \in Calls
  PROVE  /\ SizesCall(r, k).send = <<Counted(r, k)>>
         /\ SizesCall(r, k).root = RootOf(r, program[k])
         /\ SizesCall(r, k).fn = IF RootOf(r, program[k]) = NoRoot THEN "MPI_Allgather" ELSE "MPI_Gather"
         /\ DataCall(r, k).send = Contribution(r, k)
         /\ DataCall(r, k).root = RootOf(r, program[k])
         /\ DataCall(r, k).fn \in MpiCalls
         /\ \A q \in Ranks : RootOf(q, program[k]) = RootOf(r, program[k]) =>
              DataCall(q, k).fn = DataCall(r, k).fn
<1> DEFINE c == program[k]
<1>1. c.op \in Ops
  BY CallType
<1>2. c.op \in Uneven \/ c.op = "reduce" \/ c.op \in {"gather_object", "gather_array"}
  BY <1>1 DEF Ops, Objects, Arrays, Uneven
<1>3. /\ c.op = "reduce" => c.op \notin Uneven
      /\ c.op \in {"gather_object", "gather_array"} => c.op \notin Uneven /\ c.op # "reduce"
  BY DEF Uneven
<1>4. \A q : DataCall(q, k) =
        IF c.op \in Uneven THEN MpiCall(q, k, "MPI_Gatherv", "MPI_Allgatherv", Contribution(q, k))
        ELSE IF c.op = "reduce" THEN MpiCall(q, k, "MPI_Reduce", "MPI_Allreduce", Contribution(q, k))
        ELSE MpiCall(q, k, "MPI_Gather", "MPI_Allgather", Contribution(q, k))
  BY <1>2, <1>3 DEF DataCall
<1> HIDE DEF c
<1>5. QED
  BY <1>4 DEF MpiCall, SizesCall, Rooted, MpiCalls, c

\* A rank inside a call has posted that call's MPI call last.
LEMMA WhereItIs ==
  ASSUME Typed, NEW r \in Ranks, Local(r), pc[r] # "user"
  PROVE  /\ entered[r] \in 1 .. MaxCalls
         /\ program[entered[r]] \in Calls
         /\ Len(results[r]) = entered[r] - 1
         /\ pc[r] = "data" => /\ Len(posted[r]) = Offset(entered[r])
                              /\ posted[r][Len(posted[r])] = DataCall(r, entered[r])
         /\ pc[r] = "sizes" => /\ UnevenCall(entered[r])
                               /\ Len(posted[r]) = Offset(entered[r]) - 1
                               /\ posted[r][Len(posted[r])] = SizesCall(r, entered[r])
<1> DEFINE k == entered[r]
<1>1. k \in 0 .. MaxCalls /\ pc[r] \in {"user", "sizes", "data"} /\ MaxCalls \in Nat
  BY CollectivesAssumption DEF Typed
<1>2. Len(results[r]) \in Nat
  <2>1. results[r] \in Seq(Optionals)
    BY DEF Typed
  <2>2. QED
    BY <2>1
<1>3. k = Len(results[r]) + 1
  BY DEF Local, InTurn
<1>4. k \in 1 .. MaxCalls
  BY <1>1, <1>2, <1>3
<1>5. program[k] \in Calls
  BY <1>4 DEF Typed
<1>6. pc[r] = "data" => /\ Len(posted[r]) = Offset(k) - 0
                        /\ posted[r][Offset(k)] = DataCall(r, k)
  BY <1>4 DEF Local, InStep
<1>7. pc[r] = "sizes" => /\ UnevenCall(k)
                         /\ Len(posted[r]) = Offset(k) - 1
                         /\ posted[r][Offset(k) - 1] = SizesCall(r, k)
  BY <1>4 DEF Local, InStep, InTurn
<1>8. Offset(k) \in Nat
  <2>1. k \in Nat
    BY <1>1
  <2>2. QED
    BY <2>1, OffsetType
<1>9. QED
  BY <1>1, <1>2, <1>3, <1>4, <1>5, <1>6, <1>7, <1>8

\* A rank has not posted more than its calls take.
LEMMA PostedLength ==
  ASSUME Typed, NEW r \in Ranks, Local(r)
  PROVE  /\ Len(posted[r]) \in Nat
         /\ entered[r] \in Nat
         /\ Len(posted[r]) <= Offset(entered[r])
         /\ pc[r] = "sizes" => Len(posted[r]) = Offset(entered[r]) - 1
<1>1. posted[r] \in Seq(Messages) /\ entered[r] \in Nat
  BY CollectivesAssumption DEF Typed
<1>2. Len(posted[r]) \in Nat
  BY <1>1
<1>3. Len(posted[r]) = Offset(entered[r]) - (IF pc[r] = "sizes" THEN 1 ELSE 0)
  BY DEF Local, InStep
<1>4. Offset(entered[r]) \in Nat
  BY <1>1, OffsetType
<1>5. QED
  BY <1>1, <1>2, <1>3, <1>4

\* A rank that has made as many MPI calls as belong to the k-th call of the
\* program, or to its sizes, has made the same.
LEMMA PostedAt ==
  ASSUME Typed, NEW r \in Ranks, Local(r), NEW k \in 1 .. MaxCalls
  PROVE  /\ Len(posted[r]) >= Offset(k) => entered[r] >= k /\ posted[r][Offset(k)] = DataCall(r, k)
         /\ UnevenCall(k) /\ Len(posted[r]) >= Offset(k) - 1 =>
              entered[r] >= k /\ posted[r][Offset(k) - 1] = SizesCall(r, k)
<1> DEFINE e == entered[r]
           n == Len(posted[r])
<1>1. k \in Nat \ {0} /\ k - 1 \in Nat /\ MaxCalls \in Nat
  BY CollectivesAssumption
<1>2. n \in Nat /\ e \in Nat /\ n <= Offset(e) /\ (pc[r] = "sizes" => n = Offset(e) - 1)
  BY PostedLength
<1>3. Offset(k) = Offset(k - 1) + (IF UnevenCall(k) THEN 2 ELSE 1)
  BY <1>1, OffsetStep
<1>4. Offset(k) \in Nat /\ Offset(k - 1) \in Nat /\ Offset(e) \in Nat
  BY <1>1, <1>2, OffsetType
<1>5. e < k => Offset(e) <= Offset(k - 1)
  BY <1>1, <1>2, OffsetMonotone
<1>6. e < k => n < Offset(k) /\ (UnevenCall(k) => n < Offset(k) - 1)
  <2> HIDE DEF e, n
  <2>1. QED
    BY <1>2, <1>3, <1>4, <1>5
<1>7. ASSUME k <= e
      PROVE  /\ UnevenCall(k) => posted[r][Offset(k) - 1] = SizesCall(r, k)
             /\ k < e \/ pc[r] # "sizes" => posted[r][Offset(k)] = DataCall(r, k)
  <2>1. k \in 1 .. e
    BY <1>2, <1>7
  <2>2. QED
    BY <2>1 DEF Local, InStep
<1>8. ASSUME n >= Offset(k) PROVE k < e \/ pc[r] # "sizes"
  <2> HIDE DEF e, n
  <2>1. CASE e < k
    BY <1>2, <1>4, <1>6, <1>8, <2>1
  <2>2. CASE e = k
    BY <1>2, <1>4, <1>8, <2>2
  <2>3. QED
    BY <1>1, <1>2, <2>1, <2>2
<1> HIDE DEF e, n
<1>9. n >= Offset(k) => e >= k /\ posted[r][Offset(k)] = DataCall(r, k)
  BY <1>1, <1>2, <1>4, <1>6, <1>7, <1>8
<1>10. UnevenCall(k) /\ n >= Offset(k) - 1 => e >= k /\ posted[r][Offset(k) - 1] = SizesCall(r, k)
  BY <1>1, <1>2, <1>4, <1>6, <1>7
<1>11. QED
  BY <1>9, <1>10 DEF e, n

\* What a rank knows of the others when all have joined its MPI call.
LEMMA JoinedFacts ==
  ASSUME IInv, NEW r \in Ranks, pc[r] # "user", Joined(r), NEW q \in Ranks
  PROVE  /\ entered[q] >= entered[r]
         /\ pc[r] = "data" => Sent(q, r) = Contribution(q, entered[r])
         /\ pc[r] = "sizes" => Sent(q, r) = <<Counted(q, entered[r])>>
         /\ Len(posted[q]) >= Len(posted[r])
         /\ RootOf(q, program[entered[r]]) = RootOf(r, program[entered[r]])
<1> DEFINE k == entered[r]
           m == Len(posted[r])
<1>1. Typed /\ Local(q) /\ Local(r)
  BY DEF IInv
<1>2. /\ k \in 1 .. MaxCalls
      /\ program[k] \in Calls
      /\ pc[r] = "data" => m = Offset(k) /\ posted[r][m] = DataCall(r, k)
      /\ pc[r] = "sizes" => UnevenCall(k) /\ m = Offset(k) - 1 /\ posted[r][m] = SizesCall(r, k)
      /\ pc[r] \in {"sizes", "data"}
  BY <1>1, WhereItIs DEF Typed
<1>3. Len(posted[q]) >= m /\ posted[q][m].root = posted[r][m].root
  BY DEF Joined, SameCall
<1>4. Sent(q, r) = posted[q][m].send
  BY DEF Sent
<1> HIDE DEF k, m
<1>5. pc[r] = "data" => entered[q] >= k /\ posted[q][m] = DataCall(q, k)
  BY <1>1, <1>2, <1>3, PostedAt
<1>6. pc[r] = "sizes" => entered[q] >= k /\ posted[q][m] = SizesCall(q, k)
  BY <1>1, <1>2, <1>3, PostedAt
<1>7. /\ SizesCall(q, k).send = <<Counted(q, k)>>
      /\ DataCall(q, k).send = Contribution(q, k)
      /\ SizesCall(q, k).root = RootOf(q, program[k]) /\ DataCall(q, k).root = RootOf(q, program[k])
      /\ SizesCall(r, k).root = RootOf(r, program[k]) /\ DataCall(r, k).root = RootOf(r, program[k])
  BY <1>2, MessageFacts
<1>8. CASE pc[r] = "data"
  BY <1>2, <1>3, <1>4, <1>5, <1>7, <1>8 DEF k, m
<1>9. CASE pc[r] = "sizes"
  BY <1>2, <1>3, <1>4, <1>6, <1>7, <1>9 DEF k, m
<1>10. QED
  BY <1>2, <1>8, <1>9

\* A rank that gets a value does not return before all have joined.
LEMMA ReceiversWait ==
  ASSUME IInv, NEW r \in Ranks, pc[r] # "user", Returns(r), Receives(r, entered[r])
  PROVE  Joined(r)
<1> DEFINE k == entered[r]
<1>1. Typed /\ Local(r)
  BY DEF IInv
<1>2. /\ k \in 1 .. MaxCalls
      /\ program[k] \in Calls
      /\ posted[r][Len(posted[r])].root = RootOf(r, program[k])
  <2>1. k \in 1 .. MaxCalls /\ program[k] \in Calls /\ pc[r] \in {"sizes", "data"}
    BY <1>1, WhereItIs DEF Typed
  <2>2. posted[r][Len(posted[r])] \in {SizesCall(r, k), DataCall(r, k)}
    BY <1>1, <2>1, WhereItIs
  <2> HIDE DEF k
  <2>3. SizesCall(r, k).root = RootOf(r, program[k]) /\ DataCall(r, k).root = RootOf(r, program[k])
    BY <2>1, MessageFacts
  <2>4. QED
    BY <2>1, <2>2, <2>3
<1>3. RootOf(r, program[k]) \in {NoRoot, r}
  BY <1>2, RootFacts DEF AmIRoot
<1>4. ~ LetGo(r)
  BY <1>2, <1>3 DEF LetGo, Last
<1>5. QED
  BY <1>4 DEF Returns

\* What the program decides does not change, since the program does not.
LEMMA SameProgram ==
  ASSUME program' = program
  PROVE  /\ \A k : UnevenCall(k)' <=> UnevenCall(k)
         /\ \A k : Offset(k)' = Offset(k)
         /\ \A r, k : SizesCall(r, k)' = SizesCall(r, k) /\ DataCall(r, k)' = DataCall(r, k)
         /\ \A r, k : Receives(r, k)' <=> Receives(r, k)
         /\ \A k : Outcome(k)' = Outcome(k)
         /\ \A r, k : MayFail(r, k)' <=> MayFail(r, k)
         /\ \A r, k : Counted(r, k)' = Counted(r, k)
         /\ \A k : Counts(k)' = Counts(k)
         /\ \A k : Breaks(k)' <=> Breaks(k)
         /\ \A r, k : GatherBufferRefused(r, k)' <=> GatherBufferRefused(r, k)
         /\ Messages' = Messages
         /\ Optionals' = Optionals
<1>1. \A k : UnevenCall(k)' <=> UnevenCall(k)
  BY DEF UnevenCall
<1>2. \A k : Offset(k)' = Offset(k)
  BY DEF Offset, UnevenCall
<1>3. \A r, k : Counted(r, k)' = Counted(r, k)
  BY DEF Counted
<1>4. \A k : Counts(k)' = Counts(k)
  BY DEF Counts, Counted
<1>5. \A r, k : SizesCall(r, k)' = SizesCall(r, k)
  BY DEF SizesCall, MpiCall, RootOf, Counted
<1>6. \A r, k : DataCall(r, k)' = DataCall(r, k)
  BY DEF DataCall, MpiCall, RootOf, Contribution, Counted
<1>7. \A r, k : Receives(r, k)' <=> Receives(r, k)
  BY DEF Receives
<1>8. \A k : Outcome(k)' = Outcome(k)
  BY DEF Outcome, InRankOrder, Reduced, Contribution, Counted
<1>9. \A r, k : MayFail(r, k)' <=> MayFail(r, k)
  <2>1. ASSUME NEW k PROVE Bytes(k)' = Bytes(k)
    BY DEF Bytes, FoldFunction, FoldFunctionOnSet, MapThenFoldSet
  <2>2. \A k : TooBig(k)' <=> TooBig(k)
    BY <2>1 DEF TooBig
  <2>3. QED
    BY <1>3, <1>7, <2>2 DEF MayFail
<1>10. Messages' = Messages
  BY <1>5, <1>6 DEF Messages
<1>11. Optionals' = Optionals
  BY <1>8 DEF Optionals
<1>12. \A k : Breaks(k)' <=> Breaks(k)
  BY <1>1, <1>3, <1>4 DEF Breaks
<1>13. \A r, k : GatherBufferRefused(r, k)' <=> GatherBufferRefused(r, k)
  BY DEF GatherBufferRefused, AmIRoot, RootOf
<1>14. QED
  BY <1>1, <1>2, <1>3, <1>4, <1>5, <1>6, <1>7, <1>8, <1>9, <1>10, <1>11, <1>12, <1>13

\* InStep after a step, in the terms of before it.
LEMMA InStepNext ==
  ASSUME program' = program, NEW r, NEW e, e = entered'[r],
         Len(posted'[r]) = Offset(e) - (IF pc'[r] = "sizes" THEN 1 ELSE 0),
         \A j \in 1 .. e :
           /\ UnevenCall(j) => posted'[r][Offset(j) - 1] = SizesCall(r, j)
           /\ j < e \/ pc'[r] # "sizes" => posted'[r][Offset(j)] = DataCall(r, j)
  PROVE  InStep(r)'
  BY SameProgram DEF InStep

\* A rank that does not move keeps its part of the invariant.
LEMMA LocalUnchanged ==
  ASSUME NEW q \in Ranks, Local(q), program' = program,
         entered'[q] = entered[q], results'[q] = results[q], pc'[q] = pc[q],
         posted'[q] = posted[q], sizes'[q] = sizes[q], total'[q] = total[q],
         q \in failed' <=> q \in failed
  PROVE  Local(q)'
<1> USE SameProgram
<1>1. InTurn(q)'
  BY DEF Local, InTurn
<1>2. InStep(q)'
  BY DEF Local, InStep
<1>3. Accepted(q)'
  BY DEF Local, Accepted
<1>4. LaidOut(q)'
  BY DEF Local, LaidOut
<1>5. Answered(q)'
  BY DEF Local, Answered
<1>6. Excused(q)'
  BY DEF Local, Excused
<1>7. QED
  BY <1>1, <1>2, <1>3, <1>4, <1>5, <1>6 DEF Local

\* What has been posted stays posted.
LEMMA TogetherUnchanged ==
  ASSUME Together, program' = program, results' = results,
         \A q \in Ranks : Len(posted[q]) \in Nat /\ Len(posted'[q]) \in Nat /\ Len(posted[q]) <= Len(posted'[q]),
         \A r \in Ranks : results[r] \in Seq(Optionals)
  PROVE  Together'
<1> SUFFICES ASSUME NEW r \in Ranks, NEW k \in DOMAIN results[r], Receives(r, k), NEW q \in Ranks
             PROVE  Len(posted'[q]) >= Offset(k)
  BY SameProgram DEF Together
<1>1. Len(posted[q]) >= Offset(k)
  BY DEF Together
<1>2. k \in Nat
  <2>1. results[r] \in Seq(Optionals)
    OBVIOUS
  <2>2. QED
    BY <2>1
<1>3. Offset(k) \in Nat
  BY <1>2, OffsetType
<1>4. QED
  BY <1>1, <1>3

-----------------------------------------------------------------------------
(* The steps. *)

\* A rank may stop where bytes do not fit an int.
LEMMA FailStep ==
  ASSUME IInv, NEW r \in Ranks, r \notin failed, Fail(r),
         Len(results[r]) + 1 <= MaxCalls, MayFail(r, Len(results[r]) + 1),
         pc[r] = "data" => Breaks(entered[r])
  PROVE  IInv' /\ CFail(r)
<1>1. Typed /\ (\A q \in Ranks : Local(q)) /\ Together
  BY DEF IInv
<1>2. /\ failed' = failed \cup {r}
      /\ program' = program /\ entered' = entered /\ results' = results /\ pc' = pc
      /\ posted' = posted /\ sizes' = sizes /\ total' = total
  BY DEF Fail
<1>3. Typed'
  BY <1>1, <1>2, SameProgram DEF Typed
<1>4. Local(r)'
  <2>1. InTurn(r)'
    BY <1>1, <1>2, SameProgram DEF Local, InTurn
  <2>2. InStep(r)'
    BY <1>1, <1>2, SameProgram DEF Local, InStep
  <2>3. Accepted(r)'
    BY <1>1, <1>2, SameProgram DEF Local, Accepted
  <2>4. LaidOut(r)'
    BY <1>1, <1>2, SameProgram DEF Local, LaidOut
  <2>5. Answered(r)'
    BY <1>1, <1>2, SameProgram DEF Local, Answered
  <2>6. Excused(r)'
    BY <1>2, SameProgram DEF Excused
  <2>7. QED
    BY <2>1, <2>2, <2>3, <2>4, <2>5, <2>6 DEF Local
<1>5. ASSUME NEW q \in Ranks, q # r PROVE Local(q)'
  BY <1>1, <1>2, <1>5, LocalUnchanged
<1>6. CFail(r)
  BY <1>2 DEF CFail
<1>7. Together'
  BY <1>1, <1>2, SameProgram DEF Together
<1>8. QED
  BY <1>3, <1>4, <1>5, <1>6, <1>7 DEF IInv

\* A rank posts the first MPI call of its next call.
LEMMA EnterStep ==
  ASSUME IInv, NEW r \in Ranks, NEW k, k = entered[r] + 1, Ready(r, k),
         NEW fn, NEW all, NEW send, NEW at, Enter(r, fn, all, send, at),
         \/ at = "sizes" /\ UnevenCall(k) /\ MpiCall(r, k, fn, all, send) = SizesCall(r, k)
         \/ /\ at = "data" /\ ~UnevenCall(k) /\ MpiCall(r, k, fn, all, send) = DataCall(r, k)
            /\ Counted(r, k) >= 0 /\ ~GatherBufferRefused(r, k)
  PROVE  IInv' /\ CEnter(r)
<1> DEFINE m == MpiCall(r, k, fn, all, send)
<1>1. Typed /\ (\A q \in Ranks : Local(q)) /\ Together
  BY DEF IInv
<1>2. /\ entered' = [entered EXCEPT ![r] = k]
      /\ posted' = [posted EXCEPT ![r] = Append(posted[r], m)]
      /\ pc' = [pc EXCEPT ![r] = at]
      /\ program' = program /\ results' = results /\ failed' = failed
      /\ sizes' = sizes /\ total' = total
  BY DEF Enter, Post, MpiCall
<1>3. r \notin failed /\ pc[r] = "user" /\ k <= MaxCalls
  BY DEF Ready
<1>4. k \in 1 .. MaxCalls /\ k \in Nat \ {0} /\ entered[r] \in Nat /\ entered[r] = k - 1
  BY <1>1, <1>3, CollectivesAssumption DEF Typed
<1>5. Len(results[r]) = k - 1
  <2>1. entered[r] = Len(results[r])
    <3>1. entered[r] = Len(results[r]) + 0
      BY <1>1, <1>3 DEF Local, InTurn
    <3>2. Len(results[r]) \in Nat
      <4>1. results[r] \in Seq(Optionals)
        BY <1>1 DEF Typed
      <4>2. QED
        BY <4>1
    <3>3. QED
      BY <3>1, <3>2
  <2>2. QED
    BY <1>4, <2>1
<1>6. m \in Messages
  BY <1>4 DEF Messages
<1>7. posted[r] \in Seq(Messages) /\ Len(posted[r]) \in Nat /\ Len(posted[r]) = Offset(k - 1)
  <2>1. posted[r] \in Seq(Messages)
    BY <1>1 DEF Typed
  <2>2. Len(posted[r]) = Offset(k - 1) - 0
    BY <1>1, <1>3, <1>4 DEF Local, InStep
  <2>3. Len(posted[r]) \in Nat /\ Offset(k - 1) \in Nat
    <3>1. k - 1 \in Nat
      BY <1>4
    <3>2. Offset(k - 1) \in Nat
      BY <3>1, OffsetType
    <3>3. QED
      BY <2>1, <3>2
  <2>4. QED
    BY <2>1, <2>2, <2>3
<1> HIDE DEF m
<1>8. Typed'
  <2>1. Append(posted[r], m) \in Seq(Messages)
    BY <1>6, <1>7
  <2>2. posted' \in [Ranks -> Seq(Messages)]
    BY <1>1, <1>2, <2>1 DEF Typed
  <2>3. entered' \in [Ranks -> 0 .. MaxCalls]
    BY <1>1, <1>2, <1>4 DEF Typed
  <2>4. pc' \in [Ranks -> {"user", "sizes", "data"}]
    BY <1>1, <1>2 DEF Typed
  <2>5. QED
    BY <1>1, <1>2, <2>2, <2>3, <2>4, SameProgram DEF Typed
<1>9. entered'[r] = k /\ posted'[r] = Append(posted[r], m) /\ pc'[r] = at
  BY <1>1, <1>2 DEF Typed
<1>10. Local(r)'
  <2>1. InTurn(r)'
    BY <1>2, <1>4, <1>5, <1>9, SameProgram DEF InTurn
  <2>2. Offset(k) = Offset(k - 1) + (IF UnevenCall(k) THEN 2 ELSE 1) /\ Offset(k - 1) \in Nat
    BY <1>4, OffsetStep, OffsetType
  <2>3. Len(posted'[r]) = Len(posted[r]) + 1
    BY <1>6, <1>7, <1>9
  <2>4. posted'[r][Len(posted[r]) + 1] = m /\ \A i \in 1 .. Len(posted[r]) : posted'[r][i] = posted[r][i]
    BY <1>6, <1>7, <1>9
  <2>5. ASSUME NEW j \in 1 .. k - 1
        PROVE  /\ UnevenCall(j) => posted'[r][Offset(j) - 1] = SizesCall(r, j)
               /\ posted'[r][Offset(j)] = DataCall(r, j)
    <3>1. /\ UnevenCall(j) => posted[r][Offset(j) - 1] = SizesCall(r, j)
          /\ posted[r][Offset(j)] = DataCall(r, j)
      BY <1>1, <1>3, <1>4 DEF Local, InStep
    <3>2. j \in Nat \ {0} /\ j - 1 \in Nat /\ j <= k - 1 /\ k - 1 \in Nat
      BY <1>4
    <3>3. Offset(j) = Offset(j - 1) + (IF UnevenCall(j) THEN 2 ELSE 1)
      BY <3>2, OffsetStep
    <3>4. Offset(j - 1) \in Nat /\ Offset(j) <= Offset(k - 1)
      BY <3>2, OffsetType, OffsetMonotone
    <3>5. Offset(j) \in 1 .. Len(posted[r]) /\ (UnevenCall(j) => Offset(j) - 1 \in 1 .. Len(posted[r]))
      BY <1>7, <3>3, <3>4
    <3>6. QED
      BY <2>4, <3>1, <3>5
  <2>6. Answered(r)' /\ Excused(r)'
    <3>1. Answered(r) /\ results'[r] = results[r] /\ r \notin failed'
      BY <1>1, <1>2, <1>3 DEF Local
    <3>2. Answered(r)'
      BY <1>2, <3>1, SameProgram DEF Answered
    <3>3. QED
      BY <3>1, <3>2 DEF Excused
  <2>7. CASE at = "sizes" /\ UnevenCall(k) /\ m = SizesCall(r, k)
    <3>1. Len(posted'[r]) = Offset(k) - 1 /\ posted'[r][Offset(k) - 1] = SizesCall(r, k)
      BY <1>7, <2>2, <2>3, <2>4, <2>7
    <3>2. InStep(r)'
      <4>1. \A j \in 1 .. k : j = k \/ j \in 1 .. k - 1
        BY <1>4
      <4>2. ASSUME NEW j \in 1 .. k
            PROVE  /\ UnevenCall(j) => posted'[r][Offset(j) - 1] = SizesCall(r, j)
                   /\ j < k => posted'[r][Offset(j)] = DataCall(r, j)
        BY <2>5, <3>1, <4>1
      <4>3. pc'[r] = "sizes" /\ entered'[r] = k
        BY <1>9, <2>7
      <4>4. QED
        BY <3>1, <4>2, <4>3, <1>2, InStepNext
    <3>3. LaidOut(r)' /\ Accepted(r)'
      BY <1>2, <1>9, <2>7, SameProgram DEF LaidOut, Accepted
    <3>4. QED
      BY <2>1, <2>6, <3>2, <3>3 DEF Local
  <2>8. CASE /\ at = "data" /\ ~UnevenCall(k) /\ m = DataCall(r, k)
             /\ Counted(r, k) >= 0 /\ ~GatherBufferRefused(r, k)
    <3>1. Len(posted'[r]) = Offset(k) /\ posted'[r][Offset(k)] = DataCall(r, k)
      BY <1>7, <2>2, <2>3, <2>4, <2>8
    <3>2. InStep(r)'
      <4>1. \A j \in 1 .. k : j = k \/ j \in 1 .. k - 1
        BY <1>4
      <4>2. ASSUME NEW j \in 1 .. k
            PROVE  /\ UnevenCall(j) => posted'[r][Offset(j) - 1] = SizesCall(r, j)
                   /\ posted'[r][Offset(j)] = DataCall(r, j)
        BY <2>5, <2>8, <3>1, <4>1
      <4>3. pc'[r] = "data" /\ entered'[r] = k /\ Len(posted'[r]) = Offset(k) - 0
        BY <1>9, <2>2, <2>8, <3>1
      <4>4. QED
        BY <4>2, <4>3, <1>2, InStepNext
    <3>3. LaidOut(r)' /\ Accepted(r)'
      BY <1>2, <1>9, <2>8, SameProgram DEF LaidOut, Accepted
    <3>4. QED
      BY <2>1, <2>6, <3>2, <3>3 DEF Local
  <2>9. QED
    BY <2>7, <2>8 DEF m
<1>11. ASSUME NEW q \in Ranks, q # r PROVE Local(q)'
  BY <1>1, <1>2, <1>11, LocalUnchanged DEF Typed
<1>12. CEnter(r)
  BY <1>2, <1>3, <1>4, <1>5, CollectivesAssumption DEF CEnter
<1>13. Together'
  <2>1. \A q \in Ranks : Len(posted[q]) \in Nat
    BY <1>1, PostedLength
  <2>2. posted'[r] = Append(posted[r], m) /\ \A q \in Ranks \ {r} : posted'[q] = posted[q]
    BY <1>1, <1>2, <1>9 DEF Typed
  <2>3. Len(posted'[r]) = Len(posted[r]) + 1
    BY <1>6, <1>7, <2>2
  <2>4. \A q \in Ranks : Len(posted'[q]) \in Nat /\ Len(posted[q]) <= Len(posted'[q])
    BY <2>1, <2>2, <2>3
  <2>5. QED
    BY <1>1, <1>2, <2>1, <2>4, TogetherUnchanged DEF Typed
<1>14. QED
  BY <1>8, <1>10, <1>11, <1>12, <1>13 DEF IInv

\* A gatherv goes on to its data: nothing the program could see.
LEMMA PostDataStep ==
  ASSUME IInv, NEW r \in Ranks, r \notin failed, pc[r] = "sizes",
         NEW s \in [Ranks -> 0 .. MaxInt], NEW t \in 0 .. MaxInt, PostData(r, s, t),
         Counted(r, entered[r]) >= 0,
         Receives(r, entered[r]) =>
           /\ \A q \in Ranks : Counted(q, entered[r]) >= 0
           /\ s = Counts(entered[r]) /\ t = Total(Counts(entered[r]))
  PROVE  IInv' /\ UNCHANGED cvars
<1> DEFINE k == entered[r]
           m == DataCall(r, k)
<1>1. Typed /\ (\A q \in Ranks : Local(q)) /\ Together
  BY DEF IInv
<1>2. /\ k \in 1 .. MaxCalls
      /\ program[k] \in Calls
      /\ UnevenCall(k)
      /\ Len(posted[r]) = Offset(k) - 1
      /\ Len(results[r]) = k - 1
  BY <1>1, WhereItIs
<1>3. m = MpiCall(r, k, "MPI_Gatherv", "MPI_Allgatherv", Contribution(r, k))
  <2>1. program[k].op # "reduce" /\ program[k].op \notin {"gather_object", "gather_array"}
    BY <1>2 DEF UnevenCall, Uneven
  <2>2. QED
    BY <1>2, <2>1 DEF DataCall, UnevenCall
<1>4. /\ posted' = [posted EXCEPT ![r] = Append(posted[r], m)]
      /\ pc' = [pc EXCEPT ![r] = "data"]
      /\ sizes' = [sizes EXCEPT ![r] = s]
      /\ total' = [total EXCEPT ![r] = t]
      /\ program' = program /\ entered' = entered /\ results' = results /\ failed' = failed
  BY <1>3 DEF PostData, Post, MpiCall
<1>5. m \in Messages /\ posted[r] \in Seq(Messages) /\ Len(posted[r]) \in Nat
  <2>1. m \in Messages
    BY <1>2 DEF Messages
  <2>2. posted[r] \in Seq(Messages)
    BY <1>1 DEF Typed
  <2>3. QED
    BY <2>1, <2>2
<1> HIDE DEF m
<1>6. Typed'
  <2>1. Append(posted[r], m) \in Seq(Messages)
    BY <1>5
  <2>2. posted' \in [Ranks -> Seq(Messages)]
    BY <1>1, <1>4, <2>1 DEF Typed
  <2>3. pc' \in [Ranks -> {"user", "sizes", "data"}]
    BY <1>1, <1>4 DEF Typed
  <2>4. sizes' \in [Ranks -> [Ranks -> 0 .. MaxInt]] /\ total' \in [Ranks -> 0 .. MaxInt]
    BY <1>1, <1>4 DEF Typed
  <2>5. QED
    BY <1>1, <1>4, <2>2, <2>3, <2>4, SameProgram DEF Typed
<1>7. /\ posted'[r] = Append(posted[r], m)
      /\ pc'[r] = "data" /\ sizes'[r] = s /\ total'[r] = t
  BY <1>1, <1>4 DEF Typed
<1>8. Local(r)'
  <2>1. InTurn(r)'
    <3>1. k = Len(results[r]) + 1
      BY <1>1 DEF Local, InTurn
    <3>2. QED
      BY <1>4, <1>7, <3>1 DEF InTurn
  <2>2. Len(posted'[r]) = Offset(k) /\ posted'[r][Offset(k)] = m
        /\ \A i \in 1 .. Offset(k) - 1 : posted'[r][i] = posted[r][i]
    <3> DEFINE n == Len(posted[r])
    <3>1. Len(posted'[r]) = n + 1 /\ posted'[r][n + 1] = m /\ \A i \in 1 .. n : posted'[r][i] = posted[r][i]
      BY <1>5, <1>7
    <3>2. Offset(k) \in Nat
      <4>1. k \in Nat
        BY <1>2
      <4>2. QED
        BY <4>1, OffsetType
    <3>3. n = Offset(k) - 1 /\ n + 1 = Offset(k)
      BY <1>2, <3>2
    <3> HIDE DEF n
    <3>4. QED
      BY <3>1, <3>3
  <2>3. ASSUME NEW j \in 1 .. k
        PROVE  /\ UnevenCall(j) => posted'[r][Offset(j) - 1] = SizesCall(r, j)
               /\ posted'[r][Offset(j)] = DataCall(r, j)
    <3>1. /\ UnevenCall(j) => posted[r][Offset(j) - 1] = SizesCall(r, j)
          /\ j < k => posted[r][Offset(j)] = DataCall(r, j)
      BY <1>1 DEF Local, InStep
    <3>2. k \in Nat \ {0} /\ j \in Nat \ {0} /\ j - 1 \in Nat /\ k - 1 \in Nat /\ j <= k
      BY <1>2
    <3>3. /\ Offset(j) = Offset(j - 1) + (IF UnevenCall(j) THEN 2 ELSE 1)
          /\ Offset(k) = Offset(k - 1) + (IF UnevenCall(k) THEN 2 ELSE 1)
      BY <3>2, OffsetStep
    <3>4. Offset(j - 1) \in Nat /\ Offset(k - 1) \in Nat
      BY <3>2, OffsetType
    <3>5. Offset(j) <= Offset(k) /\ (j < k => Offset(j) <= Offset(k - 1))
      BY <3>2, OffsetMonotone
    <3>6. /\ UnevenCall(j) => Offset(j) - 1 \in 1 .. Offset(k) - 1
          /\ j < k => Offset(j) \in 1 .. Offset(k) - 1
      BY <1>2, <3>3, <3>4, <3>5
    <3>7. CASE j = k
      BY <1>2, <2>2, <3>1, <3>6, <3>7 DEF m
    <3>8. CASE j < k
      BY <2>2, <3>1, <3>6, <3>8
    <3>9. QED
      BY <3>2, <3>7, <3>8
  <2>4. InStep(r)'
    <3>1. Offset(k) = Offset(k) - 0
      <4>1. k \in Nat
        BY <1>2
      <4>2. Offset(k) \in Nat
        BY <4>1, OffsetType
      <4>3. QED
        BY <4>2
    <3>2. entered'[r] = k /\ Len(posted'[r]) = Offset(k) - (IF pc'[r] = "sizes" THEN 1 ELSE 0)
      BY <1>4, <1>7, <2>2, <3>1
    <3> HIDE DEF k
    <3>3. QED
      BY <1>4, <2>3, <3>2, InStepNext
  <2>5. LaidOut(r)'
    BY <1>4, <1>7, SameProgram DEF LaidOut
  <2>6. Accepted(r)'
    <3>1. ~GatherBufferRefused(r, k)
      BY <1>2 DEF GatherBufferRefused, UnevenCall, Uneven
    <3>2. QED
      BY <1>4, <1>7, <3>1, SameProgram DEF Accepted
  <2>7. Excused(r)'
    BY <1>4 DEF Excused
  <2>8. QED
    BY <1>1, <1>4, <2>1, <2>4, <2>5, <2>6, <2>7, SameProgram DEF Local, Answered
<1>9. ASSUME NEW q \in Ranks, q # r PROVE Local(q)'
  BY <1>1, <1>4, <1>9, LocalUnchanged DEF Typed
<1>10. Together'
  <2>1. \A q \in Ranks : Len(posted[q]) \in Nat
    BY <1>1, PostedLength
  <2>2. \A q \in Ranks \ {r} : posted'[q] = posted[q]
    BY <1>1, <1>4 DEF Typed
  <2>3. Len(posted'[r]) = Len(posted[r]) + 1
    BY <1>5, <1>7
  <2>4. \A q \in Ranks : Len(posted'[q]) \in Nat /\ Len(posted[q]) <= Len(posted'[q])
    BY <2>1, <2>2, <2>3
  <2>5. QED
    BY <1>1, <1>4, <2>1, <2>4, TogetherUnchanged DEF Typed
<1>11. QED
  BY <1>4, <1>6, <1>8, <1>9, <1>10 DEF IInv, cvars

\* Rank r returns with an answer that is right.
LEMMA AnswerStep ==
  ASSUME IInv, NEW r \in Ranks, r \notin failed, pc[r] = "data", NEW answer,
         answer = IF Receives(r, entered[r]) THEN {Outcome(entered[r])} ELSE {},
         N > 1 => program[entered[r]].root # Mine,
         Receives(r, entered[r]) => Joined(r) /\ ~Breaks(entered[r]),
         results' = [results EXCEPT ![r] = Append(@, answer)],
         pc'    = [pc    EXCEPT ![r] = "user"],
         sizes' = [sizes EXCEPT ![r] = NoSizes],
         total' = [total EXCEPT ![r] = 0],
         UNCHANGED <<program, entered, failed, posted>>
  PROVE  IInv' /\ CReturn(r)
<1> DEFINE k == entered[r]
<1>1. Typed /\ (\A q \in Ranks : Local(q)) /\ Together
  BY DEF IInv
<1>2. /\ k \in 1 .. MaxCalls
      /\ program[k] \in Calls
      /\ Len(results[r]) = k - 1
      /\ k = Len(results[r]) + 1
  <2>1. k \in 1 .. MaxCalls /\ program[k] \in Calls /\ Len(results[r]) = k - 1
    BY <1>1, WhereItIs
  <2>2. QED
    BY <2>1
<1>3. results[r] \in Seq(Optionals) /\ answer \in Optionals
  <2>1. results[r] \in Seq(Optionals)
    BY <1>1 DEF Typed
  <2>2. answer \in Optionals
    BY <1>2 DEF Optionals
  <2>3. QED
    BY <2>1, <2>2
<1>4. MaxInt \in Nat /\ NoSizes \in [Ranks -> 0 .. MaxInt]
  BY CollectivesAssumption DEF NoSizes
<1>5. Typed'
  <2>1. Append(results[r], answer) \in Seq(Optionals)
    BY <1>3
  <2>2. results' \in [Ranks -> Seq(Optionals)]
    BY <1>1, <2>1 DEF Typed
  <2>3. pc' \in [Ranks -> {"user", "sizes", "data"}]
    BY <1>1 DEF Typed
  <2>4. sizes' \in [Ranks -> [Ranks -> 0 .. MaxInt]] /\ total' \in [Ranks -> 0 .. MaxInt]
    BY <1>1, <1>4 DEF Typed
  <2>5. QED
    BY <1>1, <2>2, <2>3, <2>4, SameProgram DEF Typed
<1>6. results'[r] = Append(results[r], answer) /\ pc'[r] = "user"
  BY <1>1 DEF Typed
<1>7. /\ Len(results'[r]) = k
      /\ DOMAIN results'[r] = 1 .. k /\ DOMAIN results[r] = 1 .. k - 1
      /\ results'[r][k] = answer
      /\ \A j \in 1 .. k - 1 : results'[r][j] = results[r][j]
  <2> HIDE DEF k
  <2>1. k \in Nat
    BY <1>2
  <2>2. QED
    BY <1>2, <1>3, <1>6, <2>1
<1>8. Local(r)'
  <2>1. InTurn(r)'
    <3>1. k = k + 0
      BY <1>2
    <3>2. QED
      BY <1>6, <1>7, <3>1 DEF InTurn
  <2>2. InStep(r)'
    BY <1>1, <1>6, SameProgram DEF Local, InStep
  <2>3. LaidOut(r)' /\ Accepted(r)'
    BY <1>6 DEF LaidOut, Accepted
  <2>4. Answered(r)'
    <3>1. ASSUME NEW j \in 1 .. k
          PROVE  /\ results'[r][j] = IF Receives(r, j) THEN {Outcome(j)} ELSE {}
                 /\ Receives(r, j) => ~Breaks(j)
                 /\ N > 1 => program[j].root # Mine
      <4>1. CASE j = k
        BY <1>7, <4>1
      <4>2. CASE j \in 1 .. k - 1
        BY <1>1, <1>7, <4>2 DEF Local, Answered
      <4>3. QED
        BY <1>2, <4>1, <4>2
    <3>2. QED
      BY <1>7, <3>1, SameProgram DEF Answered
  <2>5. Excused(r)'
    BY DEF Excused
  <2>6. QED
    BY <2>1, <2>2, <2>3, <2>4, <2>5 DEF Local
<1>9. ASSUME NEW q \in Ranks, q # r PROVE Local(q)'
  BY <1>1, <1>9, LocalUnchanged DEF Typed
<1>10. CReturn(r)
  <2>1. Receives(r, k) => \A q \in Ranks : entered[q] >= k
    BY JoinedFacts
  <2>2. QED
    BY <1>2, <2>1 DEF CReturn
<1>11. Together'
  <2>1. posted' = posted
    OBVIOUS
  <2>2. Len(posted[r]) = Offset(k)
    BY <1>1, WhereItIs
  <2>3. Receives(r, k) => \A q \in Ranks : Len(posted[q]) >= Offset(k)
    BY <2>2, JoinedFacts
  <2>4. ASSUME NEW p \in Ranks, NEW j \in DOMAIN results'[p], Receives(p, j), NEW q \in Ranks
        PROVE  Len(posted[q]) >= Offset(j)
    <3>1. CASE p = r /\ j = k
      BY <2>3, <2>4, <3>1
    <3>2. CASE p = r /\ j # k
      <4>1. j \in DOMAIN results[r]
        BY <1>7, <1>2, <3>2
      <4>2. QED
        BY <1>1, <2>4, <3>2, <4>1 DEF Together
    <3>3. CASE p # r
      <4>1. results'[p] = results[p]
        BY <1>1, <3>3 DEF Typed
      <4>2. QED
        BY <1>1, <2>4, <4>1 DEF Together
    <3>4. QED
      BY <3>1, <3>2, <3>3
  <2>5. QED
    BY <2>1, <2>4, SameProgram DEF Together
<1>12. QED
  BY <1>5, <1>8, <1>9, <1>10, <1>11 DEF IInv

\* A rank that is ready enters the call after its last result.
LEMMA ReadyFacts ==
  ASSUME IInv, NEW r \in Ranks, NEW k, k = entered[r] + 1, Ready(r, k)
  PROVE  k \in 1 .. MaxCalls /\ program[k] \in Calls /\ k = Len(results[r]) + 1 /\ r \notin failed
<1>1. Typed /\ Local(r)
  BY DEF IInv
<1>2. r \notin failed /\ pc[r] = "user" /\ k <= MaxCalls /\ entered[r] \in Nat
  BY <1>1, CollectivesAssumption DEF Ready, Typed
<1>3. k \in 1 .. MaxCalls
  BY <1>2, CollectivesAssumption
<1>4. entered[r] = Len(results[r]) + 0
  BY <1>1, <1>2 DEF Local, InTurn
<1>5. Len(results[r]) \in Nat
  <2>1. results[r] \in Seq(Optionals)
    BY <1>1 DEF Typed
  <2>2. QED
    BY <2>1
<1>6. QED
  BY <1>1, <1>2, <1>3, <1>4, <1>5 DEF Typed

\* A negative count of its own bytes may stop any rank.
LEMMA NegativeCount ==
  ASSUME NEW r \in Ranks, NEW k, Counted(r, k) < 0
  PROVE  MayFail(r, k)
  BY DEF MayFail

\* gather: the root may find that its buffer's size does not fit an int.
LEMMA GatherStep ==
  ASSUME IInv, NEW r \in Ranks, Gather(r)
  PROVE  IInv' /\ (CEnter(r) \/ CFail(r))
<1> DEFINE k == entered[r] + 1
<1>1. /\ Ready(r, k)
      /\ program[k].op \in {"gather_object", "gather_array"}
      /\ GatherBufferRefused(r, k) \/ Counted(r, k) < 0 => Fail(r)
      /\ ~ (GatherBufferRefused(r, k) \/ Counted(r, k) < 0) =>
           Enter(r, "MPI_Gather", "MPI_Allgather", Contribution(r, k), "data")
  BY DEF Gather
<1>2. k \in 1 .. MaxCalls /\ program[k] \in Calls /\ k = Len(results[r]) + 1 /\ r \notin failed
  BY <1>1, ReadyFacts
<1>3. k = entered[r] + 1 /\ pc[r] = "user"
  BY <1>1 DEF Ready
<1> HIDE DEF k
<1>4. ~UnevenCall(k) /\ program[k].op \notin Uneven /\ program[k].op # "reduce"
  BY <1>1 DEF UnevenCall, Uneven
<1>5. Counted(r, k) \in Int /\ k <= MaxCalls
  BY <1>2, CountFacts
<1>6. CASE GatherBufferRefused(r, k)
  <2> DEFINE s == program[k].len
             b == N * s[r]
  <2>1. Receives(r, k) /\ ToInt(b) < b /\ program[k].op = "gather_object"
    BY <1>2, <1>6, RootFacts DEF GatherBufferRefused
  <2>2. s \in [Ranks -> Nat] /\ \A q \in Ranks : s[q] = s[r]
    BY <1>2, <1>4, CallType
  <2>3. s[r] \in Nat
    BY <2>2
  <2> HIDE DEF s
  <2>4. End(s) = b
    BY <2>2, <2>3, EvenEnd
  <2>5. b \in Nat
    BY <2>3, RankFacts
  <2> HIDE DEF b
  <2>6. b > MaxInt
    <3>1. MaxInt \in Nat /\ b \in Int /\ b >= -(MaxInt + 1)
      BY <2>5, CollectivesAssumption
    <3>2. b <= MaxInt => ToInt(b) = b
      BY <3>1, IntFacts
    <3>3. QED
      BY <2>1, <3>1, <3>2
  <2>7. Bytes(k) = b
    BY <1>2, <2>4, BytesIsEnd DEF s
  <2>8. MayFail(r, k)
    BY <2>1, <2>6, <2>7 DEF TooBig, MayFail
  <2>9. QED
    BY <1>1, <1>2, <1>3, <1>5, <1>6, <2>8, FailStep
<1>7. CASE Counted(r, k) < 0
  BY <1>1, <1>2, <1>3, <1>5, <1>7, NegativeCount, FailStep
<1>8. CASE ~GatherBufferRefused(r, k) /\ ~ (Counted(r, k) < 0)
  <2>1. MpiCall(r, k, "MPI_Gather", "MPI_Allgather", Contribution(r, k)) = DataCall(r, k)
    BY <1>1, <1>4 DEF DataCall
  <2>2. Counted(r, k) >= 0
    BY <1>5, <1>8
  <2>3. QED
    BY <1>1, <1>3, <1>4, <1>8, <2>1, <2>2, EnterStep
<1>9. QED
  BY <1>6, <1>7, <1>8

\* gatherv, step 0.
LEMMA GathervStep ==
  ASSUME IInv, NEW r \in Ranks, Gatherv(r)
  PROVE  IInv' /\ CEnter(r)
<1> DEFINE k == entered[r] + 1
<1>1. /\ Ready(r, k)
      /\ UnevenCall(k)
      /\ Enter(r, "MPI_Gather", "MPI_Allgather", <<Counted(r, k)>>, "sizes")
  BY DEF Gatherv, UnevenCall
<1>2. k = entered[r] + 1
  OBVIOUS
<1> HIDE DEF k
<1>3. MpiCall(r, k, "MPI_Gather", "MPI_Allgather", <<Counted(r, k)>>) = SizesCall(r, k)
  BY DEF SizesCall
<1>4. QED
  BY <1>1, <1>2, <1>3, EnterStep

\* reduce.
LEMMA ReduceStep ==
  ASSUME IInv, NEW r \in Ranks, Reduce(r)
  PROVE  IInv' /\ (CEnter(r) \/ CFail(r))
<1> DEFINE k == entered[r] + 1
<1>1. /\ Ready(r, k)
      /\ program[k].op = "reduce"
      /\ Counted(r, k) < 0 => Fail(r)
      /\ ~ (Counted(r, k) < 0) =>
           Enter(r, "MPI_Reduce", "MPI_Allreduce", Contribution(r, k), "data")
  BY DEF Reduce
<1>2. k \in 1 .. MaxCalls /\ program[k] \in Calls /\ k = Len(results[r]) + 1 /\ r \notin failed
  BY <1>1, ReadyFacts
<1>3. k = entered[r] + 1 /\ pc[r] = "user"
  BY <1>1 DEF Ready
<1> HIDE DEF k
<1>4. ~UnevenCall(k) /\ program[k].op \notin Uneven /\ program[k].op \notin {"gather_object", "gather_array"}
  BY <1>1 DEF UnevenCall, Uneven
<1>5. Counted(r, k) \in Int /\ k <= MaxCalls
  BY <1>2, CountFacts
<1>6. CASE Counted(r, k) < 0
  BY <1>1, <1>2, <1>3, <1>5, <1>6, NegativeCount, FailStep
<1>7. CASE ~ (Counted(r, k) < 0)
  <2>1. MpiCall(r, k, "MPI_Reduce", "MPI_Allreduce", Contribution(r, k)) = DataCall(r, k)
    BY <1>1, <1>4 DEF DataCall
  <2>2. Counted(r, k) >= 0 /\ ~GatherBufferRefused(r, k)
    BY <1>4, <1>5, <1>7 DEF GatherBufferRefused
  <2>3. QED
    BY <1>1, <1>3, <1>4, <1>7, <2>1, <2>2, EnterStep
<1>8. QED
  BY <1>6, <1>7

\* gatherv, step 1: the sizes that the root received are the right ones.
LEMMA SizesStep ==
  ASSUME IInv, NEW r \in Ranks, SizesReturned(r)
  PROVE  IInv' /\ (UNCHANGED cvars \/ CFail(r))
<1> DEFINE k == entered[r]
           c == program[k]
           s == [q \in Ranks |-> Sent(q, r)[1]]
<1>1. /\ r \notin failed /\ pc[r] = "sizes" /\ Returns(r)
      /\ BadSizes(r, s) => Fail(r)
      /\ ~BadSizes(r, s) /\ ~AmIRoot(r, c) => PostData(r, NoSizes, 0)
      /\ ~BadSizes(r, s) /\ AmIRoot(r, c) => PostData(r, s, Total(s))
  BY DEF SizesReturned
<1>2. BadSizes(r, s) <=> IF AmIRoot(r, c) THEN Total(s) < 0 \/ \E q \in Ranks : s[q] < 0
                                          ELSE Counted(r, k) < 0
  BY DEF BadSizes
<1>3. Typed /\ Local(r)
  BY DEF IInv
<1>4. /\ k \in 1 .. MaxCalls /\ c \in Calls /\ UnevenCall(k)
      /\ Len(results[r]) = k - 1
      /\ k = Len(results[r]) + 1 /\ k <= MaxCalls
  <2>1. k \in 1 .. MaxCalls /\ c \in Calls /\ UnevenCall(k) /\ Len(results[r]) = k - 1
    BY <1>1, <1>3, WhereItIs
  <2>2. QED
    BY <2>1
<1>5. AmIRoot(r, c) <=> Receives(r, k)
  BY <1>4, RootFacts
<1>6. MaxInt \in Nat
  BY CollectivesAssumption
<1>7. \A q \in Ranks : Counted(q, k) \in Int
  BY <1>4, CountFacts
<1>8. CASE ~AmIRoot(r, c)
  <2>1. CASE Counted(r, k) < 0
    <3>1. MayFail(r, k)
      BY <2>1, NegativeCount
    <3>2. Fail(r)
      BY <1>1, <1>2, <1>8, <2>1
    <3>3. QED
      BY <1>1, <1>4, <3>1, <3>2, FailStep
  <2>2. CASE ~ (Counted(r, k) < 0)
    <3>1. NoSizes \in [Ranks -> 0 .. MaxInt] /\ 0 \in 0 .. MaxInt
      BY <1>6 DEF NoSizes
    <3>2. Counted(r, k) >= 0
      BY <1>7, <2>2
    <3>3. PostData(r, NoSizes, 0) /\ ~Receives(r, k)
      BY <1>1, <1>2, <1>5, <1>8, <2>2
    <3>4. QED
      BY <1>1, <3>1, <3>2, <3>3, PostDataStep
  <2>3. QED
    BY <2>1, <2>2
<1>9. CASE AmIRoot(r, c)
  <2>1. Joined(r)
    BY <1>1, <1>5, <1>9, ReceiversWait
  <2>2. s = Counts(k)
    <3>1. ASSUME NEW q \in Ranks PROVE Sent(q, r)[1] = Counted(q, k)
      <4>1. Sent(q, r) = <<Counted(q, k)>>
        BY <1>1, <2>1, JoinedFacts
      <4>2. QED
        BY <4>1
    <3>2. QED
      BY <3>1 DEF Counts
  <2>3. \A q \in Ranks : s[q] = Counted(q, k)
    BY <2>2 DEF Counts
  <2> HIDE DEF s, c
  <2>4. TooBig(k) <=> Bytes(k) > MaxInt
    BY <1>4 DEF TooBig, UnevenCall, Uneven
  <2>5. ASSUME TooBig(k), BadSizes(r, s) PROVE IInv' /\ CFail(r)
    <3>1. MayFail(r, k)
      BY <1>5, <1>9, <2>5 DEF MayFail
    <3>2. QED
      BY <1>1, <1>4, <2>5, <3>1, FailStep
  <2>6. CASE \E q \in Ranks : Counted(q, k) < 0
    <3>1. PICK q \in Ranks : Counted(q, k) < 0
      BY <2>6
    <3>2. /\ program[k].len[q] <= MaxInt => Counted(q, k) = program[k].len[q]
          /\ program[k].len[q] \in Nat /\ program[k].len[q] <= Bytes(k) /\ Bytes(k) \in Nat
      BY <1>4, CountFacts DEF c
    <3>3. Bytes(k) > MaxInt
      BY <1>6, <3>1, <3>2
    <3>4. BadSizes(r, s)
      BY <1>2, <1>9, <2>3, <3>1
    <3>5. QED
      BY <2>4, <2>5, <3>3, <3>4
  <2>7. CASE ~ \E q \in Ranks : Counted(q, k) < 0
    <3>1. \A q \in Ranks : Counted(q, k) >= 0
      BY <1>7, <2>7
    <3>2. s \in [Ranks -> 0 .. MaxInt] /\ s \in [Ranks -> Nat] /\ End(s) <= Bytes(k) /\ Bytes(k) \in Nat
      BY <1>4, <2>2, <3>1, CountsFacts, CountFacts DEF c
    <3>3. /\ Total(s) \in -(MaxInt + 1) .. MaxInt
          /\ End(s) <= MaxInt => Total(s) = End(s)
          /\ End(s) \in Nat
      BY <3>2, TotalFacts, SlicesFit
    <3>4. CASE Total(s) < 0
      <4>1. Bytes(k) > MaxInt
        BY <1>6, <3>2, <3>3, <3>4
      <4>2. BadSizes(r, s)
        BY <1>2, <1>9, <3>4
      <4>3. QED
        BY <2>4, <2>5, <4>1, <4>2
    <3>5. CASE ~ (Total(s) < 0)
      <4>1. Total(s) \in 0 .. MaxInt
        BY <1>6, <3>3, <3>5
      <4>2. ~BadSizes(r, s)
        BY <1>2, <1>9, <2>3, <2>7, <3>5
      <4>3. PostData(r, s, Total(s)) /\ s = Counts(k)
        BY <1>1, <1>9, <2>2, <4>2
      <4>4. QED
        BY <1>1, <3>1, <3>2, <4>1, <4>3, PostDataStep
    <3>6. QED
      BY <3>4, <3>5
  <2>8. QED
    BY <2>6, <2>7
<1>10. QED
  BY <1>8, <1>9

\* Data that stops whoever receives it is too big for an int.
LEMMA BreaksIsTooBig ==
  ASSUME NEW k, program[k] \in Calls, Breaks(k), \A q \in Ranks : Counted(q, k) >= 0
  PROVE  TooBig(k)
<1>1. MaxInt \in Nat
  BY CollectivesAssumption
<1>2. TooBig(k) <=> Bytes(k) > MaxInt
  BY DEF Breaks, TooBig, UnevenCall, Uneven
<1>3. CASE Total(Counts(k)) < End(Counts(k))
  <2> DEFINE s == Counts(k)
  <2>1. s \in [Ranks -> 0 .. MaxInt] /\ s \in [Ranks -> Nat] /\ End(s) <= Bytes(k)
    BY CountsFacts
  <2>2. Bytes(k) \in Nat
    BY CountFacts, RankFacts
  <2>3. Total(s) < End(s)
    BY <1>3
  <2> HIDE DEF s
  <2>4. End(s) <= MaxInt => Total(s) = End(s)
    BY <2>1, TotalFacts
  <2>5. End(s) \in Nat
    BY <2>1, SlicesFit
  <2>6. QED
    BY <1>1, <1>2, <2>1, <2>2, <2>3, <2>4, <2>5
<1>4. CASE \E q \in Ranks : Counted(q, k) # program[k].len[q]
  <2>1. PICK q \in Ranks : Counted(q, k) # program[k].len[q]
    BY <1>4
  <2>2. /\ program[k].len[q] <= MaxInt => Counted(q, k) = program[k].len[q]
        /\ program[k].len[q] \in Nat /\ program[k].len[q] <= Bytes(k) /\ Bytes(k) \in Nat
    BY CountFacts
  <2>3. QED
    BY <1>1, <1>2, <2>1, <2>2
<1>5. QED
  BY <1>3, <1>4 DEF Breaks

\* The data has come: the root's value is the outcome, or it was too big.
LEMMA DataStep ==
  ASSUME IInv, NEW r \in Ranks, DataReturned(r)
  PROVE  IInv' /\ (CReturn(r) \/ CFail(r))
<1> DEFINE k == entered[r]
           c == program[k]
           s == Counts(k)
<1>1. /\ r \notin failed /\ pc[r] = "data" /\ Returns(r)
      /\ Overrun(r, k) \/ CutShort(r, k) => Fail(r)
      /\ ~ (Overrun(r, k) \/ CutShort(r, k)) =>
           /\ results' = [results EXCEPT ![r] =
                Append(@, IF AmIRoot(r, program[k]) THEN {Value(r, k)} ELSE {})]
           /\ pc'    = [pc    EXCEPT ![r] = "user"]
           /\ sizes' = [sizes EXCEPT ![r] = NoSizes]
           /\ total' = [total EXCEPT ![r] = 0]
           /\ UNCHANGED <<program, entered, failed, posted>>
  BY DEF DataReturned
<1>2. Typed /\ Local(r)
  BY DEF IInv
<1>3. /\ k \in 1 .. MaxCalls /\ c \in Calls
      /\ Len(results[r]) = k - 1
      /\ k = Len(results[r]) + 1 /\ k <= MaxCalls
  <2>1. k \in 1 .. MaxCalls /\ c \in Calls /\ Len(results[r]) = k - 1
    BY <1>1, <1>2, WhereItIs
  <2>2. QED
    BY <2>1
<1>4. AmIRoot(r, c) <=> Receives(r, k)
  BY <1>3, RootFacts
<1>5. Counted(r, k) >= 0 /\ ~GatherBufferRefused(r, k)
  BY <1>1, <1>2 DEF Local, Accepted
<1>6. UnevenCall(k) /\ Receives(r, k) =>
        /\ \A q \in Ranks : Counted(q, k) >= 0
        /\ sizes[r] = s
        /\ total[r] = Total(s)
        /\ s \in [Ranks -> 0 .. MaxInt] /\ s \in [Ranks -> Nat]
  BY <1>1, <1>2, <1>3, CountsFacts DEF Local, LaidOut
<1>7. Overrun(r, k) \/ CutShort(r, k) <=> Receives(r, k) /\ Breaks(k)
  <2>1. Overrun(r, k) <=> UnevenCall(k) /\ Receives(r, k) /\ Total(s) < End(s)
    BY <1>4, <1>6 DEF Overrun, UnevenCall, End
  <2>2. program[k].op = "gatherv_object" => UnevenCall(k)
    BY DEF UnevenCall, Uneven
  <2>3. \A q \in Ranks : s[q] = Counted(q, k)
    BY DEF Counts
  <2>4. CutShort(r, k) <=> /\ UnevenCall(k) /\ Receives(r, k)
                           /\ program[k].op = "gatherv_object"
                           /\ \E q \in Ranks : Counted(q, k) # program[k].len[q]
    BY <1>4, <1>6, <2>2, <2>3 DEF CutShort
  <2> HIDE DEF s
  <2>5. QED
    BY <2>1, <2>4 DEF Breaks, s
<1>8. CASE Overrun(r, k) \/ CutShort(r, k)
  <2>1. Receives(r, k) /\ Breaks(k) /\ UnevenCall(k)
    BY <1>7, <1>8 DEF Breaks
  <2>2. TooBig(k)
    BY <1>3, <1>6, <2>1, BreaksIsTooBig
  <2>3. MayFail(r, k)
    BY <2>1, <2>2 DEF MayFail
  <2>4. QED
    BY <1>1, <1>3, <1>8, <2>1, <2>3, FailStep
<1>9. CASE ~ (Overrun(r, k) \/ CutShort(r, k))
  <2> DEFINE answer == IF AmIRoot(r, program[k]) THEN {Value(r, k)} ELSE {}
  <2>1. Receives(r, k) => Joined(r)
    BY <1>1, ReceiversWait
  <2>2. Receives(r, k) => \A q \in Ranks : Sent(q, r) = Contribution(q, k)
    BY <1>1, <2>1, JoinedFacts
  <2>3. Receives(r, k) /\ UnevenCall(k) => total[r] = End(s)
    <3>1. SUFFICES ASSUME Receives(r, k), UnevenCall(k) PROVE total[r] = End(s)
      OBVIOUS
    <3>2. ~ (Total(s) < End(s))
      BY <1>7, <1>9, <3>1 DEF Breaks
    <3>3. total[r] = Total(s) /\ s \in [Ranks -> 0 .. MaxInt] /\ s \in [Ranks -> Nat]
      BY <1>6, <3>1
    <3> HIDE DEF s
    <3>4. Total(s) <= End(s) /\ Total(s) \in -(MaxInt + 1) .. MaxInt /\ End(s) \in Nat
      BY <3>3, TotalFacts, SlicesFit
    <3>5. QED
      BY <3>2, <3>3, <3>4, CollectivesAssumption
  <2>4. Receives(r, k) => Value(r, k) = Outcome(k)
    BY <1>3, <1>5, <1>6, <2>2, <2>3, ValueIsOutcome
  <2>5. answer = IF Receives(r, k) THEN {Outcome(k)} ELSE {}
    BY <1>4, <2>4
  <2>6. N > 1 => c.root # Mine
    <3>1. SUFFICES ASSUME N > 1, c.root = Mine PROVE FALSE
      OBVIOUS
    <3>2. Receives(r, k)
      BY <3>1 DEF Receives
    <3>3. \A q \in Ranks : RootOf(q, c) = RootOf(r, c)
      BY <1>1, <2>1, <3>2, JoinedFacts
    <3>4. \A q \in Ranks : RootOf(q, c) = q
      BY <1>3, <3>1, RootFacts
    <3>5. 0 \in Ranks /\ 1 \in Ranks
      BY <3>1, RankFacts
    <3>6. QED
      BY <3>3, <3>4, <3>5
  <2>7. /\ results' = [results EXCEPT ![r] = Append(@, answer)]
        /\ pc'    = [pc    EXCEPT ![r] = "user"]
        /\ sizes' = [sizes EXCEPT ![r] = NoSizes]
        /\ total' = [total EXCEPT ![r] = 0]
        /\ UNCHANGED <<program, entered, failed, posted>>
    BY <1>1, <1>9
  <2>8. Receives(r, k) => Joined(r) /\ ~Breaks(k)
    BY <1>7, <1>9, <2>1
  <2> HIDE DEF answer
  <2>9. IInv' /\ CReturn(r)
    BY <1>1, <2>5, <2>6, <2>7, <2>8, AnswerStep
  <2>10. QED
    BY <2>9
<1>10. QED
  BY <1>8, <1>9

-----------------------------------------------------------------------------
(* The theorems. *)

\* The invariant holds before any call.
LEMMA InitIInv == Init => IInv
<1> SUFFICES ASSUME Init PROVE IInv
  OBVIOUS
<1>1. /\ program \in [1 .. MaxCalls -> Calls]
      /\ entered = [r \in Ranks |-> 0] /\ results = [r \in Ranks |-> <<>>] /\ failed = {}
      /\ pc = [r \in Ranks |-> "user"] /\ posted = [r \in Ranks |-> <<>>]
      /\ sizes = [r \in Ranks |-> NoSizes] /\ total = [r \in Ranks |-> 0]
  BY DEF Init, CInit
<1>2. MaxInt \in Nat /\ MaxCalls \in Nat
  BY CollectivesAssumption
<1>3. Typed
  BY <1>1, <1>2 DEF Typed, NoSizes
<1>4. ASSUME NEW r \in Ranks PROVE Local(r)
  <2>1. entered[r] = 0 /\ results[r] = <<>> /\ pc[r] = "user" /\ posted[r] = <<>> /\ r \notin failed
    BY <1>1
  <2>2. Len(results[r]) = 0 /\ Len(posted[r]) = 0 /\ DOMAIN results[r] = {}
    BY <2>1
  <2>3. QED
    BY <2>1, <2>2, OffsetZero DEF Local, InTurn, InStep, Accepted, LaidOut, Answered, Excused
<1>5. Together
  <2>1. \A r \in Ranks : DOMAIN results[r] = {}
    BY <1>1
  <2>2. QED
    BY <2>1 DEF Together
<1>6. QED
  BY <1>3, <1>4, <1>5 DEF IInv

\* Every step keeps the invariant, and is a step of the promise or none of it.
LEMMA StepKeepsIInv ==
  ASSUME IInv, [Next]_vars
  PROVE  IInv' /\ [CNext]_cvars
<1>1. CASE Next
  <2>1. PICK r \in Ranks : Step(r)
    BY <1>1 DEF Next
  <2>2. CASE Gather(r)
    BY <2>2, GatherStep DEF CNext
  <2>3. CASE Gatherv(r)
    BY <2>3, GathervStep DEF CNext
  <2>4. CASE Reduce(r)
    BY <2>4, ReduceStep DEF CNext
  <2>5. CASE SizesReturned(r)
    BY <2>5, SizesStep DEF CNext
  <2>6. CASE DataReturned(r)
    BY <2>6, DataStep DEF CNext
  <2>7. QED
    BY <2>1, <2>2, <2>3, <2>4, <2>5, <2>6 DEF Step
<1>2. CASE UNCHANGED vars
  <2>1. /\ program' = program /\ entered' = entered /\ results' = results /\ failed' = failed
        /\ pc' = pc /\ posted' = posted /\ sizes' = sizes /\ total' = total
    BY <1>2 DEF vars, cvars
  <2>2. Typed'
    BY <2>1, SameProgram DEF IInv, Typed
  <2>3. ASSUME NEW q \in Ranks PROVE Local(q)'
    BY <2>1, LocalUnchanged DEF IInv
  <2>4. Together'
    BY <2>1, SameProgram DEF IInv, Together
  <2>5. QED
    BY <2>1, <2>2, <2>3, <2>4 DEF IInv, cvars
<1>3. QED
  BY <1>1, <1>2

\* Every rank is where its results, its MPI calls and its buffer say, always.
THEOREM Invariance == Spec => []IInv
<1>1. IInv /\ [Next]_vars => IInv'
  BY StepKeepsIInv
<1>2. QED
  BY <1>1, InitIInv, PTL DEF Spec

\* The variables keep their types, for any number of ranks and any program.
THEOREM TypeCorrect == Spec => []TypeOK
<1>1. IInv => TypeOK
  <2> SUFFICES ASSUME IInv PROVE TypeOK
    OBVIOUS
  <2>1. Typed
    BY DEF IInv
  <2>2. ASSUME NEW r \in Ranks, NEW m \in DOMAIN posted[r]
        PROVE  posted[r][m].fn \in MpiCalls /\ posted[r][m].root \in Ranks \cup {NoRoot}
    <3>1. posted[r] \in Seq(Messages)
      BY <2>1 DEF Typed
    <3>2. posted[r][m] \in Messages
      BY <3>1
    <3>3. PICK q \in Ranks, k \in 1 .. MaxCalls :
            posted[r][m] = SizesCall(q, k) \/ posted[r][m] = DataCall(q, k)
      BY <3>2 DEF Messages
    <3>4. program[k] \in Calls
      BY <2>1 DEF Typed
    <3>5. SizesCall(q, k).fn \in MpiCalls /\ DataCall(q, k).fn \in MpiCalls
      BY <3>4, MessageFacts DEF MpiCalls
    <3>6. SizesCall(q, k).root \in Ranks \cup {NoRoot} /\ DataCall(q, k).root \in Ranks \cup {NoRoot}
      BY <3>4, MessageFacts, RootFacts
    <3>7. QED
      BY <3>3, <3>5, <3>6
  <2>3. QED
    BY <2>1, <2>2 DEF Typed, TypeOK
<1>2. QED
  BY <1>1, Invariance, PTL

\* No rank slips against another in its MPI calls, whatever the program.
THEOREM CallsMatchAlways == Spec => []CallsMatch
<1>1. IInv => CallsMatch
  <2> SUFFICES ASSUME IInv, NEW q \in Ranks, NEW r \in Ranks,
                      NEW m \in DOMAIN posted[q] \cap DOMAIN posted[r],
                      \A k \in 1 .. MaxCalls : program[k].root # Mine
               PROVE  /\ posted[q][m].fn = posted[r][m].fn
                      /\ posted[q][m].root = posted[r][m].root
    BY DEF CallsMatch
  <2>1. Typed /\ Local(q) /\ Local(r)
    BY DEF IInv
  <2>2. m \in 1 .. Len(posted[q]) /\ m \in 1 .. Len(posted[r])
    <3>1. posted[q] \in Seq(Messages) /\ posted[r] \in Seq(Messages)
      BY <2>1 DEF Typed
    <3>2. QED
      BY <3>1
  <2>3. Len(posted[q]) \in Nat /\ entered[q] \in Nat /\ Len(posted[q]) <= Offset(entered[q])
        /\ Len(posted[r]) \in Nat
    BY <2>1, PostedLength
  <2>4. m \in 1 .. Offset(entered[q]) /\ m <= Len(posted[q]) /\ m <= Len(posted[r])
    <3>1. Offset(entered[q]) \in Nat
      BY <2>3, OffsetType
    <3>2. QED
      BY <2>2, <2>3, <3>1
  <2>5. PICK k \in 1 .. entered[q] : m = Offset(k) \/ (UnevenCall(k) /\ m = Offset(k) - 1)
    BY <2>3, <2>4, OffsetCover
  <2>6. k \in 1 .. MaxCalls /\ program[k] \in Calls
    <3>1. entered[q] \in 0 .. MaxCalls
      BY <2>1 DEF Typed
    <3>2. k \in 1 .. MaxCalls
      BY <3>1, CollectivesAssumption
    <3>3. QED
      BY <2>1, <3>2 DEF Typed
  <2>7. RootOf(q, program[k]) = RootOf(r, program[k])
    BY <2>6, RootFacts
  <2>8. /\ SizesCall(q, k).fn = SizesCall(r, k).fn /\ SizesCall(q, k).root = SizesCall(r, k).root
        /\ DataCall(q, k).fn = DataCall(r, k).fn /\ DataCall(q, k).root = DataCall(r, k).root
    BY <2>6, <2>7, MessageFacts
  <2>9. CASE m = Offset(k)
    <3>1. posted[q][m] = DataCall(q, k)
      BY <2>1, <2>3, <2>4, <2>6, <2>9, PostedAt
    <3>2. posted[r][m] = DataCall(r, k)
      BY <2>1, <2>3, <2>4, <2>6, <2>9, PostedAt
    <3>3. QED
      BY <2>8, <3>1, <3>2
  <2>10. CASE UnevenCall(k) /\ m = Offset(k) - 1
    <3>1. posted[q][m] = SizesCall(q, k)
      BY <2>1, <2>3, <2>4, <2>6, <2>10, PostedAt
    <3>2. posted[r][m] = SizesCall(r, k)
      BY <2>1, <2>3, <2>4, <2>6, <2>10, PostedAt
    <3>3. QED
      BY <2>8, <3>1, <3>2
  <2>11. QED
    BY <2>5, <2>9, <2>10
<1>2. QED
  BY <1>1, Invariance, PTL

\* Every value is what all the ranks contributed to that very call, for any
\* number of ranks, lengths and roots, and nobody but a root has one.
THEOREM ResultsRightAlways == Spec => []ResultsRight
<1>1. IInv => ResultsRight
  BY DEF IInv, Local, Answered, ResultsRight
<1>2. QED
  BY <1>1, Invariance, PTL

\* No rank ever returns from a call in which each names itself as the root.
THEOREM OwnRootsHangAlways == Spec => []OwnRootsHang
<1>1. IInv => OwnRootsHang
  BY DEF IInv, Local, Answered, OwnRootsHang
<1>2. QED
  BY <1>1, Invariance, PTL

\* A rank fails only as the receiver of a gatherv or of a serialized gather that
\* is more than an int counts, or when the count of its own bytes, of whatever
\* number, has become negative.
THEOREM FailsOnlyWhenTooBigAlways == Spec => []FailsOnlyWhenTooBig
<1>1. IInv => FailsOnlyWhenTooBig
  BY DEF IInv, Typed, Local, Excused, FailsOnlyWhenTooBig
<1>2. QED
  BY <1>1, Invariance, PTL

\* Nobody gets a value from a call that another rank failed in, or from a later
\* one, for any number of ranks and calls and for bytes of whatever number.
THEOREM NoValueFromAFailedCallAlways == Spec => []NoValueFromAFailedCall
<1>1. IInv => NoValueFromAFailedCall
  <2> SUFFICES ASSUME IInv, NEW r \in failed, NEW q \in Ranks, NEW k \in DOMAIN results[q],
                      Receives(q, k), ~ (k <= Len(results[r]))
               PROVE  FALSE
    BY DEF NoValueFromAFailedCall
  <2>1. Typed /\ r \in Ranks /\ Local(r) /\ Local(q)
    BY DEF IInv, Typed
  <2>2. results[r] \in Seq(Optionals) /\ results[q] \in Seq(Optionals) /\ entered \in [Ranks -> 0 .. MaxCalls]
    BY <2>1 DEF Typed
  <2>3. Len(results[r]) \in Nat /\ k \in Nat \ {0} /\ k <= Len(results[q]) /\ Len(results[q]) \in Nat
    BY <2>2
  <2>4. entered[q] \in 0 .. MaxCalls /\ entered[r] \in 0 .. MaxCalls /\ MaxCalls \in Nat
    BY <2>1, <2>2, CollectivesAssumption
  <2>5. Len(results[q]) <= entered[q]
    <3>1. InTurn(q)
      BY <2>1 DEF Local
    <3>2. CASE pc[q] = "user"
      <4>1. entered[q] = Len(results[q]) + 0
        BY <3>1, <3>2 DEF InTurn
      <4>2. QED
        BY <2>3, <2>4, <3>2, <4>1
    <3>3. CASE pc[q] # "user"
      <4>1. entered[q] = Len(results[q]) + 1
        BY <3>1, <3>3 DEF InTurn
      <4>2. QED
        BY <2>3, <2>4, <3>3, <4>1
    <3>4. QED
      BY <3>2, <3>3
  <2>6. k \in 1 .. MaxCalls
    BY <2>3, <2>4, <2>5
  <2>7. Len(posted[r]) >= Offset(k)
    BY <2>1 DEF IInv, Together
  <2>8. entered[r] >= k
    BY <2>1, <2>6, <2>7, PostedAt
  <2>9. entered[r] = k /\ pc[r] # "user"
    <3>1. InTurn(r)
      BY <2>1 DEF Local
    <3>2. CASE pc[r] = "user"
      <4>1. entered[r] = Len(results[r]) + 0
        BY <3>1, <3>2 DEF InTurn
      <4>2. QED
        BY <2>3, <2>4, <2>8, <3>2, <4>1
    <3>3. CASE pc[r] # "user"
      <4>1. entered[r] = Len(results[r]) + 1
        BY <3>1, <3>3 DEF InTurn
      <4>2. QED
        BY <2>3, <2>4, <2>8, <3>3, <4>1
    <3>4. QED
      BY <3>2, <3>3
  <2>10. pc[r] # "sizes"
    <3>1. pc[r] = "sizes" => Len(posted[r]) = Offset(k) - 1
      BY <2>1, <2>9, PostedLength
    <3>2. Offset(k) \in Nat
      BY <2>3, OffsetType
    <3>3. QED
      BY <2>7, <3>1, <3>2
  <2>11. Breaks(k)
    BY <2>1, <2>9, <2>10 DEF Typed, Local, Excused
  <2>12. QED
    BY <2>1, <2>11 DEF Local, Answered
<1>2. QED
  BY <1>1, Invariance, PTL

\* CommPP does what Collectives promises.
THEOREM Refinement == Spec => CSpec
<1>1. Init => CInit
  BY DEF Init
<1>2. IInv /\ [Next]_vars => [CNext]_cvars
  BY StepKeepsIInv
<1>3. QED
  BY <1>1, <1>2, Invariance, PTL DEF Spec, CSpec
=============================================================================
