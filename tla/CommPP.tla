-------------------------------- MODULE CommPP --------------------------------
(****************************************************************************)
(* The collective operations of CommPP on N ranks, as the MPI calls each    *)
(* rank makes.                                                              *)
(*                                                                          *)
(* gather and reduce are one MPI call; gatherv is two, the sizes first and  *)
(* then the data, with the root laying out its buffer in between.  MPI      *)
(* pairs the m-th call of a rank with the m-th call of every other on the   *)
(* communicator: a rank that skips or adds one breaks all that follow.      *)
(****************************************************************************)
EXTENDS Collectives

VARIABLES
  pc,      \* where each rank is: in the program, or inside an MPI call
  posted,  \* the MPI calls each rank has made, in order
  sizes,   \* gatherv: the sizes the root received
  total    \* gatherv: the size of the root's buffer, an int

vars == <<cvars, pc, posted, sizes, total>>

-----------------------------------------------------------------------------
(* MPI, as far as CommPP relies on it. *)

\* The arguments of a call: the function, the root and the send buffer.
Post(r, fn, root, send) ==
  posted' = [posted EXCEPT ![r] = Append(@, [fn |-> fn, root |-> root, send |-> send])]

\* Rank q has made the call that rank r is in.
SameCall(q, r) ==
  LET m == Len(posted[r])
  IN  /\ Len(posted[q]) >= m
      /\ posted[q][m].fn = posted[r][m].fn
      /\ posted[q][m].root = posted[r][m].root

\* The call of rank r is sure to return once every rank has joined it.  A rank
\* that only sends may be let go before that.
Joined(r)  == \A q \in Ranks : SameCall(q, r)
LetGo(r)   == Last(posted[r]).root \notin {NoRoot, r}
Returns(r) == Joined(r) \/ LetGo(r)

\* What rank q sent in the call that rank r is in.
Sent(q, r) == posted[q][Len(posted[r])].send

-----------------------------------------------------------------------------
(* The layout of a buffer. *)

\* Mutant: rank i's bytes go before rank (i-1)'s have been counted.
DisplacementsOverlapping(s) ==
  LET d[i \in Ranks] == IF i <= 1 THEN 0 ELSE d[i - 1] + s[i - 1] IN d

\* Rank i's bytes go immediately after rank (i-1)'s.
Displacements(s) == LET d[i \in Ranks] == IF i = 0 THEN 0 ELSE d[i - 1] + s[i - 1] IN d

\* The int that the loop over the sizes ends with.
Total(s) ==
  LET t[i \in Ranks] == IF i = 0 THEN ToInt(s[0]) ELSE ToInt(t[i - 1] + s[i])
  IN  t[N - 1]

\* MPI_Gatherv writes rank i's bytes at displacement d[i] of the buffer.
Buffer(s, d, bytes, data) ==
  [j \in 1 .. bytes |->
     LET writers == {i \in Ranks : d[i] < j /\ j <= d[i] + s[i]}
     IN  IF writers = {} THEN Unwritten
         ELSE LET i == CHOOSE i \in writers : \A w \in writers : w <= i
              IN  data[i][j - d[i]]]

\* The objects deserialized from a buffer, one slice for each rank.
Slices(buffer, s) ==
  LET d == Displacements(s)
  IN  [i \in 1 .. N |-> SubSeq(buffer, d[i - 1] + 1, d[i - 1] + s[i - 1])]

-----------------------------------------------------------------------------
(* Entering a call. *)

\* Mutant: every rank's own RAM answers with the first rank.
RootOfFirst(r, c) == IF c.root = Mine THEN 0 ELSE c.root

\* The root rank r passes: none, a rank, or (RAM::gather and RAM::reduce of the
\* RAM in the rank's own resource set) r itself.
RootOf(r, c) == IF c.root = Mine THEN r ELSE c.root

\* Mutant: a rank that passes no root is not the root.
AmIRootGiven(r, c) == RootOf(r, c) = r

\* Everybody is root if root is not provided.
AmIRoot(r, c) == RootOf(r, c) \in {NoRoot, r}

\* The name of the MPI function, with and without a root.
Rooted(fn, all, root) == IF root = NoRoot THEN all ELSE fn

\* Rank r is about to make the k-th call of its program.
Ready(r, k) ==
  /\ r \notin failed
  /\ pc[r] = "user"
  /\ k = entered[r] + 1 /\ k <= MaxCalls

\* The first MPI call of rank r's next operation.
Enter(r, fn, all, send, at) ==
  LET root == RootOf(r, program[entered[r] + 1])
  IN  /\ Post(r, Rooted(fn, all, root), root, send)
      /\ entered' = [entered EXCEPT ![r] = @ + 1]
      /\ pc' = [pc EXCEPT ![r] = at]
      /\ UNCHANGED <<program, results, failed, sizes, total>>

\* An exception leaves the operation of rank r, MPI rejects its arguments, or it
\* overwrote its memory.
Fail(r) ==
  /\ failed' = failed \cup {r}
  /\ UNCHANGED <<program, entered, results, pc, posted, sizes, total>>

\* Mutant: a buffer that is just large enough is refused.
GatherBufferRefusedWhenFull(r, k) ==
  /\ program[k].op = "gather_object"
  /\ AmIRoot(r, program[k])
  /\ ToInt(N * program[k].len[r]) <= N * program[k].len[r]

\* The receive buffer of a serialized gather is sized by an int.
GatherBufferRefused(r, k) ==
  /\ program[k].op = "gather_object"
  /\ AmIRoot(r, program[k])
  /\ ToInt(N * program[k].len[r]) < N * program[k].len[r]

Gather(r) ==
  LET k == entered[r] + 1
  IN  /\ Ready(r, k)
      /\ program[k].op \in {"gather_object", "gather_array"}
      /\ IF GatherBufferRefused(r, k) \/ Counted(r, k) < 0
         THEN Fail(r)
         ELSE Enter(r, "MPI_Gather", "MPI_Allgather", Contribution(r, k), "data")

\* Step 0 of gatherv: gather the sizes.
Gatherv(r) ==
  LET k == entered[r] + 1
  IN  /\ Ready(r, k)
      /\ program[k].op \in Uneven
      /\ Enter(r, "MPI_Gather", "MPI_Allgather", <<Counted(r, k)>>, "sizes")

Reduce(r) ==
  LET k == entered[r] + 1
  IN  /\ Ready(r, k)
      /\ program[k].op = "reduce"
      /\ IF Counted(r, k) < 0
         THEN Fail(r)
         ELSE Enter(r, "MPI_Reduce", "MPI_Allreduce", Contribution(r, k), "data")

-----------------------------------------------------------------------------
(* Coming back from MPI. *)

NoSizes == [q \in Ranks |-> 0]

\* Step 2 of gatherv: the data.  Sizes and total are what the root has found.
PostData(r, s, t) ==
  LET root == RootOf(r, program[entered[r]])
  IN  /\ Post(r, Rooted("MPI_Gatherv", "MPI_Allgatherv", root), root,
              Contribution(r, entered[r]))
      /\ pc'    = [pc    EXCEPT ![r] = "data"]
      /\ sizes' = [sizes EXCEPT ![r] = s]
      /\ total' = [total EXCEPT ![r] = t]
      /\ UNCHANGED <<program, entered, results, failed>>

\* What is wrong with the sizes s as rank r sees them: the root's do not add up to
\* a positive int or one is negative, another rank knows only its own.
BadSizes(r, s) ==
  IF AmIRoot(r, program[entered[r]])
  THEN Total(s) < 0 \/ \E q \in Ranks : s[q] < 0
  ELSE Counted(r, entered[r]) < 0

\* Mutant: a rank with nothing to send considers itself done.
SizesReturnedSkipsEmpty(r) ==
  LET root == AmIRoot(r, program[entered[r]])
      s    == [q \in Ranks |-> Sent(q, r)[1]]
  IN  /\ r \notin failed
      /\ pc[r] = "sizes"
      /\ Returns(r)
      /\ IF ~root /\ Counted(r, entered[r]) = 0
         THEN /\ results' = [results EXCEPT ![r] = Append(@, {})]
              /\ pc' = [pc EXCEPT ![r] = "user"]
              /\ UNCHANGED <<program, entered, failed, posted, sizes, total>>
         ELSE IF BadSizes(r, s) THEN Fail(r)
         ELSE IF root           THEN PostData(r, s, Total(s))
                                ELSE PostData(r, NoSizes, 0)

\* Step 1 of gatherv: the root lays out its buffer, and throws if the sizes do
\* not add up to a positive int; then MPI rejects a negative count.
SizesReturned(r) ==
  LET s == [q \in Ranks |-> Sent(q, r)[1]]
  IN  /\ r \notin failed
      /\ pc[r] = "sizes"
      /\ Returns(r)
      /\ IF BadSizes(r, s)                       THEN Fail(r)
         ELSE IF AmIRoot(r, program[entered[r]]) THEN PostData(r, s, Total(s))
                                                 ELSE PostData(r, NoSizes, 0)

\* What the root makes of the data: the value in the optional.  Its buffer is
\* for as many bytes as it has itself, or as many as the sizes add up to.
Value(r, k) ==
  LET c    == program[k]
      even == [q \in Ranks |-> Counted(r, k)]
      data == [q \in Ranks |-> Sent(q, r)]
      gathered  == Buffer(even, Displacements(even), N * c.len[r], data)
      vgathered == Buffer(sizes[r], Displacements(sizes[r]), total[r], data)
      reduced   == [i \in 1 .. Counted(r, k) |-> {data[q][i] : q \in Ranks}]
  IN  CASE c.op = "gather_array"   -> gathered
        [] c.op = "gather_object"  -> Slices(gathered, [q \in Ranks |-> c.len[r]])
        [] c.op = "gatherv_array"  -> vgathered
        [] c.op = "gatherv_object" -> Slices(vgathered, sizes[r])
        [] c.op = "reduce"         -> Filled(reduced, c.len[r])

\* The sizes have wrapped around to an int that is too small: MPI_Gatherv
\* writes past the end of the buffer.
Overrun(r, k) ==
  /\ program[k].op \in Uneven /\ AmIRoot(r, program[k])
  /\ total[r] < Displacements(sizes[r])[N - 1] + sizes[r][N - 1]

\* Mutant: a rank keeps its own object instead of reading it back.
CutShortOfOthers(r, k) ==
  /\ program[k].op = "gatherv_object" /\ AmIRoot(r, program[k])
  /\ \E q \in Ranks \ {r} : sizes[r][q] # program[k].len[q]

\* Fewer bytes of an object have arrived than its serialization has:
\* deserializing them throws.
CutShort(r, k) ==
  /\ program[k].op = "gatherv_object" /\ AmIRoot(r, program[k])
  /\ \E q \in Ranks : sizes[r][q] # program[k].len[q]

\* The operation is complete.
DataReturned(r) ==
  LET k == entered[r]
  IN  /\ r \notin failed
      /\ pc[r] = "data"
      /\ Returns(r)
      /\ IF Overrun(r, k) \/ CutShort(r, k)
         THEN Fail(r)
         ELSE /\ results' = [results EXCEPT ![r] =
                               Append(@, IF AmIRoot(r, program[k]) THEN {Value(r, k)} ELSE {})]
              /\ pc'    = [pc    EXCEPT ![r] = "user"]
              /\ sizes' = [sizes EXCEPT ![r] = NoSizes]
              /\ total' = [total EXCEPT ![r] = 0]
              /\ UNCHANGED <<program, entered, failed, posted>>

-----------------------------------------------------------------------------
Init ==
  /\ CInit
  /\ pc     = [r \in Ranks |-> "user"]
  /\ posted = [r \in Ranks |-> <<>>]
  /\ sizes  = [r \in Ranks |-> NoSizes]
  /\ total  = [r \in Ranks |-> 0]

Step(r) == Gather(r) \/ Gatherv(r) \/ Reduce(r) \/ SizesReturned(r) \/ DataReturned(r)

Next == \E r \in Ranks : Step(r)

Spec == Init /\ [][Next]_vars

\* The ranks are processes that keep running, and MPI completes a call that
\* every rank has joined; it owes an early return to nobody.
FairSpec ==
  Spec /\ \A r \in Ranks : WF_vars(Step(r) /\ (pc[r] = "user" \/ Joined(r)))

-----------------------------------------------------------------------------
(* Properties *)

MpiCalls == {"MPI_Gather", "MPI_Allgather", "MPI_Gatherv", "MPI_Allgatherv",
             "MPI_Reduce", "MPI_Allreduce"}

\* Types of the variables.
TypeOK ==
  /\ program \in [1 .. MaxCalls -> Calls]
  /\ entered \in [Ranks -> 0 .. MaxCalls]
  /\ DOMAIN results = Ranks
  /\ failed \subseteq Ranks
  /\ pc \in [Ranks -> {"user", "sizes", "data"}]
  /\ \A r \in Ranks : \A m \in DOMAIN posted[r] :
       posted[r][m].fn \in MpiCalls /\ posted[r][m].root \in Ranks \cup {NoRoot}
  /\ sizes \in [Ranks -> [Ranks -> 0 .. MaxInt]]
  /\ total \in [Ranks -> 0 .. MaxInt]

\* No rank slips against another: the m-th MPI call of two ranks is the same
\* function with the same root, if the program gives them the same roots.
CallsMatch ==
  \A q, r \in Ranks : \A m \in DOMAIN posted[q] \cap DOMAIN posted[r] :
     (\A k \in 1 .. MaxCalls : program[k].root # Mine) =>
       /\ posted[q][m].fn = posted[r][m].fn
       /\ posted[q][m].root = posted[r][m].root

\* A value is what all the ranks contributed to that very call, in the order of
\* their ranks, and only the root has one: the buffer is laid out right and no
\* bytes of an earlier or later call are in it.
ResultsRight ==
  \A r \in Ranks : \A k \in DOMAIN results[r] :
     results[r][k] = IF Receives(r, k) THEN {Outcome(k)} ELSE {}

\* A rank stops inside an operation only if it is to receive a gatherv or a
\* serialized gather whose bytes an int does not count, or if the count of its
\* own bytes has become negative: arrays that are too big get through, cut short.
FailsOnlyWhenTooBig ==
  \A r \in failed : MayFail(r, Len(results[r]) + 1)

\* Nobody gets a value from a call that another rank failed in, or from a later
\* one: what stops a rank once the data has been sent stops all that receive.
NoValueFromAFailedCall ==
  \A r \in failed : \A q \in Ranks : \A k \in DOMAIN results[q] :
     Receives(q, k) => k <= Len(results[r])

\* Some call names the caller's own RAM as the root.
OwnRoots == \E k \in 1 .. MaxCalls : program[k].root = Mine

\* Every rank gets through its program, unless some rank has failed or each
\* names itself as the root.
AllReturn ==
  OwnRoots \/ <>(failed # {} \/ \A r \in Ranks : Len(results[r]) = MaxCalls)

\* Two ranks or more that each gather or reduce to their own RAM never return.
OwnRootsHang ==
  N > 1 => \A r \in Ranks : \A k \in DOMAIN results[r] : program[k].root # Mine
=============================================================================
