------------------------- MODULE BinaryBuffer_proofs -------------------------
(****************************************************************************)
(* Proofs about BinaryBuffer, for any number of buffers and views and any   *)
(* size: a view points to the bytes of the buffer that it shows, the bytes  *)
(* have one owner and value semantics, and they are all that counts.        *)
(****************************************************************************)
EXTENDS BinaryBuffer, SequenceTheorems, WellFoundedInduction, TLAPS

\* What the proof needs of the types.
Typed ==
  /\ ptr \in [Buffers -> Objects \cup {Null}]
  /\ \A o \in Objects : heap[o] # Free => heap[o] \in Contents
  /\ DOMAIN heap = Objects
  /\ view \in [Views -> [at : Objects \cup {Null}, n : Sizes]]
  /\ shows \in [Views -> Buffers \cup {Null}]

\* Every buffer's bytes are its own.
Owned ==
  /\ \A b, c \in Buffers : ptr[b] = ptr[c] /\ ptr[b] # Null => b = c
  /\ \A b \in Buffers : ptr[b] # Null => heap[ptr[b]] # Free

BInv == Typed /\ Owned /\ ViewsFollowTheirBytes

\* A content has a length, which nothing but the bytes decides.
LEMMA ContentsLength ==
  ASSUME NEW s \in Contents
  PROVE  /\ Len(s) \in Sizes
         /\ \A i \in 1 .. Len(s), y \in Bytes :
              [s EXCEPT ![i] = y] \in Contents /\ Len([s EXCEPT ![i] = y]) = Len(s)
<1>1. PICK n \in Sizes : s \in [1 .. n -> Bytes]
  BY DEF Contents
<1>2. s \in Seq(Bytes) /\ Len(s) = n
  BY <1>1, BufferAssumption
<1>3. ASSUME NEW i \in 1 .. Len(s), NEW y \in Bytes
      PROVE  [s EXCEPT ![i] = y] \in Contents /\ Len([s EXCEPT ![i] = y]) = Len(s)
  <2>1. [s EXCEPT ![i] = y] \in [1 .. n -> Bytes]
    BY <1>1, <1>2
  <2>2. Len([s EXCEPT ![i] = y]) = n
    BY <2>1, BufferAssumption
  <2>3. QED
    BY <1>2, <2>1, <2>2 DEF Contents
<1>4. QED
  BY <1>2, <1>3

\* The bytes of a new buffer are a content.
LEMMA ZeroesAreContents ==
  ASSUME NEW n \in Sizes
  PROVE  [j \in 1 .. n |-> Zero] \in Contents
<1>1. [j \in 1 .. n |-> Zero] \in [1 .. n -> Bytes]
  BY BufferAssumption
<1>2. QED
  BY <1>1, Zenon DEF Contents

\* A freshly filled buffer: its object was nobody's, and its views are lost.
LEMMA FillStep ==
  ASSUME BInv, NEW b \in Buffers, NEW s \in Contents,
         Memory!Construct(b, s), shows' = Lost(b), view' = view
  PROVE  BInv'
<1> USE BufferAssumption
<1>1. PICK o \in Objects :
        /\ heap[o] = Free
        /\ heap' = Memory!Deallocate([heap EXCEPT ![o] = s], ptr[b])
        /\ ptr' = [ptr EXCEPT ![b] = o]
  BY DEF Memory!Construct
<1>2. \A c \in Buffers : ptr[c] # o
  BY <1>1 DEF BInv, Typed, Owned
<1>3. /\ ptr'[b] = o /\ heap'[o] = s /\ DOMAIN heap' = Objects
      /\ \A c \in Buffers : c # b => ptr'[c] = ptr[c]
      /\ \A q \in Objects : q # o => heap'[q] = IF q = ptr[b] THEN Free ELSE heap[q]
  BY <1>1, <1>2 DEF BInv, Typed, Memory!Deallocate
<1>4. Typed'
  <2>1. ptr' \in [Buffers -> Objects \cup {Null}]
    BY <1>1 DEF BInv, Typed
  <2>2. \A q \in Objects : heap'[q] # Free => heap'[q] \in Contents
    BY <1>3 DEF BInv, Typed
  <2>3. shows' \in [Views -> Buffers \cup {Null}]
    BY DEF BInv, Typed, Lost
  <2>4. QED
    BY <1>3, <2>1, <2>2, <2>3 DEF BInv, Typed
<1>5. Owned'
  <2>1. \A c, d \in Buffers : ptr'[c] = ptr'[d] /\ ptr'[c] # Null => c = d
    BY <1>2, <1>3 DEF BInv, Owned
  <2>2. ASSUME NEW c \in Buffers, ptr'[c] # Null PROVE heap'[ptr'[c]] # Free
    <3>1. CASE c = b
      BY <1>3, <3>1
    <3>2. CASE c # b
      <4>1. ptr'[c] = ptr[c] /\ ptr[c] # o /\ ptr[c] \in Objects
        BY <1>2, <1>3, <2>2, <3>2 DEF BInv, Typed
      <4>2. ptr[c] # ptr[b] /\ heap[ptr[c]] # Free
        BY <2>2, <3>2, <4>1 DEF BInv, Owned
      <4>3. QED
        BY <1>3, <4>1, <4>2
    <3>3. QED
      BY <3>1, <3>2
  <2>3. QED
    BY <2>1, <2>2 DEF Owned
<1>6. ASSUME NEW w \in Views, shows'[w] # Null
      PROVE  /\ view'[w].at = ptr'[shows'[w]] /\ view'[w].at # Null
             /\ view'[w].n = Len(heap'[view'[w].at]) /\ view'[w].n > 0
  <2>1. shows[w] \in Buffers /\ shows[w] # b /\ shows'[w] = shows[w]
    BY <1>6 DEF BInv, Typed, Lost
  <2>2. ptr[shows[w]] # Null /\ ptr[shows[w]] # ptr[b] /\ ptr[shows[w]] # o
    BY <1>2, <2>1 DEF BInv, Owned, ViewsFollowTheirBytes
  <2>3. heap'[ptr[shows[w]]] = heap[ptr[shows[w]]]
    BY <1>3, <2>1, <2>2 DEF BInv, Typed
  <2>4. QED
    BY <1>3, <2>1, <2>2, <2>3 DEF BInv, ViewsFollowTheirBytes
<1>7. QED
  BY <1>4, <1>5, <1>6 DEF BInv, ViewsFollowTheirBytes

\* A buffer that goes takes its bytes along, and the views of them are lost.
LEMMA DropStep ==
  ASSUME BInv, NEW b \in Buffers, Memory!Destroy(b), shows' = Lost(b), view' = view
  PROVE  BInv'
<1> USE BufferAssumption
<1>1. /\ ptr'[b] = Null /\ DOMAIN heap' = Objects
      /\ \A c \in Buffers : c # b => ptr'[c] = ptr[c]
      /\ \A q \in Objects : heap'[q] = IF q = ptr[b] THEN Free ELSE heap[q]
  BY DEF BInv, Typed, Memory!Destroy, Memory!Deallocate
<1>2. Typed'
  BY <1>1 DEF BInv, Typed, Lost, Memory!Destroy
<1>3. Owned'
  BY <1>1 DEF BInv, Typed, Owned
<1>4. ViewsFollowTheirBytes'
  BY <1>1 DEF BInv, Typed, Owned, Lost, ViewsFollowTheirBytes
<1>5. QED
  BY <1>2, <1>3, <1>4 DEF BInv

\* Moves and swaps take the views along with the bytes.
LEMMA MoveStep ==
  ASSUME BInv, NEW b \in Buffers, NEW c \in Buffers, Move(b, c)
  PROVE  BInv'
<1> USE BufferAssumption
<1>1. /\ b # c /\ view' = view /\ DOMAIN heap' = Objects
      /\ ptr'[b] = ptr[c] /\ ptr'[c] = Null
      /\ \A d \in Buffers : d # b /\ d # c => ptr'[d] = ptr[d]
      /\ \A q \in Objects : heap'[q] = IF q = ptr[b] THEN Free ELSE heap[q]
      /\ \A w \in Views : shows'[w] = Moved(b, c, shows[w])
  BY DEF BInv, Typed, Move, Memory!Move, Memory!Deallocate
<1>2. Typed'
  BY <1>1 DEF BInv, Typed, Move, Memory!Move, Moved
<1>3. Owned'
  BY <1>1 DEF BInv, Typed, Owned
<1>4. ViewsFollowTheirBytes'
  BY <1>1 DEF BInv, Typed, Owned, Moved, ViewsFollowTheirBytes
<1>5. QED
  BY <1>2, <1>3, <1>4 DEF BInv

\* A swap exchanges what the views of two buffers show.
LEMMA SwapStep ==
  ASSUME BInv, NEW b \in Buffers, NEW c \in Buffers, Swap(b, c)
  PROVE  BInv'
<1> USE BufferAssumption
<1>1. /\ b # c /\ view' = view /\ heap' = heap
      /\ ptr'[b] = ptr[c] /\ ptr'[c] = ptr[b]
      /\ \A d \in Buffers : d # b /\ d # c => ptr'[d] = ptr[d]
      /\ \A w \in Views : shows'[w] = Swapped(b, c, shows[w])
  BY DEF BInv, Typed, Swap, Memory!Swap
<1>2. Typed'
  BY <1>1 DEF BInv, Typed, Swap, Memory!Swap, Swapped
<1>3. Owned'
  BY <1>1 DEF BInv, Typed, Owned
<1>4. ViewsFollowTheirBytes'
  BY <1>1 DEF BInv, Typed, Owned, Swapped, ViewsFollowTheirBytes
<1>5. QED
  BY <1>2, <1>3, <1>4 DEF BInv

\* A new view is of all the bytes of its buffer.
LEMMA ViewStep ==
  ASSUME BInv, NEW w \in Views, NEW b \in Buffers, ViewBuffer(w, b)
  PROVE  BInv'
<1> USE BufferAssumption
<1>1. Size(b) \in Sizes /\ Data(b) \in Objects \cup {Null}
  <2>1. CASE ptr[b] = Null
    BY <2>1 DEF Size, Data, Memory!IsNull
  <2>2. CASE ptr[b] # Null
    <3>1. heap[ptr[b]] \in Contents
      BY <2>2 DEF BInv, Typed, Owned
    <3>2. QED
      BY <2>2, <3>1, ContentsLength DEF Size, Data, BInv, Typed, Memory!IsNull
  <2>3. QED
    BY <2>1, <2>2
<1>2. /\ ptr' = ptr /\ heap' = heap
      /\ view'[w] = [at |-> Data(b), n |-> Size(b)]
      /\ shows'[w] = IF Size(b) > 0 THEN b ELSE Null
      /\ \A u \in Views : u # w => view'[u] = view[u] /\ shows'[u] = shows[u]
  BY DEF BInv, Typed, ViewBuffer, BinaryView
<1>3. Typed'
  BY <1>1, <1>2 DEF BInv, Typed, ViewBuffer, BinaryView
<1>4. Owned'
  BY <1>2 DEF BInv, Owned
<1>5. Size(b) > 0 => Data(b) = ptr[b] /\ ptr[b] # Null /\ Size(b) = Len(heap[ptr[b]])
  BY DEF Size, Data, Memory!IsNull
<1>6. ViewsFollowTheirBytes'
  BY <1>1, <1>2, <1>5 DEF BInv, ViewsFollowTheirBytes
<1>7. QED
  BY <1>3, <1>4, <1>6 DEF BInv

\* Writing a byte moves and resizes nothing.
LEMMA WriteStep ==
  ASSUME BInv, NEW w \in Views, NEW i \in 1 .. view[w].n, NEW y \in Bytes, Write(w, i, y)
  PROVE  BInv'
<1> USE BufferAssumption
<1> DEFINE o == view[w].at
<1>1. /\ shows[w] \in Buffers /\ o = ptr[shows[w]] /\ o \in Objects
      /\ heap[o] # Free /\ heap[o] \in Contents /\ i \in 1 .. Len(heap[o])
      /\ UNCHANGED <<ptr, view, shows>>
  BY DEF BInv, Typed, Owned, ViewsFollowTheirBytes, Write
<1>2. /\ heap'[o] \in Contents /\ Len(heap'[o]) = Len(heap[o])
      /\ DOMAIN heap' = Objects
      /\ \A q \in Objects : q # o => heap'[q] = heap[q]
  BY <1>1, ContentsLength DEF BInv, Typed, Write
<1> HIDE DEF o
<1>3. Typed'
  BY <1>1, <1>2 DEF BInv, Typed
<1>4. Owned'
  BY <1>1, <1>2 DEF BInv, Typed, Owned
<1>5. ViewsFollowTheirBytes'
  BY <1>1, <1>2 DEF BInv, Typed, ViewsFollowTheirBytes
<1>6. QED
  BY <1>3, <1>4, <1>5 DEF BInv

\* Every operation keeps the invariant.
LEMMA BInvNext == BInv /\ [Next]_vars => BInv'
<1> SUFFICES ASSUME BInv, [Next]_vars PROVE BInv'
  OBVIOUS
<1> USE BufferAssumption
<1>1. ASSUME NEW b \in Buffers, NEW n \in Sizes, Allocate(b, n)
      PROVE  BInv'
  <2>1. [j \in 1 .. n |-> Zero] \in Contents
    BY ZeroesAreContents
  <2>2. QED
    BY <1>1, <2>1, FillStep DEF Allocate
<1>2. ASSUME NEW b \in Buffers, NEW s \in Contents, Make(b, s)
      PROVE  BInv'
  BY <1>2, FillStep DEF Make
<1>3. ASSUME NEW b \in Buffers, Destroy(b)
      PROVE  BInv'
  BY <1>3, DropStep DEF Destroy
<1>4. ASSUME NEW b \in Buffers, NEW c \in Buffers, Copy(b, c)
      PROVE  BInv'
  <2>1. CASE ptr[c] = Null
    BY <1>4, <2>1, DropStep DEF Copy, Memory!Copy, Memory!IsNull
  <2>2. CASE ptr[c] # Null
    <3>1. heap[ptr[c]] \in Contents
      BY <2>2 DEF BInv, Typed, Owned
    <3>2. QED
      BY <1>4, <2>2, <3>1, FillStep DEF Copy, Memory!Copy, Memory!IsNull
  <2>3. QED
    BY <2>1, <2>2
<1>5. ASSUME NEW w \in Views, ViewNothing(w)
      PROVE  BInv'
  <2>1. Typed'
    BY <1>5 DEF BInv, Typed, ViewNothing, EmptyView
  <2>2. Owned'
    BY <1>5 DEF BInv, Owned, ViewNothing
  <2>3. ViewsFollowTheirBytes'
    BY <1>5 DEF BInv, Typed, ViewsFollowTheirBytes, ViewNothing
  <2>4. QED
    BY <2>1, <2>2, <2>3 DEF BInv
<1>6. ASSUME NEW w \in Views, NEW u \in Views, ViewView(w, u)
      PROVE  BInv'
  <2>1. Typed'
    BY <1>6 DEF BInv, Typed, ViewView
  <2>2. Owned'
    BY <1>6 DEF BInv, Owned, ViewView
  <2>3. ViewsFollowTheirBytes'
    BY <1>6 DEF BInv, Typed, ViewsFollowTheirBytes, ViewView
  <2>4. QED
    BY <2>1, <2>2, <2>3 DEF BInv
<1>7. CASE UNCHANGED vars
  BY <1>7 DEF vars, BInv, Typed, Owned, ViewsFollowTheirBytes
<1>8. QED
  BY <1>1, <1>2, <1>3, <1>4, <1>5, <1>6, <1>7, MoveStep, SwapStep, ViewStep, WriteStep
     DEF Next

\* A view that the documentation calls valid points to the bytes of its buffer,
\* all of them, however buffers have been copied, moved and swapped since.
THEOREM ViewsStayValid == Spec => []ViewsFollowTheirBytes
<1>1. Init => BInv
  BY BufferAssumption
     DEF Init, Memory!Init, BInv, Typed, Owned, ViewsFollowTheirBytes, EmptyView
<1>2. BInv => ViewsFollowTheirBytes
  BY DEF BInv
<1>3. QED
  BY <1>1, <1>2, BInvNext, PTL DEF Spec

-----------------------------------------------------------------------------
(* Arrays as bytes *)

\* A set of numbers that is not empty has a smallest one.
LEMMA Smallest ==
  ASSUME NEW T, T \subseteq Nat, T # {}
  PROVE  \E m \in T : \A n \in T : m <= n
<1>1. PICK m \in T : \A n \in T : ~ (<<n, m>> \in OpToRel(<, Nat))
  BY NatLessThanWellFounded, WFMin, Zenon
<1>2. ASSUME NEW n \in T PROVE m <= n
  <2>1. ~ (<<n, m>> \in OpToRel(<, Nat))
    BY <1>1
  <2>2. ~ (n < m)
    BY <2>1 DEF OpToRel
  <2>. QED
    BY <2>2
<1>. QED
  BY <1>2

\* The element, and the place in it, that a byte of an array belongs to.
LEMMA DivMod ==
  ASSUME NEW W \in Nat \ {0}, NEW k \in Nat, NEW m \in 0 .. W - 1
  PROVE  (k * W + m) \div W = k /\ (k * W + m) % W = m
<1> DEFINE x == k * W + m
           q == x \div W
           r == x % W
<1>1. x \in Nat
  OBVIOUS
<1>2. q \in Int /\ r \in 0 .. W - 1 /\ x = q * W + r
  BY <1>1
<1> HIDE DEF q, r
<1>3. CASE q < k
  <2>1. (k - q) * W >= W
    BY <1>2, <1>3
  <2>. QED
    BY <1>2, <2>1
<1>4. CASE q > k
  <2>1. (q - k) * W >= W
    BY <1>2, <1>4
  <2>. QED
    BY <1>2, <2>1
<1>5. CASE q = k
  BY <1>2, <1>5 DEF q, r
<1>. QED
  BY <1>2, <1>3, <1>4, <1>5

\* The bytes of an array are those of its elements, one element after the other.
LEMMA FlattenElements ==
  ASSUME NEW n \in Nat, NEW a \in [1 .. n -> [1 .. Width -> Bytes]]
  PROVE  /\ FlattenSeq(a) \in Seq(Bytes)
         /\ Len(FlattenSeq(a)) = n * Width
         /\ \A i \in 1 .. n, j \in 1 .. Width : FlattenSeq(a)[(i - 1) * Width + j] = a[i][j]
<1> DEFINE W == Width
           Flat(f) == f = [i \in 1 .. Len(a) |-> IF i = 1 THEN a[i] ELSE f[i - 1] \o a[i]]
           flatten == CHOOSE f : Flat(f)
           cell(p) == a[(p - 1) \div W + 1][((p - 1) % W) + 1]
           g == [i \in 1 .. n |-> [p \in 1 .. i * W |-> cell(p)]]
<1>w. W \in Nat \ {0}
  BY BufferAssumption
<1>len. Len(a) = n /\ \A i \in 1 .. n : a[i] \in [1 .. W -> Bytes] /\ a[i] \in Seq(Bytes) /\ Len(a[i]) = W
  BY <1>w
<1> HIDE DEF W
<1>cell. ASSUME NEW i \in 1 .. n, NEW j \in 1 .. W PROVE cell((i - 1) * W + j) = a[i][j]
  <2>1. i - 1 \in Nat /\ j - 1 \in 0 .. W - 1
    BY <1>w
  <2>2. ((i - 1) * W + (j - 1)) \div W = i - 1 /\ ((i - 1) * W + (j - 1)) % W = j - 1
    BY <1>w, <2>1, DivMod
  <2>3. ((i - 1) * W + j) - 1 = (i - 1) * W + (j - 1)
    BY <1>w
  <2>. QED
    BY <2>2, <2>3
<1>step. ASSUME NEW i \in 1 .. n
         PROVE  (i - 1) * W \in Nat /\ i * W = (i - 1) * W + W
  BY <1>w
<1>cover. ASSUME NEW i \in 1 .. n, NEW p \in 1 .. i * W
          PROVE  cell(p) \in Bytes
  <2> DEFINE q == (p - 1) \div W
             r == (p - 1) % W
  <2>1. p - 1 \in Nat /\ i * W \in Nat
    BY <1>w
  <2>2. q \in Int /\ r \in 0 .. W - 1 /\ p - 1 = q * W + r
    BY <1>w, <2>1
  <2> HIDE DEF q, r
  <2>3. q >= 0
    <3>1. ASSUME q <= -1 PROVE FALSE
      <4>1. q * W <= -1 * W
        BY <1>w, <2>2, <3>1
      <4>. QED
        BY <1>w, <2>1, <2>2, <4>1
    <3>. QED
      BY <2>2, <3>1
  <2>4. q < i
    <3>1. ASSUME q >= i PROVE FALSE
      <4>1. q * W >= i * W
        BY <1>w, <2>2, <3>1
      <4>. QED
        BY <1>w, <2>1, <2>2, <4>1
    <3>. QED
      BY <2>2, <3>1
  <2>5. q + 1 \in 1 .. n /\ r + 1 \in 1 .. W
    BY <1>w, <2>2, <2>3, <2>4
  <2>6. a[q + 1][r + 1] \in Bytes
    BY <1>len, <2>5
  <2>. QED
    BY <2>6 DEF q, r
<1> HIDE DEF cell
<1>g. ASSUME NEW i \in 1 .. n
      PROVE  /\ g[i] \in Seq(Bytes) /\ Len(g[i]) = i * W
             /\ \A p \in 1 .. i * W : g[i][p] = cell(p)
  <2>1. g[i] = [p \in 1 .. i * W |-> cell(p)] /\ i * W \in Nat
    BY <1>w
  <2>2. g[i] \in [1 .. i * W -> Bytes]
    BY <1>cover, <2>1
  <2> HIDE DEF g
  <2>. QED
    BY <2>1, <2>2
<1> HIDE DEF g
<1>first. 1 \in 1 .. n => g[1] = a[1]
  <2> SUFFICES ASSUME 1 \in 1 .. n PROVE g[1] = a[1]
    OBVIOUS
  <2>1. 1 * W = W /\ \A p \in 1 .. W : g[1][p] = a[1][p]
    BY <1>w, <1>g, <1>cell
  <2>2. g[1] \in Seq(Bytes) /\ Len(g[1]) = W /\ a[1] \in Seq(Bytes) /\ Len(a[1]) = W
    BY <1>g, <1>len, <2>1
  <2> DEFINE x == g[1]
             y == a[1]
  <2> HIDE DEF x, y
  <2>3. x = y
    BY <2>1, <2>2, SeqEqual DEF x, y
  <2>. QED
    BY <2>3 DEF x, y
<1>next. ASSUME NEW i \in 1 .. n, i # 1 PROVE g[i] = g[i - 1] \o a[i]
  <2>1. i - 1 \in 1 .. n
    BY <1>next
  <2>2. /\ g[i] \in Seq(Bytes) /\ Len(g[i]) = (i - 1) * W + W
        /\ \A p \in 1 .. (i - 1) * W + W : g[i][p] = cell(p)
    BY <1>g, <1>step
  <2>3. /\ g[i - 1] \in Seq(Bytes) /\ Len(g[i - 1]) = (i - 1) * W /\ (i - 1) * W \in Nat
        /\ \A p \in 1 .. (i - 1) * W : g[i - 1][p] = cell(p)
    BY <1>g, <1>step, <2>1
  <2> DEFINE m == (i - 1) * W
             x == g[i - 1]
             y == a[i]
             z == g[i]
  <2>4. \A j \in 1 .. W : cell(m + j) = y[j]
    BY <1>cell
  <2>5. x \in Seq(Bytes) /\ y \in Seq(Bytes) /\ z \in Seq(Bytes)
        /\ Len(x) = m /\ Len(y) = W /\ Len(z) = m + W /\ m \in Nat
    BY <1>len, <2>2, <2>3
  <2>6. (\A p \in 1 .. m + W : z[p] = cell(p)) /\ \A p \in 1 .. m : x[p] = cell(p)
    BY <2>2, <2>3
  <2> HIDE DEF m, x, y, z
  <2>7. /\ x \o y \in Seq(Bytes) /\ Len(x \o y) = m + W
        /\ \A p \in 1 .. m + W : (x \o y)[p] = IF p <= m THEN x[p] ELSE y[p - m]
    <3>1. /\ x \o y \in Seq(Bytes)
          /\ Len(x \o y) = Len(x) + Len(y)
          /\ \A p \in 1 .. Len(x) + Len(y) :
               (x \o y)[p] = IF p <= Len(x) THEN x[p] ELSE y[p - Len(x)]
      BY <2>5, ConcatProperties, Zenon
    <3>. QED
      BY <2>5, <3>1
  <2>8. ASSUME NEW p \in 1 .. m + W PROVE z[p] = (x \o y)[p]
    <3>1. CASE p <= m
      BY <1>w, <2>5, <2>6, <2>7, <3>1
    <3>2. CASE p > m
      <4>1. p - m \in 1 .. W /\ m + (p - m) = p
        BY <1>w, <2>5, <3>2
      <4>2. cell(p) = y[p - m]
        BY <2>4, <4>1
      <4>. QED
        BY <1>w, <2>5, <2>6, <2>7, <3>2, <4>2
    <3>. QED
      BY <2>5, <3>1, <3>2, <1>w
  <2>9. z = x \o y
    BY <1>w, <2>5, <2>7, <2>8, SeqEqual
  <2>. QED
    BY <2>9 DEF x, y, z
<1>flat. Flat(g)
  <2>1. \A i \in 1 .. n : g[i] = IF i = 1 THEN a[i] ELSE g[i - 1] \o a[i]
    BY <1>first, <1>next
  <2>2. g = [i \in 1 .. n |-> g[i]]
    BY DEF g
  <2>. QED
    BY <1>len, <2>1, <2>2
<1>flatten. Flat(flatten)
  <2> HIDE DEF Flat
  <2>. QED
    BY <1>flat
<1>def. FlattenSeq(a) = IF n = 0 THEN a ELSE flatten[n]
  <2>1. FlattenSeq(a) = IF Len(a) = 0 THEN a ELSE flatten[Len(a)]
    BY DEF FlattenSeq
  <2> HIDE DEF flatten, Flat
  <2>. QED
    BY <1>len, <2>1
<1>same. \A i \in 1 .. n : flatten[i] = g[i]
  <2> DEFINE T == {i \in 1 .. n : flatten[i] # g[i]}
  <2>0. \A i \in 1 .. n : /\ flatten[i] = IF i = 1 THEN a[i] ELSE flatten[i - 1] \o a[i]
                          /\ g[i] = IF i = 1 THEN a[i] ELSE g[i - 1] \o a[i]
    BY <1>flat, <1>flatten, <1>len
  <2> HIDE DEF flatten, Flat
  <2>1. SUFFICES ASSUME T # {} PROVE FALSE
    OBVIOUS
  <2>2. PICK i \in T : \A k \in T : i <= k
    <3>1. T \subseteq Nat
      OBVIOUS
    <3> HIDE DEF T
    <3>. QED
      BY <2>1, <3>1, Smallest, Zenon
  <2>3. CASE i = 1
    BY <2>0, <2>3
  <2>4. CASE i # 1
    <3>1. i - 1 \in 1 .. n /\ i - 1 < i
      BY <2>4
    <3>2. flatten[i - 1] = g[i - 1]
      BY <2>2, <3>1
    <3>. QED
      BY <2>0, <2>4, <3>2
  <2>. QED
    BY <2>3, <2>4
<1> HIDE DEF flatten, Flat
<1>zero. CASE n = 0
  <2>1. FlattenSeq(a) = a /\ a \in Seq(Bytes) /\ Len(a) = 0 /\ n * Width = 0
    <3>1. Len(a) = 0 /\ n * W = 0
      BY <1>w, <1>len, <1>zero
    <3>2. a \in [1 .. 0 -> Bytes]
      BY <1>zero
    <3>. QED
      BY <1>def, <1>zero, <3>1, <3>2 DEF W
  <2>. QED
    BY <1>zero, <2>1
<1>more. CASE n # 0
  <2>1. n \in 1 .. n /\ FlattenSeq(a) = g[n]
    BY <1>def, <1>same, <1>more
  <2>2. ASSUME NEW i \in 1 .. n, NEW j \in 1 .. W
        PROVE  g[n][(i - 1) * W + j] = a[i][j]
    <3>1. (i - 1) * W + j \in 1 .. n * W
      <4>1. (i - 1) * W \in Nat /\ (i - 1) * W + W = i * W
        BY <1>step
      <4>2. (n - i) * W >= 0 /\ n * W = i * W + (n - i) * W
        BY <1>w
      <4>3. i * W \in Nat /\ n * W \in Nat /\ (n - i) * W \in Nat
        BY <1>w, <4>2
      <4>. QED
        BY <1>w, <4>1, <4>2, <4>3
    <3>. QED
      BY <1>g, <1>cell, <2>1, <3>1
  <2>. QED
    BY <1>g, <2>1, <2>2 DEF W
<1>. QED
  BY <1>zero, <1>more

-----------------------------------------------------------------------------
(* What the buffers hold *)

Pointers == INSTANCE Pimpl_proofs WITH Vars <- Buffers, Values <- Contents

\* What every buffer holds: bytes, or the Null of a buffer without a PIMPL.
Held == Pointers!Seen

\* The buffers own their bytes, and valid views show them.
OInv == BInv /\ Pointers!PInv

\* What the accessors see is what is held.
LEMMA ContentIsHeld ==
  ASSUME Pointers!PInv, NEW b \in Buffers
  PROVE  /\ Memory!IsNull(b) <=> Held[b] = Null
         /\ ~Memory!IsNull(b) => Held[b] = heap[ptr[b]] /\ Held[b] \in Contents
         /\ Content(b) = IF Held[b] = Null THEN <<>> ELSE Held[b]
<1>1. Held[b] = IF ptr[b] = Null THEN Null ELSE heap[ptr[b]]
  BY DEF Held, Pointers!Seen, Pointers!Content, Pointers!IsNull
<1>2. ptr[b] # Null => heap[ptr[b]] \in Contents
  BY DEF Pointers!PInv, Pointers!TypeOK, Pointers!OneOwnerEach, Pointers!IsNull
<1>3. Null \notin Contents
  BY BufferAssumption
<1>. QED
  BY <1>1, <1>2, <1>3 DEF Memory!IsNull, Content

-----------------------------------------------------------------------------
(* Operations on pointers *)

\* A buffer is filled.
LEMMA ConstructHeld ==
  ASSUME Pointers!PInv, NEW b \in Buffers, NEW s \in Contents, Memory!Construct(b, s)
  PROVE  Pointers!PInv' /\ Held' = [Held EXCEPT ![b] = s]
<1>1. Pointers!Construct(b, s)
  BY DEF Memory!Construct, Pointers!Construct, Memory!Deallocate, Pointers!Deallocate
<1>. QED
  BY <1>1, Pointers!ConstructStep, Pointers!ConstructSeen DEF Held

\* A buffer that is destroyed holds nothing.
LEMMA DestroyHeld ==
  ASSUME Pointers!PInv, NEW b \in Buffers, Memory!Destroy(b)
  PROVE  Pointers!PInv' /\ Held' = [Held EXCEPT ![b] = Null]
<1>1. Pointers!Destroy(b)
  BY DEF Memory!Destroy, Pointers!Destroy, Memory!Deallocate, Pointers!Deallocate
<1>. QED
  BY <1>1, Pointers!DestroyStep, Pointers!DestroySeen DEF Held

\* A copy of a buffer without a PIMPL has none, a copy of another one a clone.
LEMMA CopyHeld ==
  ASSUME Pointers!PInv, NEW b \in Buffers, NEW c \in Buffers, Memory!Copy(b, c)
  PROVE  Pointers!PInv' /\ Held' = [Held EXCEPT ![b] = Held[c]]
<1>1. CASE Memory!IsNull(c)
  BY <1>1, ContentIsHeld, DestroyHeld DEF Memory!Copy
<1>2. CASE ~Memory!IsNull(c)
  <2>1. Memory!Construct(b, Held[c]) /\ Held[c] \in Contents
    BY <1>2, ContentIsHeld DEF Memory!Copy
  <2>. QED
    BY <2>1, ConstructHeld
<1>. QED
  BY <1>1, <1>2

\* A move hands the bytes over.
LEMMA MoveHeld ==
  ASSUME Pointers!PInv, NEW b \in Buffers, NEW c \in Buffers, Memory!Move(b, c)
  PROVE  Pointers!PInv' /\ Held' = [Held EXCEPT ![c] = Null, ![b] = Held[c]]
<1>1. Pointers!Move(b, c)
  BY DEF Memory!Move, Pointers!Move, Memory!Deallocate, Pointers!Deallocate
<1>. QED
  BY <1>1, Pointers!MoveStep, Pointers!MoveSeen DEF Held

\* A swap exchanges them.
LEMMA SwapHeld ==
  ASSUME Pointers!PInv, NEW b \in Buffers, NEW c \in Buffers, Memory!Swap(b, c)
  PROVE  Pointers!PInv' /\ Held' = [Held EXCEPT ![b] = Held[c], ![c] = Held[b]]
<1>1. Pointers!Swap(b, c)
  BY DEF Memory!Swap, Pointers!Swap
<1>. QED
  BY <1>1, Pointers!SwapStep, Pointers!SwapSeen DEF Held

\* A view that may be used writes into the one buffer that it shows.
LEMMA WriteHeld ==
  ASSUME OInv, NEW w \in Views, NEW i \in 1 .. view[w].n, NEW y \in Bytes, Write(w, i, y)
  PROVE  /\ Pointers!PInv' /\ shows[w] \in Buffers /\ Held[shows[w]] \in Contents \ {<<>>}
         /\ \E s \in Contents \ {<<>>} : Held' = [Held EXCEPT ![shows[w]] = s]
<1> DEFINE o == view[w].at
           b == shows[w]
           s == [heap[o] EXCEPT ![i] = y]
<1>1. /\ b \in Buffers /\ b # Null /\ o = ptr[b] /\ o # Null
      /\ view[w].n = Len(heap[o]) /\ Len(heap[o]) > 0
  BY DEF OInv, BInv, Typed, ViewsFollowTheirBytes, Write
<1>2. ~Memory!IsNull(b) /\ Held[b] = heap[o] /\ heap[o] \in Contents
  BY <1>1, ContentIsHeld DEF Memory!IsNull, OInv
<1>3. s \in Contents /\ Len(s) = Len(heap[o])
  BY <1>1, <1>2, ContentsLength
<1>4. Pointers!Update(b, s)
  BY <1>1, <1>2 DEF Pointers!Update, Memory!IsNull, Pointers!IsNull, Write
<1> HIDE DEF s, o, b
<1>5. Pointers!PInv' /\ Held' = [Held EXCEPT ![b] = s]
  BY <1>1, <1>3, <1>4, Pointers!UpdateStep, Pointers!UpdateSeen DEF Held, OInv
<1>6. heap[o] # <<>> /\ s # <<>>
  BY <1>1, <1>3
<1>. QED
  BY <1>1, <1>2, <1>3, <1>5, <1>6 DEF b

-----------------------------------------------------------------------------
(* Values *)

\* The bytes that are held, and the value of every buffer.
BytesOf(v) == IF v = Null THEN <<>> ELSE v
HeldBytes == [b \in Buffers |-> BytesOf(Held[b])]
Contained == [b \in Buffers |-> Content(b)]

\* The refinement mapping is what is held.
LEMMA ContainedIsHeld == Pointers!PInv => Contained = HeldBytes
  BY ContentIsHeld DEF Contained, HeldBytes, BytesOf

\* The same, after a step.
LEMMA ContainedIsHeldNext == (Pointers!PInv => Contained = HeldBytes)'
<1>1. Pointers!PInv => Contained = HeldBytes
  BY ContainedIsHeld
<1>. QED
  BY <1>1, PTL

\* The domain of what is held.
LEMMA HeldIsFunction == Held = [b \in Buffers |-> Held[b]]
  BY DEF Held, Pointers!Seen

\* Filling a buffer gives it a value, or takes it away when there are no bytes.
LEMMA FillRefined ==
  ASSUME Pointers!PInv, NEW b \in Buffers, NEW s \in Contents, Memory!Construct(b, s)
  PROVE  Pointers!PInv' /\ Bytewise!Next
<1>1. Pointers!PInv' /\ Held' = [Held EXCEPT ![b] = s]
  BY ConstructHeld
<1>2. s # Null
  BY BufferAssumption
<1>3. \A c \in Buffers : Held'[c] = IF c = b THEN s ELSE Held[c]
  BY <1>1, HeldIsFunction
<1>4. HeldBytes' = [HeldBytes EXCEPT ![b] = s]
  BY <1>2, <1>3 DEF HeldBytes, BytesOf
<1>5. Contained' = [Contained EXCEPT ![b] = s]
  BY <1>1, <1>4, ContainedIsHeld, ContainedIsHeldNext
<1>6. CASE s = <<>>
  <2>1. Bytewise!Destroy(b)
    BY <1>5, <1>6 DEF Bytewise!Destroy, Contained
  <2>. QED
    BY <1>1, <2>1 DEF Bytewise!Next
<1>7. CASE s # <<>>
  <2>1. Bytewise!Construct(b, s) /\ s \in Contents \ {<<>>}
    BY <1>5, <1>7 DEF Bytewise!Construct, Contained
  <2>. QED
    BY <1>1, <2>1 DEF Bytewise!Next
<1>. QED
  BY <1>6, <1>7

\* A buffer that goes has no value.
LEMMA DropRefined ==
  ASSUME Pointers!PInv, NEW b \in Buffers, Memory!Destroy(b)
  PROVE  Pointers!PInv' /\ Bytewise!Next
<1>1. Pointers!PInv' /\ Held' = [Held EXCEPT ![b] = Null]
  BY DestroyHeld
<1>2. \A c \in Buffers : Held'[c] = IF c = b THEN Null ELSE Held[c]
  BY <1>1, HeldIsFunction
<1>3. HeldBytes' = [HeldBytes EXCEPT ![b] = <<>>]
  BY <1>2 DEF HeldBytes, BytesOf
<1>4. Bytewise!Destroy(b)
  BY <1>1, <1>3, ContainedIsHeld, ContainedIsHeldNext DEF Bytewise!Destroy, Contained
<1>. QED
  BY <1>1, <1>4 DEF Bytewise!Next

\* A copy has the same value.
LEMMA CopyRefined ==
  ASSUME Pointers!PInv, NEW b \in Buffers, NEW c \in Buffers, Memory!Copy(b, c)
  PROVE  Pointers!PInv' /\ Bytewise!Next
<1>1. Pointers!PInv' /\ Held' = [Held EXCEPT ![b] = Held[c]]
  BY CopyHeld
<1>2. \A d \in Buffers : Held'[d] = IF d = b THEN Held[c] ELSE Held[d]
  BY <1>1, HeldIsFunction
<1>3. HeldBytes' = [HeldBytes EXCEPT ![b] = HeldBytes[c]]
  BY <1>2 DEF HeldBytes, BytesOf
<1>4. Bytewise!Copy(b, c)
  BY <1>1, <1>3, ContainedIsHeld, ContainedIsHeldNext DEF Bytewise!Copy, Contained
<1>. QED
  BY <1>1, <1>4 DEF Bytewise!Next

\* A move takes the value along.
LEMMA MoveRefined ==
  ASSUME Pointers!PInv, NEW b \in Buffers, NEW c \in Buffers, Memory!Move(b, c)
  PROVE  Pointers!PInv' /\ Bytewise!Next
<1>1. Pointers!PInv' /\ Held' = [Held EXCEPT ![c] = Null, ![b] = Held[c]]
  BY MoveHeld
<1>2. \A d \in Buffers : Held'[d] = IF d = b THEN Held[c] ELSE IF d = c THEN Null ELSE Held[d]
  BY <1>1, HeldIsFunction
<1>3. HeldBytes' = [HeldBytes EXCEPT ![c] = <<>>, ![b] = HeldBytes[c]]
  BY <1>2 DEF HeldBytes, BytesOf
<1>4. Bytewise!Move(b, c)
  BY <1>1, <1>3, ContainedIsHeld, ContainedIsHeldNext DEF Bytewise!Move, Contained
<1>. QED
  BY <1>1, <1>4 DEF Bytewise!Next

\* A swap exchanges two values.
LEMMA SwapRefined ==
  ASSUME Pointers!PInv, NEW b \in Buffers, NEW c \in Buffers, Memory!Swap(b, c)
  PROVE  Pointers!PInv' /\ Bytewise!Next
<1>1. Pointers!PInv' /\ Held' = [Held EXCEPT ![b] = Held[c], ![c] = Held[b]]
  BY SwapHeld
<1>2. \A d \in Buffers : Held'[d] = IF d = c THEN Held[b] ELSE IF d = b THEN Held[c] ELSE Held[d]
  BY <1>1, HeldIsFunction
<1>3. HeldBytes' = [HeldBytes EXCEPT ![b] = HeldBytes[c], ![c] = HeldBytes[b]]
  BY <1>2 DEF HeldBytes, BytesOf
<1>4. Bytewise!Swap(b, c)
  BY <1>1, <1>3, ContainedIsHeld, ContainedIsHeldNext DEF Bytewise!Swap, Contained
<1>. QED
  BY <1>1, <1>4 DEF Bytewise!Next

\* A byte that is written changes the value of the buffer that the view shows.
LEMMA WriteRefined ==
  ASSUME OInv, NEW w \in Views, NEW i \in 1 .. view[w].n, NEW y \in Bytes, Write(w, i, y)
  PROVE  Pointers!PInv' /\ Bytewise!Next
<1>1. /\ Pointers!PInv' /\ Pointers!PInv
      /\ shows[w] \in Buffers /\ Held[shows[w]] \in Contents \ {<<>>}
  BY WriteHeld DEF OInv
<1>2. PICK s \in Contents \ {<<>>} : Held' = [Held EXCEPT ![shows[w]] = s]
  BY WriteHeld
<1>3. PICK b \in Buffers : b = shows[w]
  BY <1>1
<1>4. s # Null /\ Held[b] # Null /\ Held[b] # <<>>
  BY <1>1, <1>3, BufferAssumption
<1>5. \A d \in Buffers : Held'[d] = IF d = b THEN s ELSE Held[d]
  BY <1>2, <1>3, HeldIsFunction
<1>6. HeldBytes' = [HeldBytes EXCEPT ![b] = s] /\ HeldBytes[b] # <<>>
  BY <1>4, <1>5 DEF HeldBytes, BytesOf
<1>7. Bytewise!Update(b, s)
  BY <1>1, <1>6, ContainedIsHeld, ContainedIsHeldNext DEF Bytewise!Update, Contained
<1>. QED
  BY <1>1, <1>7 DEF Bytewise!Next

\* What leaves pointers and bytes alone leaves the values alone.
LEMMA NothingRefined ==
  ASSUME Pointers!PInv, ptr' = ptr, heap' = heap
  PROVE  Pointers!PInv' /\ Contained' = Contained
  BY DEF Pointers!PInv, Pointers!TypeOK, Pointers!OneOwnerEach, Pointers!IsNull,
         Pointers!PimplAssumption, Contained, Content, Memory!IsNull

\* Every operation keeps the ownership and is one on values, or none.
LEMMA OInvNext == OInv /\ [Next]_vars => OInv' /\ [Bytewise!Next]_Contained
<1> SUFFICES ASSUME OInv, [Next]_vars PROVE OInv' /\ [Bytewise!Next]_Contained
  OBVIOUS
<1> DEFINE Goal == Pointers!PInv' /\ [Bytewise!Next]_Contained
<1>0. Pointers!PInv
  BY DEF OInv
<1>1. ASSUME NEW b \in Buffers, NEW n \in Sizes, Allocate(b, n) PROVE Goal
  <2>1. [j \in 1 .. n |-> Zero] \in Contents
    BY ZeroesAreContents
  <2>. QED
    BY <1>0, <1>1, <2>1, FillRefined DEF Allocate
<1>2. ASSUME NEW b \in Buffers, NEW s \in Contents, Make(b, s) PROVE Goal
  BY <1>0, <1>2, FillRefined DEF Make
<1>3. ASSUME NEW b \in Buffers, Destroy(b) PROVE Goal
  BY <1>0, <1>3, DropRefined DEF Destroy
<1>4. ASSUME NEW b \in Buffers, NEW c \in Buffers, Copy(b, c) \/ Move(b, c) \/ Swap(b, c)
      PROVE  Goal
  BY <1>0, <1>4, CopyRefined, MoveRefined, SwapRefined DEF Copy, Move, Swap
<1>5. ASSUME NEW w \in Views, NEW i \in 1 .. view[w].n, NEW y \in Bytes, Write(w, i, y)
      PROVE  Goal
  BY <1>5, WriteRefined
<1>6. ASSUME ptr' = ptr, heap' = heap PROVE Goal
  BY <1>0, <1>6, NothingRefined
<1>7. ASSUME UNCHANGED vars PROVE Goal
  BY <1>6, <1>7 DEF vars
<1>8. ASSUME Next PROVE Goal
  <2>1. ASSUME NEW w \in Views, NEW b \in Buffers, ViewBuffer(w, b) PROVE Goal
    BY <1>6, <2>1 DEF ViewBuffer
  <2>2. ASSUME NEW w \in Views, ViewNothing(w) PROVE Goal
    BY <1>6, <2>2 DEF ViewNothing
  <2>3. ASSUME NEW w \in Views, NEW u \in Views, ViewView(w, u) PROVE Goal
    BY <1>6, <2>3 DEF ViewView
  <2> HIDE DEF Goal
  <2>. QED
    BY <1>1, <1>2, <1>3, <1>4, <1>5, <1>8, <2>1, <2>2, <2>3 DEF Next
<1>9. BInv'
  BY BInvNext DEF OInv
<1>. QED
  BY <1>7, <1>8, <1>9 DEF OInv

\* Buffers start without a PIMPL, and views without a buffer.
LEMMA OInvInit == Init => OInv /\ Bytewise!Init
<1> SUFFICES ASSUME Init PROVE OInv /\ Bytewise!Init
  OBVIOUS
<1>1. BInv
  BY BufferAssumption
     DEF Init, Memory!Init, BInv, Typed, Owned, ViewsFollowTheirBytes, EmptyView
<1>2. Pointers!PInv
  <2>1. Pointers!PimplAssumption /\ Pointers!Init
    BY BufferAssumption DEF Init, Memory!Init, Pointers!PimplAssumption, Pointers!Init
  <2>. QED
    BY <2>1, Pointers!PInvInit
<1>3. Bytewise!Init
  BY DEF Init, Memory!Init, Bytewise!Init, Content, Memory!IsNull
<1>. QED
  BY <1>1, <1>2, <1>3 DEF OInv

-----------------------------------------------------------------------------
(* Theorems *)

\* The inductive invariant: every PIMPL that is allocated has one owner, and
\* valid views point to all the bytes of their buffers.
THEOREM Invariance == Spec => []OInv
<1>1. Init => OInv
  BY OInvInit
<1>2. OInv /\ [Next]_vars => OInv'
  BY OInvNext
<1>. QED
  BY <1>1, <1>2, PTL DEF Spec

\* No PIMPL of a buffer leaks, is freed twice or is used after it was freed,
\* with views and what is written through them in play.
THEOREM BuffersOwnTheirBytes == Spec => []OneOwnerEach
<1>1. OInv => OneOwnerEach
  BY DEF OInv, Pointers!PInv, Pointers!OneOwnerEach, Pointers!IsNull,
         OneOwnerEach, Memory!OneOwnerEach, Memory!IsNull
<1>. QED
  BY <1>1, Invariance, PTL

\* Bytes have value semantics: a copy is deep, a move or swap takes bytes along,
\* and what is written through a view shows in the buffer it is of and in no other.
THEOREM Refinement == Spec => BytesHaveValueSemantics
<1>1. Init => OInv /\ Bytewise!Init
  BY OInvInit
<1>2. OInv /\ [Next]_vars => OInv' /\ [Bytewise!Next]_Contained
  BY OInvNext
<1>. QED
  BY <1>1, <1>2, PTL DEF Spec, BytesHaveValueSemantics, Bytewise!Spec, Contained

\* An array that is in a buffer comes out of it as it went in.
LEMMA ArraysComeOut ==
  ASSUME NEW a \in Arrays
  PROVE  FromBytes(ToBytes(a)) = a
<1>1. PICK n \in Nat : a \in [1 .. n -> [1 .. Width -> Bytes]]
  <2>1. PICK k \in Sizes : a \in [1 .. k \div Width -> [1 .. Width -> Bytes]]
    BY DEF Arrays
  <2>2. k \div Width \in Nat
    BY BufferAssumption
  <2>. QED
    BY <2>1, <2>2
<1> DEFINE s == ToBytes(a)
<1>2. /\ Len(s) = n * Width
      /\ \A i \in 1 .. n, j \in 1 .. Width : s[(i - 1) * Width + j] = a[i][j]
  BY <1>1, FlattenElements DEF ToBytes
<1>3. Len(s) \div Width = n
  <2>1. (n * Width + 0) \div Width = n
    <3>1. 0 \in 0 .. Width - 1 /\ Width \in Nat \ {0}
      BY BufferAssumption
    <3>. QED
      BY <3>1, DivMod
  <2>. QED
    BY <1>2, <2>1, BufferAssumption
<1> HIDE DEF s
<1>4. FromBytes(s) = [i \in 1 .. n |-> [j \in 1 .. Width |-> s[(i - 1) * Width + j]]]
  BY <1>3 DEF FromBytes
<1>5. \A i \in 1 .. n : [j \in 1 .. Width |-> s[(i - 1) * Width + j]] = a[i]
  BY <1>1, <1>2
<1>6. [i \in 1 .. n |-> [j \in 1 .. Width |-> s[(i - 1) * Width + j]]] = a
  BY <1>1, <1>5
<1>. QED
  BY <1>4, <1>6 DEF s

\* A buffer is nothing but its bytes: they say whether it has a pointer, what it
\* is equal to and which array comes out of it, however it got them.
THEOREM BytesAreAll == Spec => []OnlyBytesCount
<1>1. OInv => DataIffBytes
  <2> SUFFICES ASSUME OInv, NEW b \in Buffers PROVE Data(b) = Null <=> Size(b) = 0
    BY DEF DataIffBytes
  <2>. QED
    BY DEF Data, Size, Memory!IsNull
<1>2. OInv => EqualIffSameBytes
  <2> SUFFICES ASSUME OInv, NEW b \in Buffers, NEW c \in Buffers
               PROVE  Equal(b, c) <=> Content(b) = Content(c)
    BY DEF EqualIffSameBytes
  <2>1. \A d \in Buffers :
          /\ Content(d) \in Seq(Bytes) /\ Len(Content(d)) = Size(d)
          /\ Size(d) > 0 => heap[Data(d)] = Content(d)
    <3> SUFFICES ASSUME NEW d \in Buffers
                 PROVE  /\ Content(d) \in Seq(Bytes) /\ Len(Content(d)) = Size(d)
                        /\ Size(d) > 0 => heap[Data(d)] = Content(d)
      OBVIOUS
    <3>1. CASE Memory!IsNull(d)
      BY <3>1 DEF Content, Size
    <3>2. CASE ~Memory!IsNull(d)
      <4>1. heap[ptr[d]] \in Contents
        BY <3>2, ContentIsHeld DEF OInv
      <4>2. heap[ptr[d]] \in Seq(Bytes)
        <5>1. PICK n \in Sizes : heap[ptr[d]] \in [1 .. n -> Bytes]
          BY <4>1 DEF Contents
        <5>2. n \in Nat
          BY BufferAssumption
        <5>. QED
          BY <5>1, <5>2
      <4>. QED
        BY <3>2, <4>2 DEF Content, Size, Data
    <3>. QED
      BY <3>1, <3>2
  <2>2. Equal(b, c) <=> /\ Len(Content(b)) = Len(Content(c))
                        /\ \A i \in 1 .. Len(Content(b)) : Content(b)[i] = Content(c)[i]
    <3>1. CASE Size(b) = Size(c) /\ Size(b) > 0
      BY <2>1, <3>1 DEF Equal
    <3>2. CASE Size(b) = Size(c) /\ ~(Size(b) > 0)
      <4>1. Size(b) = 0 /\ 1 .. Size(b) = {}
        BY <2>1, <3>2
      <4>. QED
        BY <2>1, <3>2, <4>1 DEF Equal
    <3>3. CASE Size(b) # Size(c)
      BY <2>1, <3>3 DEF Equal
    <3>. QED
      BY <3>1, <3>2, <3>3
  <2> DEFINE s == Content(b)
             t == Content(c)
  <2>3. s \in Seq(Bytes) /\ t \in Seq(Bytes)
    BY <2>1
  <2>4. Equal(b, c) <=> Len(s) = Len(t) /\ \A i \in 1 .. Len(s) : s[i] = t[i]
    BY <2>2
  <2> HIDE DEF s, t
  <2>5. Equal(b, c) <=> s = t
    BY <2>3, <2>4, SeqEqual
  <2>. QED
    BY <2>5 DEF s, t
<1>3. ArraysSurvive
  BY ArraysComeOut DEF ArraysSurvive
<1>4. OInv => OnlyBytesCount
  BY <1>1, <1>2, <1>3 DEF OnlyBytesCount
<1>. QED
  BY <1>4, Invariance, PTL
=============================================================================
