----------------------------- MODULE BinaryBuffer -----------------------------
(****************************************************************************)
(* Buffers of bytes and views of them.  A BinaryBuffer owns its bytes       *)
(* through a unique_ptr to a type-erased PIMPL (see Pimpl); a BinaryView is *)
(* a raw pointer into such a PIMPL and a length, and owns nothing.  MPI     *)
(* reads and writes through views, so the documentation says which          *)
(* operations on buffers leave their views valid, and whose bytes they show *)
(* afterwards.  "shows" is what that documentation makes of every view.     *)
(****************************************************************************)
EXTENDS Integers, SequencesExt

CONSTANTS
  Buffers,  \* the program's variables of type BinaryBuffer
  Views,    \* the program's variables of type BinaryView or ConstBinaryView
  Objects,  \* the PIMPLs that can be allocated (a bound)
  Bytes,    \* the values of a std::byte
  Zero,     \* the value of a byte that is not set
  Sizes,    \* bound: the numbers of bytes in a buffer
  Width,    \* sizeof the elements of an array that needs no serialization
  Null,     \* nullptr; as what a view shows: nothing any more
  Free      \* the state of an object that is not allocated

Contents == UNION {[1 .. n -> Bytes] : n \in Sizes}

ASSUME BufferAssumption ==
  /\ 0 \in Sizes /\ Sizes \subseteq Nat /\ Width \in Nat \ {0}
  /\ Zero \in Bytes
  /\ Null \notin Objects \cup Buffers \cup Contents
  /\ Free \notin Contents

VARIABLES
  ptr,   \* m_pimpl_ of every buffer
  heap,  \* the bytes of every PIMPL
  view,  \* m_p_ and m_n_ of every view
  shows  \* history: the buffer whose bytes a view shows

vars == <<ptr, heap, view, shows>>

Memory == INSTANCE Pimpl WITH Vars <- Buffers, Values <- Contents

-----------------------------------------------------------------------------
\* The accessors of a buffer.
Size(b) == IF Memory!IsNull(b) THEN 0 ELSE Len(heap[ptr[b]])

Data(b) == IF Size(b) = 0 THEN Null ELSE ptr[b]

Equal(b, c) ==
  /\ Size(b) = Size(c)
  /\ \A i \in 1 .. Size(b) : heap[Data(b)][i] = heap[Data(c)][i]

\* The bytes of an array of elements, and the elements in the bytes of a view.
Arrays == UNION {[1 .. n -> [1 .. Width -> Bytes]] : n \in {k \div Width : k \in Sizes}}
ToBytes(array) == FlattenSeq(array)

\* Mutant: a step of one byte from element to element.
FromBytesOverlapping(s) ==
  [i \in 1 .. Len(s) \div Width |-> [j \in 1 .. Width |-> s[i - 1 + j]]]
FromBytes(s) ==
  [i \in 1 .. Len(s) \div Width |-> [j \in 1 .. Width |-> s[(i - 1) * Width + j]]]

EmptyView == [at |-> Null, n |-> 0]

\* BinaryView(p, n) throws when p is the nullptr and n is not 0.
BinaryView(p, n) == [at |-> p, n |-> n]
Refused(p, n) == p = Null /\ n > 0

-----------------------------------------------------------------------------
Init ==
  /\ Memory!Init
  /\ view = [w \in Views |-> EmptyView]
  /\ shows = [w \in Views |-> Null]

\* The views of the bytes that b had before it was given others.
Lost(b) == [w \in Views |-> IF shows[w] = b THEN Null ELSE shows[w]]

\* b = BinaryBuffer(n)
Allocate(b, n) ==
  /\ Memory!Construct(b, [i \in 1 .. n |-> Zero])
  /\ shows' = Lost(b)
  /\ UNCHANGED view

\* b = make_binary_buffer(object): the object's serialized form, or the object
\* itself when it is an array.
Make(b, s) ==
  /\ Memory!Construct(b, s)
  /\ shows' = Lost(b)
  /\ UNCHANGED view

\* b = BinaryBuffer(), or b is destroyed.
Destroy(b) ==
  /\ Memory!Destroy(b)
  /\ shows' = Lost(b)
  /\ UNCHANGED view

\* Mutant: the copy shares the bytes.
CopyShared(b, c) ==
  /\ b # c
  /\ heap' = IF ptr[b] = ptr[c] THEN heap ELSE Memory!Deallocate(heap, ptr[b])
  /\ ptr' = [ptr EXCEPT ![b] = ptr[c]]
  /\ shows' = Lost(b)
  /\ UNCHANGED view

Copy(b, c) ==
  /\ b # c
  /\ Memory!Copy(b, c)
  /\ shows' = Lost(b)
  /\ UNCHANGED view

\* What a move of c to b and a swap make of a view that showed u.
Moved(b, c, u) == IF u = c THEN b ELSE IF u = b THEN Null ELSE u
Swapped(b, c, u) == IF u = c THEN b ELSE IF u = b THEN c ELSE u

\* Mutant: the bytes are moved by copying them, and the source is reset.
MoveByClone(b, c) ==
  /\ b # c
  /\ ~Memory!IsNull(c)
  /\ \E o \in Objects :
       /\ heap[o] = Free
       /\ ptr' = [ptr EXCEPT ![b] = o, ![c] = Null]
       /\ heap' = [q \in Objects |-> IF q = o THEN heap[ptr[c]]
                                     ELSE IF q \in {ptr[b], ptr[c]} THEN Free ELSE heap[q]]
  /\ shows' = [w \in Views |-> Moved(b, c, shows[w])]
  /\ UNCHANGED view

Move(b, c) ==
  /\ b # c
  /\ Memory!Move(b, c)
  /\ shows' = [w \in Views |-> Moved(b, c, shows[w])]
  /\ UNCHANGED view

Swap(b, c) ==
  /\ b # c
  /\ Memory!Swap(b, c)
  /\ shows' = [w \in Views |-> Swapped(b, c, shows[w])]
  /\ UNCHANGED view

\* The conversion of a buffer to a view of its bytes, which is noexcept.
ViewBuffer(w, b) ==
  /\ ~Refused(Data(b), Size(b))
  /\ view' = [view EXCEPT ![w] = BinaryView(Data(b), Size(b))]
  /\ shows' = [shows EXCEPT ![w] = IF Size(b) > 0 THEN b ELSE Null]
  /\ UNCHANGED <<ptr, heap>>

\* A view of no bytes: BinaryView(), or BinaryView(nullptr, 0).
ViewNothing(w) ==
  /\ view' = [view EXCEPT ![w] = EmptyView]
  /\ shows' = [shows EXCEPT ![w] = Null]
  /\ UNCHANGED <<ptr, heap>>

\* A view of what another view shows, of the same type or read-only.
ViewView(w, u) ==
  /\ view' = [view EXCEPT ![w] = view[u]]
  /\ shows' = [shows EXCEPT ![w] = shows[u]]
  /\ UNCHANGED <<ptr, heap>>

\* The program, or MPI, writes through a view that may still be used.
Write(w, i, y) ==
  /\ shows[w] # Null
  /\ heap' = [heap EXCEPT ![view[w].at] = [heap[view[w].at] EXCEPT ![i] = y]]
  /\ UNCHANGED <<ptr, view, shows>>

Next ==
  \/ \E b \in Buffers :
       \/ \E n \in Sizes : Allocate(b, n)
       \/ \E s \in Contents : Make(b, s)
       \/ Destroy(b)
       \/ \E c \in Buffers : Copy(b, c) \/ Move(b, c) \/ Swap(b, c)
       \/ \E w \in Views : ViewBuffer(w, b)
  \/ \E w \in Views :
       \/ ViewNothing(w)
       \/ \E u \in Views : ViewView(w, u)
       \/ \E i \in 1 .. view[w].n, y \in Bytes : Write(w, i, y)

Spec == Init /\ [][Next]_vars

-----------------------------------------------------------------------------
(* Properties *)

\* A PIMPL has one owner, and is freed with it.
OneOwnerEach == Memory!OneOwnerEach

\* A view that may still be used points to the bytes of the buffer that it
\* shows, all of them and no more, through moves and swaps of that buffer.
ViewsFollowTheirBytes ==
  \A w \in Views : shows[w] # Null =>
    /\ view[w].at = ptr[shows[w]] /\ view[w].at # Null
    /\ view[w].n = Len(heap[view[w].at]) /\ view[w].n > 0

\* Converting a buffer to a view never throws, and a buffer has a pointer
\* exactly if it has bytes: one with an empty PIMPL passes for a default one.
DataIffBytes == \A b \in Buffers : Data(b) = Null <=> Size(b) = 0

\* Buffers are equal if they have the same bytes, in PIMPLs of any type.
Content(b) == IF Memory!IsNull(b) THEN <<>> ELSE heap[ptr[b]]
EqualIffSameBytes == \A b, c \in Buffers : Equal(b, c) <=> Content(b) = Content(c)

\* An array comes out of a buffer as it went in, wherever its bytes came from.
ArraysSurvive ==
  \A b \in Buffers : \A a \in Arrays : Content(b) = ToBytes(a) => FromBytes(Content(b)) = a

\* What a buffer is decided by is its bytes, whoever put them there: they say
\* whether it is null, what it is equal to, and which array comes out of it.
OnlyBytesCount == DataIffBytes /\ EqualIffSameBytes /\ ArraysSurvive

\* The bytes have value semantics: what is written through a view shows in the
\* one buffer that the view is of, and in no copy of it.
Bytewise == INSTANCE ValueSemantics WITH
  Vars <- Buffers, Values <- Contents \ {<<>>}, Null <- <<>>,
  value <- [b \in Buffers |-> Content(b)]
BytesHaveValueSemantics == Bytewise!Spec
=============================================================================
