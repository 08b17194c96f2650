------------------------------ MODULE MCCommPP ------------------------------
(* Finite instances of CommPP. *)
EXTENDS CommPP

\* No root, and one for each side of "am I the root"; or the ranks' own RAMs.
AllRoots   == {NoRoot, 0, N - 1}
WithOwnRam == {NoRoot, N - 1, Mine}

\* A length of 0 is an empty array, or an empty message.  Two do not fit an int:
\* stored in one, the first becomes negative and the second 1.
AroundInt == {0, 1, MaxInt, MaxInt + 2, 2 * MaxInt + 3}
OneOrNone == 0 .. 1
=============================================================================
