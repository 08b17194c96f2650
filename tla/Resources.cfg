\* A view and two copies of its resource sets, which may outlive it and meet a
\* later one, and two RAMs; loggers assigned through any of them.
SPECIFICATION Spec
CONSTANTS
  r1 = r1
  x1 = x1
  x2 = x2
  m1 = m1
  m2 = m2
  o1 = o1
  o2 = o2
  o3 = o3
  o4 = o4
  a = a
  Runtimes = {r1}
  Sets = {x1, x2}
  Rams = {m1, m2}
  Objects = {o1, o2, o3, o4}
  Free = Free
  Names = {a}
  NullLogger = NullLogger
  Null = Null
  Size = 2
  Me = 1
SYMMETRY Symmetry
INVARIANTS
  OneIsMine
  EqualSetsAgree
  OnlyCopiesShareALogger
  RamSendsToARank
PROPERTY EntriesAreStable
