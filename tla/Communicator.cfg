\* Two CommPPs of one process of three, and a handle that is used again.
SPECIFICATION Spec
CONSTANTS
  c1 = c1
  c2 = c2
  o1 = o1
  o2 = o2
  o3 = o3
  world = world
  h1 = h1
  h2 = h2
  r0 = r0
  r1 = r1
  r2 = r2
  Vars = {c1, c2}
  Objects = {o1, o2, o3}
  Handles = {world, h1, h2}
  World = world
  Ranks = {r0, r1, r2}
  This = r0
  Null = Null
  Free = Free
SYMMETRY Symmetry
INVARIANTS
  CacheIsTrue
  EqualHandlesAgree
  OnlyNullReducesAbort
CHECK_DEADLOCK FALSE
