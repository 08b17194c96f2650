\* Liveness: no symmetry, two PIMPLs and one callback each.
SPECIFICATION FairSpec
CONSTANTS
  v1 = v1
  v2 = v2
  p1 = p1
  p2 = p2
  f1 = f1
  Views = {v1, v2}
  Pimpls = {p1, p2}
  NoPimpl = NoPimpl
  Functions = {f1}
  MaxCallbacks = 1
  CaptureViews = TRUE
  MayThrow = TRUE
  Size = 1
  Me = 0
PROPERTIES
  TeardownCompletes
  LifetimeEnds
CHECK_DEADLOCK FALSE
