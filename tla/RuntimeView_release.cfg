\* Two PIMPLs with two callbacks each, which may capture views, destroy them,
\* and throw; on the second of two ranks.
SPECIFICATION Spec
CONSTANTS
  v1 = v1
  v2 = v2
  p1 = p1
  p2 = p2
  f1 = f1
  f2 = f2
  Views = {v1, v2}
  Pimpls = {p1, p2}
  NoPimpl = NoPimpl
  Functions = {f1, f2}
  MaxCallbacks = 2
  CaptureViews = TRUE
  MayThrow = TRUE
  Size = 2
  Me = 1
SYMMETRY Symmetry
INVARIANTS
  TypeOK
  LiveIffReferenced
  OneDestructorEach
  OneOwner
  StarterKeepsMpi
  LeaksOnlyCycles
  StarterTearsDownUnderMpi
  CalledOnceInReverse
  ResourceSetsOfCommunicator
PROPERTY LifetimeKept
CHECK_DEADLOCK FALSE
