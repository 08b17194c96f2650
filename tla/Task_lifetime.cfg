\* A const rvalue is aliased, and its temporary dies before the call.
SPECIFICATION Spec
CONSTANTS
  x1 = x1
  x2 = x2
  v1 = v1
  v2 = v2
  t1 = t1
  t2 = t2
  Objects = {x1, x2}
  Values = {v1, v2}
  Tasks = {t1, t2}
  MaxArgs = 1
  MaxRuns = 2
  MaxMade = 1
  Null = Null
  Moved = Moved
  Dead = Dead
SYMMETRY Symmetry
INVARIANT
  LifetimesAreProlonged
