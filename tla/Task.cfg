\* A task of up to two arguments of every type, run twice at most and moved between
\* two wrappers, while two objects of the caller change and die.
SPECIFICATION Spec
CONSTANTS
  x1 = x1
  x2 = x2
  v1 = v1
  v2 = v2
  t1 = t1
  t2 = t2
  Objects = {x1, x2}
  Values = {v1, v2}
  Tasks = {t1, t2}
  MaxArgs = 2
  MaxRuns = 2
  MaxMade = 1
  Null = Null
  Moved = Moved
  Dead = Dead
SYMMETRY Symmetry
INVARIANTS
  OwnedArgumentsArrive
  ProfilingIsCalling
  UsedUpByOneRun
  ResultsComeBack
PROPERTY
  LvaluesAreAliased
