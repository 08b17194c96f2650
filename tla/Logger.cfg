\* Two loggers of every class, four severities, two names, two files, and one
\* message.
SPECIFICATION Spec
CONSTANTS
  x1 = x1
  x2 = x2
  o1 = o1
  o2 = o2
  o3 = o3
  f1 = f1
  f2 = f2
  a = a
  b = b
  Vars = {x1, x2}
  Objects = {o1, o2, o3}
  Null = Null
  Free = Free
  Kinds = {"StdoutSpdlog", "FileSpdlog", "SpdlogPIMPL"}
  Ids = {a, b}
  Files = {f1, f2}
  Used = {"trace", "info", "error", "critical"}
  MaxWritten = 1
SYMMETRY Symmetry
INVARIANTS
  CriticalAlwaysLogged
  ComparisonIsSound
PROPERTY KeepsItsPromise
