\* Three ranks and one call with every root.  An int is so small that two
\* contributions overflow it to a negative number and three to a positive one,
\* and that one of 5 bytes is counted as -3 and one of 9 bytes as 1.
SPECIFICATION Spec
CONSTANTS
  N = 3
  NoRoot = NoRoot
  Mine = Mine
  Roots <- AllRoots
  Lengths <- AroundInt
  MaxCalls = 1
  MaxInt = 3
INVARIANTS
  TypeOK
  FailsOnlyWhenTooBig
  NoValueFromAFailedCall
PROPERTY CSpec
CHECK_DEADLOCK FALSE
