\* Three ranks and two calls in a row, where senders may run ahead: without a
\* root, to one root, or to each rank's own RAM.
SPECIFICATION FairSpec
CONSTANTS
  N = 3
  NoRoot = NoRoot
  Mine = Mine
  Roots <- WithOwnRam
  Lengths <- OneOrNone
  MaxCalls = 2
  MaxInt = 7
INVARIANTS
  ResultsRight
  CallsMatch
  OwnRootsHang
PROPERTY AllReturn
CHECK_DEADLOCK FALSE
