\* Two buffers with a spare object for copies; arrays of none, one or
\* two elements of two bytes in each.
SPECIFICATION Spec
CONSTANTS
  b1 = b1
  b2 = b2
  w1 = w1
  w2 = w2
  o1 = o1
  o2 = o2
  o3 = o3
  Buffers = {b1, b2}
  Views = {w1, w2}
  Objects = {o1, o2, o3}
  Bytes = {0, 1}
  Zero = 0
  Sizes = {0, 2, 4}
  Width = 2
  Null = Null
  Free = Free
SYMMETRY Symmetry
INVARIANTS
  OneOwnerEach
  ViewsFollowTheirBytes
  OnlyBytesCount
PROPERTY
  BytesHaveValueSemantics
CHECK_DEADLOCK FALSE
