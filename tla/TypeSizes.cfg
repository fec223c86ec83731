SPECIFICATION Spec
CONSTANTS
  WordSize = 4
  IntegerSizes <- LongOnly
  Counts = {1, 3}
  Widths = {4, 29}
  MaxMembers = 3
  MaxTypes = 2
INVARIANT SizesAgree
CHECK_DEADLOCK FALSE
