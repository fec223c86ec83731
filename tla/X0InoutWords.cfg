SPECIFICATION Spec
CONSTANTS
  NumRegs = 3
  Platforms = {"generic", "ia32"}
  NumExceptions = 1
  Signatures <- PairSignatures
INVARIANT
  InoutsInBothMessages
