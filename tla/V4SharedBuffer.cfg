SPECIFICATION Spec
CONSTANTS
  W = 4
  AvailableMRs = 63
  DirectLimit = 400
  NumExceptions = 0
  Signatures <- NumberedSignatures
INVARIANTS
  MemoryMessageHasOwnBuffer
