SPECIFICATION FairKernelSpec
CONSTANTS
  W = 4
  AvailableMRs = 63
  DirectLimit = 400
  NumExceptions = 1
  Signatures <- MixedSignatures
INVARIANTS
  TypeOK
  LayoutWithinBudget
  MessageFitsRegisters
  TypedItemsWhereAnnounced
  VarbufsSuffice
  ChunksConserved
  StringsArriveWhereRead
  BuffersNotShared
  KernelMessageForm
PROPERTY Terminates
