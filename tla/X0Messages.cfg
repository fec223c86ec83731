SPECIFICATION Spec
CONSTANTS
  NumRegs = 3
  Platforms = {"generic", "ia32"}
  NumExceptions = 1
  Signatures <- AllSignatures
INVARIANTS
  TypeOK
  NoLayoutAssertion
  RegistersDisjoint
  EveryValuePlaced
  SameDistance
  SendDopeCovers
  StringsKeepPlaces
  ServerDopesKept
  UnpaddedInputsSurvive
  InoutsStay
  StructuresMatch
