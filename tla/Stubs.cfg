SPECIFICATION FairSpec
CONSTANTS
  Operations <- AllOperations
  MaxLength = 2
INVARIANTS
  TypeOK
  LengthsWithTheirArrays
  BuffersBalance
PROPERTIES
  IsRemoteCall
  OrderEnds
CHECK_DEADLOCK FALSE
