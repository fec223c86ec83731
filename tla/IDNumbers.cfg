SPECIFICATION FairSpec
CONSTANT Programs <- Inherited
INVARIANTS
  TypeOK
  NoAssertion
  SameInterfaceNumber
  CallsReachTheirFunction
PROPERTIES
  FunctionNumbers
  ExceptionNumbers
  Terminates
