SPECIFICATION FairSpec
CONSTANTS
  pay = pay
  again = again
  other = other
  NoRequest = none
  Requests <- ThreeRequests
  KindsOf <- MixedKinds
  Capacity = 1
  MaxFiles = 2
  MaxRestarts = 1
INVARIANTS
  TypeOK
  NothingForeign
  PaymentAnswerTrue
PROPERTIES
  KeepsContract
  RequestsEnd
CHECK_DEADLOCK FALSE
