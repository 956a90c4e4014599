CONSTANTS
  NumMasters <- FewMasters
  MaxNonce <- LongSession
SPECIFICATION Spec
PROPERTIES
  IdentityFetchedForActive
CHECK_DEADLOCK FALSE
