CONSTANTS
  NumMasters <- FewMasters
  MaxNonce <- LongSession
SPECIFICATION Spec
INVARIANTS
  IdentityGuardBacked
CHECK_DEADLOCK FALSE
