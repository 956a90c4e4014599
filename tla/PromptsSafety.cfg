SPECIFICATION Spec
CONSTANTS
  Values <- MCValues
  Empty = ""
  Numbers <- MCNumbers
INVARIANTS TypeOK CommandTyped OneConfirmation
