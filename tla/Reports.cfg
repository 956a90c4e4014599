SPECIFICATION Spec
CONSTANTS
  NicksPerNock = 16
  Decimals = 2
  MaxNicks = 1700
  MaxLines <- FewLines
  MaxBalance <- Hundred
INVARIANTS TypeOK LinesKept AddressesPaired MasterListArrives MaxSendsAll
CHECK_DEADLOCK FALSE
