SPECIFICATION Spec
CONSTANTS
  Grpcs <- MCGrpcs
  NoGrpc = ""
  BadGrpc = "no endpoint"
  Listens <- MCListens
  Spaced <- MCSpaced
  Trimmed <- MCTrimmed
  Bad = "nowhere"
  DefaultGrpc = "mainnet"
  CliGrpc = "own"
  DefaultListen = "8765"
  Absent = Absent
  Torn = Torn
  NoListener = "unbound"
  MaxEdits = 1
  MaxPosts = 1
  Timeouts = FALSE
  DiskFails = FALSE
  Jobs = FALSE
INVARIANTS FileHoldsSession
