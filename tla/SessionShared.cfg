SPECIFICATION FairSpec
CONSTANTS
  Grpcs <- MCGrpcs
  NoGrpc = ""
  BadGrpc = "no endpoint"
  Listens <- MCListens
  Spaced <- MCSpaced
  Trimmed <- MCTrimmed
  Bad = "nowhere"
  DefaultGrpc = "mainnet"
  CliGrpc = "own"
  DefaultListen = "8765"
  Absent = Absent
  Torn = Torn
  NoListener = "unbound"
  MaxEdits = 2
  MaxPosts = 1
  Timeouts = TRUE
  DiskFails = TRUE
  Jobs = TRUE
INVARIANTS TypeOK SettingsAgree
PROPERTIES NeverStoresInvalid CommitEndsUnlessHeld
