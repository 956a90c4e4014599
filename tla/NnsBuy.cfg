SPECIFICATION FairSpec
CONSTANTS
  Texts <- MCTexts
  EmptyText = ""
  Names <- MCNames
  NoName = "none"
  Canonical <- MCCanonical
  MaxSearches <- FewSearches
  MaxFetches <- FewFetches
INVARIANTS TypeOK BusyBacked RegisteredWasFound
PROPERTIES BusyEnds
CHECK_DEADLOCK FALSE
