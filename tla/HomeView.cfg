CONSTANTS
  NumMasters <- FewMasters
  MaxNonce <- LongSession
SPECIFICATION FairSpec
INVARIANTS
  TypeOK
  SpinnerBacked
  CurrentNotOvertaken
  MasterFetchTracked
  PickerOnlyOverChoice
PROPERTIES
  CommandSupersedesFetches
  HomeByKeyRefreshes
  SwitchRefreshes
  CommandsComplete
  SpinnersStop
CHECK_DEADLOCK FALSE
