SPECIFICATION FairSpec
CONSTANTS
  Endpoint = {"b", "c", "z"}
  Members <- MCMembers
  KillSwitch = {"auto"}
  TagOrder <- MCTags
  NameOrder <- MCNames
  Profile = {"blocks", "device"}
  Entries <- MCEntries
  Flow <- MCFlow
  Unseen = {"tv"}
  Unsteady = {"b", "z"}
  MaxFaults = 2
INVARIANTS
  TypeOK
  PacketsLeaveWhereAsked
  NothingLeftBehind
PROPERTIES
  ListsRecover
  PlaneComesBack
CHECK_DEADLOCK FALSE
