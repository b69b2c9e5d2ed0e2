SPECIFICATION Spec
CONSTANTS
  Endpoint = {"a", "b"}
  Group = {"g", "h"}
  Rule = {"r"}
  List = {"l"}
  DevGroup = {"d"}
  Resolver = {"s"}
  VpnResolver = {"v"}
  DnsRule = {"q"}
  Source = {"x", "y"}
  Start <- Profiles
  GroupForms <- Groups
  RuleForms <- Rules
  ListForms <- Lists
  DnsForms <- Planes
  MaxWrites = 2
  MaxRestarts = 1
  SendsRev = TRUE
INVARIANTS
  TypeOK
  CacheMatchesSource
PROPERTIES
  RemovalKeepsApplicable
  SlowWriteKeepsApplicable
  EditsSurvive
  DnsWriteSawItsPlane
CHECK_DEADLOCK FALSE
