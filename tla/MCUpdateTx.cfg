\* The self-update: two working builds and one that never answers, a revision of the first.
\* The bounds stop it.
SPECIFICATION FairSpec
CONSTANTS
  None = None
  Build = {"a", "b", "x"}
  Works = {"a", "b"}
  Releases = {{"a", "x"}, {"b"}}
  Channels = {"asset", "apk", "opkg"}
  MaxUpdates = 3
  MaxCuts = 2
  MaxDeaths = 1
INVARIANTS TypeOK RollbackWorks
PROPERTIES Settles
CHECK_DEADLOCK FALSE
