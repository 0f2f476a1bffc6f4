SPECIFICATION FairSpec
CONSTANTS
  NoOne = NoOne
  Requests = {r1, r2}
  Kids = {k1, k2}
  Refresh = 2
  FetchTime = 2
INVARIANTS
  WaitIsBounded
PROPERTIES
  AcceptedKeysAreRecent
  DownloadsAreSpaced
  PublishedKeyGetsIn
