SPECIFICATION MCSpec
CONSTANTS
  NoOne = NoOne
  Sessions = {s1}
  Workers = {g1}
  Deltas <- MCDeltas
  Limits = {1, 2}
  MaxTime = 3
  MaxEntries = 3
  Base = 2
  MaxInt = 13
  MaxText = 7
  Providers = {p1, p2}
  Nobody = Nobody
INVARIANTS
  TypeOK
  ListingInKeyOrder
  OldEntriesAreListed
  OnlyEarlyStampsAreMissed
  NoFalseDivergence
  ArithmeticExact
  CanonicalForm
  OwnTransactionsOnly
CHECK_DEADLOCK FALSE
