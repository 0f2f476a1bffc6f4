SPECIFICATION FairSpec
CONSTANTS
  Events = {e1, e2}
  Publishers = {a, b}
  BatchSize = 2
  MaxMishaps = 3
INVARIANTS
  CopiesAreExplained
  OutboxInvariant
PROPERTIES
  PublishedIsFinal
  ImplementsDelivery
CHECK_DEADLOCK FALSE
