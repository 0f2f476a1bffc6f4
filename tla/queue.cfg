SPECIFICATION FairSpec
CONSTANTS
  bet = bet  refund = refund  junk = junk  usd = usd
  Messages = {bet, junk, usd}
  GroupOf <- MCGroupOf
  Poison = {junk}
  Doomed = {usd}
  Consumers = {c1, c2}
  MaxMessages = 2
  MaxReceives = 2
  MaxMishaps = 2
CHECK_DEADLOCK FALSE
INVARIANTS
  EveryDeletionIsDecided
  DeadLettersAreDeserved
  ConsumerInvariant
PROPERTIES
  QueueDrains
