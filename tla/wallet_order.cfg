SPECIFICATION Spec
CONSTANTS
  bet = bet  refund = refund  junk = junk  usd = usd
  Messages = {bet, refund}
  GroupOf <- MCGroupOf
  Poison = {}
  Doomed = {}
  Consumers = {c1, c2}
  MaxMessages = 2
  MaxReceives = 2
  MaxMishaps = 1
CHECK_DEADLOCK FALSE
SYMMETRY Perms
INVARIANTS
  AppliedInGroupOrder
