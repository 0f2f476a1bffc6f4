SPECIFICATION Spec
CONSTANTS
  w1 = w1  w2 = w2
  ana = ana  bia = bia
  Nil = Nil
  NoProc = NoProc
  Requests <- CrossRequests
  Wallets = {w1, w2}
  Holder <- MCHolder
  CurrencyOf <- MCCurrencyOf
  Sessions = {}
  Consumers = {c1, c2}
  Workers = {g1}
  Messages <- CrossMessages
  OpeningBalances = {0, 1}
  MaxMinor = 2
  MaxAttempts = 2
SYMMETRY Perms
INVARIANTS
  TypeOK
  EntryPerMovement
  EffectsAreCoveredByInbox
  OneOperationPerIdentity
  EngineInvariant
  NoDeadlock
PROPERTIES
  RefusalsHaveAReason
