SPECIFICATION Spec
CONSTANTS
  w1 = w1  w2 = w2
  ana = ana  bia = bia
  Nil = Nil
  NoProc = NoProc
  Requests <- DollarRequests
  Wallets = {w1}
  Holder <- MCHolder
  CurrencyOf <- MCCurrencyOf
  Sessions = {s1, s2}
  Consumers = {}
  Workers = {g1}
  Messages = {}
  OpeningBalances = {3}
  MaxMinor = 5
  MaxAttempts = 2
SYMMETRY Perms
PROPERTIES
  RefusalIsPersisted
