SPECIFICATION FairSpec
CONSTANTS
  w1 = w1  w2 = w2
  ana = ana  bia = bia
  Nil = Nil
  NoProc = NoProc
  Requests <- RefundRequests
  Wallets = {w1}
  Holder <- MCHolder
  CurrencyOf <- MCCurrencyOf
  Sessions = {s1}
  Consumers = {c1, c2}
  Workers = {g1}
  Messages <- BetMessages
  OpeningBalances = {3}
  MaxMinor = 5
  MaxAttempts = 2
PROPERTIES
  PendingSettles
  EveryUnitOfWorkEnds
