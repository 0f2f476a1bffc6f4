SPECIFICATION FairSpec
CONSTANTS
  w1 = w1  w2 = w2
  ana = ana  bia = bia
  Nil = Nil
  NoProc = NoProc
  Requests <- StarvationRequests
  Wallets = {w1}
  Holder <- MCHolder
  CurrencyOf <- MCCurrencyOf
  Sessions = {s1}
  Consumers = {}
  Workers = {g1}
  Messages = {}
  OpeningBalances = {3}
  MaxMinor = 4
  MaxAttempts = 2
PROPERTIES
  HopelessWaitEnds
