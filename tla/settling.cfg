CONSTANTS
  NONE = NONE
  w1 = w1
  w2 = w2
  Currencies = {"BRL"}
  MaxInt = 6
  Wallets = {w1, w2}
  Players = {"ana", "bia"}
  Providers = {"p"}
  Rounds = {"r1"}
  Exts = {"e1", "e2", "e3"}
  Keys = {"k1", "k2", "k3"}
  TxIds = {1, 2, 3, 4}
  Times = {0}
  Clients = {c1}
  Consumers = {}
  Resolvers = {v1, v2}
  MsgIds = {}
  Digests = {}
  Requests <- WaitingRequests
  Messages = {}
  Openings <- BothOpenings
  MaxAttempts = 2
SPECIFICATION FairSpec
INVARIANTS ClaimsAreExclusive
PROPERTIES PendingIsSettled
