CONSTANTS
  NONE = NONE
  w1 = w1
  w2 = w2
  Currencies = {"BRL"}
  MaxInt = 6
  Wallets = {w1, w2}
  Players = {"ana", "bia"}
  Providers = {"p", "q"}
  Rounds = {"r1"}
  Exts = {"e1", "e2"}
  Keys = {"k1", "k2"}
  TxIds = {1, 2, 3}
  Times = {0, 1}
  Clients = {c1}
  Consumers = {q1, q2}
  Resolvers = {}
  MsgIds = {"m1"}
  Digests = {"d1", "d2"}
  Requests <- DuplicateRequests
  Messages <- DuplicateMessages
  Openings <- TwoOpenings
  MaxAttempts = 2
SPECIFICATION Spec
SYMMETRY Symmetry
INVARIANTS AnswersAreDurable ConflictsAreReal InboxHasOutcome IdentitiesAreUnique LedgerIsInOrderOfTime
