CONSTANTS
  a1 = a1
  a2 = a2
  w1 = w1
  p = p
  q = q
  Requests = {a1, a2}
  Webhooks = {w1}
  Accounts = {p, q}
  Known = {p}
  MaxDeliveries = 2
  Asks <- MCAsks
  Holder = p
  Earlier <- MCEarlier
  Docs = {1, 2, 3}
  OwnerOf <- MCOwnerOf
  Chunks <- MCChunks
  TopK = 1
  HistoryLimit = 4
  HistoryBudget = 120
  Rewritings = {40, 2001}
  MaxChunks = 2
  ContextBudget = 800
  Models <- MCModels
  Responses <- MCResponses
  Faults = {"db", "search"}
SPECIFICATION FairSpec
INVARIANTS TypeOK OneUserPerAccount AckedHasUser AnswerIsGrounded HistoryIsPast
PROPERTIES TurnIsAtomic EveryRequestEnds
CHECK_DEADLOCK FALSE
