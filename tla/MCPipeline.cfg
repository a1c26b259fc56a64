CONSTANTS
  Files <- MCFiles
  Configurations <- MCConfigurations
  Environments = {"production", "development"}
  Presences <- MCPresences
  UpsertSize = 2
  Leftover <- MCLeftover
  Others <- MCOthers
  Requests <- MCRequests
  Scores <- MCScores
  Faults = {"embedding", "store"}
SPECIFICATION Spec
INVARIANTS TextIsKept VectorsMatchTexts SearchIsSound AcceptedIsProcessed
CHECK_DEADLOCK FALSE
