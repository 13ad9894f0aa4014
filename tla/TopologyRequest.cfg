SPECIFICATION FairSpec
CONSTANTS
  Labels <- MCLabels
  FailureCodes <- MCFailureCodes
  Configs <- MCConfigs
  Requests <- MCRequests
INVARIANTS
  NothingLeftOut
  CountedOnce
  SourcesTold
PROPERTIES
  ImplementsPromise
  EveryRequestAnswered
