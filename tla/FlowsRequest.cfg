SPECIFICATION Spec
CONSTANTS
  FailureCodes <- MCFailures
  Stores <- MCStores
  Requests <- MCRequests
  DefaultLimit = 2
INVARIANTS CompleteUnlessLimited MostRecent OnceEach
PROPERTIES ImplementsPromise
CHECK_DEADLOCK FALSE
