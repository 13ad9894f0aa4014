SPECIFICATION Spec
CONSTANTS
  Requests = {r1, r2}
  LabelKinds = {"clusters", "namespaces"}
  MaxMoment = 1
  NameKeys = {"pods"}
INVARIANTS AnswersInv ConfigIsServed CacheInv
PROPERTY EveryRequestIsAnswered
CHECK_DEADLOCK FALSE
