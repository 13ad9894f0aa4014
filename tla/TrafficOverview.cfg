SPECIFICATION Spec
CONSTANTS
  Views = {"overview", "table"}
  Filters = {"namespace"}
  FilterEdits <- NamespaceOnly
  Presets = {"all", "dns"}
  Scopes = {"s1", "s2"}
  Options = {"o1", "o2"}
  NoColumn = {}
  MissingFields = {}
  UrlFilters <- UrlNamespace
  Tabs = {FALSE}
  LokiEnabled = TRUE
  SideQuery = TRUE
  Failing = {}
  Interval = FALSE
  InOrder = TRUE
  Hasty = FALSE
  MaxChanges = 2
  MaxQueries = 2
INVARIANTS LoadingInv InputsFetched ShownIsCurrent
CHECK_DEADLOCK FALSE
