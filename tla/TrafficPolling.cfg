SPECIFICATION Spec
CONSTANTS
  Views = {"table", "topology"}
  Filters = {"namespace"}
  FilterEdits <- NamespaceOnly
  Presets = {"all"}
  Scopes = {"s1", "s2"}
  Options = {"o1"}
  NoColumn = {"namespace"}
  MissingFields = {"namespace"}
  UrlFilters <- NoUrl
  Tabs = {TRUE, FALSE}
  LokiEnabled = TRUE
  SideQuery = TRUE
  Failing = {"table", "topology"}
  Interval = TRUE
  InOrder = FALSE
  Hasty = FALSE
  MaxChanges = 1
  MaxQueries = 1
PROPERTIES ChangeFetched
CHECK_DEADLOCK FALSE
