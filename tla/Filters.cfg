SPECIFICATION Spec
CONSTANTS
  namespace = namespace
  protocol = protocol
  a = a
  b = b
  Names = {namespace}
  Commons = {protocol}
  Values = {a, b}
  MaxAdds = 3
  MaxFilters = 2
SYMMETRY Interchangeable
INVARIANTS FilterInv BothDirections
PROPERTIES EditsDisplayed MovesKeepValues ReloadIsDisplayed
CHECK_DEADLOCK FALSE
