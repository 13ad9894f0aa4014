SPECIFICATION QuerySpec
CONSTANTS
  Labels = {"ns"}
  Ips = {"addr"}
  Arrays = {"flags"}
  Numerics = {"port", "xport"}
  Strings = {"name"}
  Packets = "pkts"
  PktDropPackets = "drops"
  Suffixed <- MCSuffixed
  Texts = {"a", "ab"}
  Containing <- MCContaining
  Numbers = {80, 170, 195}
  Absent = Absent
  MaxValues = 2
  MaxFilters = 2
INVARIANTS SelectedAsMeant BackendsAgree
CHECK_DEADLOCK FALSE
