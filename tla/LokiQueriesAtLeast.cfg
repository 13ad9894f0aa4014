SPECIFICATION QuerySpec
CONSTANTS
  Labels = {"ns"}
  Ips = {"addr"}
  Arrays = {"flags"}
  Numerics = {"port", "xport"}
  Strings = {"name"}
  Packets = "pkts"
  PktDropPackets = "drops"
  Suffixed <- MCSuffixed
  Texts = {"a", "ab"}
  Containing <- MCContaining
  Numbers = {80, 170, 195}
  Absent = Absent
  MaxValues = 2
  MaxFilters = 1
INVARIANT AtLeastIsComplete
CHECK_DEADLOCK FALSE
