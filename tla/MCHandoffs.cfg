SPECIFICATION HandoffsSpec
CONSTANTS
  Parts = {"delivery", "manager", "packets"}
  None = None
  Packets = {p1, p2}
  Sessions = {s1, s2}
  MaxSends = 3
  ReplayLimit = 2
  Retention = 1
  PollLimits = {1}
  Sends = {c1, c2}
  SentPackets = {p, q}
  HmMaxTime = 2
  HistoryRetention = 1
  PacketTools <- MCPacketTools
  Costs = {0, 5}
  Weights = {0, 2}
  Capabilities = {"c"}
  MostCandidates = 2
  MostLayers = 2
  MostFields = 3
CHECK_DEADLOCK FALSE
INVARIANTS NoSendVanishes PolledOnce  HandoffsConsistent
SYMMETRY Symmetry
