SPECIFICATION NetworkSpec
CHECK_DEADLOCK FALSE
CONSTANTS
  MaxHeight = 8
  Fork = 2
  Stale = 2
  Batch = 3
  RelayPeers = {a, b, c}
  Silent = {a, b}
  RelayTime = 1
  h1 = h1
  h2 = h2
  h3 = h3
  self = self
  c12 = c12
  c21 = c21
  c31 = c31
  Hosts = {h1, h2, h3}
  PROTOCOL_VERSION <- MCVersions
  Connections = {self, c12, c21, c31}
  Opener <- MCOpener
  Target <- MCTarget
  MIN_PROTO_VERSION = 209
  a1 = a1
  a2 = a2
  a3 = a3
  a4 = a4
  a5 = a5
  p1 = p1
  p2 = p2
  AlertPeers = {p1, p2}
  VersionOf <- MCVersionOf
  MyVersion <- MCMyVersion
  Alert <- MCAlert
  FinalID = 9
  Banscore = 1
  MaxTime = 1
  TimePeers = {1, 2, 3, 4, 5}
  Claims <- MCClaims
  TimeWindow = 6
  HeightWindow = 3
  MaxOffset = 70
  NearOffset = 5
  TotalBlocksEstimate = 3
INVARIANTS
  NodeIsWarned
  EncodingsMatch
PROPERTIES
  DownloadEnds
  ItemTravels
  HandshakeCompletes
