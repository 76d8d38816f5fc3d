SPECIFICATION NetworkSpec
CONSTANTS
  Nodes <- NodePair
  Peers <- OtherNode
  MaxHeight = 3
  MaxHop = 4
  MaxWork = 1
  NoPing = NoPing
  Ips <- ThreeIps
  Seeds = {1}
  Subnet <- Subnets
  MaxSameSubnet = 2
  MinimumReach = 2
  PingDelay = 1
  Sends <- ThreeSends
  RateLimit = 2
  MaxErrors = 3
  Pause = 3
  Repeat = TRUE
  Sources = {"p1", "p2"}
  Branches = {"b1"}
  DefaultSize = 2
  Shrink = 10
  Parallel = 3
  CacheMax = 1
  MaxTop = 4
  Froms = {0, 2}
  MaxCalls = 4
  Overlapping = 1
  ShortAnswers = TRUE
  Nobody = Nobody
  HealthPeers <- ThreePeers
  ForkAt <- HealthForks
  Version <- HealthVersions
  Foreign = {}
  Required <- HealthVersionNeeded
  Reach = 2
  MaxRollback = 1
  OurStart = 9
  TopHeight = 10
  MaxChecks <- HealthCalls
  Nothing = Nothing
  SearchParts = 3
  Elements = 24
  Nowhere = Nowhere
  Fork = 4
  LastHeight = 8
  Parts = 2
  RoundLength = 3
  BlockLimit = 2
  MaxChanges = 2
  Unknown = Unknown
  Undefined = Undefined
  Thrown = Thrown
INVARIANTS NetworkTypeOK PeersVerified  RelayedByHolders 
PROPERTIES Paced
CHECK_DEADLOCK FALSE
