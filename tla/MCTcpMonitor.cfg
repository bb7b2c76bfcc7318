\* Slowloris limits, slot sharing and the SYN window: a limit of 1 with two
\* connections of one address, a SYN threshold of 1, and a clock long enough
\* for the timeout, for a takeover and for a second window.
SPECIFICATION HSpec
CONSTANTS
  Conns <- MCConns
  Ips = {"a", "b"}
  SrcIp <- MCSrcIp
  Slots = {1, 2}
  ConnHash <- MCConnHash
  DestPorts = {80, 443}
  NoConn = NoConn
  HZ = 2
  SYN_FLOOD_THRESHOLD = 1
  OpenLimit = 1
  SlowlorisTimeout = 2
  OverrideIdle = 1
  EvictIdle = 2
  HeaderCountMod = 2
  MaxTime = 4
  MaxSyns = 3
INVARIANTS OpenLimitHolds OpenWithinTimeout SynsAtMostTwiceThreshold
PROPERTY BlockedUntilFreed
