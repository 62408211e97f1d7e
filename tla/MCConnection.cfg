SPECIFICATION ConnSpec
CONSTANTS
  Threads = {"t1", "t2"}
  Version <- EachVersion
  Clients = {"c1", "c2"}
  NoClient = "none"
  PoolTimeout = 1
  IgnoreSignals = {TRUE, FALSE}
  MaxSignals = 1
  SelectUpdates = TRUE
  PeersGiveUp = TRUE
  MaxTime = 3
  Numeric <- MCNumeric
  Names <- MCNames
  PortMax = 6
  IntMax = 50
  DefaultPort = 1
  Strings <- MCStrings
  Addresses <- MCAddresses
  Server <- MCServer
  MaxWaits <- MCMaxWaits
  Backlog = 1
INVARIANTS BothWaitAtMost
PROPERTIES AddressIsMeant ConstructorTells TimesOut StopIsHeard
CHECK_DEADLOCK FALSE
