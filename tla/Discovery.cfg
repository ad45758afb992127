CONSTANTS
  HostLists <- MCHostLists
  Hosts <- MCHosts
  LocalIPs = {2}
  Ports <- MCPorts
  Workers = {w1, w2}
  Finds <- MCFinds
SPECIFICATION FairSpec
INVARIANTS NoErrorMeansComplete NoSendAfterClose ReadersFirst PlanIsComplete
PROPERTY ScanEnds
