---------------------------- MODULE MCDiscovery ----------------------------
\* Two hosts besides this machine, two ports of which one is named twice.
EXTENDS HostPlan

MCHostLists == << <<1, 2>>, <<2, 3>>, <<3>> >>
MCHosts == <<1, 3>>
MCPorts == <<2022, 9999, 2022>>
MCFinds == {<<TRUE, 0>>, <<FALSE, 6>>}
=============================================================================
