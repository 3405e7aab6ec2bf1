------------------------- MODULE MC_MCPServerGateway -------------------------
(* Instantiation of MCPServerGateway for TLC: one or two MCPServers,        *)
(* proxyPort unset or 9000, one custom tool prefix.                         *)
EXTENDS MCPServerGateway

MCPorts == {0, 9000}
MCDefaultPort == 8000
=============================================================================
