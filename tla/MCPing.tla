------------------------------- MODULE MCPing -------------------------------
EXTENDS PingSystem
\* without a limit, one ping, two pings; and a server without and with a limit
MCNPings == {-1, 1, 2}
MCNMaxPings == {0, 2}
=============================================================================
