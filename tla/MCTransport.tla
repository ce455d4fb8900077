---------------------------- MODULE MCTransport ----------------------------
EXTENDS TransportRecovery

\* Two ports; a notice may fail as well as anything of the transport.
CONSTANTS p1, p2
MCPorts == {p1, p2}
=============================================================================
