------------------------------- MODULE MCPorts ------------------------------
EXTENDS Ports

CONSTANTS u, v, owner
=============================================================================
