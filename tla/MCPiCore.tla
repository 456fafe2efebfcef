------------------------------ MODULE MCPiCore ------------------------------
EXTENDS PiCore

CONSTANT s1
=============================================================================
