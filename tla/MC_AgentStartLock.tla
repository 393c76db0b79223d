--------------------------- MODULE MC_AgentStartLock ---------------------------
EXTENDS AgentStartLock
=============================================================================
