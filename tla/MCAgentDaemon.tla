--------------------------- MODULE MCAgentDaemon ---------------------------
EXTENDS AgentDaemon
=============================================================================
