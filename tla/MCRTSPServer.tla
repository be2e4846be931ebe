---------------------------- MODULE MCRTSPServer ----------------------------
EXTENDS RTSPServer, TLC
OnePath == [c \in Client |-> CHOOSE k \in StreamId : TRUE]
=============================================================================
