------------------------------ MODULE MCPipeFds ------------------------------
EXTENDS PipeFds

MCFds == 0 .. 12
=============================================================================
