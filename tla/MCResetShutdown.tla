-------------------------- MODULE MCResetShutdown --------------------------
EXTENDS ResetShutdown
=============================================================================
