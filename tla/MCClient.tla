-------------------------------- MODULE MCClient --------------------------------
EXTENDS Client
=============================================================================
