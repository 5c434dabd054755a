-------------------------- MODULE MCSessionHandler --------------------------
EXTENDS SessionHandler

=============================================================================
