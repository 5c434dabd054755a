------------------------------- MODULE MCSession -------------------------------
EXTENDS Session
=============================================================================
