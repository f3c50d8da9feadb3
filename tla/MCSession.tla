----------------------------- MODULE MCSession ------------------------------
EXTENDS Session
=============================================================================
