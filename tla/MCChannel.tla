----------------------------- MODULE MCChannel ------------------------------
EXTENDS Channel
=============================================================================
