------------------------------ MODULE MCChain ------------------------------
EXTENDS Chain
=============================================================================
