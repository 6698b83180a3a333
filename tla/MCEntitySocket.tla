--------------------------- MODULE MCEntitySocket ---------------------------
EXTENDS EntitySocket
=============================================================================
