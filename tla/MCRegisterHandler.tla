--------------------------- MODULE MCRegisterHandler ---------------------------
EXTENDS RegisterHandler
=============================================================================
