---------------------------- MODULE MCRegistration ----------------------------
EXTENDS Registration
=============================================================================
