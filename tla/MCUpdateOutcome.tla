------------------------- MODULE MCUpdateOutcome -------------------------
EXTENDS UpdateOutcome

=============================================================================
