------------------------- MODULE MCCancelInProgress -------------------------
EXTENDS CancelInProgress

CONSTANTS p1, p2

MCProcs == {p1, p2}

=============================================================================
