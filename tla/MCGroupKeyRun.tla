---------------------------- MODULE MCGroupKeyRun ----------------------------
EXTENDS GroupKeyRun

CONSTANTS g1, w1

MCRuns == {g1}

MCWorkers == {w1}

=============================================================================
