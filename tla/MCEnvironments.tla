---------------------------- MODULE MCEnvironments ----------------------------
EXTENDS Environments

CONSTANTS s1, s2, c1, c2
=============================================================================
