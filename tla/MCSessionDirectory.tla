-------------------------- MODULE MCSessionDirectory --------------------------
EXTENDS SessionDirectory, TLC

CONSTANTS s1, s2
=============================================================================
