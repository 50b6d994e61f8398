---------------------------- MODULE MCConnection ----------------------------
\* Three callers of Close.
EXTENDS Connection

CONSTANTS c1, c2, c3

Callers == {c1, c2, c3}
=============================================================================
