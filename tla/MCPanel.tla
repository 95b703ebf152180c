------------------------------ MODULE MCPanel -------------------------------
\* Panel on a small instance.
EXTENDS Panel

CONSTANTS r1, r2, b1
=============================================================================
