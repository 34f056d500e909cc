----------------------------- MODULE MCBleBroker -----------------------------
EXTENDS BleBroker
CONSTANTS d1, d2
MCReads == {1, 2}
\* A scan, and commands after one.
MCConditions == {[scan |-> TRUE, calls |-> 0], [scan |-> FALSE, calls |-> 2]}
==============================================================================
