---------------------------- MODULE MCXBeeThreads ----------------------------
EXTENDS XBeeThreads
CONSTANTS d1, d2
MCConditions == {[timeouts |-> FALSE, calls |-> 2, frames |-> 2], [timeouts |-> TRUE, calls |-> 1, frames |-> 2]}
==============================================================================
