--------------------------- MODULE MCXBeeAtBroker ---------------------------
EXTENDS XBeeAtBroker
CONSTANTS d1, d2
MCReads == {1, 2}
Given(scan, lossy, refuses, late, n) ==
    [scan |-> scan, lossy |-> lossy, refuses |-> refuses, late |-> late, calls |-> n]
\* A scan on a good line and on a bad one; commands, on a bad line, with late
\* replies, and with a modem that refuses orders.
MCConditions == {Given(TRUE, FALSE, FALSE, FALSE, 0), Given(TRUE, TRUE, FALSE, FALSE, 0),
                 Given(FALSE, TRUE, FALSE, FALSE, 2), Given(FALSE, FALSE, FALSE, TRUE, 1),
                 Given(FALSE, TRUE, TRUE, FALSE, 1)}
==============================================================================
