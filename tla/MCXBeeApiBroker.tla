--------------------------- MODULE MCXBeeApiBroker ---------------------------
EXTENDS XBeeApiBroker
CONSTANTS d1, d2
MCReads == {1, 3}
Given(scan, lossy, late, n, m) ==
    [scan |-> scan, lossy |-> lossy, late |-> late, calls |-> n, blanks |-> m]
\* A scan alone; a scan with a package in the middle of it; commands alone, the
\* devices late or not.
MCConditions == {Given(TRUE, TRUE, FALSE, 0, 2), Given(TRUE, FALSE, FALSE, 1, 0),
                 Given(FALSE, TRUE, FALSE, 3, 0), Given(FALSE, TRUE, TRUE, 2, 0)}
==============================================================================
