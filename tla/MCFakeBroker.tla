---------------------------- MODULE MCFakeBroker ----------------------------
EXTENDS FakeBroker
CONSTANTS b1, b2, ui
==============================================================================
