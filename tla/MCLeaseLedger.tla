--------------------------- MODULE MCLeaseLedger ---------------------------
EXTENDS LeaseLedger
CONSTANTS g1, o1
OneGrower == {g1}
OneOwner == {o1}
TwoLimits == {1, 2}
=============================================================================
