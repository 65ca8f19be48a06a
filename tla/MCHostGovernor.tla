--------------------------- MODULE MCHostGovernor ---------------------------
(* Small instances of HostGovernor for TLC. *)
EXTENDS HostGovernor

AllOps == {"request", "release", "reclaim", "reconfigure", "timeout", "observe", "claim"}
CoreOps == {"request", "release", "claim", "observe"}

OneDevice == {"d0"}
NoDevice == {}
OneReclaimable == [d \in OneDevice |-> 1]
NothingReclaimable == [d \in NoDevice |-> 0]
=============================================================================
