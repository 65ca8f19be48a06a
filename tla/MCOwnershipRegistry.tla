------------------------ MODULE MCOwnershipRegistry ------------------------
(* The registry with three allocations and three operations: enough for a  *)
(* reader, a writer and a late submitter of the same allocation to meet    *)
(* with frees and a sealed epoch in between.                               *)
EXTENDS OwnershipRegistry
=============================================================================
