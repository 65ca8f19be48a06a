------------------------- MODULE OwnershipRegistry -------------------------
(***************************************************************************)
(* The backend registry that owns every transport-held buffer lease:       *)
(* crates/onnx-runtime-comm/src/registry.rs.                               *)
(*                                                                         *)
(* One mutex guards the whole state and every public operation is one      *)
(* critical section, so each is one action.  A call that returns an error  *)
(* changes nothing: its action is simply not enabled.                      *)
(*                                                                         *)
(* Abstracted: trace emission and freed_total, which only the snapshot     *)
(* reports.  Operators named F_Bug are variants of F with a plausible bug, *)
(* used by no other definition.                                            *)
(***************************************************************************)
EXTENDS Naturals, FiniteSets

CONSTANTS
    Allocations,    \* PhysicalAllocationId values in use
    MaxTombstones,  \* MAX_FREED_TOMBSTONES (4096 in the code)
    MaxOperations   \* bound: operations submitted in one behaviour

ASSUME RegistryAssumption ==
    /\ Allocations \subseteq Nat
    /\ MaxTombstones \in Nat
    /\ MaxOperations \in Nat

VARIABLES
    operations,      \* live entries, by operation id
    freed,           \* exact tombstones at or above retiredBefore
    retiredBefore,   \* ids below it can never be leased again
    nextOperation,   \* next_operation
    completedOk,     \* completed_ok
    completedError   \* completed_error

registryVars == <<operations, freed, retiredBefore, nextOperation,
                  completedOk, completedError>>

Entry == [reads : SUBSET Allocations, writes : SUBSET Allocations,
          state : {"submitted", "aborting"}, attached : BOOLEAN]

Live == DOMAIN operations

References(o, b) == b \in operations[o].reads \cup operations[o].writes

IsFreed(b) == b < retiredBefore \/ b \in freed

BuffersAvailable_WritesOnly(reads, writes) ==
    /\ \A b \in reads \cup writes : ~IsFreed(b)
    /\ \A o \in Live : \A b \in writes : ~References(o, b)

\* No allocation is freed; a new write meets no lease, a new read no write.
BuffersAvailable(reads, writes) ==
    /\ \A b \in reads \cup writes : ~IsFreed(b)
    /\ \A o \in Live :
         /\ \A b \in writes : ~References(o, b)
         /\ \A b \in reads : b \notin operations[o].writes

-----------------------------------------------------------------------------
RegistryInit ==
    /\ operations = [o \in {} |-> 0]
    /\ freed = {}
    /\ retiredBefore = 0
    /\ nextOperation = 1
    /\ completedOk = 0
    /\ completedError = 0

RegistrySubmit(reads, writes) ==
    /\ nextOperation <= MaxOperations
    /\ BuffersAvailable(reads, writes)
    /\ operations' = [o \in Live \cup {nextOperation} |->
                        IF o = nextOperation
                        THEN [reads |-> reads, writes |-> writes,
                              state |-> "submitted", attached |-> TRUE]
                        ELSE operations[o]]
    /\ nextOperation' = nextOperation + 1
    /\ UNCHANGED <<freed, retiredBefore, completedOk, completedError>>

Remove(o) == operations' = [p \in Live \ {o} |-> operations[p]]

\* OperationLease::detach, or its drop: the handle goes, the leases stay.
Detach(o) ==
    /\ o \in Live
    /\ operations[o].attached
    /\ operations' = [operations EXCEPT ![o].attached = FALSE]
    /\ UNCHANGED <<freed, retiredBefore, nextOperation, completedOk,
                   completedError>>

BeginAbort_Releases(o) ==
    /\ o \in Live
    /\ operations[o].state = "submitted"
    /\ Remove(o)
    /\ completedError' = completedError + 1
    /\ UNCHANGED <<freed, retiredBefore, nextOperation, completedOk>>

BeginAbort(o) ==
    /\ o \in Live
    /\ operations[o].state = "submitted"
    /\ operations' = [operations EXCEPT ![o].state = "aborting"]
    /\ UNCHANGED <<freed, retiredBefore, nextOperation, completedOk,
                   completedError>>

CompleteSuccess(o) ==
    /\ o \in Live
    /\ operations[o].state = "submitted"
    /\ Remove(o)
    /\ completedOk' = completedOk + 1
    /\ UNCHANGED <<freed, retiredBefore, nextOperation, completedError>>

QuiesceAbort(o) ==
    /\ o \in Live
    /\ operations[o].state = "aborting"
    /\ Remove(o)
    /\ completedError' = completedError + 1
    /\ UNCHANGED <<freed, retiredBefore, nextOperation, completedOk>>

FreeBuffer(b) ==
    /\ ~IsFreed(b)
    /\ \A o \in Live : ~References(o, b)
    /\ Cardinality(freed) < MaxTombstones
    /\ freed' = freed \cup {b}
    /\ UNCHANGED <<operations, retiredBefore, nextOperation, completedOk,
                   completedError>>

SealAllocatorEpoch_LowersFloor(floor) ==
    /\ \A o \in Live, b \in Allocations : References(o, b) => b >= floor
    /\ retiredBefore' = floor
    /\ freed' = {b \in freed : b >= floor}
    /\ UNCHANGED <<operations, nextOperation, completedOk, completedError>>

\* The floor only rises; tombstones below it are reclaimed.
SealAllocatorEpoch(floor) ==
    /\ \A o \in Live, b \in Allocations : References(o, b) => b >= floor
    /\ retiredBefore' = IF floor > retiredBefore THEN floor ELSE retiredBefore
    /\ freed' = {b \in freed : b >= retiredBefore'}
    /\ UNCHANGED <<operations, nextOperation, completedOk, completedError>>

RegistryNext ==
    \/ \E reads, writes \in SUBSET Allocations : RegistrySubmit(reads, writes)
    \/ \E o \in Live : Detach(o)
    \/ \E o \in Live : BeginAbort(o)
    \/ \E o \in Live : CompleteSuccess(o)
    \/ \E o \in Live : QuiesceAbort(o)
    \/ \E b \in Allocations : FreeBuffer(b)
    \/ \E floor \in Allocations : SealAllocatorEpoch(floor)

RegistrySpec == RegistryInit /\ [][RegistryNext]_registryVars

-----------------------------------------------------------------------------
(* Properties.                                                             *)

\* The registry state is well formed; operation ids are never reused.
RegistryTypeOK ==
    /\ Live \subseteq 1..(nextOperation - 1)
    /\ operations \in [Live -> Entry]
    /\ freed \in SUBSET Allocations
    /\ retiredBefore \in Nat
    /\ nextOperation \in 1..(MaxOperations + 1)
    /\ completedOk \in Nat
    /\ completedError \in Nat

\* snapshot's second check: no two live operations hold conflicting leases,
\* whatever order they were submitted in and whichever of them are aborting
\* or detached.
NoConflictingActiveLeases ==
    \A o, p \in Live : \A b \in Allocations :
        (o # p /\ b \in operations[o].writes) => ~References(p, b)

\* snapshot's first check: a freed allocation, be it a tombstone or an id
\* below the sealed floor, is under no live lease.
FreedHasNoLease ==
    \A o \in Live, b \in Allocations : References(o, b) => ~IsFreed(b)

\* free_buffer and seal_allocator_epoch together keep the tombstone set
\* within its window, and it holds no entry the floor already covers.
TombstonesBounded ==
    /\ Cardinality(freed) <= MaxTombstones
    /\ \A b \in freed : b >= retiredBefore

\* Every operation ever submitted is live or was counted terminal exactly
\* once: submit, complete_success and quiesce_abort lose and double nothing.
OperationsAccounted ==
    nextOperation - 1 = Cardinality(Live) + completedOk + completedError

\* The ABA obligation of free_buffer: once freed, always freed, also across
\* the tombstone reclaim of seal_allocator_epoch.
FreedForever == [][\A b \in Allocations : IsFreed(b) => IsFreed(b)']_registryVars

\* Leases are released at a terminal transition and nowhere else (detach
\* never releases): an operation that stays keeps its lease sets, and one
\* that goes is counted in the same step, as an error iff it was aborting.
ReleasedOnlyAtTerminal ==
    [][\A o \in Live :
         IF o \in Live'
         THEN /\ operations'[o].reads = operations[o].reads
              /\ operations'[o].writes = operations[o].writes
         ELSE IF operations[o].state = "aborting"
              THEN completedError' = completedError + 1
              ELSE completedOk' = completedOk + 1]_registryVars
=============================================================================
