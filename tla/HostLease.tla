----------------------------- MODULE HostLease -----------------------------
(***************************************************************************)
(* The adapter between byte leases and whole host allocations:             *)
(* crates/onnx-genai-scheduler/src/host_lease.rs, with the MemoryLease of  *)
(* crates/onnx-runtime-memory-governor that calls it.                      *)
(*                                                                         *)
(* Several threads reserve, grow, shrink and drop leases on one adapter.   *)
(* try_claim looks at the credit under the adapter's lock, asks the host   *)
(* governor without it, and takes it again to record the allocation; a     *)
(* release settles the credit under the lock and hands allocations back    *)
(* after it.  Those are separate steps here.                               *)
(*                                                                         *)
(* The governor is seen through its free bytes: a request is claimed at    *)
(* once or refused (a pending ticket is dropped, and then HostGovernor's   *)
(* CancelNotLost returns what it holds); `others' are the bytes held       *)
(* through other adapters.  Leases are seen through their sum.  Only       *)
(* the host tier is modelled: the others refuse and change nothing.        *)
(***************************************************************************)
EXTENDS Integers, Sums

CONSTANTS
    Threads,   \* callers of the adapter
    Capacity,  \* host bytes of the machine
    Sizes,     \* bound: the sizes callers ask for and give back
    NoThread   \* the owner of the free lock

ASSUME SizesAssumption == Sizes \subseteq Nat
ASSUME CapacityAssumption == Capacity \in Nat
ASSUME NoThreadAssumption == NoThread \notin Threads

VARIABLES
    credit,       \* Outstanding.credit
    allocations,  \* Outstanding.allocations, by size
    lock,         \* the thread that holds the Outstanding mutex across steps
    leased,       \* bytes covered by live MemoryLeases
    pc, want,     \* where each thread stands, the size it asked for
    giving,       \* allocations it is handing back, by size
    free, others  \* the governor: free bytes, bytes of other adapters

vars == <<credit, allocations, lock, leased, pc, want, giving, free, others>>

Bytes(bag) == Total([s \in Sizes |-> s * bag[s]])

\* Bytes granted to a thread that has not recorded the allocation yet.
Unrecorded == Total([t \in Threads |-> IF pc[t] = "push" THEN want[t] ELSE 0])

Charged == Bytes(allocations)
Returning == Total([t \in Threads |-> Bytes(giving[t])])

Init ==
    /\ credit = 0
    /\ allocations = [s \in Sizes |-> 0]
    /\ lock = NoThread
    /\ leased = 0
    /\ pc = [t \in Threads |-> "idle"]
    /\ want = [t \in Threads |-> 0]
    /\ giving = [t \in Threads |-> [s \in Sizes |-> 0]]
    /\ free = Capacity
    /\ others = 0

Goto(t, label) == pc' = [pc EXCEPT ![t] = label]

-----------------------------------------------------------------------------
(* try_claim, for reserve, grow and reserve_sibling.                       *)

SpendCredit_Twice(t, b) ==
    /\ pc[t] = "idle" /\ lock = NoThread
    /\ credit >= b
    /\ leased' = leased + b
    /\ UNCHANGED <<credit, allocations, lock, pc, want, giving, free, others>>

SpendCredit(t, b) ==
    /\ pc[t] = "idle" /\ lock = NoThread
    /\ credit >= b
    /\ credit' = credit - b
    /\ leased' = leased + b
    /\ UNCHANGED <<allocations, lock, pc, want, giving, free, others>>

Ask(t, b) ==
    /\ pc[t] = "idle" /\ lock = NoThread
    /\ credit < b
    /\ want' = [want EXCEPT ![t] = b]
    /\ Goto(t, "ask")
    /\ UNCHANGED <<credit, allocations, lock, leased, giving, free, others>>

\* request_host_pages and one try_claim of the ticket.
Granted(t) ==
    /\ pc[t] = "ask"
    /\ free >= want[t]
    /\ free' = free - want[t]
    /\ Goto(t, "push")
    /\ UNCHANGED <<credit, allocations, lock, leased, want, giving, others>>

Refused(t) ==
    /\ pc[t] = "ask"
    /\ free < want[t]
    /\ Goto(t, "idle")
    /\ UNCHANGED <<credit, allocations, lock, leased, want, giving, free, others>>

Record(t) ==
    /\ pc[t] = "push" /\ lock = NoThread
    /\ allocations' = [allocations EXCEPT ![want[t]] = @ + 1]
    /\ leased' = leased + want[t]
    /\ Goto(t, "idle")
    /\ UNCHANGED <<credit, lock, want, giving, free, others>>

-----------------------------------------------------------------------------
(* release, for shrink and drop.                                           *)

Release(t, b) ==
    /\ pc[t] = "idle" /\ lock = NoThread
    /\ b <= leased
    /\ leased' = leased - b
    /\ credit' = credit + b
    /\ lock' = t
    /\ Goto(t, "settle")
    /\ UNCHANGED <<allocations, want, giving, free, others>>

\* The allocations a credit of c covers.
Covered(c) == {s \in Sizes : allocations[s] > 0 /\ s <= c}

\* The largest of them.
Best(c) == {s \in Covered(c) : \A x \in Covered(c) : x <= s}

Settle_Once(t) ==
    /\ pc[t] = "settle"
    /\ IF Covered(credit) = {}
       THEN UNCHANGED <<credit, allocations, giving>>
       ELSE \E s \in Best(credit) :
            /\ allocations' = [allocations EXCEPT ![s] = @ - 1]
            /\ credit' = credit - s
            /\ giving' = [giving EXCEPT ![t][s] = @ + 1]
    /\ lock' = NoThread
    /\ Goto(t, "give")
    /\ UNCHANGED <<leased, want, free, others>>

\* One turn of the loop: the largest covered allocation leaves the books.
Settle(t) ==
    /\ pc[t] = "settle"
    /\ IF Covered(credit) = {}
       THEN lock' = NoThread /\ Goto(t, "give") /\ UNCHANGED <<credit, allocations, giving>>
       ELSE \E s \in Best(credit) :
            /\ allocations' = [allocations EXCEPT ![s] = @ - 1]
            /\ credit' = credit - s
            /\ giving' = [giving EXCEPT ![t][s] = @ + 1]
            /\ UNCHANGED <<lock, pc>>
    /\ UNCHANGED <<leased, want, free, others>>

GiveBack_StopsEarly(t) ==
    /\ pc[t] = "give"
    /\ free' = free + (IF \E s \in Sizes : giving[t][s] > 0
                       THEN CHOOSE s \in Sizes : giving[t][s] > 0 ELSE 0)
    /\ giving' = [giving EXCEPT ![t] = [s \in Sizes |-> 0]]
    /\ Goto(t, "idle")
    /\ UNCHANGED <<credit, allocations, lock, leased, want, others>>

\* release_host_pages for each allocation taken off the books.
GiveBack(t) ==
    /\ pc[t] = "give"
    /\ IF \A s \in Sizes : giving[t][s] = 0
       THEN Goto(t, "idle") /\ UNCHANGED <<free, giving>>
       ELSE \E s \in {x \in Sizes : giving[t][x] > 0} :
            /\ free' = free + s
            /\ giving' = [giving EXCEPT ![t][s] = @ - 1]
            /\ UNCHANGED pc
    /\ UNCHANGED <<credit, allocations, lock, leased, want, others>>

\* Other adapters and direct users of the governor.
OthersTake(b) ==
    /\ free >= b
    /\ free' = free - b
    /\ others' = others + b
    /\ UNCHANGED <<credit, allocations, lock, leased, pc, want, giving>>

OthersGive(b) ==
    /\ others >= b
    /\ free' = free + b
    /\ others' = others - b
    /\ UNCHANGED <<credit, allocations, lock, leased, pc, want, giving>>

Next ==
    \/ \E t \in Threads :
         \/ \E b \in Sizes : SpendCredit(t, b) \/ Ask(t, b) \/ Release(t, b)
         \/ Granted(t) \/ Refused(t) \/ Record(t) \/ Settle(t) \/ GiveBack(t)
    \/ \E b \in Sizes : OthersTake(b) \/ OthersGive(b)

Spec == Init /\ [][Next]_vars

-----------------------------------------------------------------------------
\* What the adapter has charged to the governor is exactly what live leases
\* cover plus the credit, whatever the interleaving of claims and releases:
\* no lease is uncovered and no byte is charged for nobody.
LeasesBacked == leased + credit = Charged

\* The module doc's "The adapter can never release more than it was given":
\* no host byte is invented or lost between the governor, the adapter's
\* books, grants not recorded yet and allocations on their way back.
MachineConserved == free + others + Charged + Unrecorded + Returning = Capacity

\* When the last lease is gone the adapter keeps nothing: partial shrinks in
\* any order never strand an allocation or a credit.
NothingStranded == (lock = NoThread /\ leased = 0) => (credit = 0 /\ Charged = 0)

=============================================================================
