---------------------------- MODULE LeaseLedger ----------------------------
(***************************************************************************)
(* The device tier of the memory governor (onnx-runtime-memory-governor):  *)
(* the atomic counters of LeaseLedger, the leases charged to them, mapped  *)
(* allowances, and the mapped-growth transactions that move capacity       *)
(* between allowances.                                                     *)
(*                                                                         *)
(* A claim holds the tier's gate; a release does not.  Most counter        *)
(* updates are compare-and-swap loops and are one step here.  Three        *)
(* operations load a counter under the gate and store a value computed     *)
(* from it later (reserve_unassigned_mapped_allowance,                     *)
(* consume_mapped_growth, refund_mapped_growth): those are two steps, and  *)
(* lock-free releases may happen in between.                               *)
(*                                                                         *)
(* One growth transaction or limit change is active at a time; the others  *)
(* queue by ticket.  Growers are the holders that ask for mapped growth    *)
(* (workspace and KV zones); Weights is the reclaimable holder, which maps *)
(* and unmaps on its own and is the victim of transfers.  lease[g] adds up *)
(* the leases of a grower.  An operation on an allowance that only its own *)
(* holder touches is joined with the step before it.  Authority checks,    *)
(* counter overflow and metrics are left out.                              *)
(***************************************************************************)
EXTENDS Integers, Sequences, Sums

CONSTANTS Growers, Owners, Weights, Admin, None,
          Limits,        \* tier limits a reconfiguration may ask for
          MaxRequest,    \* largest claim, allowance or growth request
          MaxUsed        \* bound on what record_committed may bring `used` to

ASSUME NamesAssumption ==
  /\ Weights \notin Growers
  /\ Admin \notin Growers
  /\ None \notin Growers \union {Admin}
ASSUME BytesAssumption == Limits \subseteq Nat /\ MaxRequest \in Nat /\ MaxUsed \in Nat

VARIABLES
  ledger,     \* LeaseLedger: limit, used, growth and allow(ance) reserved
  lease,      \* bytes of each grower's live leases
  allowance,  \* MappedAllowanceState of each holder
  status,     \* "absent", "live", or "dead" once its context is terminated
  due,        \* discharged bytes that confirm_context_terminated still returns
  waiters,    \* MappedOperationQueue::waiters, each with what it asks for
  op,         \* whose operation is active, or None
  phase,      \* where that operation is
  grant       \* its MappedGrowthGrant, or the limit it sets

vars == <<ledger, lease, allowance, status, due, waiters, op, phase, grant>>

Holders == Growers \union {Weights}
Lessees == Growers \union Owners
Sizes == 1..MaxRequest
Sat(n) == IF n < 0 THEN 0 ELSE n
AtMost(m, n) == IF m < n THEN m ELSE n
NoAllowance == [limit |-> 0, mapped |-> 0, growth |-> 0]
NoGrant == [bytes |-> 0, token |-> 0, left |-> 0, unassigned |-> 0,
            transferred |-> 0, target |-> 0, n |-> 0, loaded |-> 0]

\* The grant once the locals of an operation are out of scope.
Local(gr) == [gr EXCEPT !.n = 0, !.loaded = 0, !.target = 0]

LeasedBytes == Total(lease)
GateFree == phase \notin {"taking", "consuming", "refunding", "limiting"}
Room(h) == Sat(allowance[h].limit - allowance[h].mapped - allowance[h].growth)
InQueue(a) == \E i \in DOMAIN waiters : waiters[i].who = a

Init ==
  /\ \E l \in Limits : ledger = [limit |-> l, used |-> 0, growth |-> 0, allow |-> 0]
  /\ lease = [g \in Lessees |-> 0]
  /\ allowance = [h \in Holders |-> NoAllowance]
  /\ status = [h \in Holders |-> "absent"]
  /\ due = 0
  /\ waiters = <<>>
  /\ op = None
  /\ phase = "none"
  /\ grant = NoGrant

-----------------------------------------------------------------------------
(* Leases. *)

\* LeaseLedger::try_claim, by reserve, reserve_sibling and grow.
TryClaim(g, n) ==
  /\ GateFree
  /\ ledger.used + n + ledger.growth <= ledger.limit
  /\ ledger' = [ledger EXCEPT !.used = @ + n]
  /\ lease' = [lease EXCEPT ![g] = @ + n]
  /\ UNCHANGED <<allowance, status, due, waiters, op, phase, grant>>

\* record_committed: memory that is already there is counted whatever the limit.
RecordCommitted(g, n) ==
  /\ GateFree
  /\ ledger.used + n <= MaxUsed
  /\ ledger' = [ledger EXCEPT !.used = @ + n]
  /\ lease' = [lease EXCEPT ![g] = @ + n]
  /\ UNCHANGED <<allowance, status, due, waiters, op, phase, grant>>

\* MemoryLease::shrink or drop.  A lease that is being refunded is borrowed.
Release(g, n) ==
  /\ n <= lease[g] - (IF op = g /\ phase = "refunding" THEN grant.n ELSE 0)
  /\ ledger' = [ledger EXCEPT !.used = Sat(@ - n)]
  /\ lease' = [lease EXCEPT ![g] = @ - n]
  /\ UNCHANGED <<allowance, status, due, waiters, op, phase, grant>>

-----------------------------------------------------------------------------
(* Mapped allowances. *)

\* reserve_mapped_allowance.
ReserveAllowance(h, n) ==
  /\ status[h] = "absent"
  /\ GateFree
  /\ ledger.allow + n <= ledger.limit
  /\ ledger' = [ledger EXCEPT !.allow = @ + n]
  /\ allowance' = [allowance EXCEPT ![h].limit = n]
  /\ status' = [status EXCEPT ![h] = "live"]
  /\ UNCHANGED <<lease, due, waiters, op, phase, grant>>

\* A running operation keeps its requester and its victims alive.
Pinned(h) ==
  \/ op = h
  \/ InQueue(h)
  \/ h = Weights /\ (phase = "reclaim" \/ grant.transferred > 0)

\* Drop of MappedAllowanceInner.
DropAllowance(h) ==
  /\ status[h] # "absent"
  /\ ~Pinned(h)
  /\ ~(h = Weights /\ due > 0)
  /\ ledger' = [ledger EXCEPT !.allow = Sat(@ - allowance[h].limit)]
  /\ allowance' = [allowance EXCEPT ![h] = NoAllowance]
  /\ status' = [status EXCEPT ![h] = "absent"]
  /\ UNCHANGED <<lease, due, waiters, op, phase, grant>>

\* Mutant: terminating leaves the limit for the drop to release again.
MutantConfirmTerminated ==
  /\ status[Weights] = "live"
  /\ status' = [status EXCEPT ![Weights] = "dead"]
  /\ allowance' = [allowance EXCEPT ![Weights].mapped = 0, ![Weights].growth = 0]
  /\ due' = allowance[Weights].limit
  /\ UNCHANGED <<ledger, lease, waiters, op, phase, grant>>

\* The first half of confirm_context_terminated, under the allowance's lock.
ConfirmTerminated ==
  /\ status[Weights] = "live"
  /\ status' = [status EXCEPT ![Weights] = "dead"]
  /\ allowance' = [allowance EXCEPT ![Weights] = NoAllowance]
  /\ due' = allowance[Weights].limit
  /\ UNCHANGED <<ledger, lease, waiters, op, phase, grant>>

\* The second half, after the lock is released.
Discharge ==
  /\ due > 0
  /\ ledger' = [ledger EXCEPT !.allow = Sat(@ - due)]
  /\ due' = 0
  /\ UNCHANGED <<lease, allowance, status, waiters, op, phase, grant>>

\* MappedAllowance::try_map, by the weight residency.
TryMap(n) ==
  /\ status[Weights] = "live"
  /\ n <= Room(Weights)
  /\ allowance' = [allowance EXCEPT ![Weights].mapped = @ + n]
  /\ UNCHANGED <<ledger, lease, status, due, waiters, op, phase, grant>>

\* MappedAllowance::unmap, at most what is mapped.
Unmap(h, n) ==
  /\ allowance[h].mapped > 0
  /\ allowance' = [allowance EXCEPT ![h].mapped = Sat(@ - n)]
  /\ UNCHANGED <<ledger, lease, status, due, waiters, op, phase, grant>>

-----------------------------------------------------------------------------
(* The operation queue. *)

\* acquire_operation takes a ticket, for a growth or for a limit change.
Enqueue(a, n) ==
  /\ op # a
  /\ ~InQueue(a)
  /\ a \in Growers => status[a] = "live"
  /\ waiters' = Append(waiters, [who |-> a, bytes |-> n])
  /\ UNCHANGED <<ledger, lease, allowance, status, due, op, phase, grant>>

\* Mutant: any waiter takes the operation.
MutantAcquire ==
  /\ op = None
  /\ \E i \in DOMAIN waiters :
       /\ op' = waiters[i].who
       /\ waiters' = [j \in 1..(Len(waiters) - 1) |->
                        IF j < i THEN waiters[j] ELSE waiters[j + 1]]
       /\ phase' = IF waiters[i].who = Admin THEN "pausing" ELSE "physical"
       /\ grant' = [NoGrant EXCEPT !.bytes = waiters[i].bytes]
  /\ UNCHANGED <<ledger, lease, allowance, status, due>>

\* The head of the queue takes the operation once no other is active.
Acquire ==
  /\ op = None
  /\ waiters # <<>>
  /\ op' = Head(waiters).who
  /\ waiters' = Tail(waiters)
  /\ phase' = IF Head(waiters).who = Admin THEN "pausing" ELSE "physical"
  /\ grant' = [NoGrant EXCEPT !.bytes = Head(waiters).bytes]
  /\ UNCHANGED <<ledger, lease, allowance, status, due>>

\* release_remaining gives the token back, then the guard opens the queue.
Finish ==
  /\ phase = "finish"
  /\ ledger' = [ledger EXCEPT !.growth = Sat(@ - grant.token)]
  /\ op' = None
  /\ phase' = "none"
  /\ grant' = NoGrant
  /\ UNCHANGED <<lease, allowance, status, due, waiters>>

-----------------------------------------------------------------------------
(* Limit changes: set_limit stores the limit under the gate alone, ... *)

\* LeaseLedger::set_limit: lowering below what is used is allowed and revokes
\* nothing.
SetLimit(l) ==
  /\ GateFree
  /\ ledger' = [ledger EXCEPT !.limit = l]
  /\ UNCHANGED <<lease, allowance, status, due, waiters, op, phase, grant>>

(* ... while try_set_limit_bytes queues, pauses growth and then claims. *)

PauseClaims ==
  /\ phase = "pausing"
  /\ phase' = "limiting"
  /\ UNCHANGED <<ledger, lease, allowance, status, due, waiters, op, grant>>

\* Mutant: the limit changes whatever is used.
MutantTrySetLimit ==
  /\ phase = "limiting"
  /\ ledger' = [ledger EXCEPT !.limit = grant.bytes]
  /\ phase' = "finish"
  /\ UNCHANGED <<lease, allowance, status, due, waiters, op, grant>>

\* LeaseLimitGuard::try_set_limit: the new limit must cover what is used.
TrySetLimit ==
  /\ phase = "limiting"
  /\ ledger' = IF ledger.used <= grant.bytes
                 THEN [ledger EXCEPT !.limit = grant.bytes] ELSE ledger
  /\ phase' = "finish"
  /\ UNCHANGED <<lease, allowance, status, due, waiters, op, grant>>

-----------------------------------------------------------------------------
(* prepare_mapped_growth. *)

\* What the requester lends itself: its limit and its reservation both grow.
Lend(al, g, n) == [al EXCEPT ![g].limit = @ + n, ![g].growth = @ + n]

\* reserve_mapped_growth takes the token, then the requester's own room is used.
ReserveGrowth ==
  /\ phase = "physical"
  /\ ledger' = [ledger EXCEPT !.growth = @ + grant.bytes]
  /\ LET own == AtMost(grant.bytes, Room(op)) IN
       /\ allowance' = [allowance EXCEPT ![op].growth = @ + own]
       /\ grant' = [grant EXCEPT !.token = grant.bytes, !.left = grant.bytes - own]
       /\ phase' = IF own = grant.bytes THEN "granted" ELSE "unassigned"
  /\ UNCHANGED <<lease, status, due, waiters, op>>

\* reserve_unassigned_mapped_allowance loads the reserved total ...
LoadUnassigned ==
  /\ phase = "unassigned"
  /\ grant' = [grant EXCEPT !.loaded = ledger.allow,
                            !.n = AtMost(grant.left, Sat(ledger.limit - ledger.allow))]
  /\ phase' = "taking"
  /\ UNCHANGED <<ledger, lease, allowance, status, due, waiters, op>>

\* ... and stores it with what was granted.
StoreUnassigned ==
  /\ phase = "taking"
  /\ ledger' = [ledger EXCEPT !.allow = grant.loaded + grant.n]
  /\ allowance' = Lend(allowance, op, grant.n)
  /\ grant' = Local([grant EXCEPT !.unassigned = grant.n, !.left = @ - grant.n])
  /\ phase' = IF grant.left = grant.n THEN "granted" ELSE "victim"
  /\ UNCHANGED <<lease, status, due, waiters, op>>

\* Capacity moves from the victim to the requester before anything is unmapped.
TakeFromVictim ==
  /\ phase = "victim"
  /\ status[Weights] = "live"
  /\ LET n == AtMost(grant.left, allowance[Weights].limit) IN
       /\ n > 0
       /\ allowance' = [Lend(allowance, op, n) EXCEPT ![Weights].limit = @ - n]
       /\ grant' = [grant EXCEPT !.n = n,
            !.target = Sat(allowance[Weights].mapped - (allowance[Weights].limit - n))]
  /\ phase' = "reclaim"
  /\ UNCHANGED <<ledger, lease, status, due, waiters, op>>

\* No victim has anything to give: the rest of the request is rolled back.
NoVictim ==
  /\ phase = "victim"
  /\ status[Weights] # "live" \/ allowance[Weights].limit = 0
  /\ phase' = "rollback"
  /\ UNCHANGED <<ledger, lease, allowance, status, due, waiters, op, grant>>

\* Mutant: a short reclaim is taken for success.
MutantReclaim(r) ==
  /\ phase = "reclaim"
  /\ r <= allowance[Weights].mapped
  /\ allowance' = [allowance EXCEPT ![Weights].mapped = @ - r]
  /\ grant' = Local([grant EXCEPT !.transferred = grant.n, !.left = @ - grant.n])
  /\ phase' = IF grant.left = grant.n THEN "granted" ELSE "rollback"
  /\ UNCHANGED <<ledger, lease, status, due, waiters, op>>

\* reclaim_mapped unmaps r bytes; less than the target undoes the transfer.
Reclaim(r) ==
  /\ phase = "reclaim"
  /\ r <= allowance[Weights].mapped
  /\ LET al == [allowance EXCEPT ![Weights].mapped = @ - r] IN
     \/ /\ r >= grant.target
        /\ allowance' = al
        /\ grant' = Local([grant EXCEPT !.transferred = grant.n, !.left = @ - grant.n])
        /\ phase' = IF grant.left = grant.n THEN "granted" ELSE "rollback"
     \/ /\ r < grant.target
        /\ allowance' = [Lend(al, op, -grant.n) EXCEPT ![Weights].limit = @ + grant.n]
        /\ grant' = Local(grant)
        /\ phase' = "rollback"
  /\ UNCHANGED <<ledger, lease, status, due, waiters, op>>

-----------------------------------------------------------------------------
(* A live grant. *)

\* consume_mapped_growth checks and loads ...
LoadConsume(n) ==
  /\ phase = "granted"
  /\ n <= grant.token
  /\ n <= ledger.growth
  /\ ledger.used + ledger.growth <= ledger.limit
  /\ grant' = [grant EXCEPT !.n = n, !.loaded = ledger.used]
  /\ phase' = "consuming"
  /\ UNCHANGED <<ledger, lease, allowance, status, due, waiters, op>>

\* ... and stores: reserved growth becomes leased bytes.
StoreConsume ==
  /\ phase = "consuming"
  /\ ledger' = [ledger EXCEPT !.growth = @ - grant.n, !.used = grant.loaded + grant.n]
  /\ lease' = [lease EXCEPT ![op] = @ + grant.n]
  /\ grant' = Local([grant EXCEPT !.token = @ - grant.n])
  /\ phase' = "granted"
  /\ UNCHANGED <<allowance, status, due, waiters, op>>

\* refund_mapped_growth, of bytes this grant consumed.
LoadRefund(n) ==
  /\ phase = "granted"
  /\ n <= lease[op]
  /\ n <= grant.bytes - grant.token
  /\ n <= ledger.used
  /\ ledger.used + ledger.growth <= ledger.limit
  /\ grant' = [grant EXCEPT !.n = n, !.loaded = ledger.used]
  /\ phase' = "refunding"
  /\ UNCHANGED <<ledger, lease, allowance, status, due, waiters, op>>

\* Mutant: the lease keeps the refunded bytes.
MutantStoreRefund ==
  /\ phase = "refunding"
  /\ ledger' = [ledger EXCEPT !.growth = @ + grant.n, !.used = grant.loaded - grant.n]
  /\ lease' = lease
  /\ grant' = Local([grant EXCEPT !.token = @ + grant.n])
  /\ phase' = "granted"
  /\ UNCHANGED <<allowance, status, due, waiters, op>>

StoreRefund ==
  /\ phase = "refunding"
  /\ ledger' = [ledger EXCEPT !.growth = @ + grant.n, !.used = grant.loaded - grant.n]
  /\ lease' = [lease EXCEPT ![op] = @ - grant.n]
  /\ grant' = Local([grant EXCEPT !.token = @ + grant.n])
  /\ phase' = "granted"
  /\ UNCHANGED <<allowance, status, due, waiters, op>>

\* The allowances after a settlement that mapped `actual` of the request: what
\* was transferred goes back first, then what was unassigned.
GivenBack(actual) == AtMost(grant.bytes - actual, grant.transferred)
Unassigned(actual) == AtMost(grant.bytes - actual - GivenBack(actual), grant.unassigned)

SettleAs(actual) ==
  /\ allowance' =
       [allowance EXCEPT
          ![op] = [limit  |-> @.limit - GivenBack(actual) - Unassigned(actual),
                   mapped |-> @.mapped + actual,
                   growth |-> Sat(@.growth - grant.bytes)],
          ![Weights].limit = @ + GivenBack(actual)]
  /\ grant' = [NoGrant EXCEPT !.token = grant.token, !.transferred = grant.transferred,
                               !.n = Unassigned(actual)]
  /\ phase' = "return"
  /\ UNCHANGED <<ledger, lease, status, due, waiters, op>>

\* commit_bytes, settle_retained_bytes, or the drop of an unused grant (0).
Settle(actual) ==
  /\ phase = "granted"
  /\ actual <= grant.bytes
  /\ SettleAs(actual)

\* MappedGrowthGrant::rollback of a request that could not be covered.
Rollback ==
  /\ phase = "rollback"
  /\ SettleAs(0)

\* release_mapped_allowance of the unassigned part, without the gate.
ReturnUnassigned ==
  /\ phase = "return"
  /\ ledger' = [ledger EXCEPT !.allow = Sat(@ - grant.n)]
  /\ grant' = Local(grant)
  /\ phase' = "finish"
  /\ UNCHANGED <<lease, allowance, status, due, waiters, op>>

-----------------------------------------------------------------------------
Advance ==
  \/ Acquire \/ Finish
  \/ PauseClaims \/ TrySetLimit
  \/ ReserveGrowth \/ LoadUnassigned \/ StoreUnassigned
  \/ TakeFromVictim \/ NoVictim
  \/ \E r \in 0..MaxUsed : Reclaim(r)
  \/ StoreConsume \/ StoreRefund
  \/ Rollback \/ ReturnUnassigned

SettleStep == \E n \in 0..MaxRequest : Settle(n)

Next ==
  \/ Advance
  \/ SettleStep
  \/ \E g \in Owners, n \in Sizes : TryClaim(g, n)
  \/ \E g \in Owners, n \in Sizes : RecordCommitted(g, n)
  \/ \E g \in Lessees, n \in Sizes : Release(g, n)
  \/ \E h \in Holders, n \in 0..MaxRequest : ReserveAllowance(h, n)
  \/ \E h \in Holders : DropAllowance(h)
  \/ ConfirmTerminated
  \/ Discharge
  \/ \E n \in Sizes : TryMap(n)
  \/ \E h \in Holders, n \in Sizes : Unmap(h, n)
  \/ \E g \in Growers, n \in Sizes : Enqueue(g, n)
  \/ \E n \in Limits : Enqueue(Admin, n)
  \/ \E n \in Limits : SetLimit(n)
  \/ \E n \in Sizes : LoadConsume(n)
  \/ \E n \in Sizes : LoadRefund(n)

Spec == Init /\ [][Next]_vars

\* A thread inside the governor keeps running, a reclaim ends (it waits with a
\* timeout), and a grant is settled or dropped: it lives in one allocation.
FairSpec == Spec /\ WF_vars(Advance) /\ SF_vars(SettleStep)

-----------------------------------------------------------------------------
(* Properties. *)

\* The ledger never under-reports: `used` covers every live lease, whatever
\* releases race the plain stores of consume and refund.
UsedCoversLeases == ledger.used >= LeasedBytes

\* The reserved total covers every allowance, the discharge that is still due
\* and what a settlement is about to return: the same capacity is not promised
\* twice however transfers, termination and drops interleave.
AllowancesCovered ==
  ledger.allow >= Total([h \in Holders |-> allowance[h].limit]) + due
                  + (IF phase = "return" THEN grant.n ELSE 0)

\* A holder maps no more than its allowance, except the victim of a transfer
\* while it is asked to reclaim the difference.
MappedWithinAllowance ==
  \A h \in Holders :
    \/ allowance[h].mapped + allowance[h].growth <= allowance[h].limit
    \/ h = Weights /\ phase = "reclaim"

\* G1: whatever set_limit did to the limit before or since a grant was made,
\* the leases never grow beyond the limit in force, unless memory that is
\* already committed is recorded; and a lower limit leaves the leases within it,
\* unless it was set by the unchecked set_limit.
NoGrantBeyondLimit ==
  [][/\ LeasedBytes' > LeasedBytes =>
          \/ LeasedBytes' <= ledger'.limit
          \/ \E g \in Owners, n \in Sizes : RecordCommitted(g, n)
     /\ ledger'.limit < ledger.limit =>
          \/ LeasedBytes' <= ledger'.limit
          \/ \E n \in Limits : SetLimit(n)]_vars

\* Every growth and every limit change that queues gets its turn, in order.
QueueServed ==
  \A a \in Growers \union {Admin} : InQueue(a) ~> (op = a)

=============================================================================
