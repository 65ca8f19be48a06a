---------------------------- MODULE HostGovernor ----------------------------
(***************************************************************************)
(* The ticketed, non-blocking pressure protocol for machine-wide host      *)
(* memory: crates/onnx-genai-scheduler/src/pressure.rs.                    *)
(*                                                                         *)
(* Two mutexes guard the state: the ledger (free, reclaimable, generation, *)
(* entry, the id counter) and the cancellation mailbox (queue, reserved).  *)
(* Every public operation takes the ledger lock, drains the mailbox into a *)
(* local list, applies each drained command, does its own work, arbitrates *)
(* and unlocks; the wake-ups it collected are delivered after the unlock.  *)
(* The module follows that order with the lock explicit: `pc' is where the *)
(* thread that holds the lock stands and `call' the operation it executes, *)
(* so one step is one loop iteration of the code and no other operation    *)
(* can start until the holder has gone through all of them.  Only mailbox  *)
(* posts, slot releases and wake-ups, which need no ledger lock, run in    *)
(* between.                                                                *)
(*                                                                         *)
(* Abstracted: the trace events; the owner and pinned attributes, which    *)
(* are copied into the allocation and never read; reclaim_shortfall, which *)
(* is never read; allocation ids (a request is granted at most once, so    *)
(* its allocation is named by the request).                                *)
(*                                                                         *)
(* An operator named F_Bug is F with a plausible bug; no other definition  *)
(* uses it.  Checking the specification with F replaced by F_Bug shows     *)
(* that a property can tell the difference.                                *)
(***************************************************************************)
EXTENDS Integers, Sequences, FiniteSets, Functions

CONSTANTS
    Devices,          \* devices with evictable host bytes
    Capacity,         \* capacity_bytes
    FixedCharge,      \* fixed_charge_bytes
    InitReclaimable,  \* initial_reclaimable, summed per device
    AgingCap,         \* AGING_CAP (8 in the code)
    MailboxCapacity,  \* mailbox_capacity (1024 by default)
    Sizes,            \* byte extents callers pass
    Priorities,       \* HostPriority values callers pass
    Ops,              \* bound: the operations callers use besides drop and wait
    MaxRequests,      \* bound: request ids handed out in one behaviour
    MaxGeneration     \* bound: reconfigurations in one behaviour

Requests == 1..MaxRequests
Generations == 0..MaxGeneration

(***************************************************************************)
(* Byte totals are cardinalities of sets of byte slots: the sum over x of  *)
(* size[x] is the number of pairs <<x, b>> with 1 <= b <= size[x].         *)
(***************************************************************************)
Slots(size) == {p \in (DOMAIN size) \X (1..Capacity) : p[2] <= size[p[1]]}
Total(size) == Cardinality(Slots(size))

ASSUME ConstantsAssumption ==
    /\ IsFiniteSet(Devices)
    /\ Capacity \in Nat
    /\ FixedCharge \in Nat
    /\ InitReclaimable \in [Devices -> 0..Capacity]
    /\ AgingCap \in Nat \ {0}
    /\ MailboxCapacity \in Nat \ {0}
    /\ Sizes \subseteq Nat \ {0}
    /\ Priorities \subseteq Nat
    /\ MaxRequests \in Nat
    /\ MaxGeneration \in Nat

\* HostGovernor::new refuses a configuration that charges more than it has.
ASSUME ConfigAssumption ==
    FixedCharge + Total(InitReclaimable) <= Capacity

VARIABLES
    free,         \* ledger.free
    reclaimable,  \* ledger.reclaimable
    generation,   \* ledger.generation
    entry,        \* ledger.entries
    nextRequest,  \* ledger.next_request (next_submit_seq moves with it)
    queue,        \* mailbox.queue
    reserved,     \* mailbox.reserved
    ticket,       \* PressureTicket: where its holder stands, its generation
    signaled,     \* TicketNotify.signaled
    wakes,        \* collected by an operation that has unlocked, not yet woken
    pc,           \* control point of the thread that holds the ledger lock
    call,         \* the operation it executes
    todo,         \* its drained, not yet applied cancel commands
    hoisted       \* the wake-ups it has collected so far

ledgerVars  == <<free, reclaimable, generation, entry, nextRequest>>
mailboxVars == <<queue, reserved>>
ticketVars  == <<ticket, signaled, wakes>>
lockVars    == <<pc, call, todo, hoisted>>
vars == <<ledgerVars, mailboxVars, ticketVars, lockVars>>

-----------------------------------------------------------------------------
EntryStates == {"Pending", "Granted", "Claimed", "Failed"}
NoEntry == [state |-> "Absent", bytes |-> 0, priority |-> 0,
            generation |-> 0, age |-> 0]

(***************************************************************************)
(* unborn: the id has no ticket; held: owned by a caller that does not     *)
(* block; polling / waiting: inside try_claim, called directly / from the  *)
(* loop of wait; parked: blocked in notify.wait; disarming: try_claim has  *)
(* unlocked the ledger but not yet released the mailbox slot; resolved and *)
(* dropped: terminal.                                                      *)
(***************************************************************************)
Armed  == {"held", "polling", "waiting", "parked", "disarming"}
Phases == Armed \union {"unborn", "resolved", "dropped"}

Commands == [req : Requests, generation : Generations]

NoCall == [op |-> "none"]
Calls ==
    {NoCall}
      \union [op : {"request"}, bytes : Sizes, priority : Priorities]
      \union [op : {"release", "timeout", "claim"}, req : Requests]
      \union [op : {"reclaim"}, device : Devices, bytes : Sizes]
      \union [op : {"reconfigure", "observe"}]

Init ==
    /\ free = Capacity - (FixedCharge + Total(InitReclaimable))
    /\ reclaimable = InitReclaimable
    /\ generation = 0
    /\ entry = [r \in Requests |-> NoEntry]
    /\ nextRequest = 1
    /\ queue = << >>
    /\ reserved = 0
    /\ ticket = [r \in Requests |-> [phase |-> "unborn", generation |-> 0]]
    /\ signaled = [r \in Requests |-> FALSE]
    /\ wakes = {}
    /\ pc = "unlocked"
    /\ call = NoCall
    /\ todo = << >>
    /\ hoisted = {}

-----------------------------------------------------------------------------
(***************************************************************************)
(* Arbitration.  Aging happens once, before the loop.  The loop visits the *)
(* candidates in order, skips a young one that does not fit and stops at a *)
(* matured one that does not fit.  As free only shrinks meanwhile, a       *)
(* skipped candidate stays unfit, and each iteration that grants picks the *)
(* first candidate that fits with no matured one waiting before it.        *)
(***************************************************************************)
IsPending_OrGranted(e, r) == e[r].state \in {"Pending", "Granted"}
IsPending(e, r) == e[r].state = "Pending"

IsGranted_OrClaimed(r) == entry[r].state \in {"Granted", "Claimed"}
IsGranted(r) == entry[r].state = "Granted"

Candidates == {r \in Requests : IsPending(entry, r) /\ entry[r].generation = generation}
Matured(r) == entry[r].age >= AgingCap

\* The order candidates.sort_by gives; request ids grow with submit_seq.
Precedes(a, b) ==
    \/ Matured(a) /\ ~Matured(b)
    \/ Matured(a) /\ Matured(b) /\ a < b
    \/ /\ ~Matured(a)
       /\ ~Matured(b)
       /\ \/ entry[a].priority > entry[b].priority
          \/ entry[a].priority = entry[b].priority /\ a < b

Grantable_NoBarrier(r) ==
    /\ r \in Candidates
    /\ entry[r].bytes <= free
    /\ \A s \in Candidates : Precedes(s, r) => entry[s].bytes > free

Grantable(r) ==
    /\ r \in Candidates
    /\ entry[r].bytes <= free
    /\ \A s \in Candidates : Precedes(s, r) => ~Matured(s) /\ entry[s].bytes > free

AgeOf(e, r) ==
    IF IsPending(e, r) /\ e[r].generation = generation /\ e[r].age < AgingCap
      THEN e[r].age + 1
      ELSE e[r].age

Aged(e) == [r \in Requests |-> [e[r] EXCEPT !.age = AgeOf(e, r)]]

\* One iteration of the loop of arbitrate_locked that grants.
Grant(r) ==
    /\ pc \in {"drainArbitrate", "bodyArbitrate"}
    /\ Grantable(r)
    /\ free' = free - entry[r].bytes
    /\ entry' = [entry EXCEPT ![r].state = "Granted"]
    /\ hoisted' = hoisted \union {r}
    /\ UNCHANGED <<reclaimable, generation, nextRequest, mailboxVars, ticketVars,
                   pc, call, todo>>

Unlock_Overwrites(collected) ==
    /\ pc' = "unlocked"
    /\ call' = NoCall
    /\ wakes' = collected
    /\ hoisted' = {}

\* The lock is released; what the operation collected is left to wake_all.
Unlock(collected) ==
    /\ pc' = "unlocked"
    /\ call' = NoCall
    /\ wakes' = wakes \union collected
    /\ hoisted' = {}

\* The loop ends: back to the drain, or to the end of the operation.
ArbitrationDone ==
    /\ pc \in {"drainArbitrate", "bodyArbitrate"}
    /\ \A r \in Requests : ~Grantable(r)
    /\ \/ /\ pc = "drainArbitrate"
          /\ pc' = "drain"
          /\ UNCHANGED <<call, wakes, hoisted>>
       \/ /\ pc = "bodyArbitrate"
          /\ Unlock(hoisted)
    /\ UNCHANGED <<ledgerVars, mailboxVars, ticket, signaled, todo>>

-----------------------------------------------------------------------------
(***************************************************************************)
(* Entry of an operation: the ledger lock is taken and the mailbox drained *)
(* (drain gives back one reserved slot per command, saturating).           *)
(***************************************************************************)
DrainedSlots == IF Len(queue) <= reserved THEN reserved - Len(queue) ELSE 0

Lock(c) ==
    /\ pc = "unlocked"
    /\ c.op \in Ops
    /\ pc' = "drain"
    /\ call' = c
    /\ todo' = queue
    /\ queue' = << >>
    /\ reserved' = DrainedSlots
    /\ UNCHANGED <<ledgerVars, signaled, wakes, hoisted>>

CallRequest ==
    /\ nextRequest \in Requests
    /\ \E b \in Sizes, p \in Priorities :
         Lock([op |-> "request", bytes |-> b, priority |-> p])
    /\ UNCHANGED ticket

\* HostAllocation is Clone: its holder may pass it again after a release.
CallRelease(r) ==
    /\ ticket[r].phase = "resolved"
    /\ Lock([op |-> "release", req |-> r])
    /\ UNCHANGED ticket

CallReclaim ==
    /\ \E d \in Devices, b \in Sizes :
         Lock([op |-> "reclaim", device |-> d, bytes |-> b])
    /\ UNCHANGED ticket

CallReconfigure ==
    /\ generation < MaxGeneration
    /\ Lock([op |-> "reconfigure"])
    /\ UNCHANGED ticket

CallTimeOut(r) ==
    /\ ticket[r].phase # "unborn"
    /\ Lock([op |-> "timeout", req |-> r])
    /\ UNCHANGED ticket

\* snapshot and process_cancellations.
CallObserve ==
    /\ Lock([op |-> "observe"])
    /\ UNCHANGED ticket

\* try_claim on a ticket that is not resolved, directly or from wait.
CallTryClaim(r) ==
    /\ ticket[r].phase \in {"held", "waiting"}
    /\ Lock([op |-> "claim", req |-> r])
    /\ ticket' = [ticket EXCEPT ![r].phase =
                    IF ticket[r].phase = "held" THEN "polling" ELSE "waiting"]

-----------------------------------------------------------------------------
(***************************************************************************)
(* apply_cancel_locked on the next drained command.                        *)
(***************************************************************************)
Draining == pc = "drain" /\ todo # << >>

Stale(c) == entry[c.req].generation # c.generation

\* A pending or failed entry is removed.  An absent, claimed or stale one is
\* left alone (the NoOp of the code).
CancelUncharged ==
    LET c == Head(todo) IN
    /\ Draining
    /\ ~IsGranted(c.req) \/ Stale(c)
    /\ entry' = IF entry[c.req].state \in {"Pending", "Failed"} /\ ~Stale(c)
                  THEN [entry EXCEPT ![c.req] = NoEntry]
                  ELSE entry
    /\ todo' = Tail(todo)
    /\ UNCHANGED <<free, reclaimable, generation, nextRequest, mailboxVars,
                   ticketVars, pc, call, hoisted>>

\* A grant nobody claimed is removed, its bytes come back and are arbitrated.
CancelGranted ==
    LET c == Head(todo) IN
    /\ Draining
    /\ IsGranted(c.req)
    /\ ~Stale(c)
    /\ free' = free + entry[c.req].bytes
    /\ entry' = Aged([entry EXCEPT ![c.req] = NoEntry])
    /\ todo' = Tail(todo)
    /\ pc' = "drainArbitrate"
    /\ UNCHANGED <<reclaimable, generation, nextRequest, mailboxVars,
                   ticketVars, call, hoisted>>

-----------------------------------------------------------------------------
(***************************************************************************)
(* The body of each operation, once the drained commands are applied.      *)
(***************************************************************************)
Body(op) == pc = "drain" /\ todo = << >> /\ call.op = op

MaxSatisfiable == IF FixedCharge <= Capacity THEN Capacity - FixedCharge ELSE 0

\* HostQuotaDenied, before any id is taken.
DenyRequest ==
    /\ Body("request")
    /\ call.bytes > MaxSatisfiable
    /\ Unlock(hoisted)
    /\ UNCHANGED <<ledgerVars, mailboxVars, ticket, signaled, todo>>

\* HostMailboxBackpressure: reserve_slot fails after the ids are taken.
RejectRequest ==
    /\ Body("request")
    /\ call.bytes <= MaxSatisfiable
    /\ reserved = MailboxCapacity
    /\ nextRequest' = nextRequest + 1
    /\ Unlock(hoisted)
    /\ UNCHANGED <<free, reclaimable, generation, entry, mailboxVars, ticket,
                   signaled, todo>>

RequestHostPages ==
    LET fresh == [state |-> "Pending", bytes |-> call.bytes,
                  priority |-> call.priority, generation |-> generation, age |-> 0]
    IN
    /\ Body("request")
    /\ call.bytes <= MaxSatisfiable
    /\ reserved # MailboxCapacity
    /\ reserved' = reserved + 1
    /\ nextRequest' = nextRequest + 1
    /\ entry' = Aged([entry EXCEPT ![nextRequest] = fresh])
    /\ ticket' = [ticket EXCEPT ![nextRequest] =
                    [phase |-> "held", generation |-> generation]]
    /\ pc' = "bodyArbitrate"
    /\ UNCHANGED <<free, reclaimable, generation, queue, signaled, wakes,
                   call, todo, hoisted>>

ReleaseHostPages ==
    /\ Body("release")
    /\ entry[call.req].state = "Claimed"
    /\ free' = free + entry[call.req].bytes
    /\ entry' = Aged([entry EXCEPT ![call.req] = NoEntry])
    /\ pc' = "bodyArbitrate"
    /\ UNCHANGED <<reclaimable, generation, nextRequest, mailboxVars,
                   ticketVars, call, todo, hoisted>>

\* No entry, or one that is not Claimed: an error, after the drain.
RefuseRelease ==
    /\ Body("release")
    /\ entry[call.req].state # "Claimed"
    /\ Unlock(hoisted)
    /\ UNCHANGED <<ledgerVars, mailboxVars, ticket, signaled, todo>>

Reclaim ==
    /\ Body("reclaim")
    /\ call.bytes <= reclaimable[call.device]
    /\ reclaimable' = [reclaimable EXCEPT ![call.device] = @ - call.bytes]
    /\ free' = free + call.bytes
    /\ entry' = Aged(entry)
    /\ pc' = "bodyArbitrate"
    /\ UNCHANGED <<generation, nextRequest, mailboxVars, ticketVars, call, todo,
                   hoisted>>

RefuseReclaim ==
    /\ Body("reclaim")
    /\ call.bytes > reclaimable[call.device]
    /\ Unlock(hoisted)
    /\ UNCHANGED <<ledgerVars, mailboxVars, ticket, signaled, todo>>

StalePending(next) ==
    {r \in Requests : IsPending(entry, r) /\ entry[r].generation # next}

\* Every pending entry of another generation fails; no arbitration follows.
Reconfigure ==
    LET next  == generation + 1
        stale == StalePending(next)
    IN
    /\ Body("reconfigure")
    /\ generation' = next
    /\ entry' = [r \in Requests |->
                   IF r \in stale THEN [entry[r] EXCEPT !.state = "Failed"]
                                  ELSE entry[r]]
    /\ Unlock(hoisted \union stale)
    /\ UNCHANGED <<free, reclaimable, nextRequest, mailboxVars, ticket,
                   signaled, todo>>

TimeOutPending_Reaps ==
    /\ Body("timeout")
    /\ IsPending(entry, call.req)
    /\ entry' = [entry EXCEPT ![call.req] = NoEntry]
    /\ Unlock(hoisted \union {call.req})
    /\ UNCHANGED <<free, reclaimable, generation, nextRequest, mailboxVars,
                   ticket, signaled, todo>>

\* A pending request fails; nothing is arbitrated.
TimeOutPending ==
    /\ Body("timeout")
    /\ IsPending(entry, call.req)
    /\ entry' = [entry EXCEPT ![call.req].state = "Failed"]
    /\ Unlock(hoisted \union {call.req})
    /\ UNCHANGED <<free, reclaimable, generation, nextRequest, mailboxVars,
                   ticket, signaled, todo>>

\* A published, unclaimed grant fails and returns its charge.
TimeOutGranted ==
    /\ Body("timeout")
    /\ IsGranted(call.req)
    /\ free' = free + entry[call.req].bytes
    /\ entry' = Aged([entry EXCEPT ![call.req].state = "Failed"])
    /\ hoisted' = hoisted \union {call.req}
    /\ pc' = "bodyArbitrate"
    /\ UNCHANGED <<reclaimable, generation, nextRequest, mailboxVars,
                   ticketVars, call, todo>>

TimeOutNoOp ==
    /\ Body("timeout")
    /\ entry[call.req].state \in {"Absent", "Claimed", "Failed"}
    /\ Unlock(hoisted)
    /\ UNCHANGED <<ledgerVars, mailboxVars, ticket, signaled, todo>>

Observe ==
    /\ Body("observe")
    /\ Unlock(hoisted)
    /\ UNCHANGED <<ledgerVars, mailboxVars, ticket, signaled, todo>>

\* try_claim: Pending leaves the ticket armed (wait parks it) ...
ClaimPending ==
    /\ Body("claim")
    /\ IsPending(entry, call.req)
    /\ ticket' = [ticket EXCEPT ![call.req].phase =
                    IF ticket[call.req].phase = "polling" THEN "held" ELSE "parked"]
    /\ Unlock(hoisted)
    /\ UNCHANGED <<ledgerVars, mailboxVars, signaled, todo>>

\* ... Granted moves the charge to the caller ...
ClaimGranted ==
    /\ Body("claim")
    /\ IsGranted(call.req)
    /\ entry' = [entry EXCEPT ![call.req].state = "Claimed"]
    /\ ticket' = [ticket EXCEPT ![call.req].phase = "disarming"]
    /\ Unlock(hoisted)
    /\ UNCHANGED <<free, reclaimable, generation, nextRequest, mailboxVars,
                   signaled, todo>>

Reaped(r) == IF entry[r].state = "Claimed" THEN entry ELSE [entry EXCEPT ![r] = NoEntry]

\* ... a failed entry is reaped, an absent or claimed one reads as cancelled.
ClaimTerminal ==
    /\ Body("claim")
    /\ entry[call.req].state \in {"Failed", "Absent", "Claimed"}
    /\ entry' = Reaped(call.req)
    /\ ticket' = [ticket EXCEPT ![call.req].phase = "disarming"]
    /\ Unlock(hoisted)
    /\ UNCHANGED <<free, reclaimable, generation, nextRequest, mailboxVars,
                   signaled, todo>>

-----------------------------------------------------------------------------
(***************************************************************************)
(* Steps that hold no ledger lock.                                         *)
(***************************************************************************)

\* request_host_pages returns the new ticket only once it has unlocked.
Returned(r) == ~(pc = "bodyArbitrate" /\ call.op = "request" /\ r = nextRequest - 1)

\* PressureTicket::wait takes the ticket; it can no longer be dropped.
StartWait(r) ==
    /\ ticket[r].phase = "held"
    /\ Returned(r)
    /\ ticket' = [ticket EXCEPT ![r].phase = "waiting"]
    /\ UNCHANGED <<ledgerVars, mailboxVars, signaled, wakes, lockVars>>

\* One notify.wake of wake_all.
Wake(r) ==
    /\ r \in wakes
    /\ wakes' = wakes \ {r}
    /\ signaled' = [signaled EXCEPT ![r] = TRUE]
    /\ UNCHANGED <<ledgerVars, mailboxVars, ticket, lockVars>>

\* notify.wait returns and consumes the signal.
Unpark(r) ==
    /\ ticket[r].phase = "parked"
    /\ signaled[r]
    /\ signaled' = [signaled EXCEPT ![r] = FALSE]
    /\ ticket' = [ticket EXCEPT ![r].phase = "waiting"]
    /\ UNCHANGED <<ledgerVars, mailboxVars, wakes, lockVars>>

\* The slot of a resolved ticket is returned under the mailbox lock.
Disarm(r) ==
    /\ ticket[r].phase = "disarming"
    /\ ticket' = [ticket EXCEPT ![r].phase = "resolved"]
    /\ reserved' = IF reserved > 0 THEN reserved - 1 ELSE 0
    /\ UNCHANGED <<ledgerVars, queue, signaled, wakes, lockVars>>

SlotLeft_OffByOne == Len(queue) + 1 < reserved
SlotLeft == Len(queue) < reserved

\* Drop: publish_cancel discards the command when no slot is left for it.
DropTicket(r) ==
    /\ ticket[r].phase = "held"
    /\ Returned(r)
    /\ ticket' = [ticket EXCEPT ![r].phase = "dropped"]
    /\ queue' = IF SlotLeft
                  THEN Append(queue, [req |-> r, generation |-> ticket[r].generation])
                  ELSE queue
    /\ UNCHANGED <<ledgerVars, reserved, signaled, wakes, lockVars>>

-----------------------------------------------------------------------------
Holder ==
    \/ \E r \in Requests : Grant(r)
    \/ ArbitrationDone
    \/ CancelUncharged
    \/ CancelGranted
    \/ DenyRequest
    \/ RejectRequest
    \/ RequestHostPages
    \/ ReleaseHostPages
    \/ RefuseRelease
    \/ Reclaim
    \/ RefuseReclaim
    \/ Reconfigure
    \/ TimeOutPending
    \/ TimeOutGranted
    \/ TimeOutNoOp
    \/ Observe
    \/ ClaimPending
    \/ ClaimGranted
    \/ ClaimTerminal

Next ==
    \/ Holder
    \/ CallRequest
    \/ CallReclaim
    \/ CallReconfigure
    \/ CallObserve
    \/ \E r \in Requests :
         \/ CallRelease(r)
         \/ CallTimeOut(r)
         \/ CallTryClaim(r)
         \/ StartWait(r)
         \/ Wake(r)
         \/ Unpark(r)
         \/ Disarm(r)
         \/ DropTicket(r)

Spec == Init /\ [][Next]_vars

(***************************************************************************)
(* Fairness.  A thread inside a critical section, in wake_all, between the *)
(* unlock and the slot release, or signaled while parked is runnable and   *)
(* gets on (weak fairness).  A waiter that contends for the ledger lock    *)
(* gets it at some point (strong fairness: the lock is free again and      *)
(* again).  Nothing is assumed of the callers.                             *)
(***************************************************************************)
Fairness ==
    /\ WF_vars(Holder)
    /\ \A r \in Requests :
         /\ WF_vars(Wake(r))
         /\ WF_vars(Unpark(r))
         /\ WF_vars(Disarm(r))
         /\ SF_vars(ticket[r].phase = "waiting" /\ CallTryClaim(r))

FairSpec == Spec /\ Fairness

-----------------------------------------------------------------------------
Entries == [state : EntryStates \union {"Absent"}, bytes : 0..Capacity,
            priority : Nat, generation : Generations, age : 0..AgingCap]

LedgerTypeOK ==
    /\ free \in Nat
    /\ reclaimable \in [Devices -> 0..Capacity]
    /\ generation \in Generations
    /\ entry \in [Requests -> Entries]
    /\ nextRequest \in 1..(MaxRequests + 1)

MailboxTypeOK ==
    /\ queue \in Seq(Commands)
    /\ reserved \in 0..MailboxCapacity

TicketTypeOK ==
    /\ ticket \in [Requests -> [phase : Phases, generation : Generations]]
    /\ signaled \in [Requests -> BOOLEAN]
    /\ wakes \subseteq Requests

LockTypeOK ==
    /\ pc \in {"unlocked", "drain", "drainArbitrate", "bodyArbitrate"}
    /\ call \in Calls
    /\ todo \in Seq(Commands)
    /\ hoisted \subseteq Requests

\* Every variable has its type; in particular ages stop at AgingCap and the
\* mailbox never reserves more slots than its capacity.
TypeOK == LedgerTypeOK /\ MailboxTypeOK /\ TicketTypeOK /\ LockTypeOK

(***************************************************************************)
(* Safety.                                                                 *)
(***************************************************************************)
Charge == [r \in Requests |->
             IF entry[r].state \in {"Granted", "Claimed"} THEN entry[r].bytes ELSE 0]

\* Every byte of the host budget is free, evictable, fixed or charged to
\* exactly one granted or claimed request, at every step of every operation:
\* what HostGovernor::snapshot recomputes always equals the running counter,
\* whatever grants, claims, cancels, time-outs and reclaims have raced.
LedgerConserved ==
    free + Total(reclaimable) + Total(Charge) + FixedCharge = Capacity

\* The mailbox holds one reserved slot per queued command and per ticket that
\* may still post one, so the branch of publish_cancel that discards a
\* command is never taken and reserve_slot never over-commits the queue.
SlotAccounting ==
    reserved = Len(queue) + Cardinality({r \in Requests : ticket[r].phase \in Armed})

\* The cancel commands posted and not yet applied.
Posted == Range(queue) \union Range(todo)

\* Dropping a ticket never leaks its charge: while the ledger still holds an
\* entry for a dropped ticket, a cancel command that matches the entry's
\* generation is queued or being applied, and the entry is not claimed.
CancelNotLost ==
    \A r \in Requests :
        ticket[r].phase = "dropped" /\ entry[r].state # "Absent" =>
            /\ entry[r].state # "Claimed"
            /\ [req |-> r, generation |-> entry[r].generation] \in Posted

\* A posted cancel command always finds its own entry, unclaimed and of its
\* generation: ids are not reused, a ticket posts once, and nothing but its
\* own command removes the entry of a dropped ticket.  The branches of
\* apply_cancel_locked for an absent, claimed or stale entry are never taken.
CancelApplies ==
    \A c \in Posted :
        entry[c.req].state \in {"Pending", "Granted", "Failed"} /\ ~Stale(c)

\* Ledger and tickets agree on who owns a charge: an unclaimed entry belongs
\* to a ticket that can still observe or cancel it, a claimed one to a ticket
\* whose poll returned it, and a resolved ticket never leaves a pending or
\* granted entry behind (a terminal ticket retains no allocation).
ChargeHasOwner ==
    \A r \in Requests :
        /\ entry[r].state \in {"Pending", "Granted", "Failed"} =>
             ticket[r].phase \in {"held", "polling", "waiting", "parked", "dropped"}
        /\ entry[r].state = "Claimed" => ticket[r].phase \in {"disarming", "resolved"}

\* No lost wake-up: a waiter parked in notify.wait whose request already has
\* its verdict has been signaled, or a thread is still on its way to signal it.
NoLostWakeup ==
    \A r \in Requests :
        ticket[r].phase = "parked" /\ entry[r].state # "Pending" =>
            signaled[r] \/ r \in wakes \union hoisted

\* Nobody is woken before the verdict: a wake-up that is collected, under way
\* or delivered belongs to a request that is no longer pending, so a granted
\* waiter finds its bytes already charged.
WakeAfterVerdict ==
    \A r \in Requests :
        signaled[r] \/ r \in wakes \union hoisted => entry[r].state # "Pending"

\* Reconfiguration leaves no request of an older generation pending: such a
\* request would be skipped by every later arbitration and wait for ever.
PendingIsCurrent ==
    \A r \in Requests : IsPending(entry, r) => entry[r].generation = generation

\* Once a request has matured, no request submitted after it is granted while
\* it still waits, however small or urgent: returned bytes accumulate for it.
MaturedNotOvertaken ==
    [][\A r, s \in Requests :
         /\ IsPending(entry, r) /\ Matured(r)
         /\ r < s
         /\ IsPending(entry, s)
         => entry'[s].state # "Granted"]_vars

\* A request is granted at most once and a claim is final until released: a
\* grant comes from Pending, a claim from Granted, and a claimed entry can only
\* be removed, never failed, cancelled or granted again.
ClaimIsFinal ==
    [][\A r \in Requests :
         /\ entry'[r].state = "Granted" => entry[r].state \in {"Pending", "Granted"}
         /\ entry'[r].state = "Claimed" => entry[r].state \in {"Granted", "Claimed"}
         /\ entry[r].state = "Claimed" => entry'[r].state \in {"Claimed", "Absent"}]_vars

(***************************************************************************)
(* Liveness.                                                               *)
(***************************************************************************)

\* A caller blocked in wait whose request has been granted or failed returns.
VerdictIsDelivered ==
    \A r \in Requests :
        ticket[r].phase \in {"waiting", "parked"} /\ entry[r].state \in {"Granted", "Failed"}
            ~> ticket[r].phase = "resolved"

(***************************************************************************)
(* Statements of the repository that the code does not keep.               *)
(***************************************************************************)

=============================================================================
