---------------------- MODULE HostGovernorLedgerProofs ----------------------
(***************************************************************************)
(* The rest of the proof that HostGovernor keeps its protocol invariant    *)
(* and what follows from it; then the ledger: no operation creates or      *)
(* loses a byte, a claim is final, and a matured request is not overtaken. *)
(*                                                                         *)
(* The ledger's argument has two parts: what a step does to the entries    *)
(* and to the free counter (LedgerMoves), and how a sum changes when one   *)
(* of its terms does (TotalUpdate).                                        *)
(***************************************************************************)
EXTENDS HostGovernorProofs

\* The command a drain takes is one of those it drained.
LEMMA HeadOf == ASSUME NEW S, NEW q \in Seq(S), q # << >> PROVE Head(q) \in S
  OBVIOUS

\* The entry request_host_pages inserts is well typed.
LEMMA PendingEntry ==
    ASSUME NEW b \in 0..Capacity, NEW p \in Nat, NEW g \in Generations
    PROVE  [state |-> "Pending", bytes |-> b, priority |-> p, generation |-> g, age |-> 0] \in Entries
  BY ConstantsAssumption DEF Entries, EntryStates

\* A pending request that times out fails.
LEMMA TimeOutPendingTies ==
  ASSUME ProtocolInv, TimeOutPending
  PROVE  Ties'
  <1>0. CallOK /\ LedgerTypeOK /\ MailboxTypeOK /\ TicketTypeOK /\ LockTypeOK
    BY DEF ProtocolInv, TypeInv, TypeOK
  <1>i. Fresh /\ SameGeneration /\ ChargeHasOwner /\ PendingIsCurrent /\ NoLostWakeup /\ WakeAfterVerdict
        /\ CommandsAreDropped /\ CancelNotLost
    BY DEF ProtocolInv
  <1>act. TimeOutPending
    OBVIOUS
  <1>1. call.req \in Requests /\ entry[call.req].state = "Pending"
    BY <1>0, <1>act, CallTypes DEF TimeOutPending, Body, LockTypeOK, IsPending
  <1>2. /\ UNCHANGED <<generation, nextRequest, queue, ticket, signaled, todo>>
        /\ wakes' \union hoisted' = wakes \union hoisted \union {call.req}
    BY <1>act DEF TimeOutPending, Unlock, mailboxVars
  <1>3. \A s \in Requests :
          /\ entry'[s].state = IF s = call.req THEN "Failed" ELSE entry[s].state
          /\ entry'[s].generation = entry[s].generation
    BY <1>0, <1>act, <1>1 DEF TimeOutPending, LedgerTypeOK, Entries
  <1> USE <1>i, <1>1, <1>2, <1>3
  <1>8. Fresh'
    BY <1>0 DEF Fresh, LedgerTypeOK, Requests
  <1>9. SameGeneration' /\ PendingIsCurrent'
    BY DEF SameGeneration, PendingIsCurrent, IsPending
  <1>10. ChargeHasOwner'
    BY DEF ChargeHasOwner
  <1>11. NoLostWakeup'
    BY DEF NoLostWakeup
  <1>12. WakeAfterVerdict'
    BY DEF WakeAfterVerdict
  <1>13. CommandsAreDropped'
    BY DEF CommandsAreDropped, Posted, Commands
  <1>14. CancelNotLost'
    BY DEF CancelNotLost, Posted
  <1>15. QED
    BY <1>8, <1>9, <1>10, <1>11, <1>12, <1>13, <1>14 DEF Ties

\* A grant that times out fails and gives its bytes back.
LEMMA TimeOutGrantedTies ==
  ASSUME ProtocolInv, TimeOutGranted
  PROVE  Ties'
  <1>0. CallOK /\ LedgerTypeOK /\ MailboxTypeOK /\ TicketTypeOK /\ LockTypeOK
    BY DEF ProtocolInv, TypeInv, TypeOK
  <1>i. Fresh /\ SameGeneration /\ ChargeHasOwner /\ PendingIsCurrent /\ NoLostWakeup /\ WakeAfterVerdict
        /\ CommandsAreDropped /\ CancelNotLost
    BY DEF ProtocolInv
  <1>act. TimeOutGranted
    OBVIOUS
  <1> DEFINE e == [entry EXCEPT ![call.req].state = "Failed"]
  <1>1. call.req \in Requests /\ entry[call.req].state = "Granted"
    BY <1>0, <1>act, CallTypes DEF TimeOutGranted, Body, LockTypeOK, IsGranted
  <1>2. e \in [Requests -> Entries]
    BY <1>0, <1>1, EntryUpdate, Zenon DEF LedgerTypeOK, EntryStates
  <1>3. \A s \in Requests : 
          /\ e[s].state = IF s = call.req THEN "Failed" ELSE entry[s].state
          /\ e[s].generation = entry[s].generation
    BY <1>0, <1>1 DEF LedgerTypeOK, NoEntry, Entries
  <1>4. /\ entry' = Aged(e) /\ hoisted' = hoisted \union {call.req}
        /\ UNCHANGED <<generation, nextRequest, queue, ticket, signaled, wakes, todo>>
    BY <1>act DEF TimeOutGranted, mailboxVars, ticketVars
  <1> HIDE DEF e
  <1>5. \A s \in Requests : 
          /\ entry'[s].state = IF s = call.req THEN "Failed" ELSE entry[s].state
          /\ entry'[s].generation = entry[s].generation
    BY <1>0, <1>2, <1>3, <1>4, AgedType DEF LedgerTypeOK
  <1> USE <1>i, <1>1, <1>4, <1>5
  <1>8. Fresh'
    BY <1>0 DEF Fresh, LedgerTypeOK, Requests
  <1>9. SameGeneration' /\ PendingIsCurrent'
    BY DEF SameGeneration, PendingIsCurrent, IsPending
  <1>10. ChargeHasOwner'
    BY DEF ChargeHasOwner
  <1>11. NoLostWakeup'
    BY DEF NoLostWakeup
  <1>12. WakeAfterVerdict'
    BY DEF WakeAfterVerdict
  <1>13. CommandsAreDropped'
    BY DEF CommandsAreDropped, Posted, Commands
  <1>14. CancelNotLost'
    BY DEF CancelNotLost, Posted
  <1>15. QED
    BY <1>8, <1>9, <1>10, <1>11, <1>12, <1>13, <1>14 DEF Ties

\* A claim settles its ticket or leaves it pending.
LEMMA ClaimTies ==
  ASSUME ProtocolInv, ClaimPending \/ ClaimGranted \/ ClaimTerminal
  PROVE  Ties'
  <1>0. CallOK /\ LedgerTypeOK /\ MailboxTypeOK /\ TicketTypeOK /\ LockTypeOK
    BY DEF ProtocolInv, TypeInv, TypeOK
  <1>i. Fresh /\ SameGeneration /\ ChargeHasOwner /\ PendingIsCurrent /\ NoLostWakeup /\ WakeAfterVerdict
        /\ CommandsAreDropped /\ CancelNotLost
    BY DEF ProtocolInv
  <1>act. ClaimPending \/ ClaimGranted \/ ClaimTerminal
    OBVIOUS
  <1> DEFINE q == call.req
  <1>1. q \in Requests /\ ticket[q].phase \in {"polling", "waiting"}
    BY <1>0, <1>act, CallTypes DEF ClaimPending, ClaimGranted, ClaimTerminal, Body, CallOK, BeforeBody,
                                  LockTypeOK
  <1>2. /\ UNCHANGED <<generation, nextRequest, queue, signaled, todo>>
        /\ wakes' \union hoisted' = wakes \union hoisted
    BY <1>act DEF ClaimPending, ClaimGranted, ClaimTerminal, Unlock, mailboxVars, ledgerVars
  <1>3. \A s \in Requests :
          /\ s # q => /\ entry'[s].state = entry[s].state
                      /\ entry'[s].generation = entry[s].generation
                      /\ ticket'[s].phase = ticket[s].phase
          /\ ticket'[s].generation = ticket[s].generation
    <2>1. CASE ClaimPending
      BY <1>0, <1>1, <2>1 DEF ClaimPending, TicketTypeOK, ledgerVars
    <2>2. CASE ClaimGranted
      BY <1>0, <1>1, <2>2 DEF ClaimGranted, TicketTypeOK, LedgerTypeOK
    <2>3. CASE ClaimTerminal
      BY <1>0, <1>1, <2>3 DEF ClaimTerminal, Reaped, TicketTypeOK, LedgerTypeOK
    <2>4. QED
      BY <1>act, <2>1, <2>2, <2>3
  <1>4. \/ /\ entry[q].state = "Pending" /\ entry'[q].state = "Pending"
           /\ entry'[q].generation = entry[q].generation
           /\ ticket'[q].phase \in {"held", "parked"}
        \/ /\ entry[q].state = "Granted" /\ entry'[q].state = "Claimed"
           /\ entry'[q].generation = entry[q].generation
           /\ ticket'[q].phase = "disarming"
        \/ entry'[q].state = "Absent" /\ ticket'[q].phase = "disarming"
    <2>1. CASE ClaimPending
      BY <1>0, <1>1, <2>1 DEF ClaimPending, TicketTypeOK, ledgerVars, IsPending
    <2>2. CASE ClaimGranted
      BY <1>0, <1>1, <2>2 DEF ClaimGranted, TicketTypeOK, LedgerTypeOK, Entries, IsGranted
    <2>3. CASE ClaimTerminal
      <3>1. entry[q].state # "Claimed"
        BY <1>i, <1>1 DEF ChargeHasOwner
      <3>2. QED
        BY <1>0, <1>1, <2>3, <3>1 DEF ClaimTerminal, Reaped, TicketTypeOK, LedgerTypeOK, NoEntry
    <2>4. QED
      BY <1>act, <2>1, <2>2, <2>3
  <1> HIDE DEF q
  <1> USE <1>i, <1>1, <1>2, <1>3, <1>4
  <1>8. Fresh'
    BY <1>0 DEF Fresh, LedgerTypeOK, Requests
  <1>9. SameGeneration' /\ PendingIsCurrent'
    BY DEF SameGeneration, PendingIsCurrent, IsPending
  <1>10. ChargeHasOwner'
    BY DEF ChargeHasOwner
  <1>11. NoLostWakeup'
    BY DEF NoLostWakeup
  <1>12. WakeAfterVerdict'
    BY DEF WakeAfterVerdict
  <1>13. CommandsAreDropped'
    BY DEF CommandsAreDropped, Posted, Commands
  <1>14. CancelNotLost'
    BY DEF CancelNotLost, Posted
  <1>15. QED
    BY <1>8, <1>9, <1>10, <1>11, <1>12, <1>13, <1>14 DEF Ties

\* A grant owes its waiter a wake-up.
LEMMA GrantTies ==
  ASSUME ProtocolInv, NEW r \in Requests, Grant(r)
  PROVE  Ties'
  <1>0. CallOK /\ LedgerTypeOK /\ MailboxTypeOK /\ TicketTypeOK /\ LockTypeOK
    BY DEF ProtocolInv, TypeInv, TypeOK
  <1>i. Fresh /\ SameGeneration /\ ChargeHasOwner /\ PendingIsCurrent /\ NoLostWakeup /\ WakeAfterVerdict
        /\ CommandsAreDropped /\ CancelNotLost
    BY DEF ProtocolInv
  <1>act. Grant(r)
    OBVIOUS
  <1>1. entry[r].state = "Pending" /\ hoisted' = hoisted \union {r}
        /\ UNCHANGED <<generation, nextRequest, queue, ticket, signaled, wakes, todo>>
    BY <1>act DEF Grant, Grantable, Candidates, IsPending, mailboxVars, ticketVars
  <1>2. \A s \in Requests :
          /\ entry'[s].state = IF s = r THEN "Granted" ELSE entry[s].state
          /\ entry'[s].generation = entry[s].generation
    BY <1>0, <1>act DEF Grant, LedgerTypeOK, Entries
  <1> USE <1>i, <1>1, <1>2
  <1>8. Fresh'
    BY <1>0 DEF Fresh, LedgerTypeOK, Requests
  <1>9. SameGeneration' /\ PendingIsCurrent'
    BY DEF SameGeneration, PendingIsCurrent, IsPending
  <1>10. ChargeHasOwner'
    BY DEF ChargeHasOwner
  <1>11. NoLostWakeup'
    BY DEF NoLostWakeup
  <1>12. WakeAfterVerdict'
    BY DEF WakeAfterVerdict
  <1>13. CommandsAreDropped'
    BY DEF CommandsAreDropped, Posted, Commands
  <1>14. CancelNotLost'
    BY DEF CancelNotLost, Posted
  <1>15. QED
    BY <1>8, <1>9, <1>10, <1>11, <1>12, <1>13, <1>14 DEF Ties

\* A waiter parks and wakes without touching the ledger.
LEMMA WaitTies ==
  ASSUME ProtocolInv, NEW r \in Requests, StartWait(r) \/ Wake(r) \/ Unpark(r) \/ Disarm(r)
  PROVE  Ties'
  <1>0. CallOK /\ LedgerTypeOK /\ MailboxTypeOK /\ TicketTypeOK /\ LockTypeOK
    BY DEF ProtocolInv, TypeInv, TypeOK
  <1>i. Fresh /\ SameGeneration /\ ChargeHasOwner /\ PendingIsCurrent /\ NoLostWakeup /\ WakeAfterVerdict
        /\ CommandsAreDropped /\ CancelNotLost
    BY DEF ProtocolInv
  <1>act. StartWait(r) \/ Wake(r) \/ Unpark(r) \/ Disarm(r)
    OBVIOUS
  <1>1. UNCHANGED <<generation, nextRequest, entry, queue, todo, hoisted>>
    BY <1>act, SMTT(30) DEF StartWait, Wake, Unpark, Disarm, ledgerVars, mailboxVars, lockVars
  <1>2. \A s \in Requests :
          /\ ticket'[s].generation = ticket[s].generation
          /\ \/ ticket'[s].phase = ticket[s].phase
             \/ ticket[s].phase \in {"held", "parked"} /\ ticket'[s].phase = "waiting"
             \/ ticket[s].phase = "disarming" /\ ticket'[s].phase = "resolved"
          /\ ticket'[s].phase = "parked" => ticket[s].phase = "parked" /\ (signaled[s] => signaled'[s])
          /\ signaled'[s] => signaled[s] \/ s \in wakes
          /\ s \in wakes => signaled'[s] \/ s \in wakes'
          /\ s \in wakes' => s \in wakes
    <2>1. CASE StartWait(r)
      BY <1>0, <2>1 DEF StartWait, TicketTypeOK
    <2>2. CASE Wake(r)
      BY <1>0, <2>2 DEF Wake, TicketTypeOK
    <2>3. CASE Unpark(r)
      BY <1>0, <2>3 DEF Unpark, TicketTypeOK
    <2>4. CASE Disarm(r)
      BY <1>0, <2>4 DEF Disarm, TicketTypeOK
    <2>5. QED
      BY <1>act, <2>1, <2>2, <2>3, <2>4
  <1> USE <1>i, <1>1, <1>2
  <1>8. Fresh'
    BY <1>0 DEF Fresh, LedgerTypeOK, Requests
  <1>9. SameGeneration' /\ PendingIsCurrent'
    BY DEF SameGeneration, PendingIsCurrent, IsPending
  <1>10. ChargeHasOwner'
    BY DEF ChargeHasOwner
  <1>11. NoLostWakeup'
    BY DEF NoLostWakeup
  <1>12. WakeAfterVerdict'
    BY DEF WakeAfterVerdict
  <1>13. CommandsAreDropped'
    BY DEF CommandsAreDropped, Posted, Commands
  <1>14. CancelNotLost'
    BY DEF CancelNotLost, Posted
  <1>15. QED
    BY <1>8, <1>9, <1>10, <1>11, <1>12, <1>13, <1>14 DEF Ties

\* A dropped ticket posts the cancel of its entry.
LEMMA DropTies ==
  ASSUME ProtocolInv, NEW r \in Requests, DropTicket(r)
  PROVE  Ties'
  <1>0. CallOK /\ LedgerTypeOK /\ MailboxTypeOK /\ TicketTypeOK /\ LockTypeOK
    BY DEF ProtocolInv, TypeInv, TypeOK
  <1>i. Fresh /\ SameGeneration /\ ChargeHasOwner /\ PendingIsCurrent /\ NoLostWakeup /\ WakeAfterVerdict
        /\ CommandsAreDropped /\ CancelNotLost
    BY DEF ProtocolInv
  <1>act. DropTicket(r)
    OBVIOUS
  <1> DEFINE c == [req |-> r, generation |-> ticket[r].generation]
  <1>1. /\ ticket[r].phase = "held"
        /\ UNCHANGED <<generation, nextRequest, entry, todo, signaled, wakes, hoisted>>
    BY <1>act DEF DropTicket, ledgerVars, lockVars
  <1>2. \A s \in Requests :
          /\ ticket'[s].generation = ticket[s].generation
          /\ ticket'[s].phase = IF s = r THEN "dropped" ELSE ticket[s].phase
    BY <1>0, <1>act DEF DropTicket, TicketTypeOK
  <1>3. c \in Commands /\ c.req = r
    BY <1>0 DEF TicketTypeOK, Commands
  <1>4. queue' = Append(queue, c)
    <2>1. SlotLeft
      BY <1>0, <1>1, ArmedHasSlot DEF ProtocolInv, ArmedTickets, Armed
    <2>2. QED
      BY <1>act, <2>1 DEF DropTicket
  <1> HIDE DEF c
  <1>5. Posted' = Posted \union {c}
    <2>1. queue \in Seq(Commands)
      BY <1>0 DEF MailboxTypeOK
    <2>2. Range(queue') = Range(queue) \union {c}
      BY <1>3, <1>4, <2>1, RangeAppend
    <2>3. QED
      BY <1>1, <2>2 DEF Posted
  <1>6. Fresh' /\ SameGeneration' /\ ChargeHasOwner' /\ PendingIsCurrent' /\ NoLostWakeup' /\ WakeAfterVerdict'
    BY <1>0, <1>i, <1>1, <1>2
       DEF Fresh, SameGeneration, ChargeHasOwner, PendingIsCurrent, NoLostWakeup, WakeAfterVerdict,
           IsPending, LedgerTypeOK, Requests
  <1>7. CommandsAreDropped'
    BY <1>i, <1>2, <1>3, <1>5 DEF CommandsAreDropped, Commands
  <1>8. CancelNotLost'
    <2>1. entry[r].state # "Absent" => [req |-> r, generation |-> entry[r].generation] = c
      BY <1>i DEF SameGeneration, c
    <2>2. entry[r].state # "Claimed"
      BY <1>i, <1>1 DEF ChargeHasOwner
    <2>3. QED
      BY <1>i, <1>1, <1>2, <1>5, <2>1, <2>2 DEF CancelNotLost
  <1>9. QED
    BY <1>6, <1>7, <1>8 DEF Ties

\* Every step keeps the inductive invariant: one case per action.
LEMMA StepProtocol == ProtocolInv /\ [Next]_vars => ProtocolInv'
  <1> SUFFICES ASSUME ProtocolInv, [Next]_vars
               PROVE  ProtocolInv'
    OBVIOUS
  <1>1. TypeInv' /\ SlotAccounting' /\ CallOK
    BY StepType, StepSlots DEF ProtocolInv, TypeInv
  <1>2. Ties' => ProtocolInv'
    BY <1>1 DEF ProtocolInv, Ties
  <1>3. Ties
    BY DEF ProtocolInv, Ties
  <1>4. CASE UNCHANGED vars
    <2>1. Ties'
      BY <1>3, <1>4 DEF Ties, vars, ledgerVars, mailboxVars, ticketVars, lockVars, Fresh, SameGeneration,
           ChargeHasOwner, PendingIsCurrent, NoLostWakeup, WakeAfterVerdict, IsPending, CommandsAreDropped,
           CancelNotLost, Posted
    <2>2. QED
      BY <1>2, <2>1, Zenon
  <1>5. ASSUME LedgerStep PROVE Ties'
    BY <1>5, CancelTies, RejectTies, RequestTies, ReleaseTies, ReclaimTies, ReconfigureTies,
       TimeOutPendingTies, TimeOutGrantedTies, ClaimTies DEF LedgerStep
  <1>6. ASSUME NEW r \in Requests, StepOf(r) PROVE Ties'
    BY <1>6, GrantTies, WaitTies, DropTies DEF StepOf
  <1>7. CASE Next
    <2>1. Ties'
      BY <1>1, <1>5, <1>6, <1>7, EnterTies, QuietTies, NextShapes
    <2>2. QED
      BY <1>2, <2>1
  <1>8. QED
    BY <1>4, <1>7

\* The inductive invariant holds in every reachable state.
LEMMA ProtocolHolds == Spec => []ProtocolInv
  BY InitProtocol, StepProtocol, PTL DEF Spec

\* reserve_slot, publish_cancel, release_slot and drain keep the reservation
\* counter equal to the queued commands plus the armed tickets, whatever the
\* mailbox capacity and the number of tickets.
THEOREM SlotsAccounted == Spec => []SlotAccounting
  <1>1. ProtocolInv => SlotAccounting
    BY DEF ProtocolInv
  <1>2. QED
    BY <1>1, ProtocolHolds, PTL

\* A dropped ticket never leaks its charge: the cancel command that will
\* return it is posted and cannot be mistaken for one of another generation.
THEOREM CancelsNotLost == Spec => []CancelNotLost
  <1>1. ProtocolInv => CancelNotLost
    BY DEF ProtocolInv
  <1>2. QED
    BY <1>1, ProtocolHolds, PTL

\* Every charged byte of the ledger has a ticket or an allocation holder that
\* can return it.
THEOREM ChargesOwned == Spec => []ChargeHasOwner
  <1>1. ProtocolInv => ChargeHasOwner
    BY DEF ProtocolInv
  <1>2. QED
    BY <1>1, ProtocolHolds, PTL

\* wake_all loses no wake-up and sends none before the verdict.
THEOREM WakeupsExact == Spec => [](NoLostWakeup /\ WakeAfterVerdict)
  <1>1. ProtocolInv => NoLostWakeup /\ WakeAfterVerdict
    BY DEF ProtocolInv
  <1>2. QED
    BY <1>1, ProtocolHolds, PTL

\* reconfigure fails every request that later arbitrations would skip.
THEOREM NoStalePending == Spec => []PendingIsCurrent
  <1>1. ProtocolInv => PendingIsCurrent
    BY DEF ProtocolInv
  <1>2. QED
    BY <1>1, ProtocolHolds, PTL

-----------------------------------------------------------------------------
\* A sum of byte counts is the sum over the other indices plus the count at d.
LEMMA TotalSplit ==
    ASSUME NEW D, IsFiniteSet(D), NEW f \in [D -> 0..Capacity], NEW d \in D
    PROVE  LET rest == {p \in Slots(f) : p[1] # d}
           IN  /\ IsFiniteSet(rest)
               /\ Cardinality(rest) \in Nat
               /\ Total(f) = Cardinality(rest) + f[d]
  <1> DEFINE rest == {p \in Slots(f) : p[1] # d}
             own  == {d} \X (1..f[d])
  <1>1. f[d] \in Nat /\ f[d] <= Capacity /\ Capacity \in Nat /\ DOMAIN f = D
    BY ConstantsAssumption
  <1>2. Slots(f) = rest \union own
    <2>1. ASSUME NEW p \in Slots(f)
          PROVE  p \in rest \union own
      BY <1>1, <2>1 DEF Slots
    <2>2. ASSUME NEW p \in own
          PROVE  p \in Slots(f)
      BY <1>1, <2>2 DEF Slots
    <2>3. QED
      BY <2>1, <2>2
  <1>3. rest \intersect own = {}
    OBVIOUS
  <1>4. IsFiniteSet(rest) /\ Cardinality(rest) \in Nat
    <2>1. IsFiniteSet(1..Capacity)
      BY <1>1, FS_Interval
    <2>2. IsFiniteSet(D \X (1..Capacity))
      BY <2>1, FS_Product, Zenon
    <2>3. rest \subseteq D \X (1..Capacity)
      BY <1>1 DEF Slots
    <2>4. QED
      BY <2>2, <2>3, FS_Subset, FS_CardinalityType
  <1>5. IsFiniteSet(own) /\ Cardinality(own) = f[d]
    <2>1. IsFiniteSet(1..f[d]) /\ Cardinality(1..f[d]) = f[d]
      BY <1>1, FS_Interval
    <2>2. IsFiniteSet({d}) /\ Cardinality({d}) = 1
      BY FS_Singleton, Zenon
    <2>3. \A S, T : IsFiniteSet(S) /\ IsFiniteSet(T) =>
              IsFiniteSet(S \X T) /\ Cardinality(S \X T) = Cardinality(S) * Cardinality(T)
      BY FS_Product
    <2>4. IsFiniteSet(own) /\ Cardinality(own) = Cardinality({d}) * Cardinality(1..f[d])
      <3> HIDE DEF own
      <3>1. own = {d} \X (1..f[d])
        BY DEF own
      <3> DEFINE one == {d}
                 seg == 1..f[d]
      <3>2. own = one \X seg /\ IsFiniteSet(one) /\ IsFiniteSet(seg)
        BY <2>1, <2>2, <3>1
      <3> HIDE DEF one, seg
      <3>3. IsFiniteSet(own) /\ Cardinality(own) = Cardinality(one) * Cardinality(seg)
        BY <2>3, <3>2, Zenon
      <3>4. QED
        BY <3>3 DEF one, seg
    <2>5. QED
      BY <1>1, <2>1, <2>2, <2>4
  <1>6. Cardinality({}) = 0
    BY FS_EmptySet
  <1> HIDE DEF rest, own
  <1>7. Cardinality(rest \union own) = Cardinality(rest) + Cardinality(own) - Cardinality(rest \intersect own)
    BY <1>4, <1>5, FS_Union
  <1>8. Total(f) = Cardinality(rest) + f[d]
    <2>1. Total(f) = Cardinality(rest \union own)
      BY <1>2 DEF Total
    <2>2. Cardinality(rest \intersect own) = 0
      BY <1>3, <1>6
    <2>3. QED
      BY <1>1, <1>4, <1>5, <1>7, <2>1, <2>2
  <1>9. QED
    BY <1>4, <1>8 DEF rest

\* When two functions differ at one index only, so do their sums.
LEMMA TotalUpdate ==
    ASSUME NEW D, IsFiniteSet(D),
           NEW f \in [D -> 0..Capacity], NEW g \in [D -> 0..Capacity], NEW d \in D,
           \A x \in D : x # d => f[x] = g[x]
    PROVE  Total(f) + g[d] = Total(g) + f[d] /\ Total(f) \in Nat /\ Total(g) \in Nat
  <1> DEFINE rest(h) == {p \in Slots(h) : p[1] # d}
  <1>1. rest(f) = rest(g)
    <2>1. DOMAIN f = D /\ DOMAIN g = D
      OBVIOUS
    <2>2. \A p \in D \X (1..Capacity) : p[1] # d => f[p[1]] = g[p[1]]
      OBVIOUS
    <2>3. QED
      BY <2>1, <2>2 DEF Slots
  <1>2. Cardinality(rest(f)) \in Nat /\ Total(f) = Cardinality(rest(f)) + f[d]
    BY TotalSplit
  <1>3. Cardinality(rest(g)) \in Nat /\ Total(g) = Cardinality(rest(g)) + g[d]
    BY TotalSplit
  <1> HIDE DEF rest
  <1>4. f[d] \in Nat /\ g[d] \in Nat
    BY ConstantsAssumption
  <1>5. QED
    BY <1>1, <1>2, <1>3, <1>4

-----------------------------------------------------------------------------
(***************************************************************************)
(* What a step does to the ledger: nothing is charged or freed (Uncharged),*)
(* one request takes or returns its bytes (Recharged), or a device gives   *)
(* bytes up (Reclaimed).                                                   *)
(***************************************************************************)
SameEntry(s) == entry'[s].state = entry[s].state /\ entry'[s].bytes = entry[s].bytes

Uncharged ==
    /\ UNCHANGED <<free, reclaimable>>
    /\ \A s \in Requests :
         \/ SameEntry(s)
         \/ entry[s].state = "Absent" /\ entry'[s].state \in {"Absent", "Pending"}
         \/ entry[s].state = "Pending" /\ entry'[s].state \in {"Failed", "Absent"}
         \/ entry[s].state = "Failed" /\ entry'[s].state = "Absent"
         \/ /\ entry[s].state = "Granted" /\ entry'[s].state = "Claimed"
            /\ entry'[s].bytes = entry[s].bytes

Recharged(r) ==
    /\ UNCHANGED reclaimable
    /\ \A s \in Requests : s # r => SameEntry(s)
    /\ \/ /\ Grant(r)
          /\ entry[r].state = "Pending" /\ entry'[r].state = "Granted"
          /\ entry'[r].bytes = entry[r].bytes
          /\ free' = free - entry[r].bytes
       \/ /\ \/ entry[r].state = "Granted" /\ entry'[r].state \in {"Failed", "Absent"}
             \/ entry[r].state = "Claimed" /\ entry'[r].state = "Absent"
          /\ free' = free + entry[r].bytes

Reclaimed(d) ==
    /\ \A s \in Requests : SameEntry(s)
    /\ \A x \in Devices : x # d => reclaimable'[x] = reclaimable[x]
    /\ call.bytes \in Nat
    /\ reclaimable'[d] = reclaimable[d] - call.bytes
    /\ free' = free + call.bytes

\* Each operation of the governor has one of these effects on the ledger.
LEMMA LedgerMoves ==
    ASSUME ProtocolInv, [Next]_vars
    PROVE  \/ Uncharged
           \/ \E r \in Requests : Recharged(r)
           \/ \E d \in Devices : Reclaimed(d)
  <1> USE DEF SameEntry
  <1>0. TypeInv /\ CallOK /\ TypeOK /\ LedgerTypeOK /\ MailboxTypeOK /\ TicketTypeOK /\ LockTypeOK
    BY DEF ProtocolInv, TypeInv, TypeOK
  <1>1. ASSUME UNCHANGED <<free, reclaimable, entry>>
        PROVE  Uncharged
    BY <1>1 DEF Uncharged
  <1>2. ASSUME NEW c \in Calls, Enter(c)
        PROVE  Uncharged
    BY <1>1, <1>2 DEF Enter, Lock, ledgerVars
  <1>3. CASE Quiet \/ ArbitrationResumesDrain \/ RejectRequest \/ ClaimPending \/ UNCHANGED vars
    BY <1>1, <1>3 DEF Quiet, ArbitrationResumesDrain, RejectRequest, ClaimPending, vars, ledgerVars
  <1>4. ASSUME NEW r \in Requests, StartWait(r) \/ Wake(r) \/ Unpark(r) \/ Disarm(r) \/ DropTicket(r)
        PROVE  Uncharged
    BY <1>1, <1>4 DEF StartWait, Wake, Unpark, Disarm, DropTicket, ledgerVars
  <1>5. CASE CancelUncharged
    <2> DEFINE q == Head(todo).req
    <2>1. q \in Requests
      <3>1. todo # << >> /\ todo \in Seq(Commands)
        BY <1>0, <1>5 DEF CancelUncharged, Draining, LockTypeOK
      <3>2. Head(todo) \in Commands
        BY <3>1, HeadOf, Zenon
      <3>3. QED
        BY <3>2 DEF Commands
    <2>2. \A s \in Requests :
            \/ entry'[s] = entry[s]
            \/ s = q /\ entry[q].state \in {"Pending", "Failed"} /\ entry'[s] = NoEntry
      BY <1>0, <1>5, <2>1, SMTT(30) DEF CancelUncharged, LedgerTypeOK
    <2>3. UNCHANGED <<free, reclaimable>>
      BY <1>5 DEF CancelUncharged
    <2> HIDE DEF q
    <2>4. QED
      BY <2>1, <2>2, <2>3 DEF Uncharged, NoEntry
  <1>6. CASE CancelGranted
    <2> DEFINE q == Head(todo).req
               e == [entry EXCEPT ![q] = NoEntry]
    <2>1. q \in Requests
      <3>1. todo # << >> /\ todo \in Seq(Commands)
        BY <1>0, <1>6 DEF CancelGranted, Draining, LockTypeOK
      <3>2. Head(todo) \in Commands
        BY <3>1
      <3>3. QED
        BY <3>2 DEF Commands
    <2>2. e \in [Requests -> Entries] /\ \A s \in Requests : e[s] = IF s = q THEN NoEntry ELSE entry[s]
      BY <1>0, <2>1, EntryUpdate, Zenon DEF LedgerTypeOK
    <2>3. entry' = Aged(e) /\ entry[q].state = "Granted" /\ free' = free + entry[q].bytes /\ UNCHANGED reclaimable
      BY <1>6 DEF CancelGranted, IsGranted
    <2> HIDE DEF e, q
    <2>4. Recharged(q)
      BY <1>0, <2>1, <2>2, <2>3, AgedType DEF Recharged, NoEntry, LedgerTypeOK
    <2>5. QED
      BY <2>1, <2>4, Zenon
  <1>7. CASE RequestHostPages
    <2> DEFINE n == nextRequest
               fresh == [state |-> "Pending", bytes |-> call.bytes, priority |-> call.priority,
                         generation |-> generation, age |-> 0]
               e == [entry EXCEPT ![n] = fresh]
    <2>1. n \in Requests /\ call.bytes \in 0..Capacity /\ call.priority \in Nat
      BY <1>0, <1>7, NewRequest
    <2>2. fresh \in Entries /\ fresh.state = "Pending"
      BY <1>0, <2>1, ConstantsAssumption DEF Entries, EntryStates, LedgerTypeOK
    <2>3. e \in [Requests -> Entries] /\ \A s \in Requests : e[s] = IF s = n THEN fresh ELSE entry[s]
      BY <1>0, <2>1, <2>2, EntryUpdate DEF LedgerTypeOK
    <2>4. entry' = Aged(e) /\ UNCHANGED <<free, reclaimable>>
      BY <1>7 DEF RequestHostPages
    <2>5. entry[n].state = "Absent"
      BY <1>0, <2>1 DEF ProtocolInv, Fresh, LedgerTypeOK
    <2> HIDE DEF e, fresh
    <2>6. QED
      BY <1>0, <2>1, <2>2, <2>3, <2>4, <2>5, AgedType DEF Uncharged, LedgerTypeOK
  <1>8. CASE ReleaseHostPages \/ TimeOutGranted
    <2> DEFINE q == call.req
               e == IF ReleaseHostPages THEN [entry EXCEPT ![q] = NoEntry]
                                        ELSE [entry EXCEPT ![q].state = "Failed"]
    <2>1. q \in Requests
      BY <1>0, <1>8, CallTypes DEF ReleaseHostPages, TimeOutGranted, Body, LockTypeOK
    <2>2. /\ e \in [Requests -> Entries]
          /\ \A s \in Requests : s # q => e[s] = entry[s]
          /\ e[q].state = IF ReleaseHostPages THEN "Absent" ELSE "Failed"
      <3>1. CASE ReleaseHostPages
        BY <1>0, <2>1, <3>1, EntryUpdate DEF LedgerTypeOK, NoEntry
      <3>2. CASE ~ReleaseHostPages
        <4>1. e = [entry EXCEPT ![q].state = "Failed"]
          BY <3>2
        <4>2. e \in [Requests -> Entries]
          BY <1>0, <2>1, <4>1, EntryUpdate, Zenon DEF LedgerTypeOK, EntryStates
        <4> HIDE DEF e
        <4>3. QED
          BY <1>0, <2>1, <3>2, <4>1, <4>2 DEF LedgerTypeOK, Entries
      <3>3. QED
        BY <3>1, <3>2
    <2>3. /\ entry' = Aged(e) /\ free' = free + entry[q].bytes /\ UNCHANGED reclaimable
          /\ entry[q].state = IF ReleaseHostPages THEN "Claimed" ELSE "Granted"
      BY <1>8 DEF ReleaseHostPages, TimeOutGranted, IsGranted, Body
    <2> HIDE DEF e, q
    <2>4. Recharged(q)
      BY <1>0, <2>1, <2>2, <2>3, AgedType DEF Recharged, LedgerTypeOK
    <2>5. QED
      BY <2>1, <2>4
  <1>9. CASE Reclaim
    <2>1. call.device \in Devices /\ call.bytes \in Nat
      BY <1>0, <1>9, CallTypes, ConstantsAssumption, Zenon DEF Reclaim, Body, LockTypeOK
    <2>2. /\ entry' = Aged(entry) /\ free' = free + call.bytes
          /\ reclaimable' = [reclaimable EXCEPT ![call.device] = @ - call.bytes]
      BY <1>9 DEF Reclaim
    <2>3. \A s \in Requests : SameEntry(s)
      BY <1>0, <2>2, AgedType DEF LedgerTypeOK
    <2>4. Reclaimed(call.device)
      BY <1>0, <2>1, <2>2, <2>3 DEF Reclaimed, LedgerTypeOK
    <2>5. QED
      BY <2>1, <2>4
  <1>10. CASE Reconfigure
    <2> DEFINE stale == StalePending(generation + 1)
    <2>1. /\ UNCHANGED <<free, reclaimable>>
          /\ entry' = [r \in Requests |-> IF r \in stale THEN [entry[r] EXCEPT !.state = "Failed"] ELSE entry[r]]
      BY <1>10 DEF Reconfigure
    <2>2. \A s \in stale : entry[s].state = "Pending"
      BY DEF StalePending, IsPending
    <2> HIDE DEF stale
    <2>3. QED
      BY <1>0, <2>1, <2>2 DEF Uncharged, LedgerTypeOK, Entries
  <1>11. CASE TimeOutPending \/ ClaimGranted
    <2>1. call.req \in Requests
      BY <1>0, <1>11, CallTypes DEF TimeOutPending, ClaimGranted, Body, LockTypeOK
    <2>2. CASE TimeOutPending
      BY <1>0, <2>1, <2>2 DEF TimeOutPending, IsPending, Uncharged, LedgerTypeOK, Entries
    <2>3. CASE ClaimGranted
      BY <1>0, <2>1, <2>3 DEF ClaimGranted, IsGranted, Uncharged, LedgerTypeOK, Entries
    <2>4. QED
      BY <1>11, <2>2, <2>3
  <1>12. CASE ClaimTerminal
    <2>1. call.req \in Requests
      BY <1>0, <1>12, CallTypes DEF ClaimTerminal, Body, LockTypeOK
    <2>2. \A s \in Requests :
            \/ entry'[s] = entry[s]
            \/ entry[s].state \in {"Failed", "Absent"} /\ entry'[s] = NoEntry
      BY <1>0, <1>12, <2>1 DEF ClaimTerminal, Reaped, LedgerTypeOK
    <2>3. QED
      BY <1>12, <2>2 DEF ClaimTerminal, Uncharged, NoEntry
  <1>13. ASSUME NEW r \in Requests, Grant(r)
         PROVE  Recharged(r)
    BY <1>0, <1>13 DEF Grant, Grantable, Candidates, IsPending, Recharged, LedgerTypeOK, Entries
  <1>14. QED
    BY <1>0, <1>2, <1>3, <1>4, <1>5, <1>6, <1>7, <1>8, <1>9, <1>10, <1>11, <1>12, <1>13,
       NextShapes DEF LedgerStep, StepOf

-----------------------------------------------------------------------------
\* The charge of every request and device is a byte count.
LEMMA ChargeType ==
    ASSUME TypeInv
    PROVE  Charge \in [Requests -> 0..Capacity] /\ IsFiniteSet(Requests) /\ free \in Nat /\ Total(Charge) \in Nat
           /\ reclaimable \in [Devices -> 0..Capacity] /\ Total(reclaimable) \in Nat
  <1> USE ConstantsAssumption
  <1>1. LedgerTypeOK
    BY DEF TypeInv, TypeOK
  <1>2. \A s \in Requests : entry[s].bytes \in 0..Capacity
    BY <1>1 DEF LedgerTypeOK, Entries
  <1>3. Charge \in [Requests -> 0..Capacity]
    BY <1>2 DEF Charge
  <1>4. IsFiniteSet(Requests)
    BY FS_Interval DEF Requests
  <1>5. \A D, f : IsFiniteSet(D) /\ f \in [D -> 0..Capacity] => Total(f) \in Nat
    <2> SUFFICES ASSUME NEW D, NEW f, IsFiniteSet(D), f \in [D -> 0..Capacity]
                 PROVE  Total(f) \in Nat
      OBVIOUS
    <2>1. IsFiniteSet(1..Capacity)
      BY FS_Interval
    <2>2. IsFiniteSet(D \X (1..Capacity))
      BY <2>1, FS_Product
    <2>3. Slots(f) \subseteq D \X (1..Capacity)
      BY DEF Slots
    <2>4. QED
      BY <2>2, <2>3, FS_Subset, FS_CardinalityType DEF Total
  <1>6. free \in Nat /\ reclaimable \in [Devices -> 0..Capacity] /\ IsFiniteSet(Devices)
    BY <1>1 DEF LedgerTypeOK
  <1>7. QED
    BY <1>3, <1>4, <1>5, <1>6

\* HostGovernor::new starts with a balanced ledger.
LEMMA InitLedger == Init => LedgerConserved
  <1> SUFFICES ASSUME Init PROVE LedgerConserved
    OBVIOUS
  <1>1. TypeInv
    BY InitType
  <1>2. Slots(Charge) = {}
    <2>1. \A r \in Requests : Charge[r] = 0 /\ DOMAIN Charge = Requests
      BY DEF Init, NoEntry, Charge
    <2>2. DOMAIN Charge = Requests
      BY DEF Charge
    <2>3. QED
      BY <2>1, <2>2, ConstantsAssumption DEF Slots
  <1>3. Total(Charge) = 0
    BY <1>2, FS_EmptySet DEF Total
  <1>4. Total(reclaimable) \in Nat /\ free = Capacity - (FixedCharge + Total(reclaimable))
    BY <1>1, ChargeType DEF Init
  <1>5. QED
    BY <1>3, <1>4, ConstantsAssumption DEF LedgerConserved

\* What one request or device gives up, the free counter gains, and conversely.
LEMMA StepLedger ==
    ASSUME ProtocolInv, LedgerConserved, [Next]_vars
    PROVE  LedgerConserved'
  <1> USE ConstantsAssumption
  <1>0. TypeInv /\ TypeInv'
    BY StepType DEF ProtocolInv
  <1> DEFINE C1 == Charge
             C2 == Charge'
             R1 == reclaimable
             R2 == reclaimable'
  <1>1. /\ C1 \in [Requests -> 0..Capacity] /\ IsFiniteSet(Requests) /\ free \in Nat /\ Total(C1) \in Nat
        /\ R1 \in [Devices -> 0..Capacity] /\ Total(R1) \in Nat
    BY <1>0, ChargeType
  <1>2. /\ C2 \in [Requests -> 0..Capacity] /\ free' \in Nat /\ Total(C2) \in Nat
        /\ R2 \in [Devices -> 0..Capacity] /\ Total(R2) \in Nat
    <2>1. ASSUME TypeInv'
          PROVE  (Charge \in [Requests -> 0..Capacity] /\ IsFiniteSet(Requests) /\ free \in Nat /\ Total(Charge) \in Nat
                  /\ reclaimable \in [Devices -> 0..Capacity] /\ Total(reclaimable) \in Nat)'
      BY <2>1, ChargeType, PTL
    <2>2. QED
      BY <1>0, <2>1
  <1>3. \A s \in Requests :
          /\ C1[s] = IF entry[s].state \in {"Granted", "Claimed"} THEN entry[s].bytes ELSE 0
          /\ C2[s] = IF entry'[s].state \in {"Granted", "Claimed"} THEN entry'[s].bytes ELSE 0
    BY DEF Charge
  <1>4. free + Total(R1) + Total(C1) + FixedCharge = Capacity
    BY DEF LedgerConserved
  <1>5. SUFFICES free' + Total(R2) + Total(C2) + FixedCharge = Capacity
    BY DEF LedgerConserved
  <1> HIDE DEF C1, C2, R1, R2
  <1>6. CASE Uncharged
    <2>1. \A s \in Requests : C2[s] = C1[s]
      BY <1>3, <1>6 DEF Uncharged, SameEntry
    <2>2. C2 = C1 /\ R2 = R1 /\ free' = free
      BY <1>1, <1>2, <1>6, <2>1 DEF Uncharged, R1, R2
    <2>3. QED
      BY <1>4, <2>2
  <1>7. ASSUME NEW r \in Requests, Recharged(r)
        PROVE  free' + Total(R2) + Total(C2) + FixedCharge = Capacity
    <2>1. \A s \in Requests : s # r => C2[s] = C1[s]
      BY <1>3, <1>7, Zenon DEF Recharged, SameEntry
    <2>2. free' + C2[r] = free + C1[r] /\ R2 = R1
      <3>1. entry[r].bytes \in Nat
        BY <1>0 DEF TypeInv, TypeOK, LedgerTypeOK, Entries
      <3>2. QED
        BY <1>1, <1>3, <1>7, <3>1 DEF Recharged, R1, R2
    <2>3. Total(C2) + C1[r] = Total(C1) + C2[r]
      BY <1>1, <1>2, <2>1, TotalUpdate
    <2>4. C1[r] \in Nat /\ C2[r] \in Nat
      BY <1>1, <1>2
    <2>5. QED
      BY <1>1, <1>2, <1>4, <2>2, <2>3, <2>4
  <1>8. ASSUME NEW d \in Devices, Reclaimed(d)
        PROVE  free' + Total(R2) + Total(C2) + FixedCharge = Capacity
    <2>1. \A s \in Requests : C2[s] = C1[s]
      BY <1>3, <1>8 DEF Reclaimed, SameEntry
    <2>2. C2 = C1
      BY <1>1, <1>2, <2>1
    <2>3. \A x \in Devices : x # d => R2[x] = R1[x]
      BY <1>8 DEF Reclaimed, R1, R2
    <2>4. Total(R2) + R1[d] = Total(R1) + R2[d]
      BY <1>1, <1>2, <2>3, TotalUpdate
    <2>5. R1[d] \in Nat /\ R2[d] \in Nat /\ call.bytes \in Nat /\ R2[d] = R1[d] - call.bytes /\ free' = free + call.bytes
      BY <1>1, <1>2, <1>8 DEF Reclaimed, R1, R2
    <2>6. QED
      BY <1>1, <1>2, <1>4, <2>2, <2>4, <2>5
  <1>9. QED
    BY <1>6, <1>7, <1>8, LedgerMoves

\* The host budget is conserved by every step of every operation, for every
\* configuration: what HostGovernor::snapshot asserts about the ledger.
THEOREM LedgerAlwaysConserved == Spec => []LedgerConserved
  <1>1. ProtocolInv /\ LedgerConserved /\ [Next]_vars => LedgerConserved'
    BY StepLedger
  <1>2. QED
    BY <1>1, InitLedger, ProtocolHolds, PTL DEF Spec

\* A request is granted at most once and a claim is only ever released.
THEOREM ClaimsAreFinal == Spec => ClaimIsFinal
  <1>1. ProtocolInv /\ [Next]_vars =>
          \A r \in Requests :
             /\ entry'[r].state = "Granted" => entry[r].state \in {"Pending", "Granted"}
             /\ entry'[r].state = "Claimed" => entry[r].state \in {"Granted", "Claimed"}
             /\ entry[r].state = "Claimed" => entry'[r].state \in {"Claimed", "Absent"}
    BY LedgerMoves DEF Uncharged, Recharged, Reclaimed, SameEntry
  <1>2. QED
    BY <1>1, ProtocolHolds, PTL DEF Spec, ClaimIsFinal

\* arbitrate_locked stops at the first matured candidate that does not fit, so
\* no later submission is granted before a matured one.
THEOREM MaturedNeverOvertaken == Spec => MaturedNotOvertaken
  <1>1. ASSUME ProtocolInv, [Next]_vars, NEW r \in Requests, NEW s \in Requests,
               IsPending(entry, r), Matured(r), r < s, IsPending(entry, s), entry'[s].state = "Granted"
        PROVE  FALSE
    <2>1. Grant(s)
      BY <1>1, LedgerMoves DEF Uncharged, Recharged, Reclaimed, SameEntry, IsPending
    <2>2. r \in Candidates
      BY <1>1 DEF ProtocolInv, PendingIsCurrent, Candidates
    <2>3. Precedes(r, s)
      BY <1>1 DEF Precedes
    <2>4. QED
      BY <1>1, <2>1, <2>2, <2>3, Zenon DEF Grant, Grantable
  <1>2. ProtocolInv /\ [Next]_vars =>
          \A r, s \in Requests :
             /\ IsPending(entry, r) /\ Matured(r)
             /\ r < s
             /\ IsPending(entry, s)
             => entry'[s].state # "Granted"
    BY <1>1
  <1>3. QED
    BY <1>2, ProtocolHolds, PTL DEF Spec, MaturedNotOvertaken

-----------------------------------------------------------------------------
(***************************************************************************)
(* Cancel commands always apply.  Each is posted once, by a ticket whose   *)
(* entry is there, and until it is applied nothing else removes the entry. *)
(***************************************************************************)
Owed == {"Pending", "Granted", "Failed"}

Holders == {"held", "polling", "waiting", "parked"}

Distinct(q) == \A i, j \in 1..Len(q) : i # j => q[i].req # q[j].req

PostedOnce ==
    /\ Distinct(queue)
    /\ Distinct(todo)
    /\ \A c \in Range(queue), d \in Range(todo) : c.req # d.req

\* A ticket that may still be dropped, and every command, finds an entry.
EntriesOwed ==
    /\ \A r \in Requests : ticket[r].phase \in Holders => entry[r].state \in Owed
    /\ \A c \in Posted : entry[c.req].state \in Owed

CommandsKeepGeneration == \A c \in Posted : c.generation = ticket[c.req].generation

CancelInv == PostedOnce /\ EntriesOwed /\ CommandsKeepGeneration

\* Lists of commands of different requests.
LEMMA DistinctTail ==
    ASSUME NEW q \in Seq(Commands), q # << >>, Distinct(q)
    PROVE  Distinct(Tail(q)) /\ \A c \in Range(Tail(q)) : c.req # Head(q).req
  <1>1. /\ Len(q) \in Nat \ {0} /\ Len(Tail(q)) = Len(q) - 1 /\ DOMAIN Tail(q) = 1..(Len(q) - 1)
        /\ \A i \in 1..(Len(q) - 1) : Tail(q)[i] = q[i + 1]
        /\ Head(q) = q[1]
    OBVIOUS
  <1>2. \A i \in 1..(Len(q) - 1) : i + 1 \in 1..Len(q) /\ i + 1 # 1
    BY <1>1
  <1>3. Distinct(Tail(q))
    BY <1>1, <1>2 DEF Distinct
  <1>4. \A c \in Range(Tail(q)) : \E i \in 1..(Len(q) - 1) : c = q[i + 1]
    BY <1>1 DEF Range
  <1>5. 1 \in 1..Len(q)
    BY <1>1
  <1>6. \A c \in Range(Tail(q)) : c.req # Head(q).req
    BY <1>1, <1>2, <1>4, <1>5 DEF Distinct
  <1>7. QED
    BY <1>3, <1>6

LEMMA DistinctAppend ==
    ASSUME NEW q \in Seq(Commands), NEW x \in Commands, Distinct(q),
           \A c \in Range(q) : c.req # x.req
    PROVE  Distinct(Append(q, x))
  <1> DEFINE a == Append(q, x)
  <1>1. /\ Len(q) \in Nat /\ Len(a) = Len(q) + 1 /\ DOMAIN q = 1..Len(q)
        /\ \A i \in 1..Len(q) : a[i] = q[i]
        /\ a[Len(q) + 1] = x
    OBVIOUS
  <1> HIDE DEF a
  <1>2. \A i \in 1..Len(q) : a[i].req # x.req
    BY <1>1 DEF Range
  <1>3. Distinct(a)
    BY <1>1, <1>2 DEF Distinct
  <1>4. QED
    BY <1>3 DEF a

LEMMA DistinctEmpty == Distinct(<< >>)
  BY DEF Distinct

\* A step that posts and applies no command, keeps the entries that are owed
\* and arms no ticket without one.
LEMMA CancelKept ==
    ASSUME ProtocolInv, CancelInv, UNCHANGED <<queue, todo>>,
           \A s \in Requests :
             /\ ticket[s].phase = "dropped" =>
                  /\ ticket'[s].generation = ticket[s].generation
                  /\ entry[s].state \in Owed => entry'[s].state \in Owed
             /\ ticket'[s].phase \in Holders => entry'[s].state \in Owed
    PROVE  CancelInv'
  <1>1. Posted' = Posted
    BY DEF Posted
  <1>2. \A c \in Posted : c.req \in Requests /\ ticket[c.req].phase = "dropped"
    BY DEF ProtocolInv, CommandsAreDropped, Commands
  <1>3. EntriesOwed' /\ CommandsKeepGeneration'
    BY <1>1, <1>2, Zenon DEF CancelInv, EntriesOwed, CommandsKeepGeneration
  <1>4. PostedOnce'
    BY DEF CancelInv, PostedOnce, Distinct
  <1>5. QED
    BY <1>3, <1>4 DEF CancelInv

\* Entering moves the mailbox to the operation's list, which was empty.
LEMMA EnterApplies ==
    ASSUME ProtocolInv, CancelInv, NEW c \in Calls, Enter(c)
    PROVE  CancelInv'
  <1>1. /\ UNCHANGED entry /\ queue' = << >> /\ todo' = queue /\ todo = << >>
    BY DEF ProtocolInv, TypeInv, Enter, Lock, CallOK, ledgerVars
  <1>2. \A s \in Requests :
          /\ ticket'[s].generation = ticket[s].generation
          /\ \/ ticket'[s].phase = ticket[s].phase
             \/ ticket[s].phase = "held" /\ ticket'[s].phase = "polling"
    BY DEF ProtocolInv, TypeInv, TypeOK, Enter, TicketTypeOK
  <1>3. Posted' = Posted /\ Range(queue') = {}
    BY <1>1, RangeEmpty DEF Posted
  <1>4. \A x \in Posted : x.req \in Requests
    BY Zenon DEF ProtocolInv, CommandsAreDropped, Commands
  <1>5. EntriesOwed' /\ CommandsKeepGeneration'
    BY <1>1, <1>2, <1>3, <1>4 DEF CancelInv, EntriesOwed, CommandsKeepGeneration, Holders
  <1>6. Distinct(queue') /\ Distinct(todo')
    BY <1>1, DistinctEmpty DEF CancelInv, PostedOnce
  <1>7. PostedOnce'
    BY <1>3, <1>6 DEF PostedOnce, Distinct
  <1>8. QED
    BY <1>5, <1>7 DEF CancelInv

\* A command that is applied takes its entry away; the others are of other
\* requests.
LEMMA ApplyApplies ==
    ASSUME ProtocolInv, CancelInv, CancelUncharged \/ CancelGranted
    PROVE  CancelInv'
  <1> DEFINE c == Head(todo)
  <1>1. todo # << >> /\ todo' = Tail(todo) /\ UNCHANGED <<queue, ticket>>
    BY DEF CancelUncharged, CancelGranted, Draining, mailboxVars, ticketVars
  <1>2. todo \in Seq(Commands) /\ LedgerTypeOK
    BY DEF ProtocolInv, TypeInv, TypeOK, LockTypeOK
  <1>3. Range(todo) = Range(todo') \union {c} /\ Range(todo') \subseteq Range(todo)
    BY <1>1, <1>2, RangeTail
  <1>4. Distinct(todo') /\ \A d \in Range(todo') : d.req # c.req
    BY <1>1, <1>2, DistinctTail DEF CancelInv, PostedOnce
  <1>5. \A d \in Posted : d.req \in Requests /\ ticket[d.req].phase = "dropped"
    BY DEF ProtocolInv, CommandsAreDropped, Commands
  <1>6. c \in Posted /\ c.req \in Requests /\ ticket[c.req].phase = "dropped"
    BY <1>3, <1>5 DEF Posted
  <1>7. \A s \in Requests \ {c.req} : entry'[s].state = entry[s].state
    <2>1. CASE CancelUncharged
      BY <1>2, <1>6, <2>1 DEF CancelUncharged, LedgerTypeOK
    <2>2. CASE CancelGranted
      <3> DEFINE e == [entry EXCEPT ![c.req] = NoEntry]
      <3>1. e \in [Requests -> Entries]
        BY <1>2, <1>6, EntryUpdate DEF LedgerTypeOK
      <3>2. \A s \in Requests \ {c.req} : e[s] = entry[s]
        BY <1>2, <1>6, Zenon DEF LedgerTypeOK
      <3>3. entry' = Aged(e)
        BY <2>2 DEF CancelGranted
      <3> HIDE DEF e, c
      <3>4. \A s \in Requests : entry'[s].state = e[s].state
        BY <1>2, <3>1, <3>3, AgedType DEF LedgerTypeOK
      <3>5. QED
        BY <3>2, <3>4
    <2>3. QED
      BY <2>1, <2>2, Zenon
  <1> HIDE DEF c
  <1>8. \A d \in Range(queue) : d.req # c.req
    BY <1>3 DEF CancelInv, PostedOnce
  <1>9. Posted' \subseteq Posted /\ \A d \in Posted' : d.req # c.req
    BY <1>1, <1>3, <1>4, <1>8, Zenon DEF Posted
  <1>10. EntriesOwed'
    BY <1>1, <1>5, <1>6, <1>7, <1>9 DEF CancelInv, EntriesOwed, Holders
  <1>11. CommandsKeepGeneration'
    BY <1>1, <1>9 DEF CancelInv, CommandsKeepGeneration
  <1>12. Distinct(queue') /\ \A x \in Range(queue'), d \in Range(todo') : x.req # d.req
    BY <1>1, <1>3, Zenon DEF CancelInv, PostedOnce
  <1>13. PostedOnce'
    BY <1>4, <1>12 DEF PostedOnce, Distinct
  <1>14. QED
    BY <1>10, <1>11, <1>13, Zenon DEF CancelInv

\* A dropped ticket posts its command once, while its entry is there.
LEMMA DropApplies ==
    ASSUME ProtocolInv, CancelInv, NEW r \in Requests, DropTicket(r)
    PROVE  CancelInv'
  <1> DEFINE c == [req |-> r, generation |-> ticket[r].generation]
  <1>1. ticket[r].phase = "held" /\ UNCHANGED <<entry, todo>>
    BY DEF DropTicket, ledgerVars, lockVars
  <1>2. TicketTypeOK /\ queue \in Seq(Commands)
    BY DEF ProtocolInv, TypeInv, TypeOK, MailboxTypeOK
  <1>3. \A s \in Requests :
          /\ ticket'[s].generation = ticket[s].generation
          /\ ticket'[s].phase = IF s = r THEN "dropped" ELSE ticket[s].phase
    BY <1>2 DEF DropTicket, TicketTypeOK
  <1>4. c \in Commands /\ c.req = r /\ c.generation = ticket[r].generation
    BY <1>2 DEF TicketTypeOK, Commands
  <1>5. queue' = Append(queue, c) \/ queue' = queue
    BY DEF DropTicket
  <1> HIDE DEF c
  <1>6. \A d \in Posted : d.req \in Requests /\ d.req # r
    BY <1>1 DEF ProtocolInv, CommandsAreDropped, Commands
  <1>7. Range(queue') \subseteq Range(queue) \union {c} /\ Distinct(queue')
    <2>1. CASE queue' = Append(queue, c)
      <3>1. \A d \in Range(queue) : d.req # c.req
        BY <1>4, <1>6 DEF Posted
      <3>2. QED
        BY <1>2, <1>4, <2>1, <3>1, RangeAppend, DistinctAppend DEF CancelInv, PostedOnce
    <2>2. CASE queue' = queue
      BY <2>2 DEF CancelInv, PostedOnce
    <2>3. QED
      BY <1>5, <2>1, <2>2, Zenon
  <1>8. Posted' \subseteq Posted \union {c}
    BY <1>1, <1>7 DEF Posted
  <1>9. entry[r].state \in Owed
    BY <1>1, Zenon DEF CancelInv, EntriesOwed, Holders
  <1>10. EntriesOwed'
    BY <1>1, <1>3, <1>4, <1>8, <1>9 DEF CancelInv, EntriesOwed, Holders
  <1>11. CommandsKeepGeneration'
    BY <1>3, <1>4, <1>6, <1>8 DEF CancelInv, CommandsKeepGeneration
  <1>12. Distinct(todo') /\ \A x \in Range(queue'), d \in Range(todo') : x.req # d.req
    BY <1>1, <1>4, <1>6, <1>7 DEF CancelInv, PostedOnce, Posted
  <1>13. PostedOnce'
    BY <1>7, <1>12, Zenon DEF PostedOnce, Distinct
  <1>14. QED
    BY <1>10, <1>11, <1>13 DEF CancelInv

\* Steps that leave the ledger alone: a wait begins, a waiter is woken or
\* returns, a slot is given back.
LEMMA TicketApplies ==
    ASSUME ProtocolInv, CancelInv, NEW r \in Requests,
           StartWait(r) \/ Wake(r) \/ Unpark(r) \/ Disarm(r)
    PROVE  CancelInv'
  <1>1. TicketTypeOK
    BY DEF ProtocolInv, TypeInv, TypeOK
  <1>2. UNCHANGED <<queue, todo, entry>>
    BY DEF StartWait, Wake, Unpark, Disarm, ledgerVars, mailboxVars, lockVars
  <1>3. \A s \in Requests :
          /\ ticket'[s].generation = ticket[s].generation
          /\ ticket'[s].phase \in Holders => ticket[s].phase \in Holders
    <2>1. CASE StartWait(r)
      BY <1>1, <2>1 DEF StartWait, TicketTypeOK, Holders
    <2>2. CASE Wake(r)
      BY <1>1, <2>2 DEF Wake, TicketTypeOK, Holders
    <2>3. CASE Unpark(r)
      BY <1>1, <2>3 DEF Unpark, TicketTypeOK, Holders
    <2>4. CASE Disarm(r)
      BY <1>1, <2>4 DEF Disarm, TicketTypeOK, Holders
    <2>5. QED
      BY <2>1, <2>2, <2>3, <2>4, Zenon
  <1>4. QED
    BY <1>2, <1>3, CancelKept DEF CancelInv, EntriesOwed

\* A claim settles the entry of its own ticket, which nobody can drop.
LEMMA ClaimApplies ==
    ASSUME ProtocolInv, CancelInv, ClaimPending \/ ClaimGranted \/ ClaimTerminal
    PROVE  CancelInv'
  <1> DEFINE q == call.req
  <1>1. CallOK /\ LedgerTypeOK /\ TicketTypeOK /\ LockTypeOK
    BY DEF ProtocolInv, TypeInv, TypeOK
  <1>2. q \in Requests /\ ticket[q].phase \in {"polling", "waiting"}
    BY <1>1, CallTypes DEF ClaimPending, ClaimGranted, ClaimTerminal, Body, CallOK, BeforeBody, LockTypeOK
  <1>3. UNCHANGED <<queue, todo>>
    BY DEF ClaimPending, ClaimGranted, ClaimTerminal, mailboxVars
  <1>4. \A s \in Requests : s # q => entry'[s] = entry[s] /\ ticket'[s] = ticket[s]
    <2>1. CASE ClaimPending
      BY <1>1, <1>2, <2>1 DEF ClaimPending, TicketTypeOK, ledgerVars
    <2>2. CASE ClaimGranted
      BY <1>1, <1>2, <2>2 DEF ClaimGranted, TicketTypeOK, LedgerTypeOK
    <2>3. CASE ClaimTerminal
      BY <1>1, <1>2, <2>3 DEF ClaimTerminal, Reaped, TicketTypeOK, LedgerTypeOK
    <2>4. QED
      BY <2>1, <2>2, <2>3
  <1>5. ticket'[q].phase \in Holders => entry'[q].state \in Owed
    <2>1. CASE ClaimPending
      BY <1>1, <1>2, <2>1 DEF ClaimPending, ledgerVars, IsPending, Owed
    <2>2. CASE ClaimGranted
      BY <1>1, <1>2, <2>2 DEF ClaimGranted, TicketTypeOK, Holders
    <2>3. CASE ClaimTerminal
      BY <1>1, <1>2, <2>3 DEF ClaimTerminal, TicketTypeOK, Holders
    <2>4. QED
      BY <2>1, <2>2, <2>3
  <1> HIDE DEF q
  <1>6. QED
    BY <1>2, <1>3, <1>4, <1>5, CancelKept DEF CancelInv, EntriesOwed

\* A step of the ledger after which every entry that was owed still is.
LEMMA LedgerApplies ==
    ASSUME ProtocolInv, CancelInv, UNCHANGED <<queue, todo, ticket>>,
           \A s \in Requests : entry[s].state \in Owed => entry'[s].state \in Owed
    PROVE  CancelInv'
  BY CancelKept, Zenon DEF CancelInv, EntriesOwed

\* Grants, time-outs, releases, reclaims and reconfigurations.
LEMMA OwedStays ==
    ASSUME ProtocolInv,
           \/ ReleaseHostPages \/ Reclaim \/ Reconfigure \/ TimeOutPending \/ TimeOutGranted
           \/ \E r \in Requests : Grant(r)
    PROVE  /\ UNCHANGED <<queue, todo, ticket>>
           /\ \A s \in Requests : entry[s].state \in Owed => entry'[s].state \in Owed
  <1>1. CallOK /\ LedgerTypeOK /\ TicketTypeOK /\ LockTypeOK /\ entry \in [Requests -> Entries]
    BY DEF ProtocolInv, TypeInv, TypeOK, LedgerTypeOK
  <1>2. UNCHANGED <<queue, todo, ticket>>
    BY DEF ReleaseHostPages, Reclaim, Reconfigure, TimeOutPending, TimeOutGranted, Grant,
           mailboxVars, ticketVars
  <1>3. generation \in Generations
    BY <1>1 DEF LedgerTypeOK
  <1>4. CASE Reclaim
    <2>1. entry' = Aged(entry)
      BY <1>4 DEF Reclaim
    <2>2. \A s \in Requests : Aged(entry)[s].state = entry[s].state
      BY <1>1, <1>3, AgedType
    <2>3. QED
      BY <1>2, <2>1, <2>2
  <1>5. CASE ReleaseHostPages
    <2>1. call.req \in Requests /\ entry[call.req].state = "Claimed"
      BY <1>1, <1>5, CallTypes DEF ReleaseHostPages, Body, LockTypeOK
    <2> DEFINE e == [entry EXCEPT ![call.req] = NoEntry]
    <2>2. e \in [Requests -> Entries] /\ \A s \in Requests : s # call.req => e[s] = entry[s]
      BY <1>1, <2>1, NoEntryType
    <2>3. \A s \in Requests : entry[s].state \in Owed => e[s].state \in Owed
      BY <2>1, <2>2 DEF Owed
    <2>4. entry' = Aged(e)
      BY <1>5, Zenon DEF ReleaseHostPages
    <2> HIDE DEF e
    <2>5. \A s \in Requests : Aged(e)[s].state = e[s].state
      BY <1>3, <2>2, AgedType, Zenon
    <2>6. QED
      BY <1>2, <2>3, <2>4, <2>5
  <1>6. ASSUME TimeOutPending \/ TimeOutGranted
        PROVE  \A s \in Requests : entry[s].state \in Owed => entry'[s].state \in Owed
    <2>1. call.req \in Requests
      BY <1>1, <1>6, CallTypes DEF TimeOutPending, TimeOutGranted, Body, LockTypeOK
    <2> DEFINE e == [entry EXCEPT ![call.req].state = "Failed"]
    <2>2. /\ e \in [Requests -> Entries] /\ \A s \in Requests : s # call.req => e[s] = entry[s]
          /\ e[call.req].state = "Failed"
      BY <1>1, <2>1 DEF Entries, EntryStates
    <2>3. \A s \in Requests : entry[s].state \in Owed => e[s].state \in Owed
      BY <2>1, <2>2 DEF Owed
    <2>4. entry' = e \/ entry' = Aged(e)
      BY <1>6, Zenon DEF TimeOutPending, TimeOutGranted
    <2> HIDE DEF e
    <2>5. \A s \in Requests : Aged(e)[s].state = e[s].state
      BY <1>3, <2>2, AgedType, Zenon
    <2>6. QED
      BY <2>3, <2>4, <2>5
  <1>7. CASE Reconfigure
    <2> DEFINE stale == StalePending(generation + 1)
    <2>1. entry' = [r \in Requests |-> IF r \in stale THEN [entry[r] EXCEPT !.state = "Failed"]
                                                     ELSE entry[r]]
      BY <1>7 DEF Reconfigure
    <2> HIDE DEF stale
    <2>2. ASSUME NEW s \in Requests
          PROVE  entry'[s].state = "Failed" \/ entry'[s] = entry[s]
      <3>1. entry[s] \in Entries
        BY <1>1
      <3>2. [entry[s] EXCEPT !.state = "Failed"].state = "Failed"
        BY <3>1 DEF Entries
      <3>3. QED
        BY <2>1, <3>2
    <2>3. QED
      BY <1>2, <2>2 DEF Owed
  <1>8. ASSUME NEW r \in Requests, Grant(r)
        PROVE  \A s \in Requests : entry[s].state \in Owed => entry'[s].state \in Owed
    BY <1>1, <1>8, Zenon DEF Grant, Owed, Entries
  <1>9. QED
    BY <1>2, <1>4, <1>5, <1>6, <1>7, <1>8

\* A new request has its entry from the start.
LEMMA RequestApplies ==
    ASSUME ProtocolInv, CancelInv, RequestHostPages
    PROVE  CancelInv'
  <1> DEFINE fresh == [state |-> "Pending", bytes |-> call.bytes, priority |-> call.priority,
                       generation |-> generation, age |-> 0]
             e == [entry EXCEPT ![nextRequest] = fresh]
  <1>1. TypeInv /\ LedgerTypeOK /\ TicketTypeOK /\ entry \in [Requests -> Entries]
    BY DEF ProtocolInv, TypeInv, TypeOK, LedgerTypeOK
  <1>2. /\ call.bytes \in 0..Capacity /\ call.priority \in Nat /\ nextRequest \in Requests
    BY <1>1, NewRequest, Zenon
  <1>3. fresh \in Entries /\ fresh.state = "Pending"
    BY <1>1, <1>2, PendingEntry, Zenon DEF LedgerTypeOK
  <1>4. /\ UNCHANGED <<queue, todo>> /\ entry' = Aged(e)
        /\ ticket' = [ticket EXCEPT ![nextRequest] = [phase |-> "held", generation |-> generation]]
    BY DEF RequestHostPages
  <1> HIDE DEF fresh
  <1>5. /\ e \in [Requests -> Entries] /\ e[nextRequest] = fresh
        /\ \A s \in Requests : s # nextRequest => e[s] = entry[s]
    BY <1>1, <1>2, <1>3
  <1> HIDE DEF e
  <1>6. \A s \in Requests : entry'[s].state = e[s].state
    BY <1>1, <1>4, <1>5, AgedType DEF LedgerTypeOK
  <1>7. \A s \in Requests : s # nextRequest => ticket'[s] = ticket[s]
    BY <1>1, <1>4 DEF TicketTypeOK
  <1>8. ticket[nextRequest].phase = "unborn"
    BY <1>1, <1>2, NextFresh, Zenon DEF ProtocolInv
  <1>9. \A s \in Requests :
          /\ ticket[s].phase = "dropped" =>
               /\ ticket'[s].generation = ticket[s].generation
               /\ entry[s].state \in Owed => entry'[s].state \in Owed
          /\ ticket'[s].phase \in Holders => entry'[s].state \in Owed
    BY <1>3, <1>5, <1>6, <1>7, <1>8, Zenon DEF CancelInv, EntriesOwed, Owed
  <1>10. QED
    BY <1>4, <1>9, CancelKept, Zenon

LEMMA InitCancels == Init => CancelInv
  <1> SUFFICES ASSUME Init PROVE CancelInv
    OBVIOUS
  <1>1. queue = << >> /\ todo = << >> /\ \A r \in Requests : ticket[r].phase = "unborn"
    BY DEF Init
  <1>2. Posted = {}
    BY <1>1, RangeEmpty DEF Posted
  <1>3. QED
    BY <1>1, <1>2, RangeEmpty, DistinctEmpty
       DEF CancelInv, PostedOnce, EntriesOwed, CommandsKeepGeneration, Holders

LEMMA StepCancels == ProtocolInv /\ CancelInv /\ [Next]_vars => CancelInv'
  <1> SUFFICES ASSUME ProtocolInv, CancelInv, [Next]_vars PROVE CancelInv'
    OBVIOUS
  <1>1. CASE Quiet \/ ArbitrationResumesDrain \/ RejectRequest \/ UNCHANGED vars
    <2>1. UNCHANGED <<queue, todo, ticket, entry>>
      BY <1>1, Zenon DEF Quiet, ArbitrationResumesDrain, RejectRequest, vars, ledgerVars, mailboxVars, ticketVars,
                  lockVars
    <2>2. QED
      BY <2>1, LedgerApplies, Zenon
  <1>2. CASE LedgerStep
    BY <1>1, <1>2, ApplyApplies, RequestApplies, OwedStays, LedgerApplies, ClaimApplies, Zenon DEF LedgerStep
  <1>3. ASSUME NEW r \in Requests, StepOf(r) PROVE CancelInv'
    BY <1>3, OwedStays, LedgerApplies, TicketApplies, DropApplies DEF StepOf
  <1>4. CASE Next
    <2>1. CallOK
      BY DEF ProtocolInv, TypeInv
    <2>2. QED
      BY <1>1, <1>2, <1>3, <1>4, <2>1, EnterApplies, NextShapes
  <1>5. QED
    BY <1>1, <1>4

\* Every cancel command that apply_cancel_locked takes finds its own entry,
\* unclaimed and of its generation, however drops race with grants, claims,
\* time-outs and reconfigurations.
THEOREM CancelsApply == Spec => []CancelApplies
  <1>1. ProtocolInv /\ CancelInv => CancelApplies
    <2> SUFFICES ASSUME ProtocolInv, CancelInv, NEW c \in Posted
                 PROVE  entry[c.req].state \in {"Pending", "Granted", "Failed"} /\ ~Stale(c)
      BY DEF CancelApplies
    <2>1. c.req \in Requests /\ entry[c.req].state \in Owed /\ c.generation = ticket[c.req].generation
      BY DEF ProtocolInv, CommandsAreDropped, Commands, CancelInv, EntriesOwed, CommandsKeepGeneration
    <2>2. entry[c.req].generation = ticket[c.req].generation
      BY <2>1 DEF ProtocolInv, SameGeneration, Owed
    <2>3. QED
      BY <2>1, <2>2 DEF Owed, Stale
  <1>2. QED
    BY ProtocolHolds, InitProtocol, StepProtocol, InitCancels, StepCancels, <1>1, PTL DEF Spec
=============================================================================
