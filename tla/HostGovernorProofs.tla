------------------------- MODULE HostGovernorProofs -------------------------
(***************************************************************************)
(* Proofs about HostGovernor, for every configuration and any number of    *)
(* requests, devices and generations: type correctness, and the protocol   *)
(* of tickets, cancel commands and wake-ups.                               *)
(***************************************************************************)
EXTENDS HostGovernor, FiniteSetTheorems, TLAPS

(***************************************************************************)
(* What the control point of the lock holder says about its call.          *)
(***************************************************************************)
BeforeBody == pc \in {"drain", "drainArbitrate"}

CallOK ==
    /\ BeforeBody /\ call.op = "request" => nextRequest \in Requests
    /\ BeforeBody /\ call.op = "reconfigure" => generation < MaxGeneration
    /\ BeforeBody /\ call.op = "claim" => ticket[call.req].phase \in {"polling", "waiting"}
    /\ pc = "unlocked" => hoisted = {}
    /\ pc \in {"unlocked", "bodyArbitrate"} => todo = << >>

TypeInv == TypeOK /\ CallOK

-----------------------------------------------------------------------------
\* The arguments of a call have the type its operation says.
LEMMA CallTypes ==
    ASSUME call \in Calls
    PROVE  /\ call.op = "request" => call.bytes \in Sizes /\ call.priority \in Priorities
           /\ call.op \in {"release", "timeout", "claim"} => call.req \in Requests
           /\ call.op = "reclaim" => call.device \in Devices /\ call.bytes \in Sizes
  BY DEF Calls, NoCall

\* A request with no table entry is still a well-typed row.
LEMMA NoEntryType == NoEntry \in Entries
  BY ConstantsAssumption DEF NoEntry, Entries, EntryStates, Generations

\* Aging keeps the type of the table and changes nothing but ages.
LEMMA AgedType ==
    ASSUME NEW e \in [Requests -> Entries], generation \in Generations
    PROVE  /\ Aged(e) \in [Requests -> Entries]
           /\ \A r \in Requests :
                /\ Aged(e)[r].state = e[r].state
                /\ Aged(e)[r].bytes = e[r].bytes
                /\ Aged(e)[r].generation = e[r].generation
  BY ConstantsAssumption DEF Aged, AgeOf, Entries

\* Replacing or removing one entry keeps the type of the table.
LEMMA EntryUpdate ==
    ASSUME NEW e \in [Requests -> Entries], NEW r \in Requests
    PROVE  /\ [e EXCEPT ![r] = NoEntry] \in [Requests -> Entries]
           /\ \A x \in Entries : [e EXCEPT ![r] = x] \in [Requests -> Entries]
           /\ \A x \in EntryStates : [e EXCEPT ![r].state = x] \in [Requests -> Entries]
  <1>1. \A x \in EntryStates : [e[r] EXCEPT !.state = x] \in Entries
    BY DEF Entries
  <1>2. QED
    BY <1>1, NoEntryType

-----------------------------------------------------------------------------
\* HostGovernor::new starts in a well-typed state.
LEMMA InitType == Init => TypeInv
  <1> SUFFICES ASSUME Init PROVE TypeInv
    OBVIOUS
  <1> USE ConstantsAssumption, ConfigAssumption DEF Init
  <1>1. IsFiniteSet(Slots(InitReclaimable)) /\ Total(InitReclaimable) \in Nat
    <2>1. IsFiniteSet(1..Capacity)
      BY FS_Interval
    <2> DOMAIN InitReclaimable = Devices
      OBVIOUS
    <2>2. IsFiniteSet((DOMAIN InitReclaimable) \X (1..Capacity))
      BY <2>1, FS_Product, Zenon
    <2>3. QED
      BY <2>2, FS_Subset, FS_CardinalityType DEF Slots, Total
  <1>2. LedgerTypeOK
    BY <1>1, NoEntryType DEF LedgerTypeOK, Generations
  <1>3. MailboxTypeOK /\ TicketTypeOK /\ LockTypeOK /\ CallOK
    BY DEF MailboxTypeOK, TicketTypeOK, LockTypeOK, CallOK, BeforeBody, Calls, NoCall,
           Phases, Generations
  <1>4. QED
    BY <1>2, <1>3 DEF TypeInv, TypeOK

-----------------------------------------------------------------------------
(***************************************************************************)
(* Steps of the same shape are treated together: an operation starts       *)
(* (Lock), or ends without touching the ledger (Unlock).                   *)
(***************************************************************************)
\* Taking the lock with a well-formed call keeps the types.
LEMMA LockType ==
    ASSUME TypeOK, NEW c \in Calls, Lock(c)
    PROVE  /\ LedgerTypeOK' /\ MailboxTypeOK' /\ LockTypeOK'
           /\ signaled' \in [Requests -> BOOLEAN] /\ wakes' \subseteq Requests
  <1> USE ConstantsAssumption DEF TypeOK, Lock
  <1>1. LedgerTypeOK'
    BY DEF LedgerTypeOK, ledgerVars
  <1>2. MailboxTypeOK' /\ todo' \in Seq(Commands)
    BY DEF MailboxTypeOK, DrainedSlots
  <1>3. QED
    BY <1>1, <1>2 DEF TicketTypeOK, LockTypeOK

\* Releasing the lock with a set of requests to wake keeps the types.
LEMMA UnlockType ==
    ASSUME TypeOK, NEW W \in SUBSET Requests, Unlock(W)
    PROVE  /\ wakes' \subseteq Requests /\ hoisted' = {} /\ hoisted' \subseteq Requests
           /\ pc' = "unlocked" /\ call' \in Calls /\ call'.op = "none"
           /\ todo' = todo => LockTypeOK'
  <1>1. call' \in Calls /\ call'.op = "none"
    BY DEF Unlock, Calls, NoCall
  <1>2. QED
    BY <1>1 DEF Unlock, TypeOK, TicketTypeOK, LockTypeOK

\* The calls an operation starts with are well formed.
LEMMA CallValues ==
    /\ \A b \in Sizes, p \in Priorities :
         [op |-> "request", bytes |-> b, priority |-> p] \in Calls
    /\ \A o \in {"release", "timeout", "claim"}, r \in Requests : [op |-> o, req |-> r] \in Calls
    /\ \A d \in Devices, b \in Sizes : [op |-> "reclaim", device |-> d, bytes |-> b] \in Calls
    /\ \A o \in {"reconfigure", "observe"} : [op |-> o] \in Calls
  BY DEF Calls

\* A step that moves one ticket to another phase keeps the type of tickets.
LEMMA PhaseUpdate ==
    ASSUME TicketTypeOK, NEW r \in Requests, NEW p \in Phases
    PROVE  [ticket EXCEPT ![r].phase = p] \in [Requests -> [phase : Phases, generation : Generations]]
  BY DEF TicketTypeOK


-----------------------------------------------------------------------------
\* The operation ends and changes nothing but the set of wake-ups under way.
Quiet ==
    /\ pc \in {"drain", "bodyArbitrate"}
    /\ todo = << >>
    /\ Unlock(hoisted)
    /\ UNCHANGED <<ledgerVars, mailboxVars, ticket, signaled, todo>>

\* An operation starts; the ticket of a claim is not available to its holder.
Enter(c) ==
    /\ Lock(c)
    /\ c \in Calls
    /\ c.op = "request" => nextRequest \in Requests
    /\ c.op = "reconfigure" => generation < MaxGeneration
    /\ \/ c.op # "claim" /\ UNCHANGED ticket
       \/ /\ c.op = "claim"
          /\ c.req \in Requests
          /\ ticket[c.req].phase \in {"held", "waiting"}
          /\ ticket' = [ticket EXCEPT ![c.req].phase =
                          IF ticket[c.req].phase = "held" THEN "polling" ELSE "waiting"]

ArbitrationResumesDrain ==
    /\ pc = "drainArbitrate"
    /\ pc' = "drain"
    /\ UNCHANGED <<ledgerVars, mailboxVars, ticketVars, call, todo, hoisted>>

\* The shapes cover the actions they stand for.
LEMMA Shapes ==
    ASSUME CallOK
    PROVE  /\ DenyRequest \/ RefuseRelease \/ RefuseReclaim \/ TimeOutNoOp \/ Observe => Quiet
           /\ ArbitrationDone => Quiet \/ ArbitrationResumesDrain
           /\ CallRequest \/ CallReclaim \/ CallReconfigure \/ CallObserve => \E c \in Calls : Enter(c)
           /\ \A r \in Requests :
                CallRelease(r) \/ CallTimeOut(r) \/ CallTryClaim(r) => \E c \in Calls : Enter(c)
  <1>1. DenyRequest \/ RefuseRelease \/ RefuseReclaim \/ TimeOutNoOp \/ Observe => Quiet
    BY DEF DenyRequest, RefuseRelease, RefuseReclaim, TimeOutNoOp, Observe, Body, Quiet
  <1>2. ArbitrationDone => Quiet \/ ArbitrationResumesDrain
    BY DEF ArbitrationDone, Quiet, ArbitrationResumesDrain, CallOK, ticketVars
  <1>3. CallRequest => \E c \in Calls : Enter(c)
    <2> SUFFICES ASSUME NEW b \in Sizes, NEW p \in Priorities, nextRequest \in Requests, UNCHANGED ticket,
                        Lock([op |-> "request", bytes |-> b, priority |-> p])
                 PROVE  \E c \in Calls : Enter(c)
      BY DEF CallRequest
    <2> DEFINE c == [op |-> "request", bytes |-> b, priority |-> p]
    <2>1. c \in Calls
      BY CallValues
    <2>2. Enter(c)
      BY <2>1 DEF Enter
    <2>3. QED
      BY <2>1, <2>2
  <1>4. CallReclaim => \E c \in Calls : Enter(c)
    <2> SUFFICES ASSUME NEW d \in Devices, NEW b \in Sizes, UNCHANGED ticket,
                        Lock([op |-> "reclaim", device |-> d, bytes |-> b])
                 PROVE  \E c \in Calls : Enter(c)
      BY DEF CallReclaim
    <2> DEFINE c == [op |-> "reclaim", device |-> d, bytes |-> b]
    <2>1. c \in Calls
      BY CallValues
    <2>2. Enter(c)
      BY <2>1 DEF Enter
    <2>3. QED
      BY <2>1, <2>2
  <1>5. CallReconfigure \/ CallObserve => \E c \in Calls : Enter(c)
    BY CallValues DEF CallReconfigure, CallObserve, Enter
  <1>6. ASSUME NEW r \in Requests, CallRelease(r) \/ CallTimeOut(r) \/ CallTryClaim(r)
        PROVE  \E c \in Calls : Enter(c)
    <2>1. CASE CallRelease(r)
      <3> DEFINE c == [op |-> "release", req |-> r]
      <3>1. c \in Calls
        BY CallValues
      <3>2. Enter(c)
        BY <2>1, <3>1 DEF CallRelease, Enter
      <3>3. QED
        BY <3>1, <3>2
    <2>2. CASE CallTimeOut(r)
      <3> DEFINE c == [op |-> "timeout", req |-> r]
      <3>1. c \in Calls
        BY CallValues
      <3>2. Enter(c)
        BY <2>2, <3>1 DEF CallTimeOut, Enter
      <3>3. QED
        BY <3>1, <3>2
    <2>3. CASE CallTryClaim(r)
      <3> DEFINE c == [op |-> "claim", req |-> r]
      <3>1. c \in Calls
        BY CallValues
      <3>2. Enter(c)
        BY <2>3, <3>1 DEF CallTryClaim, Enter
      <3>3. QED
        BY <3>1, <3>2
    <2>4. QED
      BY <1>6, <2>1, <2>2, <2>3
  <1>7. QED
    BY <1>1, <1>2, <1>3, <1>4, <1>5, <1>6

\* Every step has one of these shapes; the invariance proofs split on them.
StepOf(r) ==
    \/ Grant(r)
    \/ StartWait(r)
    \/ Wake(r)
    \/ Unpark(r)
    \/ Disarm(r)
    \/ DropTicket(r)

LedgerStep ==
    \/ CancelUncharged
    \/ CancelGranted
    \/ RejectRequest
    \/ RequestHostPages
    \/ ReleaseHostPages
    \/ Reclaim
    \/ Reconfigure
    \/ TimeOutPending
    \/ TimeOutGranted
    \/ ClaimPending
    \/ ClaimGranted
    \/ ClaimTerminal

\* Every step of the governor has one of the shapes.
LEMMA NextShapes ==
    ASSUME CallOK, Next
    PROVE  \/ \E c \in Calls : Enter(c)
           \/ Quiet
           \/ ArbitrationResumesDrain
           \/ LedgerStep
           \/ \E r \in Requests : StepOf(r)
  BY Shapes DEF Next, Holder, LedgerStep, StepOf

\* A mailbox that is not full has room for one more slot.
LEMMA OneMoreSlot == reserved \in 0..MailboxCapacity /\ reserved # MailboxCapacity =>
                       reserved + 1 \in 0..MailboxCapacity
  BY ConstantsAssumption

\* A request that is admitted takes a valid id, a size within the budget and a
\* mailbox slot that exists.
LEMMA NewRequest ==
    ASSUME TypeInv, RequestHostPages
    PROVE  /\ call.bytes \in 0..Capacity /\ call.priority \in Nat
           /\ nextRequest \in Requests /\ nextRequest + 1 \in 1..(MaxRequests + 1)
           /\ reserved + 1 \in 0..MailboxCapacity
  <1> USE ConstantsAssumption DEF TypeInv, TypeOK
  <1>1. call.bytes <= MaxSatisfiable /\ call.op = "request" /\ pc = "drain" /\ reserved # MailboxCapacity
    BY DEF RequestHostPages, Body
  <1>2. call.bytes \in Nat /\ call.priority \in Nat
    BY <1>1, CallTypes, Zenon DEF LockTypeOK
  <1>3. MaxSatisfiable \in Nat /\ MaxSatisfiable <= Capacity
    BY DEF MaxSatisfiable
  <1>4. nextRequest \in Requests /\ nextRequest + 1 \in 1..(MaxRequests + 1)
    BY <1>1 DEF CallOK, BeforeBody, Requests
  <1>5. reserved + 1 \in 0..MailboxCapacity
    BY <1>1, OneMoreSlot, Zenon DEF MailboxTypeOK
  <1>6. QED
    BY <1>1, <1>2, <1>3, <1>4, <1>5

-----------------------------------------------------------------------------
\* Every operation of the governor, and every step of a ticket, keeps the types.
LEMMA StepType == TypeInv /\ [Next]_vars => TypeInv'
  <1> SUFFICES ASSUME TypeInv, [Next]_vars
               PROVE  TypeInv'
    OBVIOUS
  <1> USE ConstantsAssumption DEF TypeInv, TypeOK
  <1>1. ASSUME NEW c \in Calls, Enter(c)
        PROVE  TypeInv'
    <2>1. LedgerTypeOK' /\ MailboxTypeOK' /\ LockTypeOK'
          /\ signaled' \in [Requests -> BOOLEAN] /\ wakes' \subseteq Requests
      BY <1>1, LockType DEF Enter
    <2>2. TicketTypeOK'
      <3>1. "polling" \in Phases /\ "waiting" \in Phases
        BY DEF Phases, Armed
      <3>2. ticket' \in [Requests -> [phase : Phases, generation : Generations]]
        BY <1>1, <3>1, PhaseUpdate DEF Enter, TicketTypeOK
      <3>3. QED
        BY <2>1, <3>2 DEF TicketTypeOK
    <2>3. c.op = "claim" => ticket'[c.req].phase \in {"polling", "waiting"}
      BY <1>1 DEF Enter, TicketTypeOK
    <2>4. pc' = "drain" /\ call' = c /\ UNCHANGED <<nextRequest, generation, hoisted>>
      BY <1>1 DEF Enter, Lock, ledgerVars
    <2>5. CallOK'
      BY <1>1, <2>3, <2>4 DEF CallOK, BeforeBody, Enter
    <2>6. QED
      BY <2>1, <2>2, <2>5
  <1>2. CASE Quiet
    <2>1. LedgerTypeOK' /\ MailboxTypeOK'
      BY <1>2 DEF Quiet, LedgerTypeOK, MailboxTypeOK, ledgerVars, mailboxVars
    <2>2. TicketTypeOK' /\ LockTypeOK' /\ pc' = "unlocked" /\ hoisted' = {}
      BY <1>2, UnlockType DEF Quiet, TicketTypeOK, LockTypeOK
    <2>3. CallOK'
      BY <1>2, <2>2 DEF Quiet, CallOK, BeforeBody
    <2>4. QED
      BY <2>1, <2>2, <2>3
  <1>3. CASE ArbitrationResumesDrain
    BY <1>3 DEF ArbitrationResumesDrain, CallOK, BeforeBody, LedgerTypeOK, MailboxTypeOK, TicketTypeOK,
                LockTypeOK, ledgerVars, mailboxVars, ticketVars
  <1>4. CASE CancelUncharged
    <2>1. Head(todo) \in Commands /\ Tail(todo) \in Seq(Commands)
      BY <1>4 DEF CancelUncharged, Draining, LockTypeOK
    <2>2. LedgerTypeOK'
      BY <1>4, <2>1, EntryUpdate, Zenon DEF CancelUncharged, LedgerTypeOK, Commands
    <2>3. MailboxTypeOK' /\ TicketTypeOK' /\ LockTypeOK' /\ CallOK'
      BY <1>4, <2>1 DEF CancelUncharged, Draining, MailboxTypeOK, TicketTypeOK, LockTypeOK, CallOK,
                        BeforeBody, mailboxVars, ticketVars
    <2>4. QED
      BY <2>2, <2>3
  <1>5. CASE CancelGranted
    <2>1. Head(todo) \in Commands /\ Tail(todo) \in Seq(Commands)
      BY <1>5 DEF CancelGranted, Draining, LockTypeOK
    <2> DEFINE c == Head(todo)
               e == [entry EXCEPT ![c.req] = NoEntry]
    <2>2. c.req \in Requests
      BY <2>1 DEF Commands
    <2>a. entry[c.req].bytes \in Nat
      BY <2>2 DEF LedgerTypeOK, Entries
    <2>b. e \in [Requests -> Entries]
      BY <2>2, EntryUpdate DEF LedgerTypeOK
    <2>3. free' = free + entry[c.req].bytes /\ entry' = Aged(e)
          /\ UNCHANGED <<reclaimable, generation, nextRequest>>
      BY <1>5 DEF CancelGranted
    <2> HIDE DEF c, e
    <2>4. LedgerTypeOK'
      BY <2>a, <2>b, <2>3, AgedType DEF LedgerTypeOK
    <2>5. MailboxTypeOK' /\ TicketTypeOK' /\ LockTypeOK' /\ CallOK'
      BY <1>5, <2>1 DEF CancelGranted, Draining, MailboxTypeOK, TicketTypeOK, LockTypeOK, CallOK,
                        BeforeBody, mailboxVars, ticketVars
    <2>6. QED
      BY <2>4, <2>5
  <1>7. CASE RejectRequest
    <2>1. LedgerTypeOK' /\ MailboxTypeOK'
      BY <1>7 DEF RejectRequest, Body, CallOK, BeforeBody, LedgerTypeOK, MailboxTypeOK, Requests, mailboxVars
    <2>2. TicketTypeOK' /\ LockTypeOK' /\ pc' = "unlocked" /\ hoisted' = {}
      BY <1>7, UnlockType DEF RejectRequest, TicketTypeOK, LockTypeOK
    <2>3. CallOK'
      BY <1>7, <2>2 DEF RejectRequest, Body, CallOK, BeforeBody
    <2>4. QED
      BY <2>1, <2>2, <2>3
  <1>8. CASE RequestHostPages
    <2> DEFINE fresh == [state |-> "Pending", bytes |-> call.bytes, priority |-> call.priority,
                         generation |-> generation, age |-> 0]
               e == [entry EXCEPT ![nextRequest] = fresh]
    <2>1. /\ call.bytes \in 0..Capacity /\ call.priority \in Nat
          /\ nextRequest \in Requests /\ nextRequest + 1 \in 1..(MaxRequests + 1)
          /\ reserved + 1 \in 0..MailboxCapacity
      BY <1>8, NewRequest
    <2>2. /\ entry' = Aged(e) /\ nextRequest' = nextRequest + 1 /\ reserved' = reserved + 1
          /\ ticket' = [ticket EXCEPT ![nextRequest] = [phase |-> "held", generation |-> generation]]
          /\ pc' = "bodyArbitrate" /\ todo = << >>
          /\ UNCHANGED <<free, reclaimable, generation, queue, signaled, wakes, call, todo, hoisted>>
      BY <1>8 DEF RequestHostPages, Body
    <2>3. fresh \in Entries
      BY <2>1 DEF LedgerTypeOK, Entries, EntryStates
    <2>4. e \in [Requests -> Entries]
      BY <2>1, <2>3 DEF LedgerTypeOK
    <2> HIDE DEF fresh, e
    <2>5. LedgerTypeOK'
      BY <2>1, <2>2, <2>4, AgedType DEF LedgerTypeOK
    <2>6. TicketTypeOK'
      BY <2>1, <2>2 DEF LedgerTypeOK, TicketTypeOK, Phases, Armed
    <2>7. MailboxTypeOK' /\ LockTypeOK' /\ CallOK'
      BY <2>1, <2>2 DEF MailboxTypeOK, LockTypeOK, CallOK, BeforeBody
    <2>8. QED
      BY <2>5, <2>6, <2>7
  <1>9. CASE ReleaseHostPages
    <2> DEFINE e == [entry EXCEPT ![call.req] = NoEntry]
    <2>1. call.req \in Requests
      BY <1>9, CallTypes DEF ReleaseHostPages, Body, LockTypeOK
    <2>2. entry[call.req].bytes \in Nat
      BY <2>1 DEF LedgerTypeOK, Entries
    <2>3. e \in [Requests -> Entries]
      BY <2>1, EntryUpdate DEF LedgerTypeOK
    <2>4. /\ free' = free + entry[call.req].bytes /\ entry' = Aged(e)
          /\ UNCHANGED <<reclaimable, generation, nextRequest>>
      BY <1>9 DEF ReleaseHostPages
    <2> HIDE DEF e
    <2>5. LedgerTypeOK'
      BY <2>2, <2>3, <2>4, AgedType DEF LedgerTypeOK
    <2>6. MailboxTypeOK' /\ TicketTypeOK' /\ LockTypeOK' /\ CallOK'
      BY <1>9 DEF ReleaseHostPages, Body, MailboxTypeOK, TicketTypeOK, LockTypeOK, CallOK,
                  BeforeBody, mailboxVars, ticketVars
    <2>7. QED
      BY <2>5, <2>6
  <1>10. CASE Reclaim
    <2>1. call.device \in Devices /\ call.bytes \in Nat
      BY <1>10, CallTypes, Zenon DEF Reclaim, Body, LockTypeOK
    <2>2. /\ free' = free + call.bytes /\ entry' = Aged(entry) /\ call.bytes <= reclaimable[call.device]
          /\ reclaimable' = [reclaimable EXCEPT ![call.device] = @ - call.bytes]
          /\ UNCHANGED <<generation, nextRequest>>
      BY <1>10 DEF Reclaim
    <2>3. LedgerTypeOK'
      BY <2>1, <2>2, AgedType DEF LedgerTypeOK
    <2>4. MailboxTypeOK' /\ TicketTypeOK' /\ LockTypeOK' /\ CallOK'
      BY <1>10 DEF Reclaim, Body, MailboxTypeOK, TicketTypeOK, LockTypeOK, CallOK,
                   BeforeBody, mailboxVars, ticketVars
    <2>5. QED
      BY <2>3, <2>4
  <1>11. CASE Reconfigure
    <2> DEFINE stale == StalePending(generation + 1)
    <2>1. /\ generation' = generation + 1 /\ generation < MaxGeneration
          /\ entry' = [r \in Requests |-> IF r \in stale THEN [entry[r] EXCEPT !.state = "Failed"]
                                                         ELSE entry[r]]
          /\ Unlock(hoisted \union stale) /\ todo = << >>
          /\ UNCHANGED <<free, reclaimable, nextRequest, mailboxVars, ticket, signaled, todo>>
      BY <1>11 DEF Reconfigure, Body, CallOK, BeforeBody
    <2>2. stale \subseteq Requests
      BY DEF StalePending
    <2> HIDE DEF stale
    <2>3. \A r \in Requests : [entry[r] EXCEPT !.state = "Failed"] \in Entries
      BY DEF LedgerTypeOK, Entries, EntryStates
    <2>4. LedgerTypeOK'
      BY <2>1, <2>3 DEF LedgerTypeOK, Generations
    <2>5. hoisted \union stale \in SUBSET Requests
      BY <2>2 DEF LockTypeOK
    <2>6. /\ wakes' \subseteq Requests /\ LockTypeOK' /\ pc' = "unlocked" /\ hoisted' = {}
      BY <2>1, <2>5, UnlockType
    <2>7. MailboxTypeOK' /\ TicketTypeOK' /\ CallOK'
      BY <2>1, <2>6 DEF MailboxTypeOK, TicketTypeOK, CallOK, BeforeBody, mailboxVars
    <2>8. QED
      BY <2>4, <2>6, <2>7
  <1>12. CASE TimeOutPending
    <2>1. call.req \in Requests
      BY <1>12, CallTypes DEF TimeOutPending, Body, LockTypeOK
    <2>2. LedgerTypeOK' /\ MailboxTypeOK'
      BY <1>12, <2>1, EntryUpdate, Zenon DEF TimeOutPending, LedgerTypeOK, EntryStates, MailboxTypeOK, mailboxVars
    <2>3. hoisted \union {call.req} \in SUBSET Requests /\ Unlock(hoisted \union {call.req}) /\ todo = << >>
          /\ UNCHANGED <<ticket, signaled, todo>>
      BY <1>12, <2>1, Zenon DEF TimeOutPending, Body, LockTypeOK
    <2>4. TicketTypeOK' /\ LockTypeOK' /\ CallOK'
      BY <2>3, UnlockType DEF TicketTypeOK, CallOK, BeforeBody
    <2>5. QED
      BY <2>2, <2>4
  <1>13. CASE TimeOutGranted
    <2> DEFINE e == [entry EXCEPT ![call.req].state = "Failed"]
    <2>1. call.req \in Requests
      BY <1>13, CallTypes DEF TimeOutGranted, Body, LockTypeOK
    <2>2. entry[call.req].bytes \in Nat
      BY <2>1 DEF LedgerTypeOK, Entries
    <2>3. e \in [Requests -> Entries]
      BY <2>1, EntryUpdate, Zenon DEF LedgerTypeOK, EntryStates
    <2>4. /\ free' = free + entry[call.req].bytes /\ entry' = Aged(e)
          /\ UNCHANGED <<reclaimable, generation, nextRequest>>
      BY <1>13 DEF TimeOutGranted
    <2> HIDE DEF e
    <2>5. LedgerTypeOK'
      BY <2>2, <2>3, <2>4, AgedType DEF LedgerTypeOK
    <2>6. MailboxTypeOK' /\ TicketTypeOK' /\ LockTypeOK' /\ CallOK'
      BY <1>13, <2>1 DEF TimeOutGranted, Body, MailboxTypeOK, TicketTypeOK, LockTypeOK, CallOK,
                  BeforeBody, mailboxVars, ticketVars
    <2>7. QED
      BY <2>5, <2>6
  <1>14. CASE ClaimPending
    <2>1. call.req \in Requests
      BY <1>14, CallTypes DEF ClaimPending, Body, LockTypeOK
    <2>2. LedgerTypeOK' /\ MailboxTypeOK'
      BY <1>14 DEF ClaimPending, LedgerTypeOK, MailboxTypeOK, ledgerVars, mailboxVars
    <2>3. \A p \in {"held", "parked"} : p \in Phases
      BY DEF Phases, Armed
    <2>4. TicketTypeOK' /\ LockTypeOK' /\ CallOK'
      BY <1>14, <2>1, <2>3, PhaseUpdate, UnlockType
         DEF ClaimPending, Body, TicketTypeOK, LockTypeOK, CallOK, BeforeBody
    <2>5. QED
      BY <2>2, <2>4
  <1>15. CASE ClaimGranted
    <2>1. call.req \in Requests /\ "disarming" \in Phases
      BY <1>15, CallTypes DEF ClaimGranted, Body, LockTypeOK, Phases, Armed
    <2>2. LedgerTypeOK' /\ MailboxTypeOK'
      BY <1>15, <2>1, EntryUpdate, Zenon DEF ClaimGranted, LedgerTypeOK, MailboxTypeOK, EntryStates, mailboxVars
    <2>3. TicketTypeOK' /\ LockTypeOK' /\ CallOK'
      BY <1>15, <2>1, PhaseUpdate, UnlockType
         DEF ClaimGranted, Body, TicketTypeOK, LockTypeOK, CallOK, BeforeBody
    <2>4. QED
      BY <2>2, <2>3
  <1>16. CASE ClaimTerminal
    <2>1. call.req \in Requests /\ "disarming" \in Phases
      BY <1>16, CallTypes DEF ClaimTerminal, Body, LockTypeOK, Phases, Armed
    <2>2. LedgerTypeOK' /\ MailboxTypeOK'
      BY <1>16, <2>1, EntryUpdate, Zenon DEF ClaimTerminal, Reaped, LedgerTypeOK, MailboxTypeOK, mailboxVars
    <2>3. TicketTypeOK' /\ LockTypeOK' /\ CallOK'
      BY <1>16, <2>1, PhaseUpdate, UnlockType
         DEF ClaimTerminal, Body, TicketTypeOK, LockTypeOK, CallOK, BeforeBody
    <2>4. QED
      BY <2>2, <2>3
  <1>17. ASSUME NEW r \in Requests, Grant(r)
         PROVE  TypeInv'
    <2>1. entry[r].bytes \in Nat /\ entry[r].bytes <= free
      BY <1>17 DEF Grant, Grantable, LedgerTypeOK, Entries
    <2>2. LedgerTypeOK'
      <3>1. free' \in Nat
        BY <1>17, <2>1 DEF Grant, LedgerTypeOK
      <3>2. entry' \in [Requests -> Entries]
        BY <1>17, EntryUpdate, Zenon DEF Grant, LedgerTypeOK, EntryStates
      <3>3. QED
        BY <1>17, <3>1, <3>2 DEF Grant, LedgerTypeOK
    <2>3. MailboxTypeOK' /\ TicketTypeOK' /\ LockTypeOK' /\ CallOK'
      BY <1>17 DEF Grant, MailboxTypeOK, TicketTypeOK, LockTypeOK, CallOK, BeforeBody,
                   mailboxVars, ticketVars
    <2>4. QED
      BY <2>2, <2>3
  <1>18. ASSUME NEW r \in Requests, StartWait(r) \/ Wake(r) \/ Unpark(r)
         PROVE  TypeInv'
    <2>1. "waiting" \in Phases
      BY DEF Phases, Armed
    <2>2. TicketTypeOK'
      <3>1. ticket' \in [Requests -> [phase : Phases, generation : Generations]]
        BY <1>18, <2>1, PhaseUpdate DEF StartWait, Wake, Unpark, TicketTypeOK
      <3>2. signaled' \in [Requests -> BOOLEAN] /\ wakes' \subseteq Requests
        BY <1>18, Zenon DEF StartWait, Wake, Unpark, TicketTypeOK
      <3>3. QED
        BY <3>1, <3>2 DEF TicketTypeOK
    <2>3. LedgerTypeOK' /\ MailboxTypeOK' /\ LockTypeOK'
      BY <1>18 DEF StartWait, Wake, Unpark, LedgerTypeOK, MailboxTypeOK, LockTypeOK,
                   ledgerVars, mailboxVars, lockVars
    <2>4. CallOK'
      <3>1. \A s \in Requests : ticket[s].phase \in {"polling", "waiting"} => ticket'[s].phase = ticket[s].phase
        BY <1>18 DEF StartWait, Wake, Unpark, TicketTypeOK
      <3>2. UNCHANGED <<ledgerVars, lockVars>>
        BY <1>18 DEF StartWait, Wake, Unpark
      <3>3. QED
        BY <3>1, <3>2, CallTypes DEF CallOK, BeforeBody, LockTypeOK, ledgerVars, lockVars
    <2>5. QED
      BY <2>2, <2>3, <2>4
  <1>19. ASSUME NEW r \in Requests, Disarm(r)
         PROVE  TypeInv'
    <2>1. "resolved" \in Phases
      BY DEF Phases
    <2>2. TicketTypeOK'
      BY <1>19, <2>1, PhaseUpdate DEF Disarm, TicketTypeOK
    <2>3. LedgerTypeOK' /\ MailboxTypeOK' /\ LockTypeOK'
      BY <1>19 DEF Disarm, LedgerTypeOK, MailboxTypeOK, LockTypeOK, ledgerVars, lockVars
    <2>4. CallOK'
      BY <1>19 DEF Disarm, CallOK, BeforeBody, TicketTypeOK, ledgerVars, lockVars
    <2>5. QED
      BY <2>2, <2>3, <2>4
  <1>20. ASSUME NEW r \in Requests, DropTicket(r)
         PROVE  TypeInv'
    <2>1. "dropped" \in Phases
      BY DEF Phases
    <2>2. TicketTypeOK'
      BY <1>20, <2>1, PhaseUpdate DEF DropTicket, TicketTypeOK
    <2>3. [req |-> r, generation |-> ticket[r].generation] \in Commands
      BY DEF Commands, TicketTypeOK
    <2>4. /\ queue' \in {queue, Append(queue, [req |-> r, generation |-> ticket[r].generation])}
          /\ UNCHANGED <<ledgerVars, reserved, lockVars>>
      BY <1>20 DEF DropTicket
    <2>5. LedgerTypeOK' /\ LockTypeOK'
      BY <2>4 DEF LedgerTypeOK, LockTypeOK, ledgerVars, lockVars
    <2>a. Append(queue, [req |-> r, generation |-> ticket[r].generation]) \in Seq(Commands)
      BY <2>3 DEF MailboxTypeOK
    <2>b. MailboxTypeOK'
      BY <2>4, <2>a DEF MailboxTypeOK
    <2>6. CallOK'
      BY <1>20 DEF DropTicket, CallOK, BeforeBody, TicketTypeOK, ledgerVars, lockVars
    <2>7. QED
      BY <2>2, <2>5, <2>b, <2>6
  <1>21. CASE UNCHANGED vars
    BY <1>21 DEF vars, LedgerTypeOK, MailboxTypeOK, TicketTypeOK, LockTypeOK, CallOK, BeforeBody,
                 ledgerVars, mailboxVars, ticketVars, lockVars
  <1>22. QED
    BY <1>1, <1>2, <1>3, <1>4, <1>5, <1>7, <1>8, <1>9, <1>10, <1>11, <1>12, <1>13, <1>14,
       <1>15, <1>16, <1>17, <1>18, <1>19, <1>20, <1>21, NextShapes DEF LedgerStep, StepOf

\* In every reachable state each variable of the governor has its type.
THEOREM TypeCorrect == Spec => []TypeOK
  <1>1. Spec => []TypeInv
    BY InitType, StepType, PTL DEF Spec
  <1>2. TypeInv => TypeOK
    BY DEF TypeInv
  <1>3. QED
    BY <1>1, <1>2, PTL

-----------------------------------------------------------------------------
(***************************************************************************)
(* The protocol invariant: what ties tickets, ledger entries, wake-ups and *)
(* cancel commands together.  The properties of HostGovernor are not       *)
(* inductive one by one: that no cancel is lost rests on commands carrying *)
(* the generation of the entry, on commands coming from dropped tickets    *)
(* only, and on ids being fresh.                                           *)
(***************************************************************************)
\* Nothing refers to an id that has not been handed out.
Fresh ==
    \A r \in Requests : r >= nextRequest =>
        /\ ticket[r].phase = "unborn"
        /\ entry[r].state = "Absent"
        /\ ~signaled[r]
        /\ r \notin wakes \union hoisted

SameGeneration ==
    \A r \in Requests : entry[r].state # "Absent" => entry[r].generation = ticket[r].generation

CommandsAreDropped ==
    \A c \in Posted : c \in Commands /\ ticket[c.req].phase = "dropped"

ProtocolInv ==
    /\ TypeInv
    /\ Fresh
    /\ SameGeneration
    /\ ChargeHasOwner
    /\ PendingIsCurrent
    /\ NoLostWakeup
    /\ WakeAfterVerdict
    /\ SlotAccounting
    /\ CommandsAreDropped
    /\ CancelNotLost

\* What appending to, or taking the head of, a list does to its elements.
LEMMA RangeAppend ==
    ASSUME NEW S, NEW q \in Seq(S), NEW x \in S
    PROVE  Range(Append(q, x)) = Range(q) \union {x}
  <1> DEFINE a == Append(q, x)
  <1>1. /\ Len(q) \in Nat /\ DOMAIN q = 1..Len(q) /\ DOMAIN a = 1..(Len(q) + 1)
        /\ \A i \in 1..Len(q) : a[i] = q[i]
        /\ a[Len(q) + 1] = x
    OBVIOUS
  <1> HIDE DEF a
  <1>2. ASSUME NEW y \in Range(a)
        PROVE  y \in Range(q) \union {x}
    BY <1>1, <1>2 DEF Range
  <1>3. ASSUME NEW y \in Range(q) \union {x}
        PROVE  y \in Range(a)
    BY <1>1, <1>3 DEF Range
  <1>4. Range(a) = Range(q) \union {x}
    BY <1>2, <1>3
  <1>5. QED
    BY <1>4 DEF a

\* The elements of a list are its head and the elements of its tail.
LEMMA RangeTail ==
    ASSUME NEW S, NEW q \in Seq(S), q # << >>
    PROVE  Range(q) = Range(Tail(q)) \union {Head(q)} /\ Range(Tail(q)) \subseteq Range(q)
  <1>1. /\ Len(q) \in Nat \ {0} /\ DOMAIN q = 1..Len(q)
        /\ Len(Tail(q)) = Len(q) - 1 /\ DOMAIN Tail(q) = 1..(Len(q) - 1)
        /\ \A i \in 1..(Len(q) - 1) : Tail(q)[i] = q[i + 1]
        /\ Head(q) = q[1]
    OBVIOUS
  <1>2. ASSUME NEW x \in Range(q)
        PROVE  x \in Range(Tail(q)) \union {Head(q)}
    <2>1. PICK i \in 1..Len(q) : x = q[i]
      BY <1>1, <1>2 DEF Range
    <2>2. CASE i = 1
      BY <1>1, <2>1, <2>2
    <2>3. CASE i # 1
      <3>1. i - 1 \in 1..(Len(q) - 1) /\ q[(i - 1) + 1] = q[i]
        BY <1>1, <2>3
      <3>2. QED
        BY <1>1, <2>1, <3>1, Zenon DEF Range
    <2>4. QED
      BY <2>2, <2>3
  <1>3. ASSUME NEW x \in Range(Tail(q)) \union {Head(q)}
        PROVE  x \in Range(q)
    BY <1>1, <1>3 DEF Range
  <1>4. QED
    BY <1>2, <1>3

\* The empty list has no elements.
LEMMA RangeEmpty == Range(<< >>) = {}
  BY DEF Range

-----------------------------------------------------------------------------
(***************************************************************************)
(* Mailbox slots.                                                          *)
(***************************************************************************)
ArmedTickets == {r \in Requests : ticket[r].phase \in Armed}

\* There are finitely many tickets, and each armed one has a slot.
LEMMA ArmedHasSlot ==
    ASSUME TypeInv, SlotAccounting
    PROVE  /\ IsFiniteSet(ArmedTickets)
           /\ Cardinality(ArmedTickets) \in Nat
           /\ reserved = Len(queue) + Cardinality(ArmedTickets)
           /\ Len(queue) \in Nat
           /\ \A r \in ArmedTickets : SlotLeft
  <1>1. IsFiniteSet(Requests)
    BY ConstantsAssumption, FS_Interval DEF Requests
  <1>2. IsFiniteSet(ArmedTickets) /\ Cardinality(ArmedTickets) \in Nat
    BY <1>1, FS_Subset, FS_CardinalityType DEF ArmedTickets
  <1>3. reserved = Len(queue) + Cardinality(ArmedTickets) /\ Len(queue) \in Nat
    BY DEF SlotAccounting, ArmedTickets, TypeInv, TypeOK, MailboxTypeOK
  <1>4. ASSUME NEW r \in ArmedTickets
        PROVE  SlotLeft
    <2>1. Cardinality(ArmedTickets) # 0
      BY <1>2, FS_EmptySet
    <2>2. QED
      BY <1>2, <1>3, <2>1 DEF SlotLeft
  <1>5. QED
    BY <1>2, <1>3, <1>4

\* Every step that arms a ticket, disarms it, posts its command or drains the
\* mailbox moves the reservation counter by as much.
LEMMA StepSlots ==
    ASSUME TypeInv, Fresh, SlotAccounting, [Next]_vars
    PROVE  SlotAccounting'
  <1> DEFINE A == ArmedTickets
             n == Cardinality(ArmedTickets)
  <1>1. IsFiniteSet(A) /\ n \in Nat /\ reserved = Len(queue) + n /\ Len(queue) \in Nat
    BY ArmedHasSlot
  <1>2. TypeOK /\ CallOK /\ LedgerTypeOK /\ MailboxTypeOK /\ TicketTypeOK /\ LockTypeOK
    BY DEF TypeInv, TypeOK
  <1>3. SUFFICES reserved' = Len(queue') + Cardinality(A')
    BY DEF SlotAccounting, ArmedTickets
  <1>4. CASE A' = A /\ UNCHANGED mailboxVars
    BY <1>1, <1>4 DEF mailboxVars
  <1>5. ASSUME NEW c \in Calls, Enter(c)
        PROVE  reserved' = Len(queue') + Cardinality(A')
    <2>1. A' = A
      BY <1>2, <1>5 DEF Enter, TicketTypeOK, ArmedTickets, Armed
    <2>2. reserved' = n /\ queue' = << >>
      BY <1>1, <1>5 DEF Enter, Lock, DrainedSlots
    <2>3. QED
      BY <1>1, <2>1, <2>2
  <1>6. CASE RequestHostPages
    <2>1. nextRequest \in Requests /\ ticket[nextRequest].phase = "unborn"
      BY <1>2, <1>6 DEF RequestHostPages, Body, CallOK, BeforeBody, Fresh, Requests
    <2>2. A' = A \union {nextRequest} /\ nextRequest \notin A
      BY <1>2, <1>6, <2>1 DEF RequestHostPages, TicketTypeOK, ArmedTickets, Armed
    <2>3. Cardinality(A') = n + 1
      BY <1>1, <2>2, FS_AddElement, Zenon
    <2>4. reserved' = reserved + 1 /\ queue' = queue
      BY <1>6 DEF RequestHostPages
    <2>5. QED
      BY <1>1, <2>3, <2>4
  <1>7. ASSUME NEW r \in Requests, Disarm(r) \/ DropTicket(r)
        PROVE  reserved' = Len(queue') + Cardinality(A')
    <2>1. A' = A \ {r} /\ r \in A
      BY <1>2, <1>7 DEF Disarm, DropTicket, TicketTypeOK, ArmedTickets, Armed
    <2>2. Cardinality(A') = n - 1
      BY <1>1, <2>1, FS_RemoveElement
    <2>3. SlotLeft
      BY <2>1, ArmedHasSlot
    <2>4. CASE Disarm(r)
      <3>1. reserved' = reserved - 1 /\ queue' = queue
        BY <1>1, <2>3, <2>4 DEF Disarm, SlotLeft
      <3>2. QED
        BY <1>1, <2>2, <3>1
    <2>5. CASE DropTicket(r)
      <3>1. reserved' = reserved /\ Len(queue') = Len(queue) + 1
        BY <1>2, <2>3, <2>5 DEF DropTicket, MailboxTypeOK
      <3>2. QED
        BY <1>1, <2>2, <3>1
    <2>6. QED
      BY <1>7, <2>4, <2>5
  <1>8. CASE Quiet \/ ArbitrationResumesDrain \/ UNCHANGED vars
    BY <1>4, <1>8 DEF Quiet, ArbitrationResumesDrain, vars, ticketVars, ArmedTickets
  <1>9. CASE LedgerStep /\ ~RequestHostPages
    <2>1. CASE ClaimPending \/ ClaimGranted \/ ClaimTerminal
      <3>1. call.req \in Requests /\ ticket[call.req].phase \in {"polling", "waiting"}
        BY <1>2, <2>1, CallTypes DEF ClaimPending, ClaimGranted, ClaimTerminal, Body, CallOK, BeforeBody,
                                     LockTypeOK
      <3>2. /\ UNCHANGED mailboxVars
            /\ \E p \in {"held", "parked", "disarming"} : ticket' = [ticket EXCEPT ![call.req].phase = p]
        BY <2>1 DEF ClaimPending, ClaimGranted, ClaimTerminal
      <3>3. A' = A
        BY <1>2, <3>1, <3>2 DEF TicketTypeOK, ArmedTickets, Armed
      <3>4. QED
        BY <1>4, <3>2, <3>3
    <2>2. CASE ~(ClaimPending \/ ClaimGranted \/ ClaimTerminal)
      <3>1. UNCHANGED <<mailboxVars, ticket>>
        BY <1>9, <2>2 DEF LedgerStep, CancelUncharged, CancelGranted, RejectRequest,
             ReleaseHostPages, Reclaim, Reconfigure, TimeOutPending, TimeOutGranted, ticketVars
      <3>2. QED
        BY <1>4, <3>1, ZenonT(30) DEF ArmedTickets
    <2>3. QED
      BY <2>1, <2>2
  <1>10. ASSUME NEW r \in Requests, Grant(r) \/ StartWait(r) \/ Wake(r) \/ Unpark(r)
         PROVE  reserved' = Len(queue') + Cardinality(A')
    <2>1. UNCHANGED mailboxVars
      BY <1>10 DEF Grant, StartWait, Wake, Unpark
    <2>2. A' = A
      BY <1>2, <1>10 DEF Grant, StartWait, Wake, Unpark, ticketVars, TicketTypeOK, ArmedTickets, Armed
    <2>3. QED
      BY <1>4, <2>1, <2>2
  <1>11. QED
    BY <1>2, <1>5, <1>6, <1>7, <1>8, <1>9, <1>10, NextShapes DEF StepOf

-----------------------------------------------------------------------------
\* The inductive invariant holds before the first request.
LEMMA InitProtocol == Init => ProtocolInv
  <1> SUFFICES ASSUME Init PROVE ProtocolInv
    OBVIOUS
  <1>1. TypeInv
    BY InitType
  <1>2. Posted = {}
    BY RangeEmpty DEF Init, Posted
  <1>3. SlotAccounting
    <2>1. {r \in Requests : ticket[r].phase \in Armed} = {}
      BY DEF Init, Armed
    <2>2. Cardinality({r \in Requests : ticket[r].phase \in Armed}) = 0
      BY <2>1, FS_EmptySet
    <2>3. QED
      BY <2>2 DEF Init, SlotAccounting
  <1>4. QED
    BY <1>1, <1>2, <1>3 DEF Init, NoEntry, ProtocolInv, Fresh, SameGeneration, ChargeHasOwner, PendingIsCurrent,
                      NoLostWakeup, WakeAfterVerdict, CommandsAreDropped, CancelNotLost, IsPending

\* What a step has to keep besides types and slots.
Ties ==
    /\ Fresh /\ SameGeneration /\ ChargeHasOwner /\ PendingIsCurrent
    /\ NoLostWakeup /\ WakeAfterVerdict
    /\ CommandsAreDropped /\ CancelNotLost

\* An operation that takes the lock moves the mailbox to its own list.
LEMMA EnterTies ==
  ASSUME ProtocolInv, NEW c \in Calls, Enter(c)
  PROVE  Ties'
  <1>0. CallOK /\ LedgerTypeOK /\ MailboxTypeOK /\ TicketTypeOK /\ LockTypeOK
    BY DEF ProtocolInv, TypeInv, TypeOK
  <1>i. Fresh /\ SameGeneration /\ ChargeHasOwner /\ PendingIsCurrent /\ NoLostWakeup /\ WakeAfterVerdict
        /\ CommandsAreDropped /\ CancelNotLost
    BY DEF ProtocolInv
  <1>act. Enter(c)
    OBVIOUS
  <1>1. /\ UNCHANGED <<ledgerVars, signaled, wakes, hoisted>> /\ queue' = << >> /\ todo' = queue
        /\ todo = << >>
    BY <1>0, <1>act DEF Enter, Lock, CallOK
  <1>2. \A s \in Requests :
          /\ ticket'[s].generation = ticket[s].generation
          /\ \/ ticket'[s].phase = ticket[s].phase
             \/ ticket[s].phase = "held" /\ ticket'[s].phase = "polling"
    BY <1>0, <1>act DEF Enter, TicketTypeOK
  <1>3. Posted' = Posted
    BY <1>1, RangeEmpty, Zenon DEF Posted
  <1>4. Fresh' /\ SameGeneration' /\ ChargeHasOwner' /\ PendingIsCurrent' /\ NoLostWakeup' /\ WakeAfterVerdict'
    BY <1>i, <1>1, <1>2, Zenon DEF Fresh, SameGeneration, ChargeHasOwner, PendingIsCurrent, NoLostWakeup,
                            WakeAfterVerdict, IsPending, ledgerVars
  <1>5. CommandsAreDropped' /\ CancelNotLost'
    BY <1>i, <1>1, <1>2, <1>3, ZenonT(30) DEF CommandsAreDropped, CancelNotLost, Commands, ledgerVars
  <1>6. QED
    BY <1>4, <1>5 DEF Ties

\* Leaving without a change keeps the wake-ups that are owed.
LEMMA QuietTies ==
  ASSUME ProtocolInv, Quiet \/ ArbitrationResumesDrain
  PROVE  Ties'
  <1>0. CallOK /\ LedgerTypeOK /\ MailboxTypeOK /\ TicketTypeOK /\ LockTypeOK
    BY DEF ProtocolInv, TypeInv, TypeOK
  <1>i. Fresh /\ SameGeneration /\ ChargeHasOwner /\ PendingIsCurrent /\ NoLostWakeup /\ WakeAfterVerdict
        /\ CommandsAreDropped /\ CancelNotLost
    BY DEF ProtocolInv
  <1>act. Quiet \/ ArbitrationResumesDrain
    OBVIOUS
  <1>1. /\ UNCHANGED <<ledgerVars, mailboxVars, ticket, signaled, todo>>
        /\ wakes' \union hoisted' = wakes \union hoisted
    BY <1>act DEF Quiet, ArbitrationResumesDrain, Unlock, ticketVars
  <1>2. QED
    BY <1>i, <1>1 DEF Ties, Fresh, SameGeneration, ChargeHasOwner, PendingIsCurrent, NoLostWakeup,
                      WakeAfterVerdict, IsPending, CommandsAreDropped, CancelNotLost, Posted,
                      ledgerVars, mailboxVars

\* A cancel removes the entry it names, or finds it stale or settled.
LEMMA CancelTies ==
  ASSUME ProtocolInv, CancelUncharged \/ CancelGranted
  PROVE  Ties'
  <1>0. CallOK /\ LedgerTypeOK /\ MailboxTypeOK /\ TicketTypeOK /\ LockTypeOK
    BY DEF ProtocolInv, TypeInv, TypeOK
  <1>i. Fresh /\ SameGeneration /\ ChargeHasOwner /\ PendingIsCurrent /\ NoLostWakeup /\ WakeAfterVerdict
        /\ CommandsAreDropped /\ CancelNotLost
    BY ZenonT(30) DEF ProtocolInv
  <1>act. CancelUncharged \/ CancelGranted
    OBVIOUS
  <1> DEFINE c == Head(todo)
  <1>1. todo # << >> /\ todo' = Tail(todo) /\ UNCHANGED <<generation, nextRequest, mailboxVars, ticketVars, hoisted>>
    BY <1>act DEF CancelUncharged, CancelGranted, Draining, ledgerVars
  <1>2. Range(todo) = Range(todo') \union {c} /\ Range(todo') \subseteq Range(todo)
    BY <1>0, <1>1, RangeTail DEF LockTypeOK
  <1>3. c \in Commands /\ c.req \in Requests /\ ticket[c.req].phase = "dropped"
    BY <1>i, <1>2 DEF CommandsAreDropped, Posted, Commands
  <1>4. \A s \in Requests :
          \/ /\ entry'[s].state = entry[s].state
             /\ entry'[s].generation = entry[s].generation
             /\ s = c.req => entry[s].state \in {"Absent", "Claimed"} \/ Stale(c)
          \/ s = c.req /\ entry'[s].state = "Absent"
    <2>1. CASE CancelUncharged
      BY <1>0, <1>3, <2>1, Zenon DEF CancelUncharged, IsGranted, NoEntry, LedgerTypeOK, Entries, EntryStates
    <2>2. CASE CancelGranted
      <3> DEFINE e == [entry EXCEPT ![c.req] = NoEntry]
      <3>1. e \in [Requests -> Entries]
        BY <1>0, <1>3, EntryUpdate DEF LedgerTypeOK
      <3>2. \A s \in Requests : e[s] = IF s = c.req THEN NoEntry ELSE entry[s]
        BY <1>0, <1>3, ZenonT(30) DEF LedgerTypeOK
      <3>3. entry' = Aged(e)
        BY <2>2 DEF CancelGranted
      <3> HIDE DEF e, c
      <3>4. \A s \in Requests : entry'[s].state = e[s].state /\ entry'[s].generation = e[s].generation
        BY <1>0, <3>1, <3>3, AgedType DEF LedgerTypeOK
      <3>5. QED
        BY <3>2, <3>4 DEF NoEntry
    <2>3. QED
      BY <1>act, <2>1, <2>2, Zenon
  <1> HIDE DEF c
  <1>5. Fresh' /\ SameGeneration' /\ ChargeHasOwner' /\ PendingIsCurrent' /\ NoLostWakeup' /\ WakeAfterVerdict'
    <2>1. Fresh' /\ SameGeneration'
      BY <1>i, <1>1, <1>4 DEF Fresh, SameGeneration, ticketVars
    <2>2. ChargeHasOwner' /\ PendingIsCurrent'
      BY <1>i, <1>1, <1>4, Zenon DEF ChargeHasOwner, PendingIsCurrent, IsPending, ticketVars
    <2>3. NoLostWakeup'
      BY <1>i, <1>1, <1>3, <1>4, Zenon DEF NoLostWakeup, ticketVars
    <2>4. WakeAfterVerdict'
      BY <1>i, <1>1, <1>4 DEF WakeAfterVerdict, ticketVars
    <2>5. QED
      BY <2>1, <2>2, <2>3, <2>4
  <1>6. CommandsAreDropped'
    BY <1>i, <1>1, <1>2, Zenon DEF CommandsAreDropped, Posted, mailboxVars, ticketVars
  <1>7. CancelNotLost'
    <2> SUFFICES ASSUME NEW s \in Requests, ticket'[s].phase = "dropped", entry'[s].state # "Absent"
                 PROVE  /\ entry'[s].state # "Claimed"
                        /\ [req |-> s, generation |-> entry'[s].generation] \in Posted'
      BY DEF CancelNotLost
    <2>1. /\ entry'[s].state = entry[s].state /\ entry'[s].generation = entry[s].generation
          /\ ticket[s].phase = "dropped"
          /\ s = c.req => entry[s].state \in {"Absent", "Claimed"} \/ Stale(c)
      BY <1>1, <1>4 DEF ticketVars
    <2>2. entry[s].state # "Claimed" /\ [req |-> s, generation |-> entry[s].generation] \in Posted
      BY <1>i, <2>1, Zenon DEF CancelNotLost
    <2>3. [req |-> s, generation |-> entry[s].generation] # c
      BY <2>1, <2>2 DEF Stale
    <2>4. QED
      BY <1>1, <1>2, <2>1, <2>2, <2>3 DEF Posted, mailboxVars
  <1>8. QED
    BY <1>5, <1>6, <1>7 DEF Ties

\* A refused request uses up its id.
LEMMA RejectTies ==
  ASSUME ProtocolInv, RejectRequest
  PROVE  Ties'
  <1>0. CallOK /\ LedgerTypeOK /\ MailboxTypeOK /\ TicketTypeOK /\ LockTypeOK
    BY DEF ProtocolInv, TypeInv, TypeOK
  <1>i. Fresh /\ SameGeneration /\ ChargeHasOwner /\ PendingIsCurrent /\ NoLostWakeup /\ WakeAfterVerdict
        /\ CommandsAreDropped /\ CancelNotLost
    BY DEF ProtocolInv
  <1>act. RejectRequest
    OBVIOUS
  <1>1. /\ nextRequest' = nextRequest + 1 /\ UNCHANGED <<generation, entry, queue, ticket, signaled, todo>>
        /\ wakes' \union hoisted' = wakes \union hoisted
    BY <1>act DEF RejectRequest, Unlock, mailboxVars
  <1>2. \A r \in Requests : r >= nextRequest' => r >= nextRequest
    BY <1>0, <1>1 DEF LedgerTypeOK, Requests
  <1> USE <1>i, <1>1
  <1>8. Fresh'
    BY <1>2 DEF Fresh
  <1>9. SameGeneration' /\ PendingIsCurrent'
    BY DEF SameGeneration, PendingIsCurrent, IsPending
  <1>10. ChargeHasOwner'
    BY DEF ChargeHasOwner
  <1>11. NoLostWakeup'
    BY DEF NoLostWakeup
  <1>12. WakeAfterVerdict'
    BY DEF WakeAfterVerdict
  <1>13. CommandsAreDropped'
    BY DEF CommandsAreDropped, Posted, Commands
  <1>14. CancelNotLost'
    BY DEF CancelNotLost, Posted
  <1>15. QED
    BY <1>8, <1>9, <1>10, <1>11, <1>12, <1>13, <1>14 DEF Ties

\* The id it takes is unused: no ticket, no wake-up.
LEMMA NextFresh ==
  ASSUME Fresh, LedgerTypeOK, nextRequest \in Requests
  PROVE  /\ ticket[nextRequest].phase = "unborn"
         /\ ~signaled[nextRequest] /\ nextRequest \notin wakes \union hoisted
  BY DEF Fresh, LedgerTypeOK, Requests

\* A new request has a fresh id and the current generation.
LEMMA RequestTies ==
  ASSUME ProtocolInv, RequestHostPages
  PROVE  Ties'
  <1>0. CallOK /\ LedgerTypeOK /\ MailboxTypeOK /\ TicketTypeOK /\ LockTypeOK
    BY DEF ProtocolInv, TypeInv, TypeOK
  <1>i. Fresh /\ SameGeneration /\ ChargeHasOwner /\ PendingIsCurrent /\ NoLostWakeup /\ WakeAfterVerdict
        /\ CommandsAreDropped /\ CancelNotLost
    BY DEF ProtocolInv
  <1>act. RequestHostPages
    OBVIOUS
  <1> DEFINE n == nextRequest
             fresh == [state |-> "Pending", bytes |-> call.bytes, priority |-> call.priority,
                       generation |-> generation, age |-> 0]
             e == [entry EXCEPT ![n] = fresh]
  <1>1. n \in Requests /\ call.bytes \in 0..Capacity /\ call.priority \in Nat
    BY <1>act, NewRequest DEF ProtocolInv
  <1>2. fresh \in Entries
    BY <1>0, <1>1, ConstantsAssumption DEF Entries, EntryStates, LedgerTypeOK
  <1>3. e \in [Requests -> Entries]
    BY <1>0, <1>1, <1>2, EntryUpdate DEF LedgerTypeOK
  <1>4. \A s \in Requests : e[s] = IF s = n THEN fresh ELSE entry[s]
    BY <1>0, <1>1 DEF LedgerTypeOK
  <1>5. /\ entry' = Aged(e) /\ nextRequest' = n + 1
        /\ UNCHANGED <<generation, queue, signaled, wakes, todo, hoisted>>
    BY <1>act, ZenonT(30) DEF RequestHostPages
  <1>6. \A s \in Requests :
          /\ ticket'[s].phase = IF s = n THEN "held" ELSE ticket[s].phase
          /\ ticket'[s].generation = IF s = n THEN generation ELSE ticket[s].generation
    BY <1>0, <1>act, <1>1 DEF RequestHostPages, TicketTypeOK
  <1>f. fresh.state = "Pending" /\ fresh.generation = generation
    OBVIOUS
  <1> HIDE DEF e, fresh
  <1>7. \A s \in Requests :
          /\ entry'[s].state = IF s = n THEN "Pending" ELSE entry[s].state
          /\ entry'[s].generation = IF s = n THEN generation ELSE entry[s].generation
    BY <1>0, <1>3, <1>4, <1>5, <1>f, AgedType DEF LedgerTypeOK
  <1> USE <1>i, <1>1, <1>5, <1>6, <1>7
  <1>8. Fresh'
    <2>1. \A r \in Requests : r >= nextRequest' => r >= nextRequest /\ r # n
      BY <1>0 DEF LedgerTypeOK, Requests
    <2>2. QED
      BY <2>1, Zenon DEF Fresh
  <1>9. SameGeneration' /\ PendingIsCurrent'
    BY Zenon DEF SameGeneration, PendingIsCurrent, IsPending
  <1>10. ChargeHasOwner'
    BY Zenon DEF ChargeHasOwner
  <1>11. NoLostWakeup'
    BY Zenon DEF NoLostWakeup
  <1>12. WakeAfterVerdict'
    <2>1. \A s \in Requests : s = n => ~signaled[s] /\ s \notin wakes \union hoisted
      BY <1>0, NextFresh, Zenon
    <2>2. QED
      BY <2>1, Zenon DEF WakeAfterVerdict
  <1>13. CommandsAreDropped'
    <2>1. ticket[n].phase = "unborn"
      BY <1>0, NextFresh, Zenon
    <2>2. \A c \in Posted : c \in Commands /\ ticket[c.req].phase = "dropped" /\ c.req \in Requests
      BY Zenon DEF CommandsAreDropped, Commands
    <2>3. Posted' = Posted
      BY Zenon DEF Posted
    <2>4. QED
      BY <2>1, <2>2, <2>3, Zenon DEF CommandsAreDropped
  <1>14. CancelNotLost'
    BY DEF CancelNotLost, Posted
  <1>15. QED
    BY <1>8, <1>9, <1>10, <1>11, <1>12, <1>13, <1>14 DEF Ties

\* A release removes a claimed entry.
LEMMA ReleaseTies ==
  ASSUME ProtocolInv, ReleaseHostPages
  PROVE  Ties'
  <1>0. CallOK /\ LedgerTypeOK /\ MailboxTypeOK /\ TicketTypeOK /\ LockTypeOK
    BY DEF ProtocolInv, TypeInv, TypeOK
  <1>i. Fresh /\ SameGeneration /\ ChargeHasOwner /\ PendingIsCurrent /\ NoLostWakeup /\ WakeAfterVerdict
        /\ CommandsAreDropped /\ CancelNotLost
    BY DEF ProtocolInv
  <1>act. ReleaseHostPages
    OBVIOUS
  <1> DEFINE e == [entry EXCEPT ![call.req] = NoEntry]
  <1>1. call.req \in Requests /\ entry[call.req].state = "Claimed"
    BY <1>0, <1>act, CallTypes DEF ReleaseHostPages, Body, LockTypeOK, IsGranted
  <1>2. e \in [Requests -> Entries]
    BY <1>0, <1>1, EntryUpdate, ZenonT(30) DEF LedgerTypeOK, EntryStates
  <1>3. \A s \in Requests : 
          /\ e[s].state = IF s = call.req THEN "Absent" ELSE entry[s].state
          /\ s # call.req => e[s].generation = entry[s].generation
    BY <1>0, <1>1, Zenon DEF LedgerTypeOK, NoEntry, Entries
  <1>4. /\ entry' = Aged(e)
        /\ UNCHANGED <<generation, nextRequest, queue, ticket, signaled, wakes, todo, hoisted>>
    BY <1>act DEF ReleaseHostPages, mailboxVars, ticketVars
  <1> HIDE DEF e
  <1>5. \A s \in Requests : 
          /\ entry'[s].state = IF s = call.req THEN "Absent" ELSE entry[s].state
          /\ s # call.req => entry'[s].generation = entry[s].generation
    BY <1>0, <1>2, <1>3, <1>4, AgedType, SMTT(30) DEF LedgerTypeOK
  <1> USE <1>i, <1>1, <1>4, <1>5
  <1>8. Fresh'
    BY <1>0, Zenon DEF Fresh, LedgerTypeOK, Requests
  <1>9. SameGeneration' /\ PendingIsCurrent'
    BY DEF SameGeneration, PendingIsCurrent, IsPending
  <1>10. ChargeHasOwner'
    BY DEF ChargeHasOwner
  <1>11. NoLostWakeup'
    BY SMTT(30) DEF NoLostWakeup
  <1>12. WakeAfterVerdict'
    BY SMTT(30) DEF WakeAfterVerdict
  <1>13. CommandsAreDropped'
    BY Zenon DEF CommandsAreDropped, Posted, Commands
  <1>14. CancelNotLost'
    BY ZenonT(30) DEF CancelNotLost, Posted
  <1>15. QED
    BY <1>8, <1>9, <1>10, <1>11, <1>12, <1>13, <1>14, Zenon DEF Ties

\* Reclaimed bytes only age the entries.
LEMMA ReclaimTies ==
  ASSUME ProtocolInv, Reclaim
  PROVE  Ties'
  <1>0. CallOK /\ LedgerTypeOK /\ MailboxTypeOK /\ TicketTypeOK /\ LockTypeOK
    BY DEF ProtocolInv, TypeInv, TypeOK
  <1>i. Fresh /\ SameGeneration /\ ChargeHasOwner /\ PendingIsCurrent /\ NoLostWakeup /\ WakeAfterVerdict
        /\ CommandsAreDropped /\ CancelNotLost
    BY DEF ProtocolInv
  <1>act. Reclaim
    OBVIOUS
  <1>1. /\ entry' = Aged(entry)
        /\ UNCHANGED <<generation, nextRequest, queue, ticket, signaled, wakes, todo, hoisted>>
    BY <1>act DEF Reclaim, mailboxVars, ticketVars
  <1>2. \A s \in Requests : entry'[s].state = entry[s].state /\ entry'[s].generation = entry[s].generation
    BY <1>0, <1>1, AgedType, SMTT(30) DEF LedgerTypeOK
  <1> USE <1>i, <1>1, <1>2
  <1>8. Fresh'
    BY <1>0, SMTT(30) DEF Fresh, LedgerTypeOK, Requests
  <1>9. SameGeneration' /\ PendingIsCurrent'
    BY SMTT(30) DEF SameGeneration, PendingIsCurrent, IsPending
  <1>10. ChargeHasOwner'
    BY DEF ChargeHasOwner
  <1>11. NoLostWakeup'
    BY DEF NoLostWakeup
  <1>12. WakeAfterVerdict'
    BY SMTT(30) DEF WakeAfterVerdict
  <1>13. CommandsAreDropped'
    BY ZenonT(30) DEF CommandsAreDropped, Posted, Commands
  <1>14. CancelNotLost'
    BY DEF CancelNotLost, Posted
  <1>15. QED
    BY <1>8, <1>9, <1>10, <1>11, <1>12, <1>13, <1>14 DEF Ties

\* A reconfiguration fails every pending request and wakes its waiter.
LEMMA ReconfigureTies ==
  ASSUME ProtocolInv, Reconfigure
  PROVE  Ties'
  <1>0. CallOK /\ LedgerTypeOK /\ MailboxTypeOK /\ TicketTypeOK /\ LockTypeOK
    BY DEF ProtocolInv, TypeInv, TypeOK
  <1>i. Fresh /\ SameGeneration /\ ChargeHasOwner /\ PendingIsCurrent /\ NoLostWakeup /\ WakeAfterVerdict
        /\ CommandsAreDropped /\ CancelNotLost
    BY DEF ProtocolInv
  <1>act. Reconfigure
    OBVIOUS
  <1> DEFINE stale == StalePending(generation + 1)
  <1>1. /\ generation' = generation + 1 /\ UNCHANGED <<nextRequest, queue, ticket, signaled, todo>>
        /\ entry' = [r \in Requests |-> IF r \in stale THEN [entry[r] EXCEPT !.state = "Failed"] ELSE entry[r]]
        /\ wakes' \union hoisted' = wakes \union hoisted \union stale
    BY <1>act DEF Reconfigure, Unlock, mailboxVars
  <1>2. \A s \in Requests : s \in stale <=> entry[s].state = "Pending"
    BY <1>0, <1>i DEF PendingIsCurrent, StalePending, IsPending, LedgerTypeOK, Generations
  <1> HIDE DEF stale
  <1>3. \A s \in Requests :
          /\ entry'[s].state = IF entry[s].state = "Pending" THEN "Failed" ELSE entry[s].state
          /\ entry'[s].generation = entry[s].generation
    BY <1>0, <1>1, <1>2 DEF LedgerTypeOK, Entries
  <1> USE <1>i, <1>1, <1>2, <1>3
  <1>8. Fresh'
    BY <1>0 DEF Fresh, LedgerTypeOK, Requests
  <1>9. SameGeneration' /\ PendingIsCurrent'
    BY DEF SameGeneration, PendingIsCurrent, IsPending
  <1>10. ChargeHasOwner'
    BY DEF ChargeHasOwner
  <1>11. NoLostWakeup'
    BY DEF NoLostWakeup
  <1>12. WakeAfterVerdict'
    BY DEF WakeAfterVerdict
  <1>13. CommandsAreDropped'
    BY DEF CommandsAreDropped, Posted, Commands
  <1>14. CancelNotLost'
    BY DEF CancelNotLost, Posted
  <1>15. QED
    BY <1>8, <1>9, <1>10, <1>11, <1>12, <1>13, <1>14 DEF Ties
=============================================================================
