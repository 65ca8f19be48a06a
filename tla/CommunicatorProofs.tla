------------------------ MODULE CommunicatorProofs ------------------------
(***************************************************************************)
(* Proofs about the in-process communicator and the two components it      *)
(* calls, the buffer-lease registry and the collective submit sequencer,   *)
(* for any number of ranks, groups, executions, signatures and             *)
(* allocations and any plan of calls.                                      *)
(*                                                                         *)
(* First comes where a rank may stand in which call and how it moves on,   *)
(* then each component on its own.  Every step of the communicator is then *)
(* shown to be a step of each of them or to leave it alone                 *)
(* (UsesComponents), so what holds of them carries over (BaseInv).  On     *)
(* BaseInv rest LeaseInv (whose lease is whose), LockInv (who holds the    *)
(* mutex of a map) and EntryInv (who is in a rendezvous and how its entry  *)
(* counts them).  InProcessProofs goes on from there.                      *)
(***************************************************************************)
EXTENDS InProcess, TLAPS

\* The prover of the leaves that name none.
USE Zenon

-----------------------------------------------------------------------------
(* Where a rank may stand in which call.                                    *)

Labels == {"idle", "lease", "order", "enter", "arrive", "check", "park", "parked",
           "woken", "leave", "finish", "complete", "begin_abort", "quiesce",
           "complete_error", "post", "take"}

Keys == Groups \X Instances
Tickets == [key : Keys, sig : Signatures]

\* The calls that have a place in the sequencer's order.
Ordered == DataKinds \cup {"exchange_counts"}

\* Which calls reach which point of the code, and that a call in progress is
\* one its rank has a handle for.
Fitting(r) ==
    /\ pc[r] # "idle" => call[r] \in Calls /\ r \in Members[call[r].group]
    /\ pc[r] = "lease" => call[r].kind \in DataKinds \cup {"send", "recv"}
    /\ pc[r] \in {"order", "enter"} => call[r].kind \in Ordered
    /\ pc[r] = "arrive" => call[r].kind = "barrier"
    /\ Inside(r) => call[r].kind \in Ordered \cup {"barrier"}
    /\ pc[r] = "finish" => call[r].kind \in DataKinds \cup {"send", "recv"}
    /\ pc[r] \in {"complete", "begin_abort", "quiesce", "complete_error"} =>
         call[r].kind \in DataKinds
    /\ pc[r] = "post" => call[r].kind = "send"
    /\ pc[r] = "take" => call[r].kind = "recv"

ControlInv ==
    /\ pc \in [Ranks -> Labels]
    /\ call \in [Ranks -> Calls \cup {NoCall}]
    /\ made \in [Ranks -> Nat]
    /\ lease \in [Ranks -> Nat]
    /\ closes \in [Ranks -> BOOLEAN]
    /\ tickets \in [Ranks -> SUBSET Tickets]
    /\ \A r \in Ranks : Fitting(r)

-----------------------------------------------------------------------------
(* Facts about calls.                                                       *)

\* The fields of a call, without the record set.
LEMMA CallFields ==
  ASSUME NEW c \in Calls
  PROVE  /\ c.kind \in Kinds /\ c.group \in Groups /\ c.instance \in Instances
         /\ c.sig \in Signatures /\ c.reads \in SUBSET Allocations
         /\ c.writes \in SUBSET Allocations /\ c.peer \in Ranks
  BY DEF Calls

\* A ticket names its exchange and the signature of the data phase.
LEMMA TicketType == ASSUME NEW c \in Calls PROVE Ticket(c) \in Tickets
  BY CallFields DEF Ticket, Tickets, Key, Keys

\* What a rank starts is one of its plan's calls.
LEMMA PlannedCall ==
  ASSUME ControlInv, NEW r \in Ranks, made[r] < Len(Plan[r]),
         NEW c \in Plan[r][made[r] + 1]
  PROVE  c \in Calls /\ r \in Members[c.group]
<1>1. made[r] \in Nat /\ Plan[r] \in Seq(SUBSET Calls) /\ Len(Plan[r]) \in Nat
  BY PlanAssumption, SMT DEF ControlInv
<1>2. made[r] + 1 \in 1..Len(Plan[r])
  BY <1>1, SMT
<1>3. Plan[r][made[r] + 1] \in SUBSET Calls
  BY <1>1, <1>2, SMT
<1>4. QED
  BY <1>2, <1>3, PlanAssumption

\* A rank that moves leaves the other ranks where they are, except that it
\* may wake some of those that are parked.
Keeps(q) ==
    /\ call'[q] = call[q] /\ lease'[q] = lease[q] /\ closes'[q] = closes[q]
    /\ tickets'[q] = tickets[q]
    /\ pc'[q] = pc[q] \/ (pc[q] = "parked" /\ pc'[q] = "woken")

\* The new state has the right shape and rank r stands where its call may.
Moved(r) ==
    /\ pc' \in [Ranks -> Labels]
    /\ call' \in [Ranks -> Calls \cup {NoCall}]
    /\ made' \in [Ranks -> Nat]
    /\ lease' \in [Ranks -> Nat]
    /\ closes' \in [Ranks -> BOOLEAN]
    /\ tickets' \in [Ranks -> SUBSET Tickets]
    /\ \A q \in Ranks : q # r => Keeps(q)
    /\ Fitting(r)'

RankStep(r) == Start(r) \/ Run(r) \/ Acquire(r) \/ SpuriousWakeup(r)

\* The steps of one rank move only that rank, along its call.
LEMMA RankMoves ==
  ASSUME ControlInv, RegistryTypeOK, NEW r \in Ranks, RankStep(r)
  PROVE  Moved(r)
<1> USE DEF Moved, Keeps, Fitting, Inside, Labels, Ordered, DataKinds
<1>c. /\ pc \in [Ranks -> Labels] /\ call \in [Ranks -> Calls \cup {NoCall}]
      /\ made \in [Ranks -> Nat] /\ lease \in [Ranks -> Nat]
      /\ closes \in [Ranks -> BOOLEAN] /\ tickets \in [Ranks -> SUBSET Tickets]
      /\ Fitting(r)
  BY DEF ControlInv
<1>n. nextOperation \in Nat
  BY RegistryAssumption, SMT DEF RegistryTypeOK
<1>1. ASSUME made[r] < Len(Plan[r]), NEW c \in Plan[r][made[r] + 1], Begin(r, c)
      PROVE  Moved(r)
  <2>1. c \in Calls /\ r \in Members[c.group] /\ c.kind \in Kinds
    BY <1>1, PlannedCall, CallFields
  <2>2. /\ call' = [call EXCEPT ![r] = c] /\ made' = [made EXCEPT ![r] = @ + 1]
        /\ closes' = closes /\ tickets' = tickets
    BY <1>1 DEF Begin, Chosen
  <2>3. CASE abortCause
    <3>1. pc' = [pc EXCEPT ![r] = "idle"] /\ lease' = [lease EXCEPT ![r] = 0]
      BY <1>1, <2>3 DEF Begin, Return, Goto
    <3>2. QED
      BY <1>c, <2>1, <2>2, <3>1, SMT
  <2>4. CASE ~abortCause
    <3>1. pc' = [pc EXCEPT ![r] = FirstStep(c.kind)] /\ lease' = lease
      BY <1>1, <2>4 DEF Begin, Goto
    <3>2. c.kind \in {"reduce", "alltoall", "exchange_counts", "barrier", "send", "recv"}
      BY <1>1, <2>1 DEF Begin, Kinds
    <3>3. CASE FirstStep(c.kind) = "order" /\ c.kind = "exchange_counts"
      BY <1>c, <2>1, <2>2, <3>1, <3>3, SMT
    <3>4. CASE FirstStep(c.kind) = "take" /\ c.kind = "recv"
      BY <1>c, <2>1, <2>2, <3>1, <3>4, SMT
    <3>5. CASE FirstStep(c.kind) = "arrive" /\ c.kind = "barrier"
      BY <1>c, <2>1, <2>2, <3>1, <3>5, SMT
    <3>6. CASE FirstStep(c.kind) = "lease" /\ c.kind \in {"reduce", "alltoall", "send"}
      BY <1>c, <2>1, <2>2, <3>1, <3>6, SMT
    <3>7. QED
      BY <3>2, <3>3, <3>4, <3>5, <3>6 DEF FirstStep
  <2>5. QED
    BY <2>3, <2>4
<1>2. ASSUME made[r] < Len(Plan[r]), NEW c \in Plan[r][made[r] + 1], BeginDataPhase(r, c)
      PROVE  Moved(r)
  <2>1. c \in Calls /\ r \in Members[c.group] /\ c.kind \in Kinds
    BY <1>2, PlannedCall, CallFields
  <2>2. /\ call' = [call EXCEPT ![r] = c] /\ made' = [made EXCEPT ![r] = @ + 1]
        /\ closes' = closes /\ tickets' = [tickets EXCEPT ![r] = @ \ {Ticket(c)}]
        /\ c.kind = "all_to_all_v"
    BY <1>2 DEF BeginDataPhase, Chosen
  <2>3. tickets' \in [Ranks -> SUBSET Tickets]
    BY <1>c, <2>2
  <2>4. CASE pc' = [pc EXCEPT ![r] = "idle"] /\ lease' = [lease EXCEPT ![r] = 0]
    BY <1>c, <2>1, <2>2, <2>3, <2>4, SMT
  <2>5. CASE pc' = [pc EXCEPT ![r] = "lease"] /\ lease' = lease
    BY <1>c, <2>1, <2>2, <2>3, <2>5, SMT
  <2>6. QED
    BY <1>2, <2>4, <2>5 DEF BeginDataPhase, Return, Goto
<1>3. ASSUME made[r] < Len(Plan[r]), NEW c \in Plan[r][made[r] + 1], Control(r, c)
      PROVE  Moved(r)
  <2>1. c \in Calls /\ r \in Members[c.group] /\ c.kind \in Kinds
    BY <1>3, PlannedCall, CallFields
  <2>2. QED
    BY <1>c, <1>3, <2>1, SMT DEF Control, Chosen, Return, Goto, Kinds
<1>4. ASSUME made[r] < Len(Plan[r]), NEW c \in Plan[r][made[r] + 1], ControlRefused(r, c)
      PROVE  Moved(r)
  <2>1. c \in Calls /\ r \in Members[c.group] /\ c.kind \in Kinds
    BY <1>4, PlannedCall, CallFields
  <2>2. QED
    BY <1>c, <1>4, <2>1, SMT DEF ControlRefused, Chosen, Return, Goto, Kinds
<1>5. CASE TakeLease(r)
  BY <1>c, <1>n, <1>5 DEF TakeLease, Goto, AfterLease, callVars
<1>6. CASE LeaseRefused(r)
  BY <1>c, <1>n, <1>6 DEF LeaseRefused, Return, Goto
<1>7. CASE Order(r)
  BY <1>c, <1>n, <1>7 DEF Order, Goto, callVars
<1>8. CASE OrderRefused(r)
  <2>1. call' = call /\ made' = made /\ tickets' = tickets /\ pc[r] = "order"
    BY <1>8 DEF OrderRefused
  <2>2. CASE call[r].kind = "exchange_counts"
    <3>1. /\ pc' = [pc EXCEPT ![r] = "idle"] /\ lease' = [lease EXCEPT ![r] = 0]
          /\ closes' = closes
      BY <1>8, <2>2 DEF OrderRefused, Return, Goto
    <3>2. QED
      BY <1>c, <2>1, <3>1
  <2>3. CASE call[r].kind # "exchange_counts"
    <3>1. /\ pc' = [pc EXCEPT ![r] = "begin_abort"] /\ lease' = lease
          /\ closes' = [closes EXCEPT ![r] = FALSE]
      BY <1>8, <2>3 DEF OrderRefused, Fail, Goto
    <3>2. QED
      BY <1>c, <2>1, <2>3, <3>1
  <2>4. QED
    BY <2>2, <2>3
<1>9. CASE OrderDataPhase(r)
  BY <1>c, <1>n, <1>9 DEF OrderDataPhase, Fail, Goto
<1>10. CASE Check(r)
  BY <1>c, <1>n, <1>10 DEF Check, Goto, callVars
<1>11. CASE Park(r)
  BY <1>c, <1>n, <1>11 DEF Park, Goto, callVars
<1>12. CASE LeaveAborted(r)
  <2>1. /\ call' = call /\ made' = made /\ tickets' = tickets /\ pc[r] = "leave"
        /\ call[r].kind # "barrier"
    BY <1>12 DEF LeaveAborted, Phase
  <2>2. CASE call[r].kind = "exchange_counts"
    <3>1. /\ pc' = [pc EXCEPT ![r] = "idle"] /\ lease' = [lease EXCEPT ![r] = 0]
          /\ closes' = closes
      BY <1>12, <2>2 DEF LeaveAborted, Return, Goto
    <3>2. QED
      BY <1>c, <2>1, <3>1
  <2>3. CASE call[r].kind # "exchange_counts"
    <3>1. /\ pc' = [pc EXCEPT ![r] = "begin_abort"] /\ lease' = lease
          /\ closes' = [closes EXCEPT ![r] = FALSE]
      BY <1>12, <2>3 DEF LeaveAborted, Fail, Goto
    <3>2. QED
      BY <1>c, <2>1, <2>3, <3>1
  <2>4. QED
    BY <2>2, <2>3
<1>13. CASE LeaveWithOutput(r)
  <2>1. call' = call /\ made' = made /\ pc[r] = "leave" /\ call[r] \in Calls
    BY <1>c, <1>13 DEF LeaveWithOutput
  <2>2. CASE Phase(call[r]) = "counts"
    <3>1. /\ pc' = [pc EXCEPT ![r] = "idle"] /\ lease' = [lease EXCEPT ![r] = 0]
          /\ closes' = closes
          /\ tickets' = [tickets EXCEPT ![r] = @ \cup {Ticket(call[r])}]
      BY <1>13, <2>2 DEF LeaveWithOutput, Return, Goto
    <3>2. Ticket(call[r]) \in Tickets
      BY <2>1, TicketType
    <3>3. tickets' \in [Ranks -> SUBSET Tickets]
      BY <1>c, <3>1, <3>2
    <3>4. QED
      BY <1>c, <2>1, <3>1, <3>3
  <2>3. CASE Phase(call[r]) = "data"
    <3>1. /\ lease' = lease /\ tickets' = tickets
          /\ \/ pc' = [pc EXCEPT ![r] = "finish"] /\ closes' = closes
             \/ pc' = [pc EXCEPT ![r] = "begin_abort"] /\ closes' = [closes EXCEPT ![r] = TRUE]
      BY <1>13, <2>3 DEF LeaveWithOutput, Fail, Goto
    <3>2. call[r].kind \in DataKinds
      BY <1>c, <2>1, <2>3 DEF Phase
    <3>3. QED
      BY <1>c, <2>1, <3>1, <3>2
  <2>4. QED
    BY <1>13, <2>2, <2>3 DEF LeaveWithOutput
<1>14. CASE LeaveBarrier(r)
  BY <1>c, <1>n, <1>14 DEF LeaveBarrier, Return, Goto
<1>15. CASE Finish(r)
  BY <1>c, <1>n, <1>15, SMT DEF Finish, Return, Goto
<1>16. CASE FinishMismatch(r)
  BY <1>c, <1>n, <1>16 DEF FinishMismatch, Fail, Goto
<1>17. CASE CompleteOk(r)
  BY <1>c, <1>n, <1>17 DEF CompleteOk, Return, Goto
<1>18. CASE RetireBegin(r)
  BY <1>c, <1>n, <1>18 DEF RetireBegin, Goto, callVars
<1>19. CASE RetireQuiesce(r)
  BY <1>c, <1>n, <1>19, SMT DEF RetireQuiesce, Return, Goto
<1>20. CASE CompleteError(r)
  BY <1>c, <1>n, <1>20 DEF CompleteError, Return, Goto
<1>21. CASE Post(r)
  BY <1>c, <1>n, <1>21 DEF Post, Goto, callVars
<1>22. CASE Take(r)
  BY <1>c, <1>n, <1>22, SMT DEF Take, Return, Goto
<1>23. CASE Enter(r)
  <2>1. /\ call' = call /\ made' = made /\ tickets' = tickets /\ pc[r] = "enter"
        /\ call[r].kind \in Ordered
    BY <1>c, <1>23 DEF Enter
  <2>2. CASE Diverges(r) /\ call[r].kind = "exchange_counts"
    <3>1. /\ pc' = [pc EXCEPT ![r] = "idle"] /\ lease' = [lease EXCEPT ![r] = 0]
          /\ closes' = closes
      BY <1>23, <2>2 DEF Enter, RefuseContribution, Return, Goto
    <3>2. QED
      BY <1>c, <2>1, <3>1
  <2>3. CASE Diverges(r) /\ call[r].kind # "exchange_counts"
    <3>1. /\ pc' = [pc EXCEPT ![r] = "begin_abort"] /\ lease' = lease
          /\ closes' = [closes EXCEPT ![r] = Entered(r).signature # call[r].sig]
      BY <1>23, <2>3 DEF Enter, RefuseContribution, Fail, Goto
    <3>2. closes' \in [Ranks -> BOOLEAN]
      BY <1>c, <3>1
    <3>3. QED
      BY <1>c, <2>1, <2>3, <3>1, <3>2
  <2>4. CASE ~Diverges(r)
    <3>1. lease' = lease /\ closes' = closes
      BY <1>23, <2>4 DEF Enter, Contribute
    <3>2. \/ pc' = [pc EXCEPT ![r] = "check"]
          \/ NotifyAndGoto(r, Phase(call[r]), "check")
      BY <1>23, <2>4 DEF Enter, Contribute, Goto
    <3>3. CASE pc' = [pc EXCEPT ![r] = "check"]
      BY <1>c, <2>1, <3>1, <3>3
    <3>4. CASE NotifyAndGoto(r, Phase(call[r]), "check")
      BY <1>c, <2>1, <3>1, <3>4 DEF NotifyAndGoto, Waiting
    <3>5. QED
      BY <3>2, <3>3, <3>4
  <2>5. QED
    BY <2>2, <2>3, <2>4
<1>24. CASE Arrive(r)
  BY <1>c, <1>n, <1>24, SMT DEF Arrive, NotifyAndGoto, Waiting, Return, Goto
<1>25. CASE Reacquire(r)
  BY <1>c, <1>n, <1>25 DEF Reacquire, Goto, callVars
<1>26. CASE SpuriousWakeup(r)
  BY <1>c, <1>n, <1>26 DEF SpuriousWakeup, Goto, callVars
<1>27. QED
  BY <1>1, <1>2, <1>3, <1>4, <1>5, <1>6, <1>7, <1>8, <1>9, <1>10, <1>11, <1>12, <1>13, <1>14,
     <1>15, <1>16, <1>17, <1>18, <1>19, <1>20, <1>21, <1>22, <1>23, <1>24, <1>25, <1>26
     DEF RankStep, Start, Run, Acquire

-----------------------------------------------------------------------------
(* The registry.  Its lease invariants are inductive together:              *)
(* FreedHasNoLease keeps a free from taking a leased buffer only because    *)
(* BuffersAvailable refuses freed ones.                                     *)

\* The empty registry is well typed.
LEMMA RegistryInitType == RegistryInit => RegistryTypeOK
  BY RegistryAssumption, SMT DEF RegistryInit, RegistryTypeOK, Live, Entry

\* Every registry operation keeps the state well typed.
LEMMA RegistryStepType == RegistryTypeOK /\ [RegistryNext]_registryVars => RegistryTypeOK'
<1> SUFFICES ASSUME RegistryTypeOK, [RegistryNext]_registryVars PROVE RegistryTypeOK'
  OBVIOUS
<1> USE RegistryAssumption DEF RegistryTypeOK, Live, Entry
<1>1. ASSUME NEW reads \in SUBSET Allocations, NEW writes \in SUBSET Allocations,
             RegistrySubmit(reads, writes)
      PROVE  RegistryTypeOK'
  <2>1. /\ DOMAIN operations' = DOMAIN operations \cup {nextOperation}
        /\ nextOperation' = nextOperation + 1
        /\ nextOperation <= MaxOperations
    BY <1>1 DEF RegistrySubmit
  <2>2. operations' \in [DOMAIN operations' -> Entry]
    BY <1>1, <2>1 DEF RegistrySubmit
  <2>3. DOMAIN operations' \subseteq 1..(nextOperation' - 1)
    BY <2>1, SMT
  <2>4. QED
    BY <1>1, <2>1, <2>2, <2>3, SMT DEF RegistrySubmit
<1>2. ASSUME NEW o \in Live, Detach(o) PROVE RegistryTypeOK'
  <2> DEFINE e == [operations[o] EXCEPT !.attached = FALSE]
  <2>1. operations[o] \in Entry
    OBVIOUS
  <2>2. e \in Entry
    BY <2>1
  <2>3. operations' = [operations EXCEPT ![o] = e]
    BY <1>2 DEF Detach
  <2> HIDE DEF e
  <2>4. operations' \in [DOMAIN operations -> Entry] /\ DOMAIN operations' = DOMAIN operations
    BY <2>2, <2>3
  <2>5. QED
    BY <1>2, <2>4 DEF Detach
<1>3. ASSUME NEW o \in Live, BeginAbort(o) PROVE RegistryTypeOK'
  <2> DEFINE e == [operations[o] EXCEPT !.state = "aborting"]
  <2>1. operations[o] \in Entry
    OBVIOUS
  <2>2. e \in Entry
    BY <2>1
  <2>3. operations' = [operations EXCEPT ![o] = e]
    BY <1>3 DEF BeginAbort
  <2> HIDE DEF e
  <2>4. operations' \in [DOMAIN operations -> Entry] /\ DOMAIN operations' = DOMAIN operations
    BY <2>2, <2>3
  <2>5. QED
    BY <1>3, <2>4 DEF BeginAbort
<1>4. ASSUME NEW o \in Live, CompleteSuccess(o) PROVE RegistryTypeOK'
  BY <1>4, SMT DEF CompleteSuccess, Remove
<1>5. ASSUME NEW o \in Live, QuiesceAbort(o) PROVE RegistryTypeOK'
  BY <1>5, SMT DEF QuiesceAbort, Remove
<1>6. ASSUME NEW b \in Allocations, FreeBuffer(b) PROVE RegistryTypeOK'
  BY <1>6 DEF FreeBuffer
<1>7. ASSUME NEW floor \in Allocations, SealAllocatorEpoch(floor) PROVE RegistryTypeOK'
  BY <1>7 DEF SealAllocatorEpoch
<1>8. CASE UNCHANGED registryVars
  BY <1>8 DEF registryVars
<1>9. QED
  BY <1>1, <1>2, <1>3, <1>4, <1>5, <1>6, <1>7, <1>8 DEF RegistryNext

\* The registry's state always has the shape its struct declares, and an
\* operation id is handed out once.
THEOREM RegistryTypeCorrect == RegistrySpec => []RegistryTypeOK
<1>1. QED
  BY RegistryInitType, RegistryStepType, PTL DEF RegistrySpec

-----------------------------------------------------------------------------
ConflictInv == NoConflictingActiveLeases /\ FreedHasNoLease

\* What a step may do to the leases: an operation that stays keeps its lease
\* sets, and one that appears was admitted by BuffersAvailable.
LeasesKept ==
    \A o \in Live' : o \in Live =>
        /\ operations'[o].reads = operations[o].reads
        /\ operations'[o].writes = operations[o].writes

\* Every operation but submit leaves the surviving lease sets alone.
LEMMA QuietSteps ==
  ASSUME RegistryTypeOK,
         \/ UNCHANGED registryVars
         \/ \E o \in Live : Detach(o)
         \/ \E o \in Live : BeginAbort(o)
         \/ \E o \in Live : CompleteSuccess(o)
         \/ \E o \in Live : QuiesceAbort(o)
         \/ \E b \in Allocations : FreeBuffer(b)
         \/ \E floor \in Allocations : SealAllocatorEpoch(floor)
  PROVE  LeasesKept /\ Live' \subseteq Live
<1> USE DEF RegistryTypeOK, Live, Entry, LeasesKept
<1>1. CASE UNCHANGED registryVars
  BY <1>1 DEF registryVars
<1>2. ASSUME NEW o \in Live, Detach(o) PROVE LeasesKept /\ Live' \subseteq Live
  BY <1>2 DEF Detach
<1>3. ASSUME NEW o \in Live, BeginAbort(o) PROVE LeasesKept /\ Live' \subseteq Live
  BY <1>3 DEF BeginAbort
<1>4. ASSUME NEW o \in Live, CompleteSuccess(o) PROVE LeasesKept /\ Live' \subseteq Live
  BY <1>4 DEF CompleteSuccess, Remove
<1>5. ASSUME NEW o \in Live, QuiesceAbort(o) PROVE LeasesKept /\ Live' \subseteq Live
  BY <1>5 DEF QuiesceAbort, Remove
<1>6. ASSUME NEW b \in Allocations, FreeBuffer(b) PROVE LeasesKept /\ Live' \subseteq Live
  BY <1>6 DEF FreeBuffer
<1>7. ASSUME NEW floor \in Allocations, SealAllocatorEpoch(floor)
      PROVE  LeasesKept /\ Live' \subseteq Live
  BY <1>7 DEF SealAllocatorEpoch
<1>8. QED
  BY <1>1, <1>2, <1>3, <1>4, <1>5, <1>6, <1>7

\* Submission, release, free and epoch sealing preserve both lease invariants.
LEMMA StepLeases == RegistryTypeOK /\ ConflictInv /\ [RegistryNext]_registryVars => ConflictInv'
<1> SUFFICES ASSUME RegistryTypeOK, ConflictInv, [RegistryNext]_registryVars PROVE ConflictInv'
  OBVIOUS
<1> USE DEF ConflictInv
<1>t. RegistryTypeOK'
  BY RegistryStepType
<1>1. ASSUME NEW reads \in SUBSET Allocations, NEW writes \in SUBSET Allocations,
             RegistrySubmit(reads, writes)
      PROVE  ConflictInv'
  <2> DEFINE n == nextOperation
  <2>1. /\ Live' = Live \cup {n}
        /\ n \notin Live
        /\ operations'[n].reads = reads
        /\ operations'[n].writes = writes
        /\ \A o \in Live : operations'[o] = operations[o]
        /\ freed' = freed /\ retiredBefore' = retiredBefore
    BY <1>1, SMT DEF RegistrySubmit, RegistryTypeOK, Live
  <2>2. BuffersAvailable(reads, writes)
    BY <1>1 DEF RegistrySubmit
  <2> HIDE DEF n
  <2>3. NoConflictingActiveLeases'
    BY <2>1, <2>2 DEF NoConflictingActiveLeases, BuffersAvailable, References
  <2>4. FreedHasNoLease'
    BY <2>1, <2>2 DEF FreedHasNoLease, BuffersAvailable, References, IsFreed
  <2>5. QED
    BY <2>3, <2>4
<1>2. ASSUME LeasesKept, Live' \subseteq Live
      PROVE  NoConflictingActiveLeases'
  BY <1>2 DEF LeasesKept, NoConflictingActiveLeases, References
<1>3. ASSUME LeasesKept, Live' \subseteq Live, freed' = freed,
             retiredBefore' = retiredBefore
      PROVE  FreedHasNoLease'
  BY <1>3 DEF LeasesKept, FreedHasNoLease, References, IsFreed
<1>4. CASE UNCHANGED registryVars
  BY <1>2, <1>3, <1>4, QuietSteps DEF registryVars
<1>5. ASSUME NEW o \in Live, Detach(o) PROVE ConflictInv'
  BY <1>2, <1>3, <1>5, QuietSteps DEF Detach
<1>6. ASSUME NEW o \in Live, BeginAbort(o) PROVE ConflictInv'
  BY <1>2, <1>3, <1>6, QuietSteps DEF BeginAbort
<1>7. ASSUME NEW o \in Live, CompleteSuccess(o) PROVE ConflictInv'
  BY <1>2, <1>3, <1>7, QuietSteps DEF CompleteSuccess
<1>8. ASSUME NEW o \in Live, QuiesceAbort(o) PROVE ConflictInv'
  BY <1>2, <1>3, <1>8, QuietSteps DEF QuiesceAbort
<1>9. ASSUME NEW b \in Allocations, FreeBuffer(b) PROVE ConflictInv'
  <2>1. NoConflictingActiveLeases'
    BY <1>2, <1>9, QuietSteps
  <2>2. FreedHasNoLease'
    BY <1>9 DEF FreeBuffer, FreedHasNoLease, References, IsFreed, Live
  <2>3. QED
    BY <2>1, <2>2
<1>10. ASSUME NEW floor \in Allocations, SealAllocatorEpoch(floor)
       PROVE  ConflictInv'
  <2>1. NoConflictingActiveLeases'
    BY <1>2, <1>10, QuietSteps
  <2>2. FreedHasNoLease'
    BY <1>10, RegistryAssumption, SMT
       DEF SealAllocatorEpoch, FreedHasNoLease, References, IsFreed, Live, RegistryTypeOK
  <2>3. QED
    BY <2>1, <2>2
<1>11. QED
  BY <1>1, <1>4, <1>5, <1>6, <1>7, <1>8, <1>9, <1>10 DEF RegistryNext

\* snapshot() can never report an error: no two live operations conflict and
\* no freed allocation is leased, for every history of calls.
THEOREM LeasesNeverConflict == RegistrySpec => [](NoConflictingActiveLeases /\ FreedHasNoLease)
<1>1. RegistryInit => ConflictInv
  BY DEF RegistryInit, ConflictInv, NoConflictingActiveLeases, FreedHasNoLease, Live
<1>2. QED
  BY <1>1, RegistryInitType, RegistryStepType, StepLeases, PTL DEF RegistrySpec, ConflictInv

-----------------------------------------------------------------------------
\* What is needed of finite sets to count.  CountingHolds proves it, at the
\* end of InProcessProofs: the library's theorems would slow down every proof
\* that has them in its context.
CountingLaws ==
    /\ IsFiniteSet({}) /\ Cardinality({}) = 0
    /\ \A n \in Nat : IsFiniteSet(1..n)
    /\ \A S : IsFiniteSet(S) =>
         /\ Cardinality(S) \in Nat
         /\ \A x : x \notin S =>
              IsFiniteSet(S \cup {x}) /\ Cardinality(S \cup {x}) = Cardinality(S) + 1
         /\ \A x \in S : Cardinality(S \ {x}) = Cardinality(S) - 1
         /\ \A T : T \subseteq S =>
              /\ IsFiniteSet(T) /\ Cardinality(T) <= Cardinality(S)
              /\ Cardinality(T) = Cardinality(S) => T = S

\* The live ids are a set of small naturals, and the tombstone set grows by
\* one element at a time.
CountInv ==
    /\ CountingLaws
    /\ IsFiniteSet(freed)
    /\ TombstonesBounded
    /\ OperationsAccounted

\* The live operations are finitely many.
LEMMA LiveFinite == CountingLaws /\ RegistryTypeOK => IsFiniteSet(Live)
<1>1. SUFFICES ASSUME CountingLaws, RegistryTypeOK PROVE IsFiniteSet(Live)
  OBVIOUS
<1>2. nextOperation - 1 \in Nat
  BY <1>1, RegistryAssumption, SMT DEF RegistryTypeOK
<1>3. QED
  BY <1>1, <1>2 DEF RegistryTypeOK, CountingLaws

\* A step that keeps the live ids and the counters keeps the account.
LEMMA SameCount ==
  ASSUME OperationsAccounted, Live' = Live, nextOperation' = nextOperation,
         completedOk' = completedOk, completedError' = completedError
  PROVE  OperationsAccounted'
  BY DEF OperationsAccounted

\* Removing one live operation frees exactly one place in the account.
LEMMA OneLess ==
  ASSUME CountingLaws, RegistryTypeOK, NEW o \in Live, Remove(o)
  PROVE  /\ Live' = Live \ {o}
         /\ Cardinality(Live') = Cardinality(Live) - 1
         /\ Cardinality(Live) \in Nat
<1>1. Live' = Live \ {o}
  BY DEF Remove, Live
<1>2. IsFiniteSet(Live)
  BY LiveFinite
<1>3. QED
  BY <1>1, <1>2 DEF CountingLaws

\* The tombstone window and the operation account survive every step.
LEMMA StepCount == RegistryTypeOK /\ CountInv /\ [RegistryNext]_registryVars => CountInv'
<1> SUFFICES ASSUME RegistryTypeOK, CountInv, [RegistryNext]_registryVars PROVE CountInv'
  OBVIOUS
<1> USE DEF CountInv
<1>a. ASSUME freed' = freed, retiredBefore' = retiredBefore
      PROVE  IsFiniteSet(freed)' /\ TombstonesBounded'
  BY <1>a DEF TombstonesBounded
<1>1. ASSUME NEW reads \in SUBSET Allocations, NEW writes \in SUBSET Allocations,
             RegistrySubmit(reads, writes)
      PROVE  CountInv'
  <2>1. Live' = Live \cup {nextOperation} /\ nextOperation \notin Live
    BY <1>1, SMT DEF RegistrySubmit, RegistryTypeOK, Live
  <2>2. IsFiniteSet(Live) /\ Cardinality(Live) \in Nat
    BY LiveFinite DEF CountingLaws
  <2>3. Cardinality(Live') = Cardinality(Live) + 1
    BY <2>1, <2>2 DEF CountingLaws
  <2>4. /\ nextOperation' = nextOperation + 1
        /\ completedOk' = completedOk /\ completedError' = completedError
    BY <1>1 DEF RegistrySubmit
  <2>5. OperationsAccounted'
    BY <2>2, <2>3, <2>4, RegistryAssumption, SMT DEF OperationsAccounted, RegistryTypeOK
  <2>6. QED
    BY <1>a, <1>1, <2>5 DEF RegistrySubmit
<1>2. ASSUME NEW o \in Live, Detach(o) PROVE CountInv'
  <2>1. Live' = Live
    BY <1>2 DEF Detach, Live, RegistryTypeOK
  <2>2. QED
    BY <1>a, <1>2, <2>1, SameCount DEF Detach
<1>3. ASSUME NEW o \in Live, BeginAbort(o) PROVE CountInv'
  <2>1. Live' = Live
    BY <1>3 DEF BeginAbort, Live, RegistryTypeOK
  <2>2. QED
    BY <1>a, <1>3, <2>1, SameCount DEF BeginAbort
<1>4. ASSUME NEW o \in Live, CompleteSuccess(o) PROVE CountInv'
  <2>1. Remove(o) /\ completedOk' = completedOk + 1
        /\ completedError' = completedError /\ nextOperation' = nextOperation
    BY <1>4 DEF CompleteSuccess
  <2>2. OperationsAccounted'
    BY <2>1, OneLess, SMT DEF OperationsAccounted, RegistryTypeOK
  <2>3. QED
    BY <1>a, <1>4, <2>2 DEF CompleteSuccess
<1>5. ASSUME NEW o \in Live, QuiesceAbort(o) PROVE CountInv'
  <2>1. Remove(o) /\ completedError' = completedError + 1
        /\ completedOk' = completedOk /\ nextOperation' = nextOperation
    BY <1>5 DEF QuiesceAbort
  <2>2. OperationsAccounted'
    BY <2>1, OneLess, SMT DEF OperationsAccounted, RegistryTypeOK
  <2>3. QED
    BY <1>a, <1>5, <2>2 DEF QuiesceAbort
<1>6. ASSUME NEW b \in Allocations, FreeBuffer(b) PROVE CountInv'
  <2>1. /\ freed' = freed \cup {b} /\ b \notin freed /\ ~(b < retiredBefore)
        /\ Cardinality(freed) < MaxTombstones
        /\ retiredBefore' = retiredBefore
    BY <1>6 DEF FreeBuffer, IsFreed
  <2>2. Cardinality(freed) \in Nat
    BY DEF CountingLaws
  <2>3. IsFiniteSet(freed') /\ Cardinality(freed') = Cardinality(freed) + 1
    BY <2>1 DEF CountingLaws
  <2>4. Cardinality(freed') <= MaxTombstones
    BY <2>1, <2>2, <2>3, RegistryAssumption, SMT
  <2>5. TombstonesBounded'
    BY <2>1, <2>4, RegistryAssumption, SMT DEF TombstonesBounded, RegistryTypeOK
  <2>6. OperationsAccounted'
    BY <1>6, SameCount DEF FreeBuffer, Live
  <2>7. QED
    BY <2>3, <2>5, <2>6
<1>7. ASSUME NEW floor \in Allocations, SealAllocatorEpoch(floor) PROVE CountInv'
  <2>1. freed' \subseteq freed /\ \A b \in freed' : b >= retiredBefore'
    BY <1>7 DEF SealAllocatorEpoch
  <2>2. IsFiniteSet(freed') /\ Cardinality(freed') <= Cardinality(freed)
    BY <2>1 DEF CountingLaws
  <2>3. Cardinality(freed) \in Nat /\ Cardinality(freed') \in Nat
    BY <2>2 DEF CountingLaws
  <2>4. TombstonesBounded'
    BY <2>1, <2>2, <2>3, RegistryAssumption, SMT DEF TombstonesBounded
  <2>5. OperationsAccounted'
    BY <1>7, SameCount DEF SealAllocatorEpoch, Live
  <2>6. QED
    BY <2>2, <2>4, <2>5
<1>8. CASE UNCHANGED registryVars
  BY <1>a, <1>8, SameCount DEF registryVars, Live
<1>9. QED
  BY <1>1, <1>2, <1>3, <1>4, <1>5, <1>6, <1>7, <1>8 DEF RegistryNext

\* Nothing is live and nothing freed at the start.
LEMMA InitCount == CountingLaws /\ RegistryInit => CountInv
<1>1. SUFFICES ASSUME CountingLaws, RegistryInit PROVE CountInv
  OBVIOUS
<1>2. freed = {} /\ Live = {} /\ nextOperation = 1 /\ completedOk = 0
      /\ completedError = 0
  BY <1>1 DEF RegistryInit, Live
<1>3. TombstonesBounded /\ OperationsAccounted
  BY <1>1, <1>2, RegistryAssumption, SMT DEF TombstonesBounded, OperationsAccounted, CountingLaws
<1>4. QED
  BY <1>1, <1>2, <1>3 DEF CountInv, CountingLaws

-----------------------------------------------------------------------------
\* A freed allocation stays freed, although seal_allocator_epoch discards
\* its tombstone: the floor that replaces it covers it.
THEOREM FreedIsForever == RegistrySpec => FreedForever
<1> DEFINE StaysFreed == \A b \in Allocations : IsFreed(b) => IsFreed(b)'
<1>1. RegistryTypeOK /\ [RegistryNext]_registryVars => StaysFreed
  <2>1. SUFFICES ASSUME RegistryTypeOK, [RegistryNext]_registryVars PROVE StaysFreed
    OBVIOUS
  <2>2. ASSUME freed' = freed, retiredBefore' = retiredBefore PROVE StaysFreed
    BY <2>2 DEF IsFreed
  <2>3. ASSUME NEW b \in Allocations, FreeBuffer(b) PROVE StaysFreed
    BY <2>3 DEF FreeBuffer, IsFreed
  <2>4. ASSUME NEW floor \in Allocations, SealAllocatorEpoch(floor) PROVE StaysFreed
    BY <2>1, <2>4, RegistryAssumption, SMT DEF SealAllocatorEpoch, IsFreed, RegistryTypeOK
  <2>5. QED
    BY <2>1, <2>2, <2>3, <2>4
       DEF RegistryNext, registryVars, RegistrySubmit, Detach, BeginAbort, CompleteSuccess,
          QuiesceAbort
<1>2. RegistryTypeOK /\ [RegistryNext]_registryVars => [StaysFreed]_registryVars
  BY <1>1
<1>3. QED
  BY <1>2, RegistryTypeCorrect, PTL DEF RegistrySpec, FreedForever

\* Dropping a handle releases nothing; leases go only with the terminal
\* transition that counts the operation.
THEOREM LeasesReleasedAtTerminal == RegistrySpec => ReleasedOnlyAtTerminal
<1> DEFINE Rel ==
      \A o \in Live :
         IF o \in Live'
         THEN /\ operations'[o].reads = operations[o].reads
              /\ operations'[o].writes = operations[o].writes
         ELSE IF operations[o].state = "aborting"
              THEN completedError' = completedError + 1
              ELSE completedOk' = completedOk + 1
<1>1. RegistryTypeOK /\ [RegistryNext]_registryVars => Rel
  <2>1. SUFFICES ASSUME RegistryTypeOK, [RegistryNext]_registryVars PROVE Rel
    OBVIOUS
  <2>2. ASSUME NEW reads \in SUBSET Allocations, NEW writes \in SUBSET Allocations,
               RegistrySubmit(reads, writes)
        PROVE  Rel
    BY <2>1, <2>2, SMT DEF RegistrySubmit, Live, RegistryTypeOK
  <2>3. ASSUME NEW o \in Live, Detach(o) PROVE Rel
    BY <2>1, <2>3 DEF Detach, Live, RegistryTypeOK, Entry
  <2>4. ASSUME NEW o \in Live, BeginAbort(o) PROVE Rel
    BY <2>1, <2>4 DEF BeginAbort, Live, RegistryTypeOK, Entry
  <2>5. ASSUME NEW o \in Live, CompleteSuccess(o) PROVE Rel
    BY <2>1, <2>5 DEF CompleteSuccess, Remove, Live, RegistryTypeOK, Entry
  <2>6. ASSUME NEW o \in Live, QuiesceAbort(o) PROVE Rel
    BY <2>1, <2>6 DEF QuiesceAbort, Remove, Live, RegistryTypeOK, Entry
  <2>7. ASSUME operations' = operations PROVE Rel
    BY <2>7 DEF Live
  <2>8. QED
    BY <2>1, <2>2, <2>3, <2>4, <2>5, <2>6, <2>7
       DEF RegistryNext, registryVars, FreeBuffer, SealAllocatorEpoch
<1>2. RegistryTypeOK /\ [RegistryNext]_registryVars => [Rel]_registryVars
  BY <1>1
<1>3. QED
  BY <1>2, RegistryTypeCorrect, PTL DEF RegistrySpec, ReleasedOnlyAtTerminal

-----------------------------------------------------------------------------
(* The sequencer.                                                           *)

\* CommInstanceId's order is strict.
LEMMA BeforeStrict ==
  ASSUME NEW i \in Instances, NEW j \in Instances, NEW k \in Instances
  PROVE  ~Before(i, i) /\ (Before(i, j) /\ Before(j, k) => Before(i, k))
  BY SequencerAssumption, SMT DEF Before, Instances, Executions

\* What AdvanceGroup does to a group's order: it stays or gets one more slot.
LEMMA AdvanceShape ==
  ASSUME SequencerTypeOK, NEW g \in Groups, NEW r \in Ranks, NEW slot \in Slots,
         AdvanceGroup(g, r, slot)
  PROVE  /\ canonical' \in [Groups -> Seq(Slots)]
         /\ cursors' \in [Groups -> [Ranks -> Nat]]
         /\ emitted' \in [Groups -> [Ranks -> Seq(Slots)]]
         /\ canonical'[g] = IF cursors[g][r] < Len(canonical[g])
                            THEN canonical[g] ELSE Append(canonical[g], slot)
         /\ cursors'[g][r] = cursors[g][r] + 1
         /\ emitted'[g][r] = Append(emitted[g][r], slot)
         /\ \A h \in Groups : h # g => /\ canonical'[h] = canonical[h]
                                       /\ cursors'[h] = cursors[h]
                                       /\ emitted'[h] = emitted[h]
         /\ \A q \in Ranks : q # r => /\ cursors'[g][q] = cursors[g][q]
                                      /\ emitted'[g][q] = emitted[g][q]
  BY SMT DEF AdvanceGroup, SequencerTypeOK

\* The sequencer starts well typed.
LEMMA SequencerInitType == SequencerInit => SequencerTypeOK
<1> SUFFICES ASSUME SequencerInit PROVE SequencerTypeOK
  OBVIOUS
<1>1. <<>> \in Seq(Slots)
  BY SMT
<1>2. decidedPrefix \in 0..MaxExecution
  BY SequencerAssumption, SMT DEF SequencerInit
<1>3. QED
  BY <1>1, <1>2 DEF SequencerInit, SequencerTypeOK, Decisions

\* Every call keeps the state well typed.
LEMMA SequencerStepType == SequencerTypeOK /\ [SequencerNext]_sequencerVars => SequencerTypeOK'
<1> SUFFICES ASSUME SequencerTypeOK, [SequencerNext]_sequencerVars PROVE SequencerTypeOK'
  OBVIOUS
<1>d. ASSUME NEW e \in Executions, NEW d \in Decisions, Decide(e, d)
      PROVE  (decisions \in [Executions -> Decisions])' /\ (decidedPrefix \in 0..MaxExecution)'
  BY <1>d, SequencerAssumption, SMT DEF Decide, SequencerTypeOK, Executions
<1>1. ASSUME NEW e \in Executions, NEW d \in {"admitted", "skipped"}, Announce(e, d)
      PROVE  SequencerTypeOK'
  BY <1>d, <1>1 DEF Announce, SequencerTypeOK, Decisions
<1>2. ASSUME NEW g \in Groups, NEW i \in Instances, NEW r \in Members[g]
      PROVE  r \in Ranks /\ i[1] \in Executions
  BY SequencerAssumption DEF Instances
<1>3. ASSUME NEW g \in Groups, NEW i \in Instances, NEW r \in Members[g],
             NEW s \in Signatures, SequencerSubmit(g, r, i, s)
      PROVE  SequencerTypeOK'
  <2>1. r \in Ranks /\ i[1] \in Executions /\ [instance |-> i, op |-> s] \in Slots
    BY <1>2 DEF Slots
  <2>2. (decisions \in [Executions -> Decisions])' /\ (decidedPrefix \in 0..MaxExecution)'
    BY <1>d, <1>3, <2>1 DEF SequencerSubmit, AdmitForSubmit, SequencerTypeOK, Decisions
  <2>3. (active \in SUBSET ActiveSlots)'
    BY <1>3, <2>1, SMT DEF SequencerSubmit, SequencerTypeOK, ActiveSlots
  <2>4. QED
    BY <1>3, <2>1, <2>2, <2>3, AdvanceShape DEF SequencerSubmit, SequencerTypeOK
<1>4. ASSUME NEW g \in Groups, NEW i \in Instances, NEW r \in Members[g],
             NEW s \in Signatures, RefuseSubmit(g, r, i, s)
      PROVE  SequencerTypeOK'
  <2>1. (decisions \in [Executions -> Decisions])' /\ (decidedPrefix \in 0..MaxExecution)'
    BY <1>d, <1>2, <1>4 DEF RefuseSubmit, SequencerTypeOK, Decisions
  <2>2. QED
    BY <1>4, <2>1 DEF RefuseSubmit, SequencerTypeOK
<1>5. ASSUME NEW g \in Groups, NEW i \in Instances, NEW r \in Members[g],
             ObserveSkip(g, r, i)
      PROVE  SequencerTypeOK'
  <2>1. r \in Ranks /\ [instance |-> i, op |-> "skip"] \in Slots
    BY <1>2 DEF Slots
  <2>2. QED
    BY <1>5, <2>1, AdvanceShape DEF ObserveSkip, SequencerTypeOK
<1>6. ASSUME NEW g \in Groups, NEW i \in Instances, NEW r \in Members[g],
             Complete(g, r, i)
      PROVE  SequencerTypeOK'
  BY <1>6 DEF Complete, SequencerTypeOK
<1>7. CASE SequencerAbort
  BY <1>7 DEF SequencerAbort, SequencerTypeOK
<1>8. CASE UNCHANGED sequencerVars
  BY <1>8 DEF sequencerVars, SequencerTypeOK
<1>9. QED
  BY <1>1, <1>3, <1>4, <1>5, <1>6, <1>7, <1>8 DEF SequencerNext

\* The state has the declared shape in every reachable state.
THEOREM SequencerTypeCorrect == SequencerSpec => []SequencerTypeOK
  BY SequencerInitType, SequencerStepType, PTL DEF SequencerSpec

-----------------------------------------------------------------------------
OrderInv == AgreedOrder /\ OrderIncreasing

\* The order of a group and the part of it a rank was let through.
LEMMA GroupOrder ==
  ASSUME SequencerTypeOK, OrderInv, NEW g \in Groups, NEW r \in Ranks
  PROVE  /\ canonical[g] \in Seq(Slots) /\ emitted[g][r] \in Seq(Slots)
         /\ cursors[g][r] = Len(emitted[g][r])
         /\ Len(emitted[g][r]) <= Len(canonical[g])
         /\ Len(canonical[g]) \in Nat /\ Len(emitted[g][r]) \in Nat
         /\ \A k \in 1..Len(emitted[g][r]) : emitted[g][r][k] = canonical[g][k]
         /\ \A j, k \in 1..Len(canonical[g]) :
              j < k => Before(canonical[g][j].instance, canonical[g][k].instance)
<1>1. canonical[g] \in Seq(Slots) /\ emitted[g][r] \in Seq(Slots)
  BY SMT DEF SequencerTypeOK
<1>2. Len(canonical[g]) \in Nat /\ Len(emitted[g][r]) \in Nat
  BY <1>1, SMT
<1>3. QED
  BY <1>1, <1>2 DEF OrderInv, AgreedOrder, OrderIncreasing

\* A slot that fits comes after everything its rank has been let through.
LEMMA FitsLater ==
  ASSUME SequencerTypeOK, OrderInv, NEW g \in Groups, NEW r \in Ranks, NEW slot \in Slots,
         Fits(g, r, slot)
  PROVE  /\ \A k \in 1..Len(emitted[g][r]) :
              Before(emitted[g][r][k].instance, slot.instance)
         /\ cursors[g][r] >= Len(canonical[g]) =>
              \A k \in 1..Len(canonical[g]) :
                 Before(canonical[g][k].instance, slot.instance)
<1> DEFINE can == canonical[g]
           em == emitted[g][r]
           c == cursors[g][r]
<1>1. /\ can \in Seq(Slots) /\ em \in Seq(Slots)
      /\ c = Len(em) /\ Len(em) <= Len(can) /\ Len(can) \in Nat /\ Len(em) \in Nat
      /\ \A k \in 1..Len(em) : em[k] = can[k]
      /\ \A j, k \in 1..Len(can) : j < k => Before(can[j].instance, can[k].instance)
  BY GroupOrder
<1>2. IF c < Len(can) THEN can[c + 1] = slot
      ELSE can # <<>> => Before(can[Len(can)].instance, slot.instance)
  BY DEF Fits
<1>a. \A k \in 1..Len(can) : can[k] \in Slots
  BY <1>1, SMT
<1>3. \A k \in 1..Len(can) : can[k].instance \in Instances
  BY <1>a DEF Slots
<1>4. slot.instance \in Instances
  BY DEF Slots
<1> DEFINE Goal == /\ \A k \in 1..Len(em) : Before(em[k].instance, slot.instance)
                   /\ c >= Len(can) =>
                        \A k \in 1..Len(can) : Before(can[k].instance, slot.instance)
<1>0. SUFFICES Goal
  OBVIOUS
<1> HIDE DEF can, em, c
<1>5. CASE c < Len(can)
  <2>1. c + 1 \in 1..Len(can) /\ can[c + 1].instance = slot.instance
    BY <1>1, <1>2, <1>5, SMT
  <2>2. \A k \in 1..Len(em) : k \in 1..Len(can) /\ k < c + 1
    BY <1>1, SMT
  <2>3. \A k \in 1..Len(em) : Before(can[k].instance, can[c + 1].instance)
    BY <1>1, <2>1, <2>2
  <2>4. QED
    BY <1>1, <1>5, <2>1, <2>3, SMT
<1>6. CASE c >= Len(can)
  <2>1. ASSUME NEW k \in 1..Len(can) PROVE Before(can[k].instance, slot.instance)
    <3>1. can # <<>> /\ Len(can) \in 1..Len(can)
      BY <1>1, <2>1, SMT
    <3>2. Before(can[Len(can)].instance, slot.instance)
      BY <1>1, <1>2, <1>6, <3>1, SMT
    <3>3. CASE k = Len(can)
      BY <3>2, <3>3
    <3>4. CASE k < Len(can)
      BY <1>1, <1>3, <1>4, <3>1, <3>2, <3>4, BeforeStrict
    <3>5. QED
      BY <1>1, <3>3, <3>4, SMT
  <2>2. QED
    <3>1. \A k \in 1..Len(em) : k \in 1..Len(can) /\ em[k] = can[k]
      BY <1>1, SMT
    <3>2. QED
      BY <2>1, <3>1
<1>7. QED
  BY <1>1, <1>5, <1>6, SMT

\* Advancing a rank by a slot that fits keeps the ranks agreed and the order
\* increasing.
LEMMA AdvanceKeepsOrder ==
  ASSUME SequencerTypeOK, OrderInv, NEW g \in Groups, NEW r \in Ranks, NEW slot \in Slots,
         Fits(g, r, slot), AdvanceGroup(g, r, slot)
  PROVE  OrderInv'
<1> DEFINE can == canonical[g]
           new == canonical'[g]
           em == emitted[g][r]
           c == cursors[g][r]
<1>1. /\ can \in Seq(Slots) /\ em \in Seq(Slots)
      /\ c = Len(em) /\ Len(em) <= Len(can) /\ Len(can) \in Nat /\ Len(em) \in Nat
      /\ \A k \in 1..Len(em) : em[k] = can[k]
      /\ \A j, k \in 1..Len(can) : j < k => Before(can[j].instance, can[k].instance)
  BY GroupOrder
<1>2. /\ c < Len(can) => can[c + 1] = slot
      /\ c >= Len(can) => \A k \in 1..Len(can) : Before(can[k].instance, slot.instance)
  BY <1>1, FitsLater DEF Fits
<1>3. /\ new = IF c < Len(can) THEN can ELSE Append(can, slot)
      /\ cursors'[g][r] = c + 1
      /\ emitted'[g][r] = Append(em, slot)
      /\ \A h \in Groups : h # g => /\ canonical'[h] = canonical[h]
                                    /\ cursors'[h] = cursors[h]
                                    /\ emitted'[h] = emitted[h]
      /\ \A q \in Ranks : q # r => /\ cursors'[g][q] = cursors[g][q]
                                   /\ emitted'[g][q] = emitted[g][q]
  BY AdvanceShape
<1> DEFINE En == emitted'[g][r]
<1>4. Len(En) = Len(em) + 1 /\ (\A k \in 1..Len(em) : En[k] = em[k]) /\ En[Len(em) + 1] = slot
  BY <1>1, <1>3, SMT
<1>5. /\ Len(new) \in Nat /\ Len(new) >= Len(can) /\ Len(new) >= c + 1
      /\ \A k \in 1..Len(can) : new[k] = can[k]
      /\ new[c + 1] = slot
  <2>1. CASE c < Len(can)
    BY <1>1, <1>2, <1>3, <2>1, SMT
  <2>2. CASE ~(c < Len(can))
    <3>1. new = Append(can, slot) /\ c = Len(can)
      BY <1>1, <1>3, <2>2, SMT
    <3>2. QED
      BY <1>1, <3>1, SMT
  <2>3. QED
    BY <2>1, <2>2
<1>6. \A j, k \in 1..Len(new) : j < k => Before(new[j].instance, new[k].instance)
  <2>1. CASE c < Len(can)
    BY <1>1, <1>3, <2>1
  <2>2. CASE ~(c < Len(can))
    <3>1. /\ c = Len(can) /\ Len(new) = Len(can) + 1 /\ new[Len(can) + 1] = slot
          /\ \A k \in 1..Len(can) : new[k] = can[k]
      BY <1>1, <1>3, <2>2, SMT
    <3> SUFFICES ASSUME NEW j \in 1..Len(new), NEW k \in 1..Len(new), j < k
                 PROVE  Before(new[j].instance, new[k].instance)
      OBVIOUS
    <3>a. Len(can) \in Nat /\ Len(new) = Len(can) + 1
      BY <1>1, <3>1
    <3>2. j \in 1..Len(can) /\ (k # Len(can) + 1 => k \in 1..Len(can))
      BY <3>a, SMT
    <3> HIDE DEF can, new, c
    <3>3. CASE k = Len(can) + 1
      BY <1>1, <1>2, <3>1, <3>2, <3>3
    <3>4. CASE k # Len(can) + 1
      <4>1. k \in 1..Len(can)
        BY <3>2, <3>4
      <4>2. QED
        BY <1>1, <3>1, <3>2, <4>1
    <3>5. QED
      BY <3>3, <3>4
  <2>3. QED
    BY <2>1, <2>2
<1>7. OrderIncreasing'
  <2> SUFFICES ASSUME NEW h \in Groups
               PROVE  \A j, k \in 1..Len(canonical'[h]) :
                        j < k => Before(canonical'[h][j].instance, canonical'[h][k].instance)
    BY DEF OrderIncreasing
  <2>1. CASE h = g
    BY <1>6, <2>1
  <2>2. CASE h # g
    BY <1>3, <2>2 DEF OrderInv, OrderIncreasing
  <2>3. QED
    BY <2>1, <2>2
<1>8. AgreedOrder'
  <2> SUFFICES ASSUME NEW h \in Groups, NEW q \in Ranks
               PROVE  /\ cursors'[h][q] = Len(emitted'[h][q])
                      /\ Len(emitted'[h][q]) <= Len(canonical'[h])
                      /\ \A k \in 1..Len(emitted'[h][q]) :
                            emitted'[h][q][k] = canonical'[h][k]
    BY DEF AgreedOrder
  <2>1. CASE h # g
    BY <1>3, <2>1, SMT DEF OrderInv, AgreedOrder
  <2>2. CASE h = g /\ q = r
    <3>1. cursors'[g][r] = Len(En)
      BY <1>1, <1>3, <1>4
    <3>2. Len(En) <= Len(new)
      BY <1>1, <1>4, <1>5
    <3>3. ASSUME NEW k \in 1..Len(En) PROVE En[k] = new[k]
      <4>1. k \in 1..Len(em) \/ k = Len(em) + 1
        BY <1>1, <1>4, SMT
      <4>2. CASE k \in 1..Len(em)
        BY <1>1, <1>4, <1>5, <4>2, SMT
      <4>3. CASE k = Len(em) + 1
        BY <1>1, <1>4, <1>5, <4>3
      <4>4. QED
        BY <4>1, <4>2, <4>3
    <3>4. QED
      BY <2>2, <3>1, <3>2, <3>3
  <2>3. CASE h = g /\ q # r
    <3>1. /\ cursors[g][q] = Len(emitted[g][q])
          /\ Len(emitted[g][q]) <= Len(can) /\ Len(emitted[g][q]) \in Nat
          /\ \A k \in 1..Len(emitted[g][q]) : emitted[g][q][k] = can[k]
      BY GroupOrder
    <3>2. cursors'[g][q] = cursors[g][q] /\ emitted'[g][q] = emitted[g][q]
      BY <1>3, <2>3
    <3> HIDE DEF can, new
    <3>3. \A k \in 1..Len(emitted[g][q]) : k \in 1..Len(can)
      BY <1>1, <3>1, SMT
    <3>4. Len(emitted[g][q]) <= Len(new)
      BY <1>1, <1>5, <3>1, SMT
    <3>5. QED
      BY <1>5, <2>3, <3>1, <3>2, <3>3, <3>4 DEF new
  <2>4. QED
    BY <2>1, <2>2, <2>3
<1>9. QED
  BY <1>7, <1>8 DEF OrderInv

\* The order invariants start true and survive every call.
LEMMA InitOrder == SequencerInit => OrderInv
<1> SUFFICES ASSUME SequencerInit PROVE OrderInv
  OBVIOUS
<1>1. \A g \in Groups : canonical[g] = <<>>
  BY DEF SequencerInit
<1>2. \A g \in Groups, r \in Ranks : cursors[g][r] = 0 /\ emitted[g][r] = <<>>
  BY DEF SequencerInit
<1>3. QED
  BY <1>1, <1>2, SMT DEF OrderInv, AgreedOrder, OrderIncreasing

\* Every step of the sequencer keeps the order invariants.
LEMMA StepOrder == SequencerTypeOK /\ OrderInv /\ [SequencerNext]_sequencerVars => OrderInv'
<1> SUFFICES ASSUME SequencerTypeOK, OrderInv, [SequencerNext]_sequencerVars PROVE OrderInv'
  OBVIOUS
<1>1. ASSUME UNCHANGED <<canonical, cursors, emitted>> PROVE OrderInv'
  BY <1>1 DEF OrderInv, AgreedOrder, OrderIncreasing
<1>2. ASSUME NEW g \in Groups, NEW i \in Instances, NEW r \in Members[g]
      PROVE  r \in Ranks /\ \A o \in Signatures \cup {"skip"} : [instance |-> i, op |-> o] \in Slots
  BY SequencerAssumption DEF Slots
<1>3. ASSUME NEW g \in Groups, NEW i \in Instances, NEW r \in Members[g],
             NEW s \in Signatures, SequencerSubmit(g, r, i, s)
      PROVE  OrderInv'
  BY <1>2, <1>3, AdvanceKeepsOrder DEF SequencerSubmit, SubmitAccepted
<1>4. ASSUME NEW g \in Groups, NEW i \in Instances, NEW r \in Members[g],
             ObserveSkip(g, r, i)
      PROVE  OrderInv'
  BY <1>2, <1>4, AdvanceKeepsOrder DEF ObserveSkip
<1>5. QED
  BY <1>1, <1>3, <1>4 DEF SequencerNext, Announce, RefuseSubmit, Complete, SequencerAbort,
     sequencerVars

\* Any two ranks of a group pass the same operations in the same order, and
\* that order is strictly increasing in (execution, sequence).
THEOREM RanksAgree == SequencerSpec => [](AgreedOrder /\ OrderIncreasing)
  BY SequencerInitType, SequencerStepType, InitOrder, StepOrder, PTL DEF SequencerSpec, OrderInv

-----------------------------------------------------------------------------
DecisionInv == DecidedIsPrefix /\ OrderFollowsDecisions

\* A decision is made once, for the execution after the decided prefix.
LEMMA StepDecisions ==
  ASSUME SequencerTypeOK, DecidedIsPrefix, [SequencerNext]_sequencerVars
  PROVE  /\ DecidedIsPrefix'
         /\ \A e \in Executions :
              decisions[e] # "undecided" => decisions'[e] = decisions[e]
<1> DEFINE G == /\ DecidedIsPrefix'
                /\ \A e \in Executions :
                     decisions[e] # "undecided" => decisions'[e] = decisions[e]
<1> SUFFICES G
  OBVIOUS
<1>1. ASSUME NEW e \in Executions, NEW d \in {"admitted", "skipped"}, Decide(e, d) PROVE G
  BY <1>1, SequencerAssumption, SMT DEF Decide, DecidedIsPrefix, SequencerTypeOK, Executions
<1>2. ASSUME UNCHANGED <<decisions, decidedPrefix>> PROVE G
  BY <1>2 DEF DecidedIsPrefix
<1> HIDE DEF G
<1>3. ASSUME NEW i \in Instances PROVE i[1] \in Executions
  BY DEF Instances
<1>4. ASSUME NEW g \in Groups, NEW i \in Instances, NEW r \in Members[g],
             NEW s \in Signatures, SequencerSubmit(g, r, i, s)
      PROVE  G
  BY <1>1, <1>2, <1>3, <1>4 DEF SequencerSubmit, AdmitForSubmit
<1>5. ASSUME NEW g \in Groups, NEW i \in Instances, NEW r \in Members[g],
             NEW s \in Signatures, RefuseSubmit(g, r, i, s)
      PROVE  G
  BY <1>1, <1>2, <1>3, <1>5 DEF RefuseSubmit
<1>6. ASSUME NEW g \in Groups, NEW i \in Instances, NEW r \in Members[g],
             ObserveSkip(g, r, i) \/ Complete(g, r, i)
      PROVE  G
  BY <1>2, <1>6 DEF ObserveSkip, Complete
<1>7. CASE SequencerAbort \/ UNCHANGED sequencerVars
  BY <1>2, <1>7 DEF SequencerAbort, sequencerVars
<1>8. ASSUME NEW e \in Executions, NEW d \in {"admitted", "skipped"}, Announce(e, d) PROVE G
  BY <1>1, <1>2, <1>8 DEF Announce
<1>9. QED
  BY <1>4, <1>5, <1>6, <1>7, <1>8 DEF SequencerNext

\* A slot that is appended to an order has the decision its kind needs.
LEMMA AdvanceFollows ==
  ASSUME SequencerTypeOK, OrderFollowsDecisions, NEW g \in Groups, NEW r \in Ranks,
         NEW slot \in Slots, AdvanceGroup(g, r, slot),
         \A e \in Executions : decisions[e] # "undecided" => decisions'[e] = decisions[e],
         decisions'[slot.instance[1]] = IF slot.op = "skip" THEN "skipped" ELSE "admitted"
  PROVE  OrderFollowsDecisions'
<1> SUFFICES ASSUME NEW h \in Groups, NEW k \in 1..Len(canonical'[h])
             PROVE  decisions'[canonical'[h][k].instance[1]] =
                      IF canonical'[h][k].op = "skip" THEN "skipped" ELSE "admitted"
  BY DEF OrderFollowsDecisions
<1>a. canonical[h] \in Seq(Slots) /\ Len(canonical[h]) \in Nat
  BY SMT DEF SequencerTypeOK
<1>b. canonical'[h] = canonical[h] \/ canonical'[h] = Append(canonical[h], slot)
  <2>1. CASE h = g
    BY <2>1 DEF AdvanceGroup, SequencerTypeOK
  <2>2. CASE h # g
    BY <2>2 DEF AdvanceGroup, SequencerTypeOK
  <2>3. QED
    BY <2>1, <2>2
<1>1. /\ canonical[h] \in Seq(Slots) /\ Len(canonical[h]) \in Nat
      /\ \/ canonical'[h] = canonical[h]
         \/ canonical'[h] = Append(canonical[h], slot)
  BY <1>a, <1>b
<1>2. CASE k \in 1..Len(canonical[h])
  <2>1. canonical[h][k] \in Slots /\ canonical'[h][k] = canonical[h][k]
    BY <1>1, <1>2, SMT
  <2>2. canonical[h][k].instance[1] \in Executions
    BY <2>1 DEF Slots, Instances
  <2>3. decisions[canonical[h][k].instance[1]] =
           IF canonical[h][k].op = "skip" THEN "skipped" ELSE "admitted"
    BY <1>2 DEF OrderFollowsDecisions
  <2>4. QED
    BY <2>1, <2>2, <2>3
<1>3. CASE k \notin 1..Len(canonical[h])
  <2>1. canonical'[h][k] = slot
    BY <1>1, <1>3, SMT
  <2>2. QED
    BY <2>1
<1>4. QED
  BY <1>2, <1>3

\* Orders follow the decisions through every step.
LEMMA StepFollows ==
  SequencerTypeOK /\ DecisionInv /\ [SequencerNext]_sequencerVars => DecisionInv'
<1> SUFFICES ASSUME SequencerTypeOK, DecisionInv, [SequencerNext]_sequencerVars PROVE DecisionInv'
  OBVIOUS
<1> USE DEF DecisionInv
<1>1. /\ DecidedIsPrefix'
      /\ \A e \in Executions : decisions[e] # "undecided" => decisions'[e] = decisions[e]
  BY StepDecisions
<1>2. ASSUME NEW g \in Groups, NEW i \in Instances, NEW r \in Members[g]
      PROVE  /\ r \in Ranks /\ i[1] \in Executions
             /\ \A o \in Signatures \cup {"skip"} : [instance |-> i, op |-> o] \in Slots
  BY SequencerAssumption DEF Slots, Instances
<1>3. ASSUME NEW g \in Groups, NEW i \in Instances, NEW r \in Members[g],
             NEW s \in Signatures, SequencerSubmit(g, r, i, s)
      PROVE  OrderFollowsDecisions'
  <2> DEFINE slot == [instance |-> i, op |-> s]
  <2>1. decisions'[i[1]] = "admitted"
    BY <1>2, <1>3 DEF SequencerSubmit, AdmitForSubmit, Decide, SequencerTypeOK
  <2>2. slot \in Slots /\ slot.instance = i /\ slot.op = s /\ s # "skip"
    BY <1>2, SequencerAssumption
  <2>3. AdvanceGroup(g, r, slot)
    BY <1>3 DEF SequencerSubmit
  <2> HIDE DEF slot
  <2>4. QED
    BY <1>1, <1>2, <2>1, <2>2, <2>3, AdvanceFollows
<1>4. ASSUME NEW g \in Groups, NEW i \in Instances, NEW r \in Members[g],
             ObserveSkip(g, r, i)
      PROVE  OrderFollowsDecisions'
  <2> DEFINE slot == [instance |-> i, op |-> "skip"]
  <2>1. decisions'[i[1]] = "skipped"
    BY <1>4 DEF ObserveSkip
  <2>2. slot \in Slots /\ slot.instance = i /\ slot.op = "skip"
    BY <1>2
  <2>3. AdvanceGroup(g, r, slot)
    BY <1>4 DEF ObserveSkip
  <2> HIDE DEF slot
  <2>4. QED
    BY <1>1, <1>2, <2>1, <2>2, <2>3, AdvanceFollows
<1>5. ASSUME canonical' = canonical PROVE OrderFollowsDecisions'
  <2>1. ASSUME NEW g \in Groups, NEW k \in 1..Len(canonical[g])
        PROVE  canonical[g][k].instance[1] \in Executions
    <3>1. canonical[g][k] \in Slots
      BY <2>1, SMT DEF SequencerTypeOK
    <3>2. QED
      BY <3>1 DEF Slots, Instances
  <2>2. QED
    BY <1>1, <1>5, <2>1 DEF OrderFollowsDecisions
<1>6. OrderFollowsDecisions'
  BY <1>3, <1>4, <1>5 DEF SequencerNext, Announce, RefuseSubmit, Complete, SequencerAbort,
     sequencerVars
<1>7. QED
  BY <1>1, <1>6

\* The decided executions are a prefix, and a group's order holds a submitted
\* slot only for an admitted execution and a skipped one only for a skipped.
THEOREM OrdersFollowDecisions == SequencerSpec => [](DecidedIsPrefix /\ OrderFollowsDecisions)
<1>1. SequencerInit => DecisionInv
  BY SequencerAssumption, SMT
     DEF SequencerInit, DecisionInv, DecidedIsPrefix, OrderFollowsDecisions, Executions
<1>2. QED
  BY <1>1, SequencerInitType, SequencerStepType, StepFollows, PTL DEF SequencerSpec, DecisionInv

\* No call revises a published decision.
THEOREM DecisionsAreFinal == SequencerSpec => DecisionsFinal
<1> DEFINE Final == \A e \in Executions :
                      decisions[e] # "undecided" => decisions'[e] = decisions[e]
<1>1. SequencerTypeOK /\ DecidedIsPrefix /\ [SequencerNext]_sequencerVars => [Final]_sequencerVars
  BY StepDecisions
<1>2. QED
  BY <1>1, SequencerTypeCorrect, OrdersFollowDecisions, PTL DEF SequencerSpec, DecisionsFinal

-----------------------------------------------------------------------------
\* The instances a rank has submitted in a group, read off its events.
Submitted(g, r, i) ==
    \E k \in 1..Len(emitted[g][r]) :
        emitted[g][r][k].instance = i /\ emitted[g][r][k].op # "skip"

LifeInv == SlotLifecycle /\ (aborted => active = {})

\* Appending an event adds its instance, if submitted, and nothing else.
LEMMA AppendSubmitted ==
  ASSUME SequencerTypeOK, NEW g \in Groups, NEW r \in Ranks, NEW slot \in Slots,
         AdvanceGroup(g, r, slot), NEW h \in Groups, NEW q \in Ranks,
         NEW i \in Instances
  PROVE  Submitted(h, q, i)' <=>
           \/ Submitted(h, q, i)
           \/ h = g /\ q = r /\ slot.instance = i /\ slot.op # "skip"
<1>1. emitted[h][q] \in Seq(Slots) /\ Len(emitted[h][q]) \in Nat
  BY SMT DEF SequencerTypeOK
<1>2. CASE h = g /\ q = r
  <2>1. emitted'[g][r] = Append(emitted[g][r], slot)
    BY AdvanceShape
  <2> DEFINE em == emitted[g][r]
             en == emitted'[g][r]
  <2>2. /\ em \in Seq(Slots) /\ Len(em) \in Nat /\ Len(en) = Len(em) + 1
        /\ \A k \in 1..Len(em) : en[k] = em[k]
        /\ en[Len(em) + 1] = slot
    BY <1>1, <1>2, <2>1, SMT
  <2>3. \A k : k \in 1..Len(en) <=> k \in 1..Len(em) \/ k = Len(em) + 1
    BY <2>2, SMT
  <2> HIDE DEF em, en
  <2>4. (\E k \in 1..Len(en) : en[k].instance = i /\ en[k].op # "skip") <=>
           \/ \E k \in 1..Len(em) : em[k].instance = i /\ em[k].op # "skip"
           \/ slot.instance = i /\ slot.op # "skip"
    BY <2>2, <2>3
  <2>5. QED
    BY <1>2, <2>4 DEF Submitted, em, en
<1>3. CASE ~(h = g /\ q = r)
  <2>1. emitted'[h][q] = emitted[h][q]
    BY <1>3, AdvanceShape
  <2>2. QED
    BY <1>3, <2>1 DEF Submitted
<1>4. QED
  BY <1>2, <1>3

\* Submission, completion and abort move a slot from active to completed once.
LEMMA StepLife == SequencerTypeOK /\ OrderInv /\ LifeInv /\ [SequencerNext]_sequencerVars => LifeInv'
<1> SUFFICES ASSUME SequencerTypeOK, OrderInv, LifeInv, [SequencerNext]_sequencerVars PROVE LifeInv'
  OBVIOUS
<1>0. /\ active \cap completed = {}
      /\ \A g \in Groups, r \in Ranks, i \in Instances :
            <<g, r, i>> \in active \cup completed <=> Submitted(g, r, i)
      /\ aborted => active = {}
  BY DEF LifeInv, SlotLifecycle, Submitted
<1> DEFINE Goal == /\ (active \cap completed = {})'
                   /\ \A g \in Groups, r \in Ranks, i \in Instances :
                        <<g, r, i>> \in (active \cup completed)' <=> Submitted(g, r, i)'
                   /\ (aborted => active = {})'
<1>g. SUFFICES Goal
  BY DEF LifeInv, SlotLifecycle, Submitted
<1>1. ASSUME NEW g \in Groups, NEW i \in Instances, NEW r \in Members[g]
      PROVE  /\ r \in Ranks
             /\ \A o \in Signatures \cup {"skip"} : [instance |-> i, op |-> o] \in Slots
  BY SequencerAssumption DEF Slots
<1>2. ASSUME NEW g \in Groups, NEW i \in Instances, NEW r \in Members[g],
             NEW s \in Signatures, SequencerSubmit(g, r, i, s)
      PROVE  Goal
  <2> DEFINE slot == [instance |-> i, op |-> s]
  <2>1. r \in Ranks /\ slot \in Slots /\ slot.instance = i /\ slot.op = s /\ s # "skip"
    BY <1>1, SequencerAssumption
  <2>2. /\ AdvanceGroup(g, r, slot) /\ Fits(g, r, slot)
        /\ active' = active \cup {<<g, r, i>>} /\ completed' = completed
        /\ ~aborted /\ aborted' = aborted
    BY <1>2 DEF SequencerSubmit, SubmitAccepted
  <2> HIDE DEF slot
  <2>3. ~Submitted(g, r, i)
    <3>1. SUFFICES ASSUME NEW k \in 1..Len(emitted[g][r]), emitted[g][r][k].instance = i
                   PROVE  FALSE
      BY DEF Submitted
    <3>2. Before(i, i)
      BY <2>1, <2>2, <3>1, FitsLater
    <3>3. QED
      BY <3>2, BeforeStrict
  <2>4. <<g, r, i>> \notin completed
    BY <1>0, <2>1, <2>3
  <2>5. (active \cap completed = {})'
    BY <1>0, <2>2, <2>4
  <2>6. ASSUME NEW h \in Groups, NEW q \in Ranks, NEW j \in Instances
        PROVE  <<h, q, j>> \in (active \cup completed)' <=> Submitted(h, q, j)'
    <3>1. Submitted(h, q, j)' <=> Submitted(h, q, j) \/ (h = g /\ q = r /\ i = j)
      BY <2>1, <2>2, AppendSubmitted, SMT
    <3>2. QED
      BY <1>0, <2>2, <3>1
  <2>7. QED
    BY <2>2, <2>5, <2>6
<1>3. ASSUME NEW g \in Groups, NEW i \in Instances, NEW r \in Members[g],
             ObserveSkip(g, r, i)
      PROVE  Goal
  <2> DEFINE slot == [instance |-> i, op |-> "skip"]
  <2>1. r \in Ranks /\ slot \in Slots /\ slot.op = "skip"
    BY <1>1
  <2>2. /\ AdvanceGroup(g, r, slot) /\ active' = active /\ completed' = completed
        /\ aborted' = aborted
    BY <1>3 DEF ObserveSkip
  <2> HIDE DEF slot
  <2>3. ASSUME NEW h \in Groups, NEW q \in Ranks, NEW j \in Instances
        PROVE  Submitted(h, q, j)' <=> Submitted(h, q, j)
    BY <2>1, <2>2, AppendSubmitted
  <2>4. QED
    BY <1>0, <2>2, <2>3
<1>4. ASSUME emitted' = emitted
      PROVE  \A g \in Groups, r \in Ranks, i \in Instances :
                Submitted(g, r, i)' <=> Submitted(g, r, i)
  BY <1>4 DEF Submitted
<1>5. ASSUME NEW g \in Groups, NEW i \in Instances, NEW r \in Members[g],
             Complete(g, r, i)
      PROVE  Goal
  <2>1. /\ <<g, r, i>> \in active /\ active' = active \ {<<g, r, i>>}
        /\ completed' = completed \cup {<<g, r, i>>}
        /\ aborted' = aborted /\ emitted' = emitted
    BY <1>5 DEF Complete
  <2>2. (active \cup completed)' = active \cup completed
    BY <2>1
  <2>3. (active \cap completed = {})'
    BY <1>0, <2>1
  <2>4. QED
    BY <1>0, <1>4, <2>1, <2>2, <2>3
<1>6. CASE SequencerAbort
  <2>1. active' = {} /\ completed' = completed \cup active /\ emitted' = emitted
    BY <1>6 DEF SequencerAbort
  <2>2. QED
    BY <1>0, <1>4, <2>1
<1>7. ASSUME UNCHANGED <<active, completed, emitted, aborted>> PROVE Goal
  BY <1>0, <1>4, <1>7
<1> HIDE DEF Goal
<1>8. QED
  BY <1>2, <1>3, <1>5, <1>6, <1>7 DEF SequencerNext, Announce, RefuseSubmit, sequencerVars

\* Nothing is submitted, active or aborted at the start.
LEMMA InitLife == SequencerInit => LifeInv
<1> SUFFICES ASSUME SequencerInit PROVE LifeInv
  OBVIOUS
<1>1. active = {} /\ completed = {}
      /\ \A g \in Groups, r \in Ranks : emitted[g][r] = <<>>
  BY DEF SequencerInit
<1>2. QED
  BY <1>1, SMT DEF LifeInv, SlotLifecycle

\* Each submission has exactly one completion ahead of it or behind it.
THEOREM SlotsComplete == SequencerSpec => []SlotLifecycle
  BY SequencerInitType, SequencerStepType, InitOrder, StepOrder, InitLife, StepLife, PTL
     DEF SequencerSpec, LifeInv

\* After abort no rank of any group submits, skips, decides or completes.
THEOREM AbortCloses == SequencerSpec => AbortIsFinal
<1> DEFINE Frozen == aborted => active = {} /\ UNCHANGED sequencerVars
<1>1. LifeInv /\ [SequencerNext]_sequencerVars => [Frozen]_sequencerVars
  <2> SUFFICES ASSUME LifeInv, SequencerNext, aborted PROVE active = {} /\ UNCHANGED sequencerVars
    OBVIOUS
  <2>1. active = {}
    BY DEF LifeInv
  <2>2. UNCHANGED sequencerVars
    <3>1. ASSUME NEW e, NEW d, Announce(e, d) PROVE FALSE
      BY <3>1 DEF Announce, Decide
    <3>2. ASSUME NEW g, NEW r, NEW i, NEW s, SequencerSubmit(g, r, i, s) PROVE FALSE
      BY <3>2 DEF SequencerSubmit, SubmitAccepted
    <3>3. ASSUME NEW g, NEW r, NEW i, NEW s, RefuseSubmit(g, r, i, s)
          PROVE  UNCHANGED sequencerVars
      BY <3>3 DEF RefuseSubmit, sequencerVars
    <3>4. ASSUME NEW g, NEW r, NEW i, ObserveSkip(g, r, i) PROVE FALSE
      BY <3>4 DEF ObserveSkip
    <3>5. ASSUME NEW g, NEW r, NEW i, Complete(g, r, i) PROVE FALSE
      BY <2>1, <3>5 DEF Complete
    <3>6. ~SequencerAbort
      BY DEF SequencerAbort
    <3>7. QED
      BY <3>1, <3>2, <3>3, <3>4, <3>5, <3>6 DEF SequencerNext
  <2>3. QED
    BY <2>1, <2>2
<1>2. SequencerSpec => []LifeInv
  BY SequencerInitType, SequencerStepType, InitOrder, StepOrder, InitLife, StepLife, PTL
     DEF SequencerSpec
<1>3. QED
  BY <1>1, <1>2, PTL DEF SequencerSpec, AbortIsFinal
-----------------------------------------------------------------------------
(* The communicator as a user of the registry and the sequencer.           *)

\* Every step of the communicator is a registry operation or leaves the
\* registry alone.
LEMMA RegistrySteps == ControlInv /\ [Next]_vars => [RegistryNext]_registryVars
<1> SUFFICES ASSUME ControlInv, Next PROVE [RegistryNext]_registryVars
  BY DEF vars
<1>1. ASSUME NEW r \in Ranks, TakeLease(r) PROVE RegistryNext
  <2>1. call[r] \in Calls
    BY <1>1 DEF TakeLease, ControlInv, Fitting
  <2>2. call[r].reads \in SUBSET Allocations /\ call[r].writes \in SUBSET Allocations
    BY <2>1, CallFields
  <2>3. QED
    BY <1>1, <2>2 DEF TakeLease, RegistryNext
<1>2. ASSUME NEW r \in Ranks, Finish(r) PROVE RegistryNext
  BY <1>2 DEF Finish, CompleteSuccess, RegistryNext
<1>3. ASSUME NEW r \in Ranks, RetireBegin(r) PROVE RegistryNext
  BY <1>3 DEF RetireBegin, BeginAbort, RegistryNext
<1>4. ASSUME NEW r \in Ranks, RetireQuiesce(r) PROVE RegistryNext
  BY <1>4 DEF RetireQuiesce, QuiesceAbort, RegistryNext
<1>5. ASSUME NEW r \in Ranks, Start(r) PROVE UNCHANGED registryVars
  BY <1>5 DEF Start, Begin, BeginDataPhase, Control, ControlRefused
<1>6. ASSUME NEW r \in Ranks, Run(r) PROVE [RegistryNext]_registryVars
  <2>1. \/ TakeLease(r) \/ Finish(r) \/ RetireBegin(r) \/ RetireQuiesce(r)
        \/ UNCHANGED registryVars
    BY <1>6 DEF Run, LeaseRefused, Order, OrderRefused, OrderDataPhase, Check, Park,
       LeaveAborted, LeaveWithOutput, LeaveBarrier, FinishMismatch, CompleteOk, CompleteError,
       Post, Take
  <2>2. QED
    BY <1>1, <1>2, <1>3, <1>4, <2>1
<1>7. ASSUME NEW r \in Ranks, Acquire(r) \/ SpuriousWakeup(r) PROVE UNCHANGED registryVars
  BY <1>7 DEF Acquire, Enter, Arrive, Reacquire, SpuriousWakeup
<1>8. CASE AbortSequencer \/ AbortRuns
  BY <1>8 DEF AbortSequencer, AbortRuns, AbortCause, AbortNotify
<1>9. QED
  BY <1>5, <1>6, <1>7, <1>8 DEF Next

\* Every step of the communicator is a sequencer call or leaves the sequencer
\* alone.
LEMMA SequencerSteps == ControlInv /\ [Next]_vars => [SequencerNext]_sequencerVars
<1> SUFFICES ASSUME ControlInv, Next PROVE [SequencerNext]_sequencerVars
  BY DEF vars
<1>0. ASSUME NEW r \in Ranks, pc[r] # "idle"
      PROVE  /\ call[r].group \in Groups /\ call[r].instance \in Instances
             /\ call[r].sig \in Signatures /\ r \in Members[call[r].group]
  BY <1>0, CallFields DEF ControlInv, Fitting
<1>1. ASSUME NEW r \in Ranks, Start(r) PROVE [SequencerNext]_sequencerVars
  <2>1. PICK c \in Plan[r][made[r] + 1] :
          Begin(r, c) \/ BeginDataPhase(r, c) \/ Control(r, c) \/ ControlRefused(r, c)
    BY <1>1 DEF Start
  <2>2. c \in Calls /\ r \in Members[c.group]
    BY <1>1, PlannedCall DEF Start
  <2>3. c.group \in Groups /\ c.instance \in Instances /\ c.instance[1] \in Executions
    BY <2>2, CallFields DEF Instances
  <2>4. CASE Control(r, c)
    BY <2>2, <2>3, <2>4 DEF Control, SequencerNext
  <2>5. CASE ~Control(r, c)
    BY <2>1, <2>5 DEF Begin, BeginDataPhase, ControlRefused
  <2>6. QED
    BY <2>4, <2>5
<1>2. ASSUME NEW r \in Ranks, Order(r) PROVE SequencerNext
  BY <1>0, <1>2 DEF Order, SequencerNext
<1>3. ASSUME NEW r \in Ranks, OrderRefused(r) PROVE SequencerNext
  BY <1>0, <1>3 DEF OrderRefused, SequencerNext
<1>4. ASSUME NEW r \in Ranks, CompleteOk(r) \/ CompleteError(r)
      PROVE  [SequencerNext]_sequencerVars
  BY <1>0, <1>4 DEF CompleteOk, CompleteError, CompleteSlot, SequencerNext
<1>5. ASSUME NEW r \in Ranks, Run(r) PROVE [SequencerNext]_sequencerVars
  <2>1. \/ Order(r) \/ OrderRefused(r) \/ CompleteOk(r) \/ CompleteError(r)
        \/ UNCHANGED sequencerVars
    BY <1>5 DEF Run, TakeLease, LeaseRefused, OrderDataPhase, Check, Park,
       LeaveAborted, LeaveWithOutput, LeaveBarrier, Finish, FinishMismatch, RetireBegin,
       RetireQuiesce, Post, Take
  <2>2. QED
    BY <1>2, <1>3, <1>4, <2>1
<1>6. ASSUME NEW r \in Ranks, Acquire(r) \/ SpuriousWakeup(r) PROVE UNCHANGED sequencerVars
  BY <1>6 DEF Acquire, Enter, Arrive, Reacquire, SpuriousWakeup
<1>7. CASE AbortSequencer \/ AbortRuns
  BY <1>7 DEF AbortSequencer, AbortRuns, AbortCause, AbortNotify, SequencerNext
<1>8. QED
  BY <1>1, <1>5, <1>6, <1>7 DEF Next

-----------------------------------------------------------------------------
\* What abort does to the ranks: it wakes parked ones.
LEMMA AbortKeeps ==
  ASSUME ControlInv, AbortSequencer \/ AbortRuns \/ UNCHANGED vars
  PROVE  /\ pc' \in [Ranks -> Labels]
         /\ UNCHANGED <<call, made, lease, closes, tickets, dropped, states, barriers, held>>
         /\ \A q \in Ranks : Keeps(q)
<1>1. pc \in [Ranks -> Labels]
  BY DEF ControlInv
<1>2. UNCHANGED <<call, made, lease, closes, tickets, dropped, states, barriers, held>>
  BY DEF AbortSequencer, AbortRuns, AbortCause, AbortNotify, vars, mapVars, callVars
<1>3. \/ pc' = pc
      \/ \E ph \in Phases :
           pc' = [r \in Ranks |-> IF r \in Waiting(ph) THEN "woken" ELSE pc[r]]
  BY DEF AbortSequencer, AbortRuns, AbortCause, AbortNotify, vars
<1>4. QED
  BY <1>1, <1>2, <1>3 DEF Keeps, Waiting, Labels

\* A rank that is only woken, if that, still stands where its call may.
LEMMA KeepsFitting == ASSUME NEW q, Fitting(q), Keeps(q) PROVE Fitting(q)'
  BY DEF Fitting, Keeps, Inside

\* The initial state has the right shape.
LEMMA InitControl == Init => ControlInv
<1> SUFFICES ASSUME Init PROVE ControlInv
  OBVIOUS
<1>1. \A r \in Ranks : pc[r] = "idle"
  BY DEF Init
<1>2. made \in [Ranks -> Nat]
  BY PlanAssumption DEF Init
<1>3. QED
  BY <1>1, <1>2 DEF Init, ControlInv, Fitting, Inside, Labels

\* Every step keeps every rank where its call may be.
LEMMA StepControl == ControlInv /\ RegistryTypeOK /\ [Next]_vars => ControlInv'
<1> SUFFICES ASSUME ControlInv, RegistryTypeOK, [Next]_vars PROVE ControlInv'
  OBVIOUS
<1>1. ASSUME NEW r \in Ranks, RankStep(r) PROVE ControlInv'
  <2>1. Moved(r)
    BY <1>1, RankMoves
  <2>2. \A q \in Ranks : Fitting(q)'
    BY <2>1, KeepsFitting DEF Moved, ControlInv
  <2>3. QED
    BY <2>1, <2>2 DEF Moved, ControlInv
<1>2. CASE AbortSequencer \/ AbortRuns \/ UNCHANGED vars
  <2>1. \A q \in Ranks : Fitting(q)'
    BY <1>2, AbortKeeps, KeepsFitting DEF ControlInv
  <2>2. QED
    BY <1>2, <2>1, AbortKeeps DEF ControlInv
<1>3. QED
  BY <1>1, <1>2 DEF Next, RankStep

\* What the later proofs take for granted: the shape of the state and what
\* CommunicatorProofs shows of the registry and the sequencer.
BaseInv ==
    /\ ControlInv
    /\ RegistryTypeOK
    /\ SequencerTypeOK
    /\ OrderInv
    /\ LifeInv

\* Both components start in their initial states.
LEMMA InitBase == Init => BaseInv
  BY InitControl, RegistryInitType, SequencerInitType, InitOrder, InitLife DEF Init, BaseInv

\* Every step of the communicator is a step of each component, so it keeps
\* what was shown of them.
LEMMA StepBase == BaseInv /\ [Next]_vars => BaseInv'
  BY StepControl, RegistrySteps, SequencerSteps, RegistryStepType, SequencerStepType,
     StepOrder, StepLife
  DEF BaseInv

\* The communicator calls the registry and the sequencer as they allow: each
\* of its behaviours is one of theirs.
THEOREM UsesComponents == Spec => ComponentSpecs
<1>1. BaseInv /\ [Next]_vars => [RegistryNext]_registryVars /\ [SequencerNext]_sequencerVars
  BY RegistrySteps, SequencerSteps DEF BaseInv
<1>2. Init => RegistryInit /\ SequencerInit
  BY DEF Init
<1>3. QED
  BY <1>1, <1>2, InitBase, StepBase, PTL DEF Spec, ComponentSpecs, RegistrySpec, SequencerSpec

-----------------------------------------------------------------------------
(* Leases.                                                                  *)

\* The points of a call between registry.submit and its terminal operation.
HoldsLease(r) ==
    \/ pc[r] \in {"finish", "begin_abort", "quiesce", "post"}
    \/ /\ pc[r] \in {"order", "enter", "check", "park", "parked", "woken", "leave"}
       /\ call[r].kind \in DataKinds

\* A rank's lease is live, and in the state its next registry operation
\* expects, exactly between those two; and no other operation is live.
HasLease(r) ==
    IF HoldsLease(r)
    THEN /\ lease[r] \in Live
         /\ operations[lease[r]].state = IF pc[r] = "quiesce" THEN "aborting" ELSE "submitted"
    ELSE lease[r] = 0

LeaseInv ==
    /\ \A r \in Ranks : HasLease(r)
    /\ \A o \in Live : \E r \in Ranks : lease[r] = o
    /\ \A r, q \in Ranks : lease[r] = lease[q] /\ r # q => lease[r] = 0

\* A rank that is only woken stays as it was with respect to its lease.
LEMMA KeepsHolding == ASSUME NEW q, Keeps(q) PROVE HoldsLease(q)' = HoldsLease(q)
  BY DEF Keeps, HoldsLease

\* Operation ids are positive.
LEMMA LiveIds == ASSUME RegistryTypeOK PROVE 0 \notin Live /\ nextOperation \notin Live /\ nextOperation # 0
  BY RegistryAssumption, SMT DEF RegistryTypeOK, Live

\* A step that touches no registry entry and no lease keeps the invariant.
LEMMA QuietLease ==
  ASSUME LeaseInv, NEW r \in Ranks, \A q \in Ranks : q # r => Keeps(q),
         operations' = operations, lease'[r] = lease[r],
         HoldsLease(r)' = HoldsLease(r), pc[r] # "quiesce", pc'[r] # "quiesce"
  PROVE  LeaseInv'
<1>1. \A q \in Ranks : lease'[q] = lease[q]
  BY DEF Keeps
<1>2. \A q \in Ranks : HasLease(q)'
  <2> SUFFICES ASSUME NEW q \in Ranks PROVE HasLease(q)'
    OBVIOUS
  <2>1. HasLease(q)
    BY DEF LeaseInv
  <2>2. HoldsLease(q)' = HoldsLease(q)
    BY KeepsHolding
  <2>3. pc'[q] = "quiesce" <=> pc[q] = "quiesce"
    BY DEF Keeps
  <2>4. QED
    BY <1>1, <2>1, <2>2, <2>3 DEF HasLease, Live
<1>3. QED
  BY <1>1, <1>2 DEF LeaseInv, Live

\* The rank steps that neither submit nor retire an operation.
LEMMA QuietLeaseSteps ==
  ASSUME ControlInv, RegistryTypeOK, LeaseInv, NEW r \in Ranks, RankStep(r),
         ~TakeLease(r), ~Finish(r), ~RetireBegin(r), ~RetireQuiesce(r)
  PROVE  LeaseInv'
<1> DEFINE Quiet == /\ operations' = operations /\ lease'[r] = lease[r]
                    /\ HoldsLease(r)' = HoldsLease(r) /\ pc[r] # "quiesce" /\ pc'[r] # "quiesce"
<1>m. Moved(r)
  BY RankMoves
<1>c. /\ pc \in [Ranks -> Labels] /\ call \in [Ranks -> Calls \cup {NoCall}]
      /\ lease \in [Ranks -> Nat] /\ Fitting(r) /\ Fitting(r)'
      /\ HoldsLease(r) \/ lease[r] = 0
      /\ pc' \in [Ranks -> Labels] /\ call' \in [Ranks -> Calls \cup {NoCall}]
  BY <1>m DEF ControlInv, LeaseInv, HasLease, Moved
<1>s. SUFFICES Quiet
  BY <1>m, QuietLease DEF Moved
<1> USE DEF HoldsLease, Fitting, Inside, Ordered, DataKinds, registryVars
<1>1. CASE Start(r)
  <2>1. PICK c \in Plan[r][made[r] + 1] :
          Begin(r, c) \/ BeginDataPhase(r, c) \/ Control(r, c) \/ ControlRefused(r, c)
    BY <1>1 DEF Start
  <2>2. pc[r] = "idle" /\ operations' = operations
    BY <2>1 DEF Begin, BeginDataPhase, Control, ControlRefused, Chosen
  <2>3. pc'[r] \in {"idle", "lease", "take", "arrive"} \/ (pc'[r] = "order" /\ call'[r].kind = "exchange_counts")
    <3>1. CASE Begin(r, c)
      BY <1>c, <3>1 DEF Begin, Chosen, Return, Goto, FirstStep
    <3>2. CASE ~Begin(r, c)
      BY <1>c, <2>1, <3>2 DEF BeginDataPhase, Control, ControlRefused, Return, Goto
    <3>3. QED
      BY <3>1, <3>2
  <2>4. lease'[r] = lease[r]
    BY <1>c, <2>1, <2>2 DEF Begin, BeginDataPhase, Control, ControlRefused, Return
  <2>5. QED
    BY <2>2, <2>3, <2>4
<1>2. CASE LeaseRefused(r)
  BY <1>c, <1>2 DEF LeaseRefused, Return, Goto
<1>3. CASE Order(r)
  BY <1>c, <1>3 DEF Order, Goto, callVars
<1>4. CASE OrderRefused(r)
  BY <1>c, <1>4 DEF OrderRefused, Return, Fail, Goto
<1>5. CASE OrderDataPhase(r)
  BY <1>c, <1>5 DEF OrderDataPhase, Fail, Goto
<1>6. CASE Check(r)
  BY <1>c, <1>6 DEF Check, Goto, callVars
<1>7. CASE Park(r)
  BY <1>c, <1>7 DEF Park, Goto, callVars
<1>8. CASE LeaveAborted(r)
  BY <1>c, <1>8 DEF LeaveAborted, Return, Fail, Goto, Phase
<1>9. CASE LeaveWithOutput(r)
  BY <1>c, <1>9 DEF LeaveWithOutput, Return, Fail, Goto, Phase
<1>10. CASE LeaveBarrier(r)
  BY <1>c, <1>10 DEF LeaveBarrier, Return, Goto, Phase
<1>11. CASE FinishMismatch(r)
  BY <1>c, <1>11 DEF FinishMismatch, Fail, Goto
<1>12. CASE CompleteOk(r)
  BY <1>c, <1>12 DEF CompleteOk, Return, Goto
<1>13. CASE CompleteError(r)
  BY <1>c, <1>13 DEF CompleteError, Return, Goto
<1>14. CASE Post(r)
  BY <1>c, <1>14, ZenonT(30) DEF Post, Goto, callVars
<1>15. CASE Take(r)
  BY <1>c, <1>15 DEF Take, Return, Goto
<1>16. CASE Enter(r)
  BY <1>c, <1>16 DEF Enter, RefuseContribution, Contribute, NotifyAndGoto, Return, Fail, Goto
<1>17. CASE Arrive(r)
  BY <1>c, <1>17 DEF Arrive, NotifyAndGoto, Return, Goto
<1>18. CASE Reacquire(r)
  BY <1>c, <1>18 DEF Reacquire, Goto, callVars
<1>19. CASE SpuriousWakeup(r)
  BY <1>c, <1>19 DEF SpuriousWakeup, Goto, callVars
<1> HIDE DEF Quiet
<1>20. QED
  BY <1>1, <1>2, <1>3, <1>4, <1>5, <1>6, <1>7, <1>8, <1>9, <1>10, <1>11, <1>12, <1>13, <1>14,
     <1>15, <1>16, <1>17, <1>18, <1>19 DEF RankStep, Run, Acquire

\* An operation that disappears takes no other rank's lease with it.
LEMMA ReleaseLease ==
  ASSUME RegistryTypeOK, LeaseInv, NEW r \in Ranks, \A q \in Ranks : q # r => Keeps(q),
         lease[r] \in Live, Remove(lease[r]), lease'[r] = 0, ~HoldsLease(r)'
  PROVE  LeaseInv'
<1>1. Live' = Live \ {lease[r]} /\ \A o \in Live' : operations'[o] = operations[o]
  BY DEF Remove, Live
<1>2. \A q \in Ranks : q # r => lease'[q] = lease[q] /\ lease[q] # lease[r]
  BY LiveIds DEF Keeps, LeaseInv
<1>3. ASSUME NEW q \in Ranks PROVE HasLease(q)'
  <2>1. CASE q = r
    BY <2>1 DEF HasLease
  <2>2. CASE q # r
    <3>1. HoldsLease(q)' = HoldsLease(q) /\ (pc'[q] = "quiesce" <=> pc[q] = "quiesce") /\ HasLease(q)
      BY <2>2, KeepsHolding DEF Keeps, LeaseInv
    <3>2. QED
      BY <1>1, <1>2, <2>2, <3>1 DEF HasLease
  <2>3. QED
    BY <2>1, <2>2
<1>4. ASSUME NEW o \in Live' PROVE \E q \in Ranks : lease'[q] = o
  <2>1. PICK q \in Ranks : lease[q] = o
    BY <1>1 DEF LeaseInv
  <2>2. q # r
    BY <1>1, <2>1
  <2>3. QED
    BY <1>2, <2>1, <2>2
<1>5. ASSUME NEW p \in Ranks, NEW q \in Ranks, lease'[p] = lease'[q], p # q PROVE lease'[p] = 0
  <2>1. CASE p = r \/ q = r
    BY <1>5, <2>1
  <2>2. CASE p # r /\ q # r
    BY <1>2, <1>5, <2>2, SMT DEF LeaseInv
  <2>3. QED
    BY <2>1, <2>2
<1>6. QED
  BY <1>3, <1>4, <1>5 DEF LeaseInv

\* Every step keeps leases and calls matched.
LEMMA StepLease == BaseInv /\ LeaseInv /\ [Next]_vars => LeaseInv'
<1> SUFFICES ASSUME BaseInv, LeaseInv, [Next]_vars PROVE LeaseInv'
  OBVIOUS
<1> USE DEF BaseInv
<1>0. ASSUME NEW r \in Ranks
      PROVE  /\ pc \in [Ranks -> Labels] /\ call \in [Ranks -> Calls \cup {NoCall}]
             /\ lease \in [Ranks -> Nat] /\ Fitting(r) /\ HasLease(r)
  BY DEF ControlInv, LeaseInv
<1>1. ASSUME NEW r \in Ranks, TakeLease(r) PROVE LeaseInv'
  <2>1. \A q \in Ranks : q # r => Keeps(q)
    BY <1>1, RankMoves DEF RankStep, Run, Moved
  <2>2. /\ Live' = Live \cup {nextOperation} /\ operations'[nextOperation].state = "submitted"
        /\ \A o \in Live : operations'[o] = operations[o]
    BY <1>1, LiveIds DEF TakeLease, RegistrySubmit, Live
  <2>3. lease[r] = 0 /\ lease'[r] = nextOperation
    BY <1>0, <1>1 DEF TakeLease, HasLease, HoldsLease
  <2>4. HoldsLease(r)' /\ pc'[r] # "quiesce"
    BY <1>0, <1>1 DEF TakeLease, HoldsLease, Goto, AfterLease, Fitting, DataKinds
  <2>5. \A q \in Ranks : lease[q] # nextOperation
    BY LiveIds DEF LeaseInv, HasLease
  <2>6. ASSUME NEW q \in Ranks PROVE HasLease(q)'
    <3>1. CASE q = r
      BY <2>2, <2>3, <2>4, <3>1 DEF HasLease
    <3>2. CASE q # r
      <4>1. /\ HoldsLease(q)' = HoldsLease(q) /\ (pc'[q] = "quiesce" <=> pc[q] = "quiesce")
            /\ HasLease(q) /\ lease'[q] = lease[q]
        BY <2>1, <3>2, KeepsHolding DEF Keeps, LeaseInv
      <4>2. QED
        BY <2>2, <4>1 DEF HasLease
    <3>3. QED
      BY <3>1, <3>2
  <2>7. ASSUME NEW o \in Live' PROVE \E q \in Ranks : lease'[q] = o
    <3>1. CASE o = nextOperation
      BY <2>3, <3>1
    <3>2. CASE o \in Live
      <4>1. PICK q \in Ranks : lease[q] = o
        BY <3>2 DEF LeaseInv
      <4>2. q # r
        BY <2>3, <3>2, <4>1, LiveIds
      <4>3. QED
        BY <2>1, <4>1, <4>2 DEF Keeps
    <3>3. QED
      BY <2>2, <3>1, <3>2
  <2>8. ASSUME NEW p \in Ranks, NEW q \in Ranks, lease'[p] = lease'[q], p # q
        PROVE  lease'[p] = 0
    <3>1. \A x \in Ranks : x # r => lease'[x] = lease[x]
      BY <2>1 DEF Keeps
    <3>2. p # r /\ q # r
      BY <2>3, <2>5, <2>8, <3>1
    <3>3. QED
      BY <2>8, <3>1, <3>2 DEF LeaseInv
  <2>9. QED
    BY <2>6, <2>7, <2>8 DEF LeaseInv
<1>2. ASSUME NEW r \in Ranks, Finish(r) PROVE LeaseInv'
  <2>1. \A q \in Ranks : q # r => Keeps(q)
    BY <1>2, RankMoves DEF RankStep, Run, Moved
  <2>2. lease[r] \in Live /\ Remove(lease[r])
    BY <1>2 DEF Finish, CompleteSuccess
  <2>3. lease'[r] = 0 /\ ~HoldsLease(r)'
    BY <1>0, <1>2 DEF Finish, Return, Goto, HoldsLease
  <2>4. QED
    BY <2>1, <2>2, <2>3, ReleaseLease
<1>3. ASSUME NEW r \in Ranks, RetireQuiesce(r) PROVE LeaseInv'
  <2>1. \A q \in Ranks : q # r => Keeps(q)
    BY <1>3, RankMoves DEF RankStep, Run, Moved
  <2>2. lease[r] \in Live /\ Remove(lease[r])
    BY <1>3 DEF RetireQuiesce, QuiesceAbort
  <2>3. lease'[r] = 0 /\ ~HoldsLease(r)'
    BY <1>0, <1>3 DEF RetireQuiesce, Return, Goto, HoldsLease
  <2>4. QED
    BY <2>1, <2>2, <2>3, ReleaseLease
<1>4. ASSUME NEW r \in Ranks, RetireBegin(r) PROVE LeaseInv'
  <2>1. \A q \in Ranks : q # r => Keeps(q)
    BY <1>4, RankMoves DEF RankStep, Run, Moved
  <2>2. /\ lease[r] \in Live /\ Live' = Live /\ operations'[lease[r]].state = "aborting"
        /\ \A o \in Live : o # lease[r] => operations'[o] = operations[o]
    <3>1. operations \in [Live -> Entry]
      BY DEF RegistryTypeOK
    <3>2. QED
      BY <1>4, <3>1 DEF RetireBegin, BeginAbort, Live, Entry
  <2>3. lease' = lease /\ pc'[r] = "quiesce"
    BY <1>0, <1>4 DEF RetireBegin, Goto, callVars
  <2>4. ASSUME NEW q \in Ranks PROVE HasLease(q)'
    <3>1. CASE q = r
      BY <2>2, <2>3, <3>1 DEF HasLease, HoldsLease
    <3>2. CASE q # r
      <4>1. /\ HoldsLease(q)' = HoldsLease(q) /\ (pc'[q] = "quiesce" <=> pc[q] = "quiesce")
            /\ HasLease(q)
        BY <2>1, <3>2, KeepsHolding DEF Keeps, LeaseInv
      <4>2. HoldsLease(q) => lease[q] # lease[r]
        BY <2>2, <3>2, LiveIds DEF LeaseInv
      <4>3. QED
        BY <2>2, <2>3, <4>1, <4>2 DEF HasLease
    <3>3. QED
      BY <3>1, <3>2
  <2>5. QED
    BY <2>2, <2>3, <2>4 DEF LeaseInv
<1>5. ASSUME NEW r \in Ranks, RankStep(r) PROVE LeaseInv'
  BY <1>1, <1>2, <1>3, <1>4, <1>5, QuietLeaseSteps
<1>6. CASE AbortSequencer \/ AbortRuns \/ UNCHANGED vars
  <2>1. operations' = operations
    BY <1>6 DEF AbortSequencer, AbortRuns, AbortCause, AbortNotify, vars, registryVars
  <2>2. lease' = lease /\ \A q \in Ranks : Keeps(q)
    BY <1>6, AbortKeeps
  <2>3. ASSUME NEW q \in Ranks PROVE HasLease(q)'
    <3>1. /\ HoldsLease(q)' = HoldsLease(q) /\ (pc'[q] = "quiesce" <=> pc[q] = "quiesce")
          /\ HasLease(q)
      BY <2>2, KeepsHolding DEF Keeps, LeaseInv
    <3>2. QED
      BY <2>1, <2>2, <3>1 DEF HasLease, Live
  <2>4. QED
    BY <2>1, <2>2, <2>3 DEF LeaseInv, Live
<1>7. QED
  BY <1>5, <1>6 DEF Next, RankStep

\* No rank holds a lease at the start.
LEMMA InitLease == Init => LeaseInv
  BY DEF Init, RegistryInit, LeaseInv, HasLease, HoldsLease, Live

\* No return path of any call leaves a lease behind, and no call loses one it
\* still needs, whatever is refused, diverges or is aborted on the way.
THEOREM CallsOwnLeases == Spec => []LeasesOwned
<1>1. BaseInv /\ LeaseInv => LeasesOwned
  <2> SUFFICES ASSUME BaseInv, LeaseInv PROVE LeasesOwned
    OBVIOUS
  <2>1. 0 \notin Live
    BY LiveIds DEF BaseInv
  <2>2. \A r \in Ranks : lease[r] # 0 => lease[r] \in Live
    BY DEF LeaseInv, HasLease
  <2>3. DOMAIN operations = {lease[r] : r \in Ranks} \ {0}
    <3>1. \A o \in Live : \E r \in Ranks : lease[r] = o
      BY DEF LeaseInv
    <3>2. QED
      BY <2>1, <2>2, <3>1 DEF Live
  <2>4. \A r \in Ranks : pc[r] = "idle" => lease[r] = 0
    BY DEF LeaseInv, HasLease, HoldsLease
  <2>5. QED
    BY <2>3, <2>4 DEF LeaseInv, LeasesOwned
<1>2. QED
  BY <1>1, InitBase, StepBase, InitLease, StepLease, PTL DEF Spec

-----------------------------------------------------------------------------
(* The rendezvous, seen from outside: most steps do not touch it.           *)

\* Rank r moves outside the rendezvous, and nothing in it changes.
Plain(r) ==
    /\ \A q \in Ranks : q # r => Keeps(q)
    /\ ~Inside(r) /\ ~Inside(r)'
    /\ UNCHANGED <<held, states, barriers, abortCause, abortPc, aborted>>

Contributes(r) == Enter(r) /\ ~Diverges(r)
Arrives(r) == Arrive(r) /\ pc'[r] = "check"
Leaves(r) == LeaveAborted(r) \/ LeaveWithOutput(r) \/ LeaveBarrier(r)
Turns(r) == Check(r) \/ Park(r) \/ SpuriousWakeup(r) \/ Reacquire(r)

\* The steps of a rank that enter, leave or turn in a rendezvous are few.
LEMMA PlainSteps ==
  ASSUME ControlInv, RegistryTypeOK, NEW r \in Ranks, RankStep(r)
  PROVE  Contributes(r) \/ Arrives(r) \/ Leaves(r) \/ Turns(r) \/ Plain(r)
<1> DEFINE Outside == /\ ~Inside(r) /\ ~Inside(r)'
                      /\ UNCHANGED <<held, states, barriers, abortCause, abortPc, aborted>>
<1>m. \A q \in Ranks : q # r => Keeps(q)
  BY RankMoves DEF Moved
<1>p. ASSUME Outside PROVE Plain(r)
  BY <1>m, <1>p DEF Plain
<1>c. pc \in [Ranks -> Labels]
  BY DEF ControlInv
<1> USE DEF Inside, mapVars, abortVars, sequencerVars
<1>1. CASE Start(r)
  <2>1. PICK c \in Plan[r][made[r] + 1] :
          Begin(r, c) \/ BeginDataPhase(r, c) \/ Control(r, c) \/ ControlRefused(r, c)
    BY <1>1 DEF Start
  <2>2. ASSUME Begin(r, c) PROVE Outside
    BY <1>c, <2>2 DEF Begin, Chosen, Return, Goto, FirstStep
  <2>3. ASSUME BeginDataPhase(r, c) \/ ControlRefused(r, c) PROVE Outside
    BY <1>c, <2>3 DEF BeginDataPhase, ControlRefused, Chosen, Return, Goto
  <2>4. ASSUME Control(r, c) PROVE Outside
    BY <1>c, <2>4 DEF Control, Chosen, Return, Goto, Announce, ObserveSkip
  <2>5. QED
    BY <1>p, <2>1, <2>2, <2>3, <2>4
<1>2. ASSUME TakeLease(r) PROVE Outside
  BY <1>c, <1>2 DEF TakeLease, Goto, AfterLease
<1>3. ASSUME LeaseRefused(r) PROVE Outside
  BY <1>c, <1>3 DEF LeaseRefused, Return, Goto
<1>4. ASSUME Order(r) PROVE Outside
  BY <1>c, <1>4 DEF Order, Goto, SequencerSubmit
<1>5. ASSUME OrderRefused(r) PROVE Outside
  BY <1>c, <1>5 DEF OrderRefused, Return, Fail, Goto, RefuseSubmit
<1>6. ASSUME OrderDataPhase(r) PROVE Outside
  BY <1>c, <1>6 DEF OrderDataPhase, Fail, Goto
<1>7. ASSUME Finish(r) PROVE Outside
  BY <1>c, <1>7 DEF Finish, Return, Goto
<1>8. ASSUME FinishMismatch(r) PROVE Outside
  BY <1>c, <1>8 DEF FinishMismatch, Fail, Goto
<1>9. ASSUME CompleteOk(r) PROVE Outside
  BY <1>c, <1>9 DEF CompleteOk, Return, Goto, CompleteSlot, Complete
<1>10. ASSUME RetireBegin(r) PROVE Outside
  BY <1>c, <1>10 DEF RetireBegin, Goto
<1>11. ASSUME RetireQuiesce(r) PROVE Outside
  BY <1>c, <1>11 DEF RetireQuiesce, Return, Goto
<1>12. ASSUME CompleteError(r) PROVE Outside
  BY <1>c, <1>12 DEF CompleteError, Return, Goto, CompleteSlot, Complete
<1>13. ASSUME Post(r) PROVE Outside
  BY <1>c, <1>13 DEF Post, Goto
<1>14. ASSUME Take(r) PROVE Outside
  BY <1>c, <1>14 DEF Take, Return, Goto
<1>15. ASSUME Enter(r), Diverges(r) PROVE Outside
  BY <1>c, <1>15 DEF Enter, RefuseContribution, Return, Fail, Goto
<1>16. ASSUME Arrive(r), pc'[r] # "check" PROVE Outside
  BY <1>c, <1>16 DEF Arrive, Return, Goto, NotifyAndGoto
<1> HIDE DEF Outside
<1>17. QED
  BY <1>p, <1>1, <1>2, <1>3, <1>4, <1>5, <1>6, <1>7, <1>8, <1>9, <1>10, <1>11, <1>12, <1>13,
     <1>14, <1>15, <1>16
  DEF RankStep, Run, Acquire, Contributes, Arrives, Leaves, Turns

-----------------------------------------------------------------------------
(* The lock of each map.                                                    *)

Locked(r) == pc[r] \in {"check", "park", "leave"}

\* A rank between taking a map's lock and giving it up owns it, and nobody
\* else does.
LockInv ==
    /\ held \in [Phases -> Ranks \cup {NoRank}]
    /\ \A r \in Ranks : Locked(r) => held[Phase(call[r])] = r
    /\ \A r \in Ranks, ph \in Phases : held[ph] = r => Locked(r) /\ Phase(call[r]) = ph

\* A call meets in one of the three maps.
LEMMA PhaseType == ASSUME NEW c PROVE Phase(c) \in Phases /\ (Phase(c) # "barrier" => Phase(c) \in Maps)
  BY DEF Phase, Phases, Maps

\* A rank takes the lock of a map nobody holds.
LEMMA TakeLock ==
  ASSUME LockInv, NEW r \in Ranks, \A q \in Ranks : q # r => Keeps(q),
         held[Phase(call[r])] = NoRank, held' = [held EXCEPT ![Phase(call[r])] = r],
         call'[r] = call[r], ~Locked(r), Locked(r)'
  PROVE  LockInv'
<1> DEFINE ph == Phase(call[r])
<1>1. ph \in Phases
  BY PhaseType
<1>2. NoRank \notin Ranks
  BY PlanAssumption
<1>3. \A q \in Ranks : q # r => Locked(q)' = Locked(q) /\ call'[q] = call[q]
  BY SMT DEF Keeps, Locked
<1>4. held' \in [Phases -> Ranks \cup {NoRank}] /\ held'[ph] = r
      /\ \A x \in Phases : x # ph => held'[x] = held[x]
  BY <1>1 DEF LockInv
<1> HIDE DEF ph
<1>5. \A q \in Ranks : Locked(q)' => held'[Phase(call'[q])] = q
  <2> SUFFICES ASSUME NEW q \in Ranks, Locked(q)' PROVE held'[Phase(call'[q])] = q
    OBVIOUS
  <2>1. CASE q = r
    BY <1>4, <2>1 DEF ph
  <2>2. CASE q # r
    <3>1. held[Phase(call[q])] = q /\ call'[q] = call[q] /\ Phase(call[q]) \in Phases
      BY <1>3, <2>2, PhaseType DEF LockInv
    <3>2. Phase(call[q]) # ph
      BY <1>2, <3>1 DEF ph
    <3>3. QED
      BY <1>4, <3>1, <3>2
  <2>3. QED
    BY <2>1, <2>2
<1>6. ASSUME NEW q \in Ranks, NEW x \in Phases, held'[x] = q
      PROVE  Locked(q)' /\ Phase(call'[q]) = x
  <2>1. CASE x = ph
    BY <1>4, <1>6, <2>1 DEF ph
  <2>2. CASE x # ph
    <3>1. held[x] = q /\ Locked(q) /\ Phase(call[q]) = x
      BY <1>4, <1>6, <2>2 DEF LockInv
    <3>2. QED
      BY <1>3, <3>1
  <2>3. QED
    BY <2>1, <2>2
<1>7. QED
  BY <1>4, <1>5, <1>6 DEF LockInv

\* A rank gives the lock it holds up.
LEMMA DropLock ==
  ASSUME LockInv, NEW r \in Ranks, \A q \in Ranks : q # r => Keeps(q),
         held' = [held EXCEPT ![Phase(call[r])] = NoRank], Locked(r), ~Locked(r)'
  PROVE  LockInv'
<1> DEFINE ph == Phase(call[r])
<1>1. ph \in Phases /\ held[ph] = r
  BY PhaseType DEF LockInv
<1>2. NoRank \notin Ranks
  BY PlanAssumption
<1>3. \A q \in Ranks : q # r => Locked(q)' = Locked(q) /\ call'[q] = call[q]
  BY SMT DEF Keeps, Locked
<1>4. held' \in [Phases -> Ranks \cup {NoRank}] /\ held'[ph] = NoRank
      /\ \A x \in Phases : x # ph => held'[x] = held[x]
  BY <1>1 DEF LockInv
<1> HIDE DEF ph
<1>5. \A q \in Ranks : Locked(q)' => held'[Phase(call'[q])] = q
  <2> SUFFICES ASSUME NEW q \in Ranks, Locked(q)' PROVE held'[Phase(call'[q])] = q
    OBVIOUS
  <2>1. held[Phase(call[q])] = q /\ call'[q] = call[q] /\ Phase(call[q]) \in Phases /\ q # r
    BY <1>3, PhaseType DEF LockInv
  <2>2. Phase(call[q]) # ph
    BY <1>1, <2>1
  <2>3. QED
    BY <1>4, <2>1, <2>2
<1>6. ASSUME NEW q \in Ranks, NEW x \in Phases, held'[x] = q
      PROVE  Locked(q)' /\ Phase(call'[q]) = x
  <2>1. x # ph
    BY <1>2, <1>4, <1>6
  <2>2. held[x] = q /\ Locked(q) /\ Phase(call[q]) = x
    BY <1>4, <1>6, <2>1 DEF LockInv
  <2>3. q # r
    BY <2>1, <2>2 DEF ph
  <2>4. QED
    BY <1>3, <2>2, <2>3
<1>7. QED
  BY <1>4, <1>5, <1>6 DEF LockInv

\* The locks stay as they are.
LEMMA SameLocks ==
  ASSUME LockInv, held' = held,
         \A q \in Ranks : Locked(q)' = Locked(q) /\ (Locked(q) => call'[q] = call[q])
  PROVE  LockInv'
  BY DEF LockInv

\* Every step keeps the ownership of the three locks exact.
LEMMA StepLock == BaseInv /\ LockInv /\ [Next]_vars => LockInv'
<1> SUFFICES ASSUME BaseInv, LockInv, [Next]_vars PROVE LockInv'
  OBVIOUS
<1> USE DEF BaseInv
<1>1. ASSUME NEW r \in Ranks, RankStep(r) PROVE LockInv'
  <2>1. \A q \in Ranks : q # r => Keeps(q)
    BY <1>1, RankMoves DEF Moved
  <2>c. pc \in [Ranks -> Labels]
    BY DEF ControlInv
  <2>s. ASSUME held' = held, Locked(r)' = Locked(r), call'[r] = call[r] \/ ~Locked(r)
        PROVE  LockInv'
    <3>1. \A q \in Ranks : q # r => Locked(q)' = Locked(q) /\ call'[q] = call[q]
      BY <2>1, SMT DEF Keeps, Locked
    <3>2. QED
      BY <2>s, <3>1, SameLocks
  <2>2. CASE Contributes(r)
    <3>1. /\ held[Phase(call[r])] = NoRank /\ held' = [held EXCEPT ![Phase(call[r])] = r]
          /\ call' = call
      BY <2>2 DEF Contributes, Enter, Contribute
    <3>2. ~Locked(r) /\ Locked(r)'
      BY <2>c, <2>2 DEF Contributes, Enter, Contribute, Locked, Goto, NotifyAndGoto
    <3>3. QED
      BY <2>1, <3>1, <3>2, TakeLock
  <2>3. CASE Arrives(r)
    <3>1. pc[r] = "arrive" /\ call' = call /\ held["barrier"] = NoRank
      BY <2>3 DEF Arrives, Arrive
    <3>2. Phase(call[r]) = "barrier"
      BY <3>1 DEF ControlInv, Fitting, Phase
    <3>3. held' = [held EXCEPT !["barrier"] = r]
      BY <2>c, <2>3 DEF Arrives, Arrive, Return, Goto
    <3>4. ~Locked(r) /\ Locked(r)'
      BY <2>3, <3>1 DEF Arrives, Locked
    <3>5. QED
      BY <2>1, <3>1, <3>2, <3>3, <3>4, TakeLock
  <2>4. CASE Leaves(r)
    <3>1. held' = [held EXCEPT ![Phase(call[r])] = NoRank]
      BY <2>4 DEF Leaves, LeaveAborted, LeaveWithOutput, LeaveBarrier
    <3>2. Locked(r)
      BY <2>4 DEF Leaves, LeaveAborted, LeaveWithOutput, LeaveBarrier, Locked
    <3>3. ~Locked(r)'
      BY <2>c, <2>4 DEF Leaves, LeaveAborted, LeaveWithOutput, LeaveBarrier, Locked, Return,
         Fail, Goto
    <3>4. QED
      BY <2>1, <3>1, <3>2, <3>3, DropLock
  <2>5. CASE Check(r) \/ SpuriousWakeup(r)
    BY <2>c, <2>s, <2>5, SMT DEF Check, SpuriousWakeup, Goto, Locked, mapVars, callVars
  <2>6. CASE Park(r)
    BY <2>1, <2>c, <2>6, DropLock DEF Park, Goto, Locked
  <2>7. CASE Reacquire(r)
    BY <2>1, <2>c, <2>7, TakeLock DEF Reacquire, Goto, Locked, callVars
  <2>8. CASE Plain(r)
    BY <2>s, <2>8, SMT DEF Plain, Inside, Locked
  <2>9. QED
    BY <1>1, <2>2, <2>3, <2>4, <2>5, <2>6, <2>7, <2>8, PlainSteps DEF Turns
<1>2. CASE AbortSequencer \/ AbortRuns \/ UNCHANGED vars
  <2>1. held' = held /\ \A q \in Ranks : Keeps(q)
    BY <1>2, AbortKeeps
  <2>2. \A q \in Ranks : Locked(q)' = Locked(q) /\ call'[q] = call[q]
    BY <2>1, SMT DEF Keeps, Locked
  <2>3. QED
    BY <2>1, <2>2, SameLocks
<1>3. QED
  BY <1>1, <1>2 DEF Next, RankStep

\* No lock is held at the start.
LEMMA InitLock == Init => LockInv
  BY PlanAssumption, SMT DEF Init, LockInv, Locked

-----------------------------------------------------------------------------
(* The entries of the rendezvous maps, and the ranks inside them.           *)

\* The ranks inside a rendezvous.
InsideAt(ph, k) ==
    {r \in Ranks : Inside(r) /\ Phase(call[r]) = ph /\ Key(call[r]) = k}

StateEntry == [signature : Signatures, contributed : SUBSET Ranks,
               outputs : {"none", "ok", "err"}, consumed : Nat]
BarrierEntry == [arrived : SUBSET Ranks, departed : Nat, released : BOOLEAN]

\* Of the ranks C that came to a rendezvous, I are inside and n have left.
Balanced(C, I, n) == I \subseteq C /\ n = Cardinality(C \ I)

\* A collective's entry: who is inside has contributed, there is an output
\* only when all have, and unless aborted (`running' is false) those who have
\* left have consumed their share.
SoundState(running, e, k, I) ==
    /\ e \in StateEntry
    /\ I \subseteq e.contributed
    /\ e.contributed \subseteq Members[k[1]]
    /\ e.outputs # "none" => e.contributed = Members[k[1]]
    /\ running => Balanced(e.contributed, I, e.consumed) /\ I # {}

\* A barrier's entry, aborted or not.
SoundBarrier(b, k, I) ==
    /\ b \in BarrierEntry
    /\ b.arrived \subseteq Members[k[1]]
    /\ b.released => b.arrived = Members[k[1]]
    /\ Balanced(b.arrived, I, b.departed) /\ I # {}

EntryInv ==
    /\ CountingLaws
    /\ DOMAIN states = Maps
    /\ \A ph \in Maps : \A k \in DOMAIN states[ph] :
         k \in Keys /\ SoundState(~aborted, states[ph][k], k, InsideAt(ph, k))
    /\ \A k \in DOMAIN barriers :
         k \in Keys /\ SoundBarrier(barriers[k], k, InsideAt("barrier", k))
    /\ EntryOutlivesRanks
    /\ \A r \in Ranks : pc[r] = "leave" => Done(r) \/ Stopped(r)

\* A group's members are finitely many.
LEMMA MembersFinite ==
  ASSUME CountingLaws, NEW g \in Groups
  PROVE  IsFiniteSet(Members[g]) /\ Members[g] \subseteq Ranks
<1>1. Members[g] \subseteq Ranks
  BY SequencerAssumption
<1>2. QED
  BY <1>1, PlanAssumption DEF CountingLaws

\* A key is a group and an instance.
LEMMA KeyFields ==
  ASSUME NEW c \in Calls
  PROVE  Key(c) \in Keys /\ Key(c)[1] = c.group /\ Key(c)[2] = c.instance
  BY CallFields DEF Key, Keys

\* Nobody has come, nobody has left.
LEMMA NobodyBalanced == CountingLaws => Balanced({}, {}, 0)
  BY DEF CountingLaws, Balanced

\* One more rank comes: those who have left are the same.
LEMMA JoinBalanced ==
  ASSUME NEW C, NEW I, NEW n, NEW r, Balanced(C, I, n), r \notin C
  PROVE  Balanced(C \cup {r}, I \cup {r}, n)
<1>1. (C \cup {r}) \ (I \cup {r}) = C \ I
  OBVIOUS
<1>2. QED
  BY <1>1 DEF Balanced

\* One rank leaves: the count of those who have left goes up by one, and
\* reaches the number of those who came exactly when nobody is inside.
LEMMA LeaveBalanced ==
  ASSUME CountingLaws, NEW C, NEW I, NEW n, NEW r, IsFiniteSet(C), Balanced(C, I, n), r \in I
  PROVE  /\ n \in Nat
         /\ Balanced(C, I \ {r}, n + 1)
         /\ (n + 1 = Cardinality(C)) <=> (I \ {r} = {})
<1> DEFINE L == C \ I
           M == C \ (I \ {r})
<1>1. I \subseteq C /\ n = Cardinality(L) /\ r \in C
  BY DEF Balanced
<1>2. M = L \cup {r} /\ r \notin L /\ M \subseteq C /\ L \subseteq C
  BY <1>1
<1>3. IsFiniteSet(L) /\ IsFiniteSet(M)
  BY <1>2 DEF CountingLaws
<1>4. n \in Nat /\ Cardinality(M) = n + 1
  BY <1>1, <1>2, <1>3 DEF CountingLaws
<1>5. M = C <=> I \ {r} = {}
  BY <1>1
<1>6. Cardinality(M) = Cardinality(C) => M = C
  BY <1>2 DEF CountingLaws
<1>7. QED
  BY <1>1, <1>4, <1>5, <1>6 DEF Balanced

\* A rank joins a collective.
LEMMA JoinState ==
  ASSUME NEW running \in BOOLEAN, NEW e \in StateEntry, NEW f \in StateEntry, NEW k, NEW I,
         NEW r \in Members[k[1]],
         I \subseteq e.contributed, e.contributed \subseteq Members[k[1]],
         running => Balanced(e.contributed, I, e.consumed), r \notin e.contributed,
         f.contributed = e.contributed \cup {r}, f.consumed = e.consumed,
         f.outputs # "none" => f.contributed = Members[k[1]]
  PROVE  SoundState(running, f, k, I \cup {r})
<1>1. ASSUME running PROVE Balanced(f.contributed, I \cup {r}, f.consumed)
  <2>1. Balanced(e.contributed \cup {r}, I \cup {r}, e.consumed)
    BY <1>1, JoinBalanced
  <2>2. QED
    BY <2>1
<1>2. QED
  BY <1>1 DEF SoundState

\* A rank arrives at a barrier.
LEMMA JoinBarrier ==
  ASSUME NEW b \in BarrierEntry, NEW f \in BarrierEntry, NEW k, NEW I, NEW r \in Members[k[1]],
         b.arrived \subseteq Members[k[1]], Balanced(b.arrived, I, b.departed), r \notin b.arrived,
         f.arrived = b.arrived \cup {r}, f.departed = b.departed,
         f.released => f.arrived = Members[k[1]]
  PROVE  SoundBarrier(f, k, I \cup {r})
<1>1. Balanced(f.arrived, I \cup {r}, f.departed)
  <2>1. Balanced(b.arrived \cup {r}, I \cup {r}, b.departed)
    BY JoinBalanced
  <2>2. QED
    BY <2>1
<1>2. QED
  BY <1>1 DEF SoundBarrier

\* A rank departs; the last of those that arrived reaps.
LEMMA LeaveBarrierEntry ==
  ASSUME CountingLaws, NEW b, NEW f \in BarrierEntry, NEW k \in Keys, NEW I, NEW r \in I,
         SoundBarrier(b, k, I),
         f.arrived = b.arrived, f.departed = b.departed + 1, f.released = b.released
  PROVE  /\ (b.departed + 1 = Cardinality(b.arrived)) <=> (I \ {r} = {})
         /\ I \ {r} # {} => SoundBarrier(f, k, I \ {r})
<1>1. k[1] \in Groups
  BY DEF Keys
<1>2. IsFiniteSet(b.arrived)
  BY <1>1, MembersFinite DEF SoundBarrier, CountingLaws
<1>3. Balanced(b.arrived, I, b.departed)
  BY DEF SoundBarrier
<1>4. /\ Balanced(b.arrived, I \ {r}, b.departed + 1)
      /\ (b.departed + 1 = Cardinality(b.arrived)) <=> (I \ {r} = {})
  BY <1>2, <1>3, LeaveBalanced, SMT
<1>5. QED
  BY <1>4 DEF SoundBarrier

\* Who is inside a rendezvous when one rank enters or leaves it.
LEMMA InsideEnters ==
  ASSUME NEW r \in Ranks, \A q \in Ranks : q # r => Keeps(q), ~Inside(r), Inside(r)',
         call'[r] = call[r], NEW ph, NEW k
  PROVE  InsideAt(ph, k)' = IF ph = Phase(call[r]) /\ k = Key(call[r])
                            THEN InsideAt(ph, k) \cup {r} ELSE InsideAt(ph, k)
<1>1. \A q \in Ranks : q # r => Inside(q)' = Inside(q) /\ call'[q] = call[q]
  BY SMT DEF Keeps, Inside
<1>2. QED
  BY <1>1 DEF InsideAt

\* One rank leaves a rendezvous.
LEMMA InsideLeaves ==
  ASSUME NEW r \in Ranks, \A q \in Ranks : q # r => Keeps(q), Inside(r), ~Inside(r)',
         NEW ph, NEW k
  PROVE  InsideAt(ph, k)' = IF ph = Phase(call[r]) /\ k = Key(call[r])
                            THEN InsideAt(ph, k) \ {r} ELSE InsideAt(ph, k)
<1>1. \A q \in Ranks : q # r => Inside(q)' = Inside(q) /\ call'[q] = call[q]
  BY SMT DEF Keeps, Inside
<1>2. QED
  BY <1>1 DEF InsideAt

\* A step that moves nobody in or out leaves every rendezvous its ranks.
LEMMA InsideStays ==
  ASSUME \A q \in Ranks : Inside(q)' = Inside(q) /\ (Inside(q) => call'[q] = call[q]),
         NEW ph, NEW k
  PROVE  InsideAt(ph, k)' = InsideAt(ph, k)
  BY DEF InsideAt

\* A step that leaves the maps alone, and everybody inside where they are.
LEMMA QuietEntries ==
  ASSUME EntryInv, states' = states, barriers' = barriers, aborted \in BOOLEAN,
         aborted => aborted', aborted' \in BOOLEAN, abortCause => abortCause',
         \A q \in Ranks : Inside(q)' = Inside(q) /\ (Inside(q) => call'[q] = call[q]),
         \A q \in Ranks : pc'[q] = "leave" => pc[q] = "leave" \/ Done(q) \/ Stopped(q)
  PROVE  EntryInv'
<1>1. ASSUME NEW ph \in Maps, NEW k \in DOMAIN states[ph]
      PROVE  k \in Keys /\ SoundState(~aborted', states[ph][k], k, InsideAt(ph, k)')
  <2>1. k \in Keys /\ SoundState(~aborted, states[ph][k], k, InsideAt(ph, k))
    BY DEF EntryInv
  <2>2. InsideAt(ph, k)' = InsideAt(ph, k)
    BY InsideStays
  <2>3. QED
    BY <2>1, <2>2 DEF SoundState
<1>2. ASSUME NEW k \in DOMAIN barriers
      PROVE  k \in Keys /\ SoundBarrier(barriers[k], k, InsideAt("barrier", k)')
  <2>1. InsideAt("barrier", k)' = InsideAt("barrier", k)
    BY InsideStays
  <2>2. QED
    BY <2>1 DEF EntryInv
<1>3. EntryOutlivesRanks'
  BY DEF EntryInv, EntryOutlivesRanks
<1>4. ASSUME NEW q \in Ranks, pc'[q] = "leave" PROVE Done(q)' \/ Stopped(q)'
  <2>1. Done(q) \/ Stopped(q)
    BY <1>4 DEF EntryInv
  <2>2. call'[q] = call[q]
    BY <1>4 DEF Inside
  <2>3. QED
    BY <2>1, <2>2 DEF Done, Stopped
<1>5. QED
  BY <1>1, <1>2, <1>3, <1>4 DEF EntryInv

\* A rank inside a collective, or a barrier, is in its entry.
LEMMA InsideEntry ==
  ASSUME EntryInv, NEW q \in Ranks, Inside(q)
  PROVE  /\ Phase(call[q]) = "barrier" =>
              Key(call[q]) \in DOMAIN barriers /\ q \in barriers[Key(call[q])].arrived
         /\ Phase(call[q]) # "barrier" =>
              /\ Key(call[q]) \in DOMAIN states[Phase(call[q])]
              /\ q \in states[Phase(call[q])][Key(call[q])].contributed
  BY DEF EntryInv, EntryOutlivesRanks

\* The entry a rank finds, or makes.
LEMMA EnteredSound ==
  ASSUME BaseInv, EntryInv, NEW r \in Ranks, pc[r] = "enter"
  PROVE  /\ Phase(call[r]) \in Maps /\ Key(call[r]) \in Keys
         /\ r \in Members[Key(call[r])[1]] /\ Key(call[r])[1] = call[r].group
         /\ Entered(r) \in StateEntry
         /\ InsideAt(Phase(call[r]), Key(call[r])) \subseteq Entered(r).contributed
         /\ Entered(r).contributed \subseteq Members[Key(call[r])[1]]
         /\ Entered(r).outputs # "none" => Entered(r).contributed = Members[Key(call[r])[1]]
         /\ ~aborted => Balanced(Entered(r).contributed, InsideAt(Phase(call[r]), Key(call[r])),
                                 Entered(r).consumed)
<1> DEFINE ph == Phase(call[r])
           k == Key(call[r])
<1>1. call[r] \in Calls /\ r \in Members[call[r].group] /\ call[r].kind \in Ordered
  BY DEF BaseInv, ControlInv, Fitting
<1>2. ph \in Maps
  BY <1>1 DEF Phase, Maps, Ordered, DataKinds
<1>3. k \in Keys /\ k[1] = call[r].group
  BY <1>1, KeyFields
<1>4. CASE k \in DOMAIN states[ph]
  <2>1. SoundState(~aborted, states[ph][k], k, InsideAt(ph, k)) /\ Entered(r) = states[ph][k]
    BY <1>2, <1>4 DEF EntryInv, Entered
  <2>2. QED
    BY <1>1, <1>2, <1>3, <2>1 DEF SoundState
<1>5. CASE k \notin DOMAIN states[ph]
  <2>1. Entered(r) = FreshEntry(call[r].sig)
    BY <1>5 DEF Entered
  <2>2. call[r].sig \in Signatures
    BY <1>1, CallFields
  <2>3. /\ Entered(r) \in StateEntry /\ Entered(r).contributed = {}
        /\ Entered(r).outputs = "none" /\ Entered(r).consumed = 0
    BY <2>1, <2>2, SMT DEF FreshEntry, StateEntry
  <2>4. ph # "barrier"
    BY <1>2 DEF Maps
  <2>5. InsideAt(ph, k) = {}
    BY <1>5, <2>4, InsideEntry DEF InsideAt
  <2>6. Balanced({}, {}, 0)
    BY NobodyBalanced DEF EntryInv
  <2>7. QED
    BY <1>1, <1>2, <1>3, <2>3, <2>5, <2>6
<1>6. QED
  BY <1>4, <1>5

\* The entry e that rank r's contribution leaves in the map.
NewEntry(r, e) ==
    /\ e \in StateEntry
    /\ states' = [states EXCEPT ![Phase(call[r])] = With(@, Key(call[r]), e)]
    /\ e.signature = Entered(r).signature
    /\ e.contributed = Entered(r).contributed \cup {r}
    /\ e.consumed = Entered(r).consumed
    /\ \/ /\ e.contributed = Members[call[r].group]
          /\ e.outputs # "none"
          /\ NotifyAndGoto(r, Phase(call[r]), "check")
       \/ /\ e.contributed # Members[call[r].group]
          /\ e.outputs = "none" /\ Entered(r).outputs = "none"
          /\ Goto(r, "check")

\* What a contribution does: one entry gets one more contributor, and an
\* output together with the last of them.
LEMMA ContributeShape ==
  ASSUME BaseInv, EntryInv, NEW r \in Ranks, Contributes(r)
  PROVE  /\ pc[r] = "enter" /\ pc'[r] = "check" /\ call' = call
         /\ Entered(r).signature = call[r].sig /\ r \notin Entered(r).contributed
         /\ UNCHANGED <<barriers, aborted, abortCause, abortPc, tickets, emitted>>
         /\ \E e : NewEntry(r, e)
<1> DEFINE ph == Phase(call[r])
           k == Key(call[r])
           old == Entered(r)
           mid == [old EXCEPT !.contributed = @ \cup {r}]
<1>1. /\ pc[r] = "enter" /\ call' = call
      /\ old.signature = call[r].sig /\ r \notin old.contributed
      /\ UNCHANGED <<barriers, aborted, abortCause, abortPc, tickets, emitted>>
  BY DEF Contributes, Enter, Diverges, sequencerVars, abortVars
<1>2. Contribute(r)
  BY DEF Contributes, Enter
<1>3. pc'[r] = "check"
  BY <1>2 DEF Contribute, Goto, NotifyAndGoto, BaseInv, ControlInv
<1>4. /\ old \in StateEntry /\ r \in Members[call[r].group]
      /\ old.outputs # "none" => old.contributed = Members[call[r].group]
  BY <1>1, EnteredSound
<1>5. old.contributed \cup {r} \in SUBSET Ranks
  BY <1>4 DEF StateEntry
<1> HIDE DEF old
<1>6. /\ mid \in StateEntry /\ mid.contributed = old.contributed \cup {r}
      /\ mid.outputs = old.outputs /\ mid.signature = old.signature /\ mid.consumed = old.consumed
  BY <1>4, <1>5 DEF StateEntry
<1>7. old.outputs = "none"
  BY <1>1, <1>4
<1>8. IF mid.contributed = Members[call[r].group]
      THEN /\ \E out \in Computed(call[r].kind) :
                states' = [states EXCEPT ![ph] = With(@, k, [mid EXCEPT !.outputs = out])]
           /\ NotifyAndGoto(r, ph, "check")
      ELSE /\ states' = [states EXCEPT ![ph] = With(@, k, mid)]
           /\ Goto(r, "check")
  BY <1>2 DEF Contribute, old
<1> HIDE DEF mid, ph, k
<1>9. CASE mid.contributed = Members[call[r].group]
  <2>1. PICK out \in Computed(call[r].kind) :
          states' = [states EXCEPT ![ph] = With(@, k, [mid EXCEPT !.outputs = out])]
    BY <1>8, <1>9
  <2>2. out \in {"none", "ok", "err"} /\ out # "none"
    BY DEF Computed
  <2> DEFINE e == [mid EXCEPT !.outputs = out]
  <2>3. /\ e \in StateEntry /\ e.contributed = mid.contributed /\ e.outputs = out
        /\ e.signature = mid.signature /\ e.consumed = mid.consumed
    BY <1>6, <2>2 DEF StateEntry
  <2>4. states' = [states EXCEPT ![ph] = With(@, k, e)]
    BY <2>1
  <2> HIDE DEF e
  <2>5. NewEntry(r, e)
    BY <1>6, <1>8, <1>9, <2>2, <2>3, <2>4 DEF NewEntry, ph, k, old
  <2>6. QED
    BY <1>1, <1>3, <2>5 DEF old
<1>10. CASE mid.contributed # Members[call[r].group]
  <2>1. NewEntry(r, mid)
    BY <1>6, <1>7, <1>8, <1>10 DEF NewEntry, ph, k, old
  <2>2. QED
    BY <1>1, <1>3, <2>1 DEF old
<1>11. QED
  BY <1>9, <1>10

\* One map of states changes, at one key.
LEMMA StatesUpdate ==
  ASSUME DOMAIN states = Maps, NEW ph \in Maps, NEW m, states' = [states EXCEPT ![ph] = m]
  PROVE  /\ DOMAIN states' = Maps /\ states'[ph] = m
         /\ \A x \in Maps : x # ph => states'[x] = states[x]
  OBVIOUS

\* A contribution keeps the entries sound.
LEMMA ContributeKeepsEntries ==
  ASSUME BaseInv, EntryInv, NEW r \in Ranks, Contributes(r)
  PROVE  EntryInv'
<1> DEFINE ph == Phase(call[r])
           k == Key(call[r])
           old == Entered(r)
<1>1. /\ pc[r] = "enter" /\ pc'[r] = "check" /\ call' = call /\ r \notin old.contributed
      /\ UNCHANGED <<barriers, aborted, abortCause, abortPc>>
  BY ContributeShape
<1>2. PICK e : NewEntry(r, e)
  BY ContributeShape
<1>3. \A q \in Ranks : q # r => Keeps(q)
  BY RankMoves DEF Contributes, RankStep, Acquire, Moved, BaseInv
<1>4. /\ ph \in Maps /\ k \in Keys /\ r \in Members[k[1]] /\ k[1] = call[r].group
      /\ old \in StateEntry /\ InsideAt(ph, k) \subseteq old.contributed
      /\ old.contributed \subseteq Members[k[1]]
      /\ ~aborted => Balanced(old.contributed, InsideAt(ph, k), old.consumed)
  BY <1>1, EnteredSound
<1>5. DOMAIN states' = Maps /\ states'[ph] = With(states[ph], k, e)
      /\ \A x \in Maps : x # ph => states'[x] = states[x]
  BY <1>2, <1>4, StatesUpdate DEF NewEntry, EntryInv
<1>6. /\ DOMAIN states'[ph] = DOMAIN states[ph] \cup {k} /\ states'[ph][k] = e
      /\ \A j \in DOMAIN states[ph] : j # k => states'[ph][j] = states[ph][j]
  <2> HIDE DEF ph, k
  <2>1. /\ DOMAIN With(states[ph], k, e) = DOMAIN states[ph] \cup {k} /\ With(states[ph], k, e)[k] = e
        /\ \A j \in DOMAIN states[ph] : j # k => With(states[ph], k, e)[j] = states[ph][j]
    BY DEF With
  <2>2. QED
    BY <1>5, <2>1
<1>7. ~Inside(r) /\ Inside(r)'
  BY <1>1 DEF Inside
<1>8. ASSUME NEW x, NEW j
      PROVE  InsideAt(x, j)' = IF x = ph /\ j = k THEN InsideAt(x, j) \cup {r} ELSE InsideAt(x, j)
  BY <1>1, <1>3, <1>7, InsideEnters, SMT
<1>e. /\ e \in StateEntry /\ e.contributed = old.contributed \cup {r} /\ e.consumed = old.consumed
      /\ e.outputs # "none" => e.contributed = Members[k[1]]
      /\ old.outputs # "none" => e.outputs # "none"
  BY <1>2, <1>4 DEF NewEntry
<1>o. k \in DOMAIN states[ph] => old = states[ph][k]
  BY DEF Entered
<1>b. aborted \in BOOLEAN /\ ph # "barrier"
  BY <1>4 DEF Maps, BaseInv, SequencerTypeOK
<1> HIDE DEF ph, k, old
<1>9. ASSUME NEW x \in Maps, NEW j \in DOMAIN states'[x]
      PROVE  j \in Keys /\ SoundState(~aborted', states'[x][j], j, InsideAt(x, j)')
  <2>1. CASE x = ph /\ j = k
    <3>1. SoundState(~aborted, e, k, InsideAt(ph, k) \cup {r})
      BY <1>1, <1>4, <1>e, <1>b, JoinState
    <3>2. QED
      BY <1>1, <1>4, <1>6, <1>8, <2>1, <3>1
  <2>2. CASE ~(x = ph /\ j = k)
    <3>1. j \in DOMAIN states[x] /\ states'[x][j] = states[x][j]
      BY <1>5, <1>6, <1>9, <2>2, SMT
    <3>2. j \in Keys /\ SoundState(~aborted, states[x][j], j, InsideAt(x, j))
      BY <3>1 DEF EntryInv
    <3>3. InsideAt(x, j)' = InsideAt(x, j)
      BY <1>8, <2>2
    <3>4. QED
      BY <1>1, <3>1, <3>2, <3>3
  <2>3. QED
    BY <2>1, <2>2
<1>10. ASSUME NEW j \in DOMAIN barriers'
       PROVE  j \in Keys /\ SoundBarrier(barriers'[j], j, InsideAt("barrier", j)')
  <2>1. InsideAt("barrier", j)' = InsideAt("barrier", j)
    BY <1>8, <1>b
  <2>2. QED
    BY <1>1, <2>1 DEF EntryInv
<1>11. \A q \in Ranks : q # r => Inside(q)' = Inside(q)
  BY <1>3, SMT DEF Keeps, Inside
<1>12. ASSUME NEW q \in Ranks, Phase(call[q]) # "barrier",
              Key(call[q]) \in DOMAIN states[Phase(call[q])]
       PROVE  /\ Key(call[q]) \in DOMAIN states'[Phase(call[q])]
              /\ states[Phase(call[q])][Key(call[q])].contributed
                   \subseteq states'[Phase(call[q])][Key(call[q])].contributed
              /\ states[Phase(call[q])][Key(call[q])].outputs # "none" =>
                   states'[Phase(call[q])][Key(call[q])].outputs # "none"
  <2>1. Phase(call[q]) \in Maps
    BY <1>12, PhaseType
  <2>2. CASE Phase(call[q]) = ph /\ Key(call[q]) = k
    BY <1>6, <1>12, <1>e, <1>o, <2>2
  <2>3. CASE ~(Phase(call[q]) = ph /\ Key(call[q]) = k)
    BY <1>5, <1>6, <1>12, <2>1, <2>3
  <2>4. QED
    BY <2>2, <2>3
<1>13. EntryOutlivesRanks'
  <2> SUFFICES ASSUME NEW q \in Ranks, Inside(q)'
               PROVE  IF Phase(call[q]) = "barrier"
                      THEN Key(call[q]) \in DOMAIN barriers /\ q \in barriers[Key(call[q])].arrived
                      ELSE /\ Key(call[q]) \in DOMAIN states'[Phase(call[q])]
                           /\ q \in states'[Phase(call[q])][Key(call[q])].contributed
    BY <1>1 DEF EntryOutlivesRanks
  <2>1. CASE q = r
    BY <1>6, <1>b, <1>e, <2>1 DEF ph, k
  <2>2. CASE q # r
    <3>1. Inside(q)
      BY <1>11, <2>2
    <3>2. QED
      BY <1>12, <3>1, InsideEntry
  <2>3. QED
    BY <2>1, <2>2
<1>14. ASSUME NEW q \in Ranks, pc'[q] = "leave" PROVE Done(q)' \/ Stopped(q)'
  <2>1. q # r /\ pc[q] = "leave"
    BY <1>1, <1>3, <1>14 DEF Keeps
  <2>2. Done(q) \/ Stopped(q)
    BY <2>1 DEF EntryInv
  <2>3. QED
    BY <1>1, <1>12, <2>2 DEF Done, Stopped
<1>15. QED
  BY <1>5, <1>9, <1>10, <1>13, <1>14 DEF EntryInv

\* Nobody is left inside but r, which reaps its entry.
ReapsEntry(r) ==
    /\ InsideAt(Phase(call[r]), Key(call[r])) \ {r} = {}
    /\ states' = [states EXCEPT ![Phase(call[r])] = Without(@, Key(call[r]))]

\* Somebody is, and r leaves the entry f to them.
LeavesEntry(r, f) ==
    /\ InsideAt(Phase(call[r]), Key(call[r])) \ {r} # {}
    /\ states' = [states EXCEPT ![Phase(call[r])] = With(@, Key(call[r]), f)]
    /\ f.signature = states[Phase(call[r])][Key(call[r])].signature
    /\ f.contributed = states[Phase(call[r])][Key(call[r])].contributed
    /\ f.outputs = states[Phase(call[r])][Key(call[r])].outputs
    /\ SoundState(~aborted, f, Key(call[r]), InsideAt(Phase(call[r]), Key(call[r])) \ {r})

\* What consuming a share does: the last rank inside removes the entry, any
\* other leaves it sound.
LEMMA ConsumeShape ==
  ASSUME BaseInv, EntryInv, NEW r \in Ranks, LeaveWithOutput(r)
  PROVE  /\ Phase(call[r]) \in Maps /\ Key(call[r]) \in Keys
         /\ Key(call[r]) \in DOMAIN states[Phase(call[r])] /\ ~aborted
         /\ Inside(r) /\ ~Inside(r)' /\ call' = call
         /\ UNCHANGED <<barriers, aborted, abortCause, abortPc, emitted>>
         /\ ReapsEntry(r) \/ \E f : LeavesEntry(r, f)
<1> DEFINE ph == Phase(call[r])
           k == Key(call[r])
           e == states[ph][k]
           f == [e EXCEPT !.consumed = @ + 1]
           n == e.consumed + 1
           I == InsideAt(ph, k)
<1>1. /\ pc[r] = "leave" /\ ph # "barrier" /\ ~aborted /\ call' = call
      /\ UNCHANGED <<barriers, aborted, abortCause, abortPc, emitted>>
  BY DEF LeaveWithOutput, sequencerVars, abortVars
<1>2. call[r] \in Calls /\ r \in Members[call[r].group]
  BY <1>1 DEF BaseInv, ControlInv, Fitting
<1>3. ph \in Maps /\ k \in Keys /\ k[1] = call[r].group
  BY <1>1, <1>2, PhaseType, KeyFields
<1>4. Inside(r)
  BY <1>1 DEF Inside
<1>5. ~Inside(r)'
  BY DEF LeaveWithOutput, Return, Fail, Goto, Inside, BaseInv, ControlInv
<1>6. k \in DOMAIN states[ph] /\ r \in I
  BY <1>1, <1>4, InsideEntry DEF InsideAt
<1>7. SoundState(~aborted, e, k, I) /\ aborted \in BOOLEAN
  BY <1>3, <1>6 DEF EntryInv, BaseInv, SequencerTypeOK
<1>8. e.outputs # "none"
  BY <1>1 DEF EntryInv, Done, Stopped
<1>9. states' = [states EXCEPT ![ph] = Consume(states[ph], k, Cardinality(Members[k[1]]))]
  BY <1>3 DEF LeaveWithOutput
<1>10. e \in StateEntry
  BY <1>7 DEF SoundState
<1> HIDE DEF e
<1>11. /\ f \in StateEntry /\ f.contributed = e.contributed /\ f.consumed = n
       /\ f.outputs = e.outputs /\ f.signature = e.signature
  BY <1>10, SMT DEF StateEntry
<1>12. Consume(states[ph], k, Cardinality(Members[k[1]])) =
          IF n = Cardinality(Members[k[1]]) THEN Without(states[ph], k)
          ELSE With(states[ph], k, f)
  BY DEF Consume, e
<1> HIDE DEF f, I, ph, k
<1>n. n = e.consumed + 1
  OBVIOUS
<1> HIDE DEF n
<1>13. /\ (n = Cardinality(Members[k[1]])) <=> (I \ {r} = {})
       /\ I \ {r} # {} => SoundState(~aborted, f, k, I \ {r})
  <2>1. IsFiniteSet(e.contributed) /\ e.contributed = Members[k[1]]
    BY <1>3, <1>7, <1>8, MembersFinite DEF SoundState, Keys, EntryInv
  <2>2. Balanced(e.contributed, I, e.consumed)
    BY <1>1, <1>7 DEF SoundState
  <2>3. /\ Balanced(e.contributed, I \ {r}, n)
        /\ (n = Cardinality(e.contributed)) <=> (I \ {r} = {})
    BY <1>6, <1>n, <2>1, <2>2, LeaveBalanced, SMT DEF EntryInv
  <2>4. I \ {r} \subseteq e.contributed
    BY <2>3 DEF Balanced
  <2>5. ASSUME I \ {r} # {} PROVE SoundState(~aborted, f, k, I \ {r})
    BY <1>11, <2>1, <2>3, <2>4, <2>5 DEF SoundState
  <2>6. QED
    BY <2>1, <2>3, <2>5
<1>14. CASE I \ {r} = {}
  <2>1. ReapsEntry(r)
    BY <1>9, <1>12, <1>13, <1>14 DEF ReapsEntry, I, ph, k
  <2>2. QED
    BY <1>1, <1>3, <1>4, <1>5, <1>6, <2>1 DEF ph, k
<1>15. CASE I \ {r} # {}
  <2>1. LeavesEntry(r, f)
    BY <1>9, <1>11, <1>12, <1>13, <1>15 DEF LeavesEntry, I, e, ph, k
  <2>2. QED
    BY <1>1, <1>3, <1>4, <1>5, <1>6, <2>1 DEF ph, k
<1>16. QED
  BY <1>14, <1>15

\* Leaving with the output keeps the entries sound, and takes none away from
\* a rank that is still inside.
LEMMA ConsumeKeepsEntries ==
  ASSUME BaseInv, EntryInv, NEW r \in Ranks, LeaveWithOutput(r)
  PROVE  EntryInv'
<1> DEFINE ph == Phase(call[r])
           k == Key(call[r])
           I == InsideAt(ph, k)
<1>1. /\ ph \in Maps /\ k \in Keys /\ k \in DOMAIN states[ph] /\ ~aborted
      /\ Inside(r) /\ ~Inside(r)' /\ call' = call
      /\ UNCHANGED <<barriers, aborted, abortCause, abortPc>>
  BY ConsumeShape
<1>2. \A q \in Ranks : q # r => Keeps(q)
  BY RankMoves DEF RankStep, Run, Moved, BaseInv
<1>3. ASSUME NEW x, NEW j
      PROVE  InsideAt(x, j)' = IF x = ph /\ j = k THEN InsideAt(x, j) \ {r} ELSE InsideAt(x, j)
  BY <1>1, <1>2, InsideLeaves
<1>4. \A q \in Ranks : Inside(q)' => q # r /\ Inside(q)
  BY <1>1, <1>2 DEF Keeps, Inside
<1>b. ph # "barrier"
  BY <1>1 DEF Maps
<1>x. ReapsEntry(r) \/ \E f : LeavesEntry(r, f)
  BY ConsumeShape
<1>d. DOMAIN states = Maps
  BY DEF EntryInv
<1> HIDE DEF ph, k, I
<1>5. \* The new map: the entry at k goes, or is f; every other stays.
      /\ DOMAIN states' = Maps
      /\ \A x \in Maps : x # ph => states'[x] = states[x]
      /\ \A j \in DOMAIN states'[ph] : j \in DOMAIN states[ph]
      /\ \A j \in DOMAIN states[ph] : j # k => j \in DOMAIN states'[ph] /\ states'[ph][j] = states[ph][j]
      /\ I \ {r} = {} => k \notin DOMAIN states'[ph]
      /\ I \ {r} # {} => /\ k \in DOMAIN states'[ph]
                         /\ states'[ph][k].contributed = states[ph][k].contributed
                         /\ states'[ph][k].outputs = states[ph][k].outputs
                         /\ SoundState(~aborted, states'[ph][k], k, I \ {r})
  <2>1. CASE ReapsEntry(r)
    <3>1. I \ {r} = {} /\ states' = [states EXCEPT ![ph] = Without(states[ph], k)]
      BY <2>1 DEF ReapsEntry, I, ph, k
    <3>2. /\ DOMAIN states' = Maps /\ states'[ph] = Without(states[ph], k)
          /\ \A x \in Maps : x # ph => states'[x] = states[x]
      BY <1>1, <1>d, <3>1, StatesUpdate DEF ph
    <3>3. QED
      BY <3>1, <3>2 DEF Without
  <2>2. ASSUME NEW f, LeavesEntry(r, f)
        PROVE  /\ DOMAIN states' = Maps /\ I \ {r} # {}
               /\ \A x \in Maps : x # ph => states'[x] = states[x]
               /\ DOMAIN states'[ph] = DOMAIN states[ph] /\ states'[ph][k] = f
               /\ \A j \in DOMAIN states[ph] : j # k => states'[ph][j] = states[ph][j]
               /\ f.contributed = states[ph][k].contributed
               /\ f.outputs = states[ph][k].outputs
               /\ SoundState(~aborted, f, k, I \ {r})
    <3>1. /\ I \ {r} # {} /\ states' = [states EXCEPT ![ph] = With(states[ph], k, f)]
          /\ f.contributed = states[ph][k].contributed
          /\ f.outputs = states[ph][k].outputs
          /\ SoundState(~aborted, f, k, I \ {r})
      BY <2>2 DEF LeavesEntry, I, ph, k
    <3>2. /\ DOMAIN states' = Maps /\ states'[ph] = With(states[ph], k, f)
          /\ \A x \in Maps : x # ph => states'[x] = states[x]
      BY <1>1, <1>d, <3>1, StatesUpdate DEF ph
    <3>3. /\ DOMAIN states'[ph] = DOMAIN states[ph] /\ states'[ph][k] = f
          /\ \A j \in DOMAIN states[ph] : j # k => states'[ph][j] = states[ph][j]
      BY <1>1, <3>2 DEF With, ph, k
    <3>4. QED
      BY <3>1, <3>2, <3>3
  <2>3. CASE \E f : LeavesEntry(r, f)
    <3>1. PICK f : LeavesEntry(r, f)
      BY <2>3
    <3>2. k \in DOMAIN states[ph]
      BY <1>1 DEF ph, k
    <3>3. QED
      BY <2>2, <3>1, <3>2
  <2>4. QED
    BY <1>x, <2>1, <2>3
<1>6. ASSUME NEW x \in Maps, NEW j \in DOMAIN states'[x]
      PROVE  j \in Keys /\ SoundState(~aborted', states'[x][j], j, InsideAt(x, j)')
  <2>1. CASE x = ph /\ j = k
    <3>1. SoundState(~aborted, states'[ph][k], k, I \ {r})
      BY <1>5, <1>6, <2>1
    <3>2. InsideAt(x, j)' = I \ {r}
      BY <1>3, <2>1 DEF I
    <3>3. QED
      BY <1>1, <2>1, <3>1, <3>2
  <2>2. CASE ~(x = ph /\ j = k)
    <3>1. j \in DOMAIN states[x] /\ states'[x][j] = states[x][j]
      BY <1>5, <1>6, <2>2
    <3>2. j \in Keys /\ SoundState(~aborted, states[x][j], j, InsideAt(x, j))
      BY <3>1 DEF EntryInv
    <3>3. InsideAt(x, j)' = InsideAt(x, j)
      BY <1>3, <2>2
    <3>4. QED
      BY <1>1, <3>1, <3>2, <3>3
  <2>3. QED
    BY <2>1, <2>2
<1>7. ASSUME NEW j \in DOMAIN barriers'
      PROVE  j \in Keys /\ SoundBarrier(barriers'[j], j, InsideAt("barrier", j)')
  <2>1. InsideAt("barrier", j)' = InsideAt("barrier", j)
    BY <1>3, <1>b
  <2>2. QED
    BY <1>1, <2>1 DEF EntryInv
<1>8. ASSUME NEW q \in Ranks, Inside(q)', Phase(call[q]) # "barrier"
      PROVE  /\ Key(call[q]) \in DOMAIN states'[Phase(call[q])]
             /\ states'[Phase(call[q])][Key(call[q])].contributed =
                  states[Phase(call[q])][Key(call[q])].contributed
             /\ states'[Phase(call[q])][Key(call[q])].outputs =
                  states[Phase(call[q])][Key(call[q])].outputs
  <2>1. Phase(call[q]) \in Maps /\ Key(call[q]) \in DOMAIN states[Phase(call[q])] /\ Inside(q)
        /\ q # r
    BY <1>4, <1>8, PhaseType, InsideEntry
  <2>2. CASE Phase(call[q]) = ph /\ Key(call[q]) = k
    <3>1. q \in I \ {r}
      BY <2>1, <2>2 DEF I, InsideAt
    <3>2. QED
      BY <1>5, <2>2, <3>1
  <2>3. CASE ~(Phase(call[q]) = ph /\ Key(call[q]) = k)
    BY <1>5, <2>1, <2>3
  <2>4. QED
    BY <2>2, <2>3
<1>9. EntryOutlivesRanks'
  <2> SUFFICES ASSUME NEW q \in Ranks, Inside(q)'
               PROVE  IF Phase(call[q]) = "barrier"
                      THEN Key(call[q]) \in DOMAIN barriers /\ q \in barriers[Key(call[q])].arrived
                      ELSE /\ Key(call[q]) \in DOMAIN states'[Phase(call[q])]
                           /\ q \in states'[Phase(call[q])][Key(call[q])].contributed
    BY <1>1 DEF EntryOutlivesRanks
  <2>1. QED
    BY <1>4, <1>8, InsideEntry
<1>10. ASSUME NEW q \in Ranks, pc'[q] = "leave" PROVE Done(q)' \/ Stopped(q)'
  <2>1. Inside(q)'
    BY <1>10 DEF Inside
  <2>2. q # r /\ pc[q] = "leave" /\ Inside(q)
    BY <1>2, <1>4, <1>10, <2>1 DEF Keeps
  <2>3. Done(q) \/ Stopped(q)
    BY <2>2 DEF EntryInv
  <2>4. QED
    BY <1>1, <1>8, <2>1, <2>3 DEF Done, Stopped
<1>11. QED
  BY <1>5, <1>6, <1>7, <1>9, <1>10 DEF EntryInv

\* After an abort nothing is consumed: the entry stays for those inside.
LEMMA AbortedLeaveKeepsEntries ==
  ASSUME BaseInv, EntryInv, NEW r \in Ranks, LeaveAborted(r)
  PROVE  EntryInv'
<1>1. /\ pc[r] = "leave" /\ Phase(call[r]) # "barrier" /\ aborted /\ call' = call
      /\ UNCHANGED <<states, barriers, aborted, abortCause, abortPc>>
  BY DEF LeaveAborted, sequencerVars, abortVars
<1>2. \A q \in Ranks : q # r => Keeps(q)
  BY RankMoves DEF RankStep, Run, Moved, BaseInv
<1>3. Inside(r) /\ ~Inside(r)'
  BY DEF LeaveAborted, Return, Fail, Goto, Inside, BaseInv, ControlInv
<1>4. ASSUME NEW x, NEW j
      PROVE  InsideAt(x, j)' = IF x = Phase(call[r]) /\ j = Key(call[r])
                               THEN InsideAt(x, j) \ {r} ELSE InsideAt(x, j)
  BY <1>2, <1>3, InsideLeaves
<1>5. \A q \in Ranks : Inside(q)' => q # r /\ Inside(q)
  BY <1>2, <1>3 DEF Keeps, Inside
<1>6. ASSUME NEW x \in Maps, NEW j \in DOMAIN states[x]
      PROVE  j \in Keys /\ SoundState(~aborted', states[x][j], j, InsideAt(x, j)')
  <2>1. j \in Keys /\ SoundState(~aborted, states[x][j], j, InsideAt(x, j))
    BY DEF EntryInv
  <2>2. InsideAt(x, j)' \subseteq InsideAt(x, j)
    BY <1>4
  <2>3. QED
    BY <1>1, <2>1, <2>2 DEF SoundState
<1>7. ASSUME NEW j \in DOMAIN barriers
      PROVE  j \in Keys /\ SoundBarrier(barriers[j], j, InsideAt("barrier", j)')
  <2>1. InsideAt("barrier", j)' = InsideAt("barrier", j)
    BY <1>1, <1>4
  <2>2. QED
    BY <2>1 DEF EntryInv
<1>8. EntryOutlivesRanks'
  BY <1>1, <1>5 DEF EntryInv, EntryOutlivesRanks
<1>9. ASSUME NEW q \in Ranks, pc'[q] = "leave" PROVE Done(q)' \/ Stopped(q)'
  <2>1. Inside(q)'
    BY <1>9 DEF Inside
  <2>2. q # r /\ pc[q] = "leave"
    BY <1>2, <1>5, <1>9, <2>1 DEF Keeps
  <2>3. Done(q) \/ Stopped(q)
    BY <2>2 DEF EntryInv
  <2>4. QED
    BY <1>1, <2>3 DEF Done, Stopped
<1>10. QED
  BY <1>1, <1>6, <1>7, <1>8, <1>9 DEF EntryInv

\* The barrier a rank finds, or makes.
Found(r) ==
    IF Key(call[r]) \in DOMAIN barriers THEN barriers[Key(call[r])]
    ELSE [arrived |-> {}, departed |-> 0, released |-> FALSE]

\* The barrier f that rank r's arrival leaves in the map.
NewBarrier(r, f) ==
    /\ f \in BarrierEntry
    /\ barriers' = With(barriers, Key(call[r]), f)
    /\ f.arrived = Found(r).arrived \cup {r}
    /\ f.departed = Found(r).departed
    /\ \/ /\ f.arrived = Members[call[r].group] /\ f.released
          /\ NotifyAndGoto(r, "barrier", "check")
       \/ /\ f.arrived # Members[call[r].group] /\ ~f.released
          /\ Goto(r, "check")

\* What an arrival finds and what it does.
LEMMA ArriveShape ==
  ASSUME BaseInv, EntryInv, NEW r \in Ranks, Arrives(r)
  PROVE  /\ pc[r] = "arrive" /\ pc'[r] = "check" /\ call' = call
         /\ Phase(call[r]) = "barrier" /\ Key(call[r]) \in Keys
         /\ r \in Members[Key(call[r])[1]] /\ Key(call[r])[1] = call[r].group
         /\ Found(r) \in BarrierEntry /\ r \notin Found(r).arrived
         /\ Found(r).arrived \subseteq Members[Key(call[r])[1]]
         /\ Balanced(Found(r).arrived, InsideAt("barrier", Key(call[r])), Found(r).departed)
         /\ UNCHANGED <<states, aborted, abortCause, abortPc, tickets, emitted>>
         /\ \E f : NewBarrier(r, f)
<1> DEFINE k == Key(call[r])
           old == Found(r)
           all == old.arrived \cup {r} = Members[call[r].group]
           f == [old EXCEPT !.arrived = @ \cup {r}, !.released = @ \/ all]
<1>1. /\ pc[r] = "arrive" /\ pc'[r] = "check" /\ call' = call
      /\ UNCHANGED <<states, aborted, abortCause, abortPc, tickets, emitted>>
  BY DEF Arrives, Arrive, sequencerVars, abortVars
<1>2. call[r] \in Calls /\ r \in Members[call[r].group] /\ call[r].kind = "barrier"
  BY <1>1 DEF BaseInv, ControlInv, Fitting
<1>3. k \in Keys /\ k[1] = call[r].group /\ Phase(call[r]) = "barrier"
  BY <1>2, KeyFields DEF Phase
<1>4. /\ old \in BarrierEntry /\ old.arrived \subseteq Members[k[1]]
      /\ old.released => old.arrived = Members[k[1]]
      /\ Balanced(old.arrived, InsideAt("barrier", k), old.departed)
  <2>1. CASE k \in DOMAIN barriers
    BY <2>1 DEF EntryInv, SoundBarrier, Found
  <2>2. CASE k \notin DOMAIN barriers
    <3>1. old = [arrived |-> {}, departed |-> 0, released |-> FALSE]
      BY <2>2 DEF Found
    <3>2. /\ old \in BarrierEntry /\ old.arrived = {} /\ old.departed = 0 /\ old.released = FALSE
      BY <3>1, SMT DEF BarrierEntry
    <3>3. InsideAt("barrier", k) = {}
      BY <2>2, InsideEntry DEF InsideAt
    <3>4. Balanced({}, {}, 0)
      BY NobodyBalanced DEF EntryInv
    <3>5. QED
      BY <3>2, <3>3, <3>4
  <2>3. QED
    BY <2>1, <2>2
<1>5. /\ r \notin old.arrived /\ barriers' = With(barriers, k, f)
      /\ IF all THEN NotifyAndGoto(r, "barrier", "check") ELSE Goto(r, "check")
  <2>1. pc \in [Ranks -> Labels]
    BY DEF BaseInv, ControlInv
  <2>2. ~(r \in old.arrived)
    <3>1. r \in old.arrived => Return(r, "err")
      BY DEF Arrives, Arrive, Found
    <3>2. Return(r, "err") => pc'[r] = "idle"
      BY <2>1 DEF Return, Goto
    <3>3. QED
      BY <1>1, <3>1, <3>2
  <2>3. QED
    BY <2>2 DEF Arrives, Arrive, Found
<1>6. ~old.released
  BY <1>2, <1>3, <1>4, <1>5
<1> HIDE DEF old
<1>7. /\ f \in BarrierEntry /\ f.arrived = old.arrived \cup {r} /\ f.departed = old.departed
      /\ f.released <=> all
  <2>1. old.released = FALSE
    BY <1>4, <1>6 DEF BarrierEntry
  <2>2. QED
    BY <1>4, <2>1 DEF BarrierEntry
<1> HIDE DEF f
<1>8. NewBarrier(r, f)
  BY <1>5, <1>7 DEF NewBarrier, old
<1>9. QED
  BY <1>1, <1>2, <1>3, <1>4, <1>5, <1>8 DEF old

\* An arrival keeps the barriers sound.
LEMMA ArriveKeepsEntries ==
  ASSUME BaseInv, EntryInv, NEW r \in Ranks, Arrives(r)
  PROVE  EntryInv'
<1> DEFINE k == Key(call[r])
           old == Found(r)
<1>1. /\ pc[r] = "arrive" /\ pc'[r] = "check" /\ call' = call /\ r \notin old.arrived
      /\ Phase(call[r]) = "barrier" /\ k \in Keys /\ r \in Members[k[1]]
      /\ k[1] = call[r].group /\ old \in BarrierEntry /\ old.arrived \subseteq Members[k[1]]
      /\ Balanced(old.arrived, InsideAt("barrier", k), old.departed)
      /\ UNCHANGED <<states, aborted, abortCause, abortPc>>
  BY ArriveShape
<1>2. PICK f : NewBarrier(r, f)
  BY ArriveShape
<1>3. \A q \in Ranks : q # r => Keeps(q)
  BY RankMoves DEF Arrives, RankStep, Acquire, Moved, BaseInv
<1>4. ~Inside(r) /\ Inside(r)'
  BY <1>1 DEF Inside
<1>5. ASSUME NEW x, NEW j
      PROVE  InsideAt(x, j)' = IF x = "barrier" /\ j = k THEN InsideAt(x, j) \cup {r}
                               ELSE InsideAt(x, j)
  BY <1>1, <1>3, <1>4, InsideEnters
<1>6. /\ f \in BarrierEntry /\ f.arrived = old.arrived \cup {r} /\ f.departed = old.departed
      /\ f.released => f.arrived = Members[k[1]]
      /\ barriers' = With(barriers, k, f)
  BY <1>1, <1>2 DEF NewBarrier
<1>o. k \in DOMAIN barriers => old = barriers[k]
  BY DEF Found
<1>r. k \in DOMAIN barriers /\ barriers[k].released => FALSE
  BY <1>1, <1>o DEF EntryInv, SoundBarrier
<1> HIDE DEF k, old
<1>7. /\ DOMAIN barriers' = DOMAIN barriers \cup {k} /\ barriers'[k] = f
      /\ \A j \in DOMAIN barriers : j # k => barriers'[j] = barriers[j]
  BY <1>6 DEF With
<1>8. ASSUME NEW j \in DOMAIN barriers'
      PROVE  j \in Keys /\ SoundBarrier(barriers'[j], j, InsideAt("barrier", j)')
  <2>1. CASE j = k
    <3>1. SoundBarrier(f, k, InsideAt("barrier", k) \cup {r})
      BY <1>1, <1>6, JoinBarrier
    <3>2. QED
      BY <1>1, <1>5, <1>7, <2>1, <3>1
  <2>2. CASE j # k
    <3>1. j \in DOMAIN barriers /\ barriers'[j] = barriers[j]
      BY <1>7, <1>8, <2>2
    <3>2. j \in Keys /\ SoundBarrier(barriers[j], j, InsideAt("barrier", j))
      BY <3>1 DEF EntryInv
    <3>3. InsideAt("barrier", j)' = InsideAt("barrier", j)
      BY <1>5, <2>2
    <3>4. QED
      BY <3>1, <3>2, <3>3
  <2>3. QED
    BY <2>1, <2>2
<1>9. ASSUME NEW x \in Maps, NEW j \in DOMAIN states[x]
      PROVE  j \in Keys /\ SoundState(~aborted, states[x][j], j, InsideAt(x, j)')
  <2>1. x # "barrier"
    BY <1>9 DEF Maps
  <2>2. InsideAt(x, j)' = InsideAt(x, j)
    BY <1>5, <2>1
  <2>3. QED
    BY <2>2 DEF EntryInv
<1>10. \A q \in Ranks : q # r => Inside(q)' = Inside(q)
  BY <1>3, SMT DEF Keeps, Inside
<1>11. EntryOutlivesRanks'
  <2> SUFFICES ASSUME NEW q \in Ranks, Inside(q)'
               PROVE  IF Phase(call[q]) = "barrier"
                      THEN Key(call[q]) \in DOMAIN barriers' /\ q \in barriers'[Key(call[q])].arrived
                      ELSE /\ Key(call[q]) \in DOMAIN states[Phase(call[q])]
                           /\ q \in states[Phase(call[q])][Key(call[q])].contributed
    BY <1>1 DEF EntryOutlivesRanks
  <2>1. CASE q = r
    BY <1>1, <1>6, <1>7, <2>1, ZenonT(30) DEF k
  <2>2. CASE q # r /\ Phase(call[q]) = "barrier"
    <3>1. Key(call[q]) \in DOMAIN barriers /\ q \in barriers[Key(call[q])].arrived
      BY <1>10, <2>2, InsideEntry
    <3>2. QED
      BY <1>6, <1>7, <1>o, <2>2, <3>1
  <2>3. CASE q # r /\ Phase(call[q]) # "barrier"
    BY <1>10, <2>3, InsideEntry
  <2>4. QED
    BY <2>1, <2>2, <2>3
<1>12. ASSUME NEW q \in Ranks, pc'[q] = "leave" PROVE Done(q)' \/ Stopped(q)'
  <2>1. q # r /\ pc[q] = "leave"
    BY <1>1, <1>3, <1>12 DEF Keeps
  <2>2. Done(q) \/ Stopped(q)
    BY <2>1 DEF EntryInv
  <2>3. Inside(q)
    BY <2>1 DEF Inside
  <2>4. Phase(call[q]) = "barrier" => Key(call[q]) \in DOMAIN barriers
    BY <2>3, InsideEntry
  <2>5. CASE Phase(call[q]) = "barrier" /\ barriers[Key(call[q])].released
    <3>1. Key(call[q]) # k
      BY <1>r, <2>4, <2>5
    <3>2. barriers'[Key(call[q])].released
      BY <1>7, <2>4, <2>5, <3>1
    <3>3. QED
      BY <1>1, <2>5, <3>2 DEF Done
  <2>6. CASE ~(Phase(call[q]) = "barrier" /\ barriers[Key(call[q])].released)
    BY <1>1, <2>2, <2>4, <2>6 DEF Done, Stopped
  <2>7. QED
    BY <2>5, <2>6
<1>13. QED
  BY <1>1, <1>8, <1>9, <1>11, <1>12 DEF EntryInv

\* The last of those that arrived removes the barrier, any other leaves it
\* sound.
LEMMA DepartKeepsEntries ==
  ASSUME BaseInv, EntryInv, NEW r \in Ranks, LeaveBarrier(r)
  PROVE  EntryInv'
<1> DEFINE k == Key(call[r])
           I == InsideAt("barrier", k)
           b == barriers[k]
           f == [b EXCEPT !.departed = @ + 1]
           n == b.departed + 1
<1>1. /\ pc[r] = "leave" /\ Phase(call[r]) = "barrier" /\ call' = call
      /\ UNCHANGED <<states, aborted, abortCause, abortPc>>
  BY DEF LeaveBarrier, sequencerVars, abortVars
<1>2. \A q \in Ranks : q # r => Keeps(q)
  BY RankMoves DEF RankStep, Run, Moved, BaseInv
<1>3. Inside(r) /\ ~Inside(r)'
  BY DEF LeaveBarrier, Return, Goto, Inside, BaseInv, ControlInv
<1>4. ASSUME NEW x, NEW j
      PROVE  InsideAt(x, j)' = IF x = "barrier" /\ j = k THEN InsideAt(x, j) \ {r}
                               ELSE InsideAt(x, j)
  BY <1>1, <1>2, <1>3, InsideLeaves, SMT
<1>5. \A q \in Ranks : Inside(q)' => q # r /\ Inside(q)
  BY <1>2, <1>3 DEF Keeps, Inside
<1>6. k \in DOMAIN barriers /\ r \in I
  BY <1>1, <1>3, InsideEntry DEF InsideAt
<1>7. k \in Keys /\ SoundBarrier(b, k, I) /\ b \in BarrierEntry
  BY <1>6 DEF EntryInv, SoundBarrier
<1>8. barriers' = IF n = Cardinality(b.arrived) THEN Without(barriers, k)
                  ELSE [barriers EXCEPT ![k] = f]
  BY <1>6 DEF LeaveBarrier
<1> HIDE DEF k, b, I
<1>9. /\ f \in BarrierEntry /\ f.arrived = b.arrived /\ f.departed = n /\ f.released = b.released
  BY <1>7, SMT DEF BarrierEntry
<1>n. n = b.departed + 1
  OBVIOUS
<1> HIDE DEF f, n
<1>10. /\ (n = Cardinality(b.arrived)) <=> (I \ {r} = {})
       /\ I \ {r} # {} => SoundBarrier(f, k, I \ {r})
  BY <1>6, <1>7, <1>9, <1>n, LeaveBarrierEntry, SMT DEF EntryInv
<1>11. /\ \A j \in DOMAIN barriers' : j \in DOMAIN barriers
       /\ \A j \in DOMAIN barriers : j # k => j \in DOMAIN barriers' /\ barriers'[j] = barriers[j]
       /\ I \ {r} = {} => k \notin DOMAIN barriers'
       /\ I \ {r} # {} => k \in DOMAIN barriers' /\ barriers'[k] = f
  <2>1. CASE I \ {r} = {}
    <3>1. barriers' = Without(barriers, k)
      BY <1>8, <1>10, <2>1
    <3>2. QED
      BY <2>1, <3>1 DEF Without
  <2>2. CASE I \ {r} # {}
    <3>1. barriers' = [barriers EXCEPT ![k] = f]
      BY <1>8, <1>10, <2>2
    <3>2. QED
      BY <1>6, <2>2, <3>1
  <2>3. QED
    BY <2>1, <2>2
<1>12. ASSUME NEW j \in DOMAIN barriers'
       PROVE  j \in Keys /\ SoundBarrier(barriers'[j], j, InsideAt("barrier", j)')
  <2>1. CASE j = k
    <3>1. SoundBarrier(barriers'[k], k, I \ {r})
      BY <1>10, <1>11, <1>12, <2>1
    <3>2. InsideAt("barrier", j)' = I \ {r}
      BY <1>4, <2>1 DEF I
    <3>3. QED
      BY <1>7, <2>1, <3>1, <3>2
  <2>2. CASE j # k
    <3>1. j \in DOMAIN barriers /\ barriers'[j] = barriers[j]
      BY <1>11, <1>12, <2>2
    <3>2. j \in Keys /\ SoundBarrier(barriers[j], j, InsideAt("barrier", j))
      BY <3>1 DEF EntryInv
    <3>3. InsideAt("barrier", j)' = InsideAt("barrier", j)
      BY <1>4, <2>2
    <3>4. QED
      BY <3>1, <3>2, <3>3
  <2>3. QED
    BY <2>1, <2>2
<1>13. ASSUME NEW x \in Maps, NEW j \in DOMAIN states[x]
       PROVE  j \in Keys /\ SoundState(~aborted, states[x][j], j, InsideAt(x, j)')
  <2>1. x # "barrier"
    BY <1>13 DEF Maps
  <2>2. InsideAt(x, j)' = InsideAt(x, j)
    BY <1>4, <2>1
  <2>3. QED
    BY <2>2 DEF EntryInv
<1>14. ASSUME NEW q \in Ranks, Inside(q)', Phase(call[q]) = "barrier"
       PROVE  /\ Key(call[q]) \in DOMAIN barriers' /\ Key(call[q]) \in DOMAIN barriers
              /\ q \in barriers[Key(call[q])].arrived
              /\ barriers'[Key(call[q])].arrived = barriers[Key(call[q])].arrived
              /\ barriers'[Key(call[q])].released = barriers[Key(call[q])].released
  <2>1. /\ Inside(q) /\ q # r /\ Key(call[q]) \in DOMAIN barriers
        /\ q \in barriers[Key(call[q])].arrived
    BY <1>5, <1>14, InsideEntry
  <2>2. CASE Key(call[q]) = k
    <3>1. q \in I \ {r}
      BY <1>14, <2>1, <2>2 DEF I, InsideAt
    <3>2. k \in DOMAIN barriers' /\ barriers'[k] = f
      BY <1>11, <3>1
    <3>3. f.arrived = barriers[k].arrived /\ f.released = barriers[k].released
      BY <1>9 DEF b
    <3>4. QED
      BY <2>1, <2>2, <3>2, <3>3
  <2>3. CASE Key(call[q]) # k
    BY <1>11, <2>1, <2>3
  <2>4. QED
    BY <2>2, <2>3
<1>15. EntryOutlivesRanks'
  <2> SUFFICES ASSUME NEW q \in Ranks, Inside(q)'
               PROVE  IF Phase(call[q]) = "barrier"
                      THEN Key(call[q]) \in DOMAIN barriers' /\ q \in barriers'[Key(call[q])].arrived
                      ELSE /\ Key(call[q]) \in DOMAIN states[Phase(call[q])]
                           /\ q \in states[Phase(call[q])][Key(call[q])].contributed
    BY <1>1 DEF EntryOutlivesRanks
  <2>1. QED
    BY <1>5, <1>14, InsideEntry
<1>16. ASSUME NEW q \in Ranks, pc'[q] = "leave" PROVE Done(q)' \/ Stopped(q)'
  <2>1. Inside(q)'
    BY <1>16 DEF Inside
  <2>2. q # r /\ pc[q] = "leave"
    BY <1>2, <1>5, <1>16, <2>1 DEF Keeps
  <2>3. Done(q) \/ Stopped(q)
    BY <2>2 DEF EntryInv
  <2>4. CASE Phase(call[q]) = "barrier"
    BY <1>1, <1>14, <2>1, <2>3, <2>4 DEF Done, Stopped
  <2>5. CASE Phase(call[q]) # "barrier"
    BY <1>1, <2>3, <2>5 DEF Done, Stopped
  <2>6. QED
    BY <2>4, <2>5
<1>17. QED
  BY <1>1, <1>12, <1>13, <1>15, <1>16 DEF EntryInv

\* Every step keeps the entries and the ranks inside them in step.
LEMMA StepEntry == BaseInv /\ EntryInv /\ [Next]_vars => EntryInv'
<1> SUFFICES ASSUME BaseInv, EntryInv, [Next]_vars PROVE EntryInv'
  OBVIOUS
<1>b. aborted \in BOOLEAN /\ pc \in [Ranks -> Labels]
  BY DEF BaseInv, SequencerTypeOK, ControlInv
<1>1. ASSUME NEW r \in Ranks, RankStep(r) PROVE EntryInv'
  <2>1. \A q \in Ranks : q # r => Keeps(q)
    BY <1>1, RankMoves DEF Moved, BaseInv
  <2>2. \A q \in Ranks : q # r => /\ Inside(q)' = Inside(q) /\ call'[q] = call[q]
                                 /\ (pc'[q] = "leave" => pc[q] = "leave")
    BY <2>1, SMT DEF Keeps, Inside
  <2>3. CASE Contributes(r)
    BY <2>3, ContributeKeepsEntries
  <2>4. CASE Arrives(r)
    BY <2>4, ArriveKeepsEntries
  <2>5. CASE Leaves(r)
    BY <2>5, ConsumeKeepsEntries, AbortedLeaveKeepsEntries, DepartKeepsEntries DEF Leaves
  <2>6. CASE Turns(r)
    <3>1. UNCHANGED <<states, barriers, aborted, abortCause, call>>
      BY <2>6 DEF Turns, Check, Park, SpuriousWakeup, Reacquire, mapVars, callVars,
         abortVars, sequencerVars
    <3>2. Inside(r) /\ Inside(r)' /\ (pc'[r] = "leave" => Done(r) \/ Stopped(r))
      BY <1>b, <2>6 DEF Turns, Check, Park, SpuriousWakeup, Reacquire, Goto, Inside
    <3>3. \A q \in Ranks : /\ Inside(q)' = Inside(q) /\ (Inside(q) => call'[q] = call[q])
                           /\ (pc'[q] = "leave" => pc[q] = "leave" \/ Done(q) \/ Stopped(q))
      BY <2>2, <3>1, <3>2, SMT DEF Inside
    <3>4. /\ aborted' \in BOOLEAN
          /\ aborted => aborted'
          /\ abortCause => abortCause'
      BY <1>b, <3>1
    <3>5. QED
      BY <1>b, <3>1, <3>3, <3>4, QuietEntries
  <2>7. CASE Plain(r)
    <3>1. UNCHANGED <<states, barriers, aborted, abortCause>> /\ ~Inside(r) /\ ~Inside(r)'
      BY <2>7 DEF Plain
    <3>2. pc'[r] # "leave"
      BY <3>1 DEF Inside
    <3>3. \A q \in Ranks : /\ Inside(q)' = Inside(q) /\ (Inside(q) => call'[q] = call[q])
                           /\ (pc'[q] = "leave" => pc[q] = "leave" \/ Done(q) \/ Stopped(q))
      BY <2>2, <3>1, <3>2, SMT DEF Inside
    <3>4. /\ aborted' \in BOOLEAN
          /\ aborted => aborted'
          /\ abortCause => abortCause'
      BY <1>b, <3>1
    <3>5. QED
      BY <1>b, <3>1, <3>3, <3>4, QuietEntries
  <2>8. QED
    BY <1>1, <2>3, <2>4, <2>5, <2>6, <2>7, PlainSteps DEF BaseInv
<1>2. CASE AbortSequencer \/ AbortRuns \/ UNCHANGED vars
  <2>1. states' = states /\ barriers' = barriers /\ \A q \in Ranks : Keeps(q)
    BY <1>2, AbortKeeps DEF BaseInv
  <2>2. /\ aborted' \in BOOLEAN
        /\ aborted => aborted'
        /\ abortCause => abortCause'
    <3>1. CASE AbortSequencer
      BY <1>b, <3>1 DEF AbortSequencer, SequencerAbort
    <3>2. CASE AbortCause
      BY <1>b, <3>2 DEF AbortCause, sequencerVars
    <3>3. CASE UNCHANGED <<aborted, abortCause>>
      BY <1>b, <3>3
    <3>4. QED
      BY <1>2, <3>1, <3>2, <3>3 DEF AbortRuns, AbortNotify, vars, abortVars, sequencerVars
  <2>3. \A q \in Ranks : /\ Inside(q)' = Inside(q) /\ call'[q] = call[q]
                         /\ (pc'[q] = "leave" => pc[q] = "leave")
    BY <2>1, SMT DEF Keeps, Inside
  <2>4. QED
    BY <1>b, <2>1, <2>2, <2>3, QuietEntries
<1>3. QED
  BY <1>1, <1>2 DEF Next, RankStep

\* The maps are empty at the start.
LEMMA InitEntry == CountingLaws /\ Init => EntryInv
  BY SMT DEF Init, EntryInv, EntryOutlivesRanks, Inside

\* Some rank is still in every rendezvous that has an entry.
LEMMA EntriesHaveRanks == EntryInv => EntriesReaped
<1> SUFFICES ASSUME EntryInv PROVE EntriesReaped
  OBVIOUS
<1>1. ASSUME NEW k \in DOMAIN barriers
      PROVE  \E r \in Ranks : Inside(r) /\ Phase(call[r]) = "barrier" /\ Key(call[r]) = k
  <2>1. InsideAt("barrier", k) # {}
    BY DEF EntryInv, SoundBarrier
  <2>2. QED
    BY <2>1 DEF InsideAt
<1>2. ASSUME ~aborted, NEW ph \in Maps, NEW k \in DOMAIN states[ph]
      PROVE  \E r \in Ranks : Inside(r) /\ Phase(call[r]) = ph /\ Key(call[r]) = k
  <2>1. InsideAt(ph, k) # {}
    BY <1>2 DEF EntryInv, SoundState
  <2>2. QED
    BY <2>1 DEF InsideAt
<1>3. QED
  BY <1>1, <1>2 DEF EntriesReaped

\* Who leaves short of an abort finds everyone's contribution.
LEMMA LeaversFoundAll == BaseInv /\ EntryInv => RendezvousComplete
<1> SUFFICES ASSUME BaseInv, EntryInv, NEW r \in Ranks, pc[r] = "leave", ~Stopped(r)
             PROVE  Members[call[r].group] =
                      IF Phase(call[r]) = "barrier" THEN barriers[Key(call[r])].arrived
                      ELSE states[Phase(call[r])][Key(call[r])].contributed
  BY DEF RendezvousComplete
<1>1. Done(r) /\ Inside(r)
  BY DEF EntryInv, Inside
<1>2. call[r] \in Calls
  BY DEF BaseInv, ControlInv, Fitting
<1>3. Key(call[r])[1] = call[r].group
  BY <1>2, KeyFields
<1>4. CASE Phase(call[r]) = "barrier"
  <2>1. Key(call[r]) \in DOMAIN barriers
    BY <1>1, <1>4, InsideEntry
  <2>2. barriers[Key(call[r])].released
    BY <1>1, <1>4, <2>1 DEF Done
  <2>3. barriers[Key(call[r])].arrived = Members[Key(call[r])[1]]
    BY <2>1, <2>2 DEF EntryInv, SoundBarrier
  <2>4. QED
    BY <1>3, <1>4, <2>3
<1>5. CASE Phase(call[r]) # "barrier"
  <2>1. Phase(call[r]) \in Maps
    BY <1>5, PhaseType
  <2>2. /\ Key(call[r]) \in DOMAIN states[Phase(call[r])]
        /\ states[Phase(call[r])][Key(call[r])].outputs # "none"
    BY <1>1, <1>5 DEF Done
  <2>3. states[Phase(call[r])][Key(call[r])].contributed = Members[Key(call[r])[1]]
    BY <2>1, <2>2 DEF EntryInv, SoundState
  <2>4. QED
    BY <1>3, <1>5, <2>3
<1>6. QED
  BY <1>4, <1>5
=============================================================================
