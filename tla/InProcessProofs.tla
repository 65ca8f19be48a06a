--------------------------- MODULE InProcessProofs ---------------------------
(***************************************************************************)
(* The theorems about the rendezvous of the in-process communicator, for   *)
(* any number of ranks, groups, calls and buffers and any plan of calls.   *)
(*                                                                         *)
(* CommunicatorProofs shows who holds a map (LockInv) and who is in a      *)
(* rendezvous (EntryInv).  On these rest WakeInv (who still has to notify  *)
(* a sleeper), AgreeInv (everyone brings to a rendezvous what the          *)
(* sequencer let through for its key) and SlotInv (who completes a slot;   *)
(* needs AgreeInv, or a refused contribution would lose it).  A section    *)
(* each proves them inductive; the last one draws the theorems, also the   *)
(* one that counts the registry's operations and tombstones.               *)
(***************************************************************************)
EXTENDS CommunicatorProofs

\* The prover of the leaves that name none.
USE Zenon

-----------------------------------------------------------------------------
(* Condition variables: no wakeup is lost.                                  *)

Asleep(r) == pc[r] \in {"park", "parked"}

\* Where abort is, as long as it has yet to notify the waiters of a map.
StillToNotify(ph) ==
    {"cause", "barrier"} \cup
        CASE ph = "barrier" -> {} [] ph = "data" -> {"data"} [] OTHER -> {"data", "counts"}

\* A rank that is asleep, or has looked and is about to be, will be woken.
WakeInv ==
    \A r \in Ranks : Asleep(r) =>
        /\ ~Done(r)
        /\ Stopped(r) => abortPc \in StillToNotify(Phase(call[r]))

\* Nobody looks and goes to sleep while another rank holds the lock.
LEMMA FreeLockNobodyParks ==
  ASSUME LockInv, NEW q \in Ranks, held[Phase(call[q])] = NoRank, Asleep(q)
  PROVE  pc[q] = "parked"
<1>1. NoRank \notin Ranks
  BY PlanAssumption
<1>2. pc[q] = "park" => held[Phase(call[q])] = q
  BY DEF LockInv, Locked
<1>3. QED
  BY <1>1, <1>2 DEF Asleep

\* A contribution that completes a rendezvous wakes everybody asleep in it.
LEMMA ContributeWakes ==
  ASSUME BaseInv, EntryInv, LockInv, NEW r \in Ranks, Contributes(r),
         NEW q \in Ranks, q # r, Asleep(q), Asleep(q)', ~Done(q)
  PROVE  ~Done(q)'
<1>1. /\ call' = call /\ barriers' = barriers /\ pc[r] = "enter"
  BY ContributeShape
<1>2. PICK e : NewEntry(r, e)
  BY ContributeShape
<1>3. Inside(q)
  BY DEF Asleep, Inside
<1>4. CASE Phase(call[q]) = "barrier"
  BY <1>1, <1>4 DEF Done
<1>5. CASE Phase(call[q]) # "barrier" /\ ~(Phase(call[q]) = Phase(call[r]) /\ Key(call[q]) = Key(call[r]))
  <2>1. /\ Key(call[q]) \in DOMAIN states[Phase(call[q])] /\ Phase(call[q]) \in Maps
        /\ Phase(call[r]) \in Maps
    BY <1>1, <1>3, <1>5, InsideEntry, PhaseType, EnteredSound
  <2>2. states[Phase(call[q])][Key(call[q])].outputs = "none"
    BY <1>5, <2>1 DEF Done
  <2>3. states' = [states EXCEPT ![Phase(call[r])] = With(@, Key(call[r]), e)]
        /\ DOMAIN states = Maps
    BY <1>2 DEF NewEntry, EntryInv
  <2>4. states'[Phase(call[q])][Key(call[q])] = states[Phase(call[q])][Key(call[q])]
    BY <1>5, <2>1, <2>3 DEF With
  <2>5. QED
    BY <1>1, <1>5, <2>2, <2>4 DEF Done
<1>6. CASE Phase(call[q]) = Phase(call[r]) /\ Key(call[q]) = Key(call[r])
  <2>1. held[Phase(call[q])] = NoRank
    BY <1>6 DEF Contributes, Enter
  <2>2. pc[q] = "parked"
    BY <2>1, FreeLockNobodyParks
  <2>3. ~NotifyAndGoto(r, Phase(call[r]), "check")
    BY <1>6, <2>2 DEF NotifyAndGoto, Waiting, Asleep
  <2>4. e.outputs = "none"
    BY <1>2, <2>3 DEF NewEntry
  <2>5. states'[Phase(call[q])][Key(call[q])] = e /\ Phase(call[q]) # "barrier"
    <3>1. /\ states' = [states EXCEPT ![Phase(call[r])] = With(@, Key(call[r]), e)]
          /\ DOMAIN states = Maps /\ Phase(call[r]) \in Maps
      BY <1>1, <1>2, EnteredSound DEF NewEntry, EntryInv
    <3>2. QED
      BY <1>6, <3>1 DEF With, Maps
  <2>6. QED
    BY <1>1, <2>4, <2>5 DEF Done
<1>7. QED
  BY <1>4, <1>5, <1>6

\* The arrival that completes a barrier wakes everybody asleep at it.
LEMMA ArriveWakes ==
  ASSUME BaseInv, EntryInv, LockInv, NEW r \in Ranks, Arrives(r),
         NEW q \in Ranks, q # r, Asleep(q), Asleep(q)', ~Done(q)
  PROVE  ~Done(q)'
<1>1. call' = call /\ states' = states /\ Phase(call[r]) = "barrier"
  BY ArriveShape
<1>2. PICK f : NewBarrier(r, f)
  BY ArriveShape
<1>3. CASE Phase(call[q]) # "barrier"
  BY <1>1, <1>3 DEF Done
<1>4. CASE Phase(call[q]) = "barrier"
  <2>1. Key(call[q]) \in DOMAIN barriers /\ ~barriers[Key(call[q])].released
    BY <1>4 DEF Done
  <2>2. barriers' = With(barriers, Key(call[r]), f)
    BY <1>2 DEF NewBarrier
  <2>3. held[Phase(call[q])] = NoRank
    BY <1>4 DEF Arrives, Arrive
  <2>4. pc[q] = "parked"
    BY <2>3, FreeLockNobodyParks
  <2>5. ~NotifyAndGoto(r, "barrier", "check")
    BY <1>4, <2>4 DEF NotifyAndGoto, Waiting, Asleep
  <2>6. ~f.released
    BY <1>2, <2>5 DEF NewBarrier
  <2>7. Key(call[q]) \in DOMAIN barriers' /\ ~barriers'[Key(call[q])].released
    BY <2>1, <2>2, <2>6 DEF With
  <2>8. QED
    BY <1>1, <1>4, <2>7 DEF Done
<1>5. QED
  BY <1>3, <1>4

\* A rank that leaves completes nothing for those who are asleep: the entry
\* stays as it is for them.
LEMMA LeaveWakes ==
  ASSUME BaseInv, EntryInv, EntryInv', NEW r \in Ranks, Leaves(r),
         NEW q \in Ranks, q # r, Asleep(q), Asleep(q)', ~Done(q)
  PROVE  ~Done(q)'
<1>1. call' = call
  BY DEF Leaves, LeaveAborted, LeaveWithOutput, LeaveBarrier
<1>2. Inside(q)'
  BY DEF Asleep, Inside
<1>3. CASE LeaveAborted(r)
  BY <1>1, <1>3 DEF LeaveAborted, Done
<1>4. CASE LeaveWithOutput(r)
  <2>1. /\ Phase(call[r]) \in Maps /\ Key(call[r]) \in DOMAIN states[Phase(call[r])]
        /\ barriers' = barriers
        /\ ReapsEntry(r) \/ \E f : LeavesEntry(r, f)
    BY <1>4, ConsumeShape
  <2>2. DOMAIN states = Maps
    BY DEF EntryInv
  <2>3. ASSUME NEW ph \in Maps, NEW k \in DOMAIN states'[ph]
        PROVE  k \in DOMAIN states[ph] /\ states'[ph][k].outputs = states[ph][k].outputs
    <3>1. CASE ReapsEntry(r)
      <4>1. states' = [states EXCEPT ![Phase(call[r])] = Without(@, Key(call[r]))]
        BY <3>1 DEF ReapsEntry
      <4>2. QED
        BY <2>1, <2>2, <2>3, <4>1 DEF Without
    <3>2. ASSUME NEW f, LeavesEntry(r, f)
          PROVE  k \in DOMAIN states[ph] /\ states'[ph][k].outputs = states[ph][k].outputs
      <4>1. /\ states' = [states EXCEPT ![Phase(call[r])] = With(@, Key(call[r]), f)]
            /\ f.outputs = states[Phase(call[r])][Key(call[r])].outputs
        BY <3>2 DEF LeavesEntry
      <4>2. QED
        BY <2>1, <2>2, <2>3, <4>1 DEF With
    <3>3. QED
      BY <2>1, <3>1, <3>2
  <2>4. CASE Phase(call[q]) = "barrier"
    BY <1>1, <2>1, <2>4 DEF Done
  <2>5. CASE Phase(call[q]) # "barrier"
    <3>1. Phase(call[q]) \in Maps
      BY <2>5, PhaseType
    <3>2. QED
      BY <1>1, <2>3, <2>5, <3>1 DEF Done
  <2>6. QED
    BY <2>4, <2>5
<1>5. CASE LeaveBarrier(r)
  <2>1. states' = states
    BY <1>5 DEF LeaveBarrier
  <2>2. CASE Phase(call[q]) # "barrier"
    BY <1>1, <2>1, <2>2 DEF Done
  <2>3. CASE Phase(call[q]) = "barrier"
    <3>1. Key(call[q]) \in DOMAIN barriers /\ ~barriers[Key(call[q])].released
      BY <2>3 DEF Done
    <3>2. Key(call[q]) \in DOMAIN barriers'
      BY <1>1, <1>2, <2>3 DEF EntryInv, EntryOutlivesRanks
    <3>3. barriers[Key(call[q])] \in BarrierEntry
      BY <3>1 DEF EntryInv, SoundBarrier
    <3>4. \/ barriers' = barriers
          \/ barriers' = Without(barriers, Key(call[r]))
          \/ barriers' = [barriers EXCEPT ![Key(call[r])].departed = @ + 1]
      BY <1>5 DEF LeaveBarrier
    <3>5. ~barriers'[Key(call[q])].released
      BY <3>1, <3>2, <3>3, <3>4 DEF Without, BarrierEntry
    <3>6. QED
      BY <1>1, <2>3, <3>2, <3>5 DEF Done
  <2>4. QED
    BY <2>2, <2>3
<1>6. QED
  BY <1>3, <1>4, <1>5 DEF Leaves

\* Every step keeps the promise to those asleep.
LEMMA StepWake == BaseInv /\ EntryInv /\ EntryInv' /\ LockInv /\ WakeInv /\ [Next]_vars => WakeInv'
<1> SUFFICES ASSUME BaseInv, EntryInv, EntryInv', LockInv, WakeInv, [Next]_vars PROVE WakeInv'
  OBVIOUS
<1>c. pc \in [Ranks -> Labels]
  BY DEF BaseInv, ControlInv
<1>1. ASSUME NEW r \in Ranks, RankStep(r), NEW q \in Ranks, Asleep(q)'
      PROVE  ~Done(q)' /\ (Stopped(q)' => abortPc' \in StillToNotify(Phase(call'[q])))
  <2>1. \A p \in Ranks : p # r => Keeps(p)
    BY <1>1, RankMoves DEF Moved, BaseInv
  <2>2. UNCHANGED <<aborted, abortCause, abortPc>>
    <3>1. CASE Contributes(r)
      BY <3>1, ContributeShape
    <3>2. CASE Arrives(r)
      BY <3>2, ArriveShape
    <3>3. CASE Leaves(r)
      BY <3>3 DEF Leaves, LeaveAborted, LeaveWithOutput, LeaveBarrier, abortVars, sequencerVars
    <3>4. CASE Turns(r)
      BY <3>4 DEF Turns, Check, Park, SpuriousWakeup, Reacquire, abortVars, sequencerVars
    <3>5. CASE Plain(r)
      BY <3>5 DEF Plain
    <3>6. QED
      BY <1>1, <3>1, <3>2, <3>3, <3>4, <3>5, PlainSteps DEF BaseInv
  <2>3. CASE q # r
    <3>1. Asleep(q) /\ call'[q] = call[q]
      BY <1>1, <2>1, <2>3 DEF Asleep, Keeps
    <3>2. ~Done(q) /\ (Stopped(q) => abortPc \in StillToNotify(Phase(call[q])))
      BY <3>1 DEF WakeInv
    <3>3. ~Done(q)'
      <4>1. CASE Contributes(r)
        BY <1>1, <2>3, <3>1, <3>2, <4>1, ContributeWakes
      <4>2. CASE Arrives(r)
        BY <1>1, <2>3, <3>1, <3>2, <4>2, ArriveWakes
      <4>3. CASE Leaves(r)
        BY <1>1, <2>3, <3>1, <3>2, <4>3, LeaveWakes
      <4>4. CASE Turns(r) \/ Plain(r)
        <5>1. UNCHANGED <<states, barriers>>
          BY <4>4 DEF Turns, Check, Park, SpuriousWakeup, Reacquire, mapVars, Plain
        <5>2. QED
          BY <3>1, <3>2, <5>1 DEF Done
      <4>5. QED
        BY <1>1, <4>1, <4>2, <4>3, <4>4, PlainSteps DEF BaseInv
    <3>4. QED
      BY <2>2, <3>1, <3>2, <3>3 DEF Stopped
  <2>4. CASE q = r
    <3>1. Inside(r)'
      BY <1>1, <2>4 DEF Asleep, Inside
    <3>2. CASE Check(r)
      <4>1. UNCHANGED <<states, barriers, call>> /\ ~Done(r) /\ ~Stopped(r)
        BY <1>c, <1>1, <2>4, <3>2 DEF Check, Goto, Asleep, mapVars, callVars
      <4>2. QED
        BY <2>2, <2>4, <4>1 DEF Done, Stopped
    <3>3. CASE Park(r)
      <4>1. UNCHANGED <<states, barriers, call>> /\ Asleep(r)
        BY <3>3 DEF Park, callVars, Asleep
      <4>2. QED
        BY <2>2, <2>4, <4>1 DEF WakeInv, Done, Stopped
    <3>4. pc'[r] # "check" /\ pc'[r] # "woken"
      BY <1>1, <2>4 DEF Asleep
    <3>5. ~(SpuriousWakeup(r) \/ Reacquire(r))
      BY <1>c, <3>4 DEF SpuriousWakeup, Reacquire, Goto
    <3>6. ~Contributes(r) /\ ~Arrives(r) /\ ~Plain(r)
      BY <3>1, <3>4, ContributeShape DEF Arrives, Plain
    <3>7. ~Leaves(r)
      BY <1>c, <3>1 DEF Leaves, LeaveAborted, LeaveWithOutput, LeaveBarrier, Return, Fail,
         Goto, Inside
    <3>8. QED
      BY <1>1, <3>2, <3>3, <3>5, <3>6, <3>7, PlainSteps DEF Turns, BaseInv
  <2>5. QED
    BY <2>3, <2>4
<1>2. ASSUME AbortSequencer \/ AbortRuns \/ UNCHANGED vars, NEW q \in Ranks, Asleep(q)'
      PROVE  ~Done(q)' /\ (Stopped(q)' => abortPc' \in StillToNotify(Phase(call'[q])))
  <2>1. states' = states /\ barriers' = barriers /\ call' = call /\ Keeps(q)
    BY <1>2, AbortKeeps DEF BaseInv
  <2>2. Asleep(q)
    BY <1>2, <2>1 DEF Asleep, Keeps
  <2>3. ~Done(q)' /\ (Stopped(q) => abortPc \in StillToNotify(Phase(call[q])))
    BY <2>1, <2>2 DEF WakeInv, Done
  <2>4. CASE AbortSequencer \/ AbortCause
    BY <2>3, <2>4 DEF AbortSequencer, AbortCause, StillToNotify
  <2>5. ASSUME NEW ph \in Phases, AbortNotify(ph)
        PROVE  Stopped(q)' => abortPc' \in StillToNotify(Phase(call'[q]))
    <3>1. /\ abortPc = ph /\ held[ph] = NoRank /\ abortPc' = AbortNext(ph)
          /\ pc' = [r \in Ranks |-> IF r \in Waiting(ph) THEN "woken" ELSE pc[r]]
          /\ UNCHANGED <<aborted, abortCause>>
      BY <2>5 DEF AbortNotify, sequencerVars
    <3>2. Phase(call[q]) # ph
      <4>1. Phase(call[q]) = ph => pc[q] = "parked"
        BY <2>2, <3>1, FreeLockNobodyParks
      <4>2. QED
        BY <1>2, <3>1, <4>1 DEF Waiting, Asleep
    <3>3. Stopped(q)' => abortPc \in StillToNotify(Phase(call[q]))
      BY <2>1, <2>3, <3>1 DEF Stopped
    <3>4. Phase(call[q]) \in Phases
      BY PhaseType
    <3>5. QED
      BY <2>1, <3>1, <3>2, <3>3, <3>4, SMT DEF StillToNotify, AbortNext, Phases
  <2>6. CASE UNCHANGED vars
    BY <2>1, <2>3, <2>6 DEF vars, sequencerVars, abortVars, Stopped
  <2>7. QED
    BY <1>2, <2>3, <2>4, <2>5, <2>6 DEF AbortRuns
<1>3. QED
  BY <1>1, <1>2 DEF Next, RankStep, WakeInv

\* Nobody sleeps at the start.
LEMMA InitWake == Init => WakeInv
  BY DEF Init, WakeInv, Asleep

-----------------------------------------------------------------------------
(* The sequencer protects the rendezvous.                                   *)

\* Rank q was let through a group's instance i with operation s.
Passed(g, q, i, s) ==
    \E n \in 1..Len(emitted[g][q]) : emitted[g][q][n] = [instance |-> i, op |-> s]

\* What a rank was let through it stays through.
LEMMA PassedStays ==
  ASSUME SequencerTypeOK, [SequencerNext]_sequencerVars, NEW g \in Groups, NEW q \in Ranks,
         NEW i, NEW s, Passed(g, q, i, s)
  PROVE  Passed(g, q, i, s)'
<1>1. CASE emitted' = emitted
  BY <1>1 DEF Passed
<1>2. ASSUME NEW h, NEW r, NEW slot, AdvanceGroup(h, r, slot)
      PROVE  Passed(g, q, i, s)'
  <2>1. emitted' = [emitted EXCEPT ![h][r] = Append(@, slot)]
    BY <1>2 DEF AdvanceGroup
  <2>2. emitted \in [Groups -> [Ranks -> Seq(Slots)]]
    BY DEF SequencerTypeOK
  <2>3. \/ emitted'[g][q] = emitted[g][q]
        \/ emitted'[g][q] = Append(emitted[g][q], slot)
    BY <2>1, <2>2
  <2>4. emitted[g][q] \in Seq(Slots)
    BY <2>2
  <2>5. PICK n \in 1..Len(emitted[g][q]) : emitted[g][q][n] = [instance |-> i, op |-> s]
    BY DEF Passed
  <2>6. n \in 1..Len(emitted'[g][q]) /\ emitted'[g][q][n] = emitted[g][q][n]
    BY <2>3, <2>4, SMT
  <2>7. QED
    BY <2>5, <2>6 DEF Passed
<1>3. QED
  BY <1>1, <1>2, ZenonT(30) DEF SequencerNext, sequencerVars, Announce, SequencerSubmit,
     RefuseSubmit,
     ObserveSkip, Complete, SequencerAbort

\* Two ranks let through the same instance brought the same operation.
LEMMA PassedAgree ==
  ASSUME SequencerTypeOK, OrderInv, NEW g \in Groups, NEW q \in Ranks, NEW p \in Ranks,
         NEW i \in Instances, NEW s, NEW t, Passed(g, q, i, s), Passed(g, p, i, t)
  PROVE  s = t
<1>1. PICK n \in 1..Len(emitted[g][q]) : emitted[g][q][n] = [instance |-> i, op |-> s]
  BY DEF Passed
<1>2. PICK m \in 1..Len(emitted[g][p]) : emitted[g][p][m] = [instance |-> i, op |-> t]
  BY DEF Passed
<1>3. /\ emitted[g][q] \in Seq(Slots) /\ emitted[g][p] \in Seq(Slots)
      /\ canonical[g] \in Seq(Slots)
  BY DEF SequencerTypeOK
<1>4. /\ emitted[g][q][n] = canonical[g][n] /\ emitted[g][p][m] = canonical[g][m]
      /\ Len(emitted[g][q]) <= Len(canonical[g]) /\ Len(emitted[g][p]) <= Len(canonical[g])
  BY <1>1, <1>2 DEF OrderInv, AgreedOrder
<1>5. n \in 1..Len(canonical[g]) /\ m \in 1..Len(canonical[g])
  BY <1>3, <1>4, SMT
<1>6. canonical[g][n].instance = i /\ canonical[g][m].instance = i
  BY <1>1, <1>2, <1>4, SMT
<1>7. ~Before(i, i)
  BY BeforeStrict
<1>8. ~(n < m) /\ ~(m < n)
  BY <1>5, <1>6, <1>7 DEF OrderInv, OrderIncreasing
<1>9. n = m
  BY <1>5, <1>8, SMT
<1>10. QED
  BY <1>1, <1>2, <1>4, <1>9, SMT

\* A submission the sequencer accepts is of an instance its rank was not yet
\* let through, and lets it through.
LEMMA OrderPasses ==
  ASSUME SequencerTypeOK, OrderInv, NEW g \in Groups, NEW q \in Ranks, NEW i \in Instances,
         NEW s \in Signatures, SequencerSubmit(g, q, i, s)
  PROVE  Passed(g, q, i, s)' /\ \A t : ~Passed(g, q, i, t)
<1> DEFINE slot == [instance |-> i, op |-> s]
<1>1. slot \in Slots /\ slot.instance = i
  BY DEF Slots
<1>2. Fits(g, q, slot) /\ AdvanceGroup(g, q, slot)
  BY DEF SequencerSubmit, SubmitAccepted
<1>3. \A k \in 1..Len(emitted[g][q]) : Before(emitted[g][q][k].instance, slot.instance)
  BY <1>1, <1>2, FitsLater
<1>4. ~Before(i, i)
  BY BeforeStrict
<1>5. ASSUME NEW t, Passed(g, q, i, t) PROVE FALSE
  <2>1. PICK n \in 1..Len(emitted[g][q]) : emitted[g][q][n] = [instance |-> i, op |-> t]
    BY <1>5 DEF Passed
  <2>2. emitted[g][q][n].instance = i
    BY <2>1, SMT
  <2>3. QED
    BY <1>1, <1>3, <1>4, <2>1, <2>2
<1>6. Passed(g, q, i, s)'
  <2>1. emitted \in [Groups -> [Ranks -> Seq(Slots)]]
    BY DEF SequencerTypeOK
  <2>2. emitted' = [emitted EXCEPT ![g][q] = Append(@, slot)]
    BY <1>2 DEF AdvanceGroup
  <2>3. emitted[g][q] \in Seq(Slots) /\ emitted'[g][q] = Append(emitted[g][q], slot)
    BY <2>1, <2>2
  <2> HIDE DEF slot
  <2>4. /\ Len(emitted'[g][q]) \in 1..Len(emitted'[g][q])
        /\ emitted'[g][q][Len(emitted'[g][q])] = slot
    BY <1>1, <2>3, SMT
  <2>5. QED
    BY <2>4 DEF Passed, slot
<1>7. QED
  BY <1>5, <1>6

\* The call of rank r has its place in the agreed order.
Bound(r) ==
    \/ pc[r] = "enter"
    \/ Inside(r) /\ call[r].kind # "barrier"
    \/ pc[r] \in {"lease", "order"} /\ call[r].kind = "all_to_all_v"

\* It has yet to contribute to the data rendezvous of that place.
Ahead(r) ==
    \/ pc[r] = "enter"
    \/ Inside(r) /\ call[r].kind = "exchange_counts"
    \/ pc[r] \in {"lease", "order"} /\ call[r].kind = "all_to_all_v"

Contributed(ph, k, q) == k \in DOMAIN states[ph] /\ q \in states[ph][k].contributed

\* What a rank holds, a call in progress or tickets, it was let through; its
\* tickets are for other exchanges than its call; and what it has yet to
\* contribute it has not contributed.
RankAgrees(r) ==
    /\ Bound(r) =>
         /\ Passed(call[r].group, r, call[r].instance, call[r].sig)
         /\ \A t \in tickets[r] : t.key # Key(call[r])
    /\ \A t \in tickets[r] :
         Passed(t.key[1], r, t.key[2], t.sig) /\ ~Contributed("data", t.key, r)
    /\ pc[r] = "enter" => ~Contributed(Phase(call[r]), Key(call[r]), r)
    /\ Ahead(r) => ~Contributed("data", Key(call[r]), r)

\* Whoever contributed to an entry was let through with its signature.
EntryAgrees(e, k) ==
    e.contributed # {} /\ \A q \in e.contributed : Passed(k[1], q, k[2], e.signature)

AgreeInv ==
    /\ \A r \in Ranks : RankAgrees(r)
    /\ \A ph \in Maps : \A k \in DOMAIN states[ph] : EntryAgrees(states[ph][k], k)

\* The invariant is what the rendezvous needs: no contribution is refused.
LEMMA NoContributionRefused ==
  ASSUME BaseInv, EntryInv, AgreeInv, NEW r \in Ranks, pc[r] = "enter"
  PROVE  ~Diverges(r)
<1> DEFINE ph == Phase(call[r])
           k == Key(call[r])
<1>1. ph \in Maps /\ k \in Keys
  BY EnteredSound
<1>2. /\ call[r] \in Calls /\ k[1] = call[r].group /\ k[2] = call[r].instance
      /\ k[1] \in Groups /\ k[2] \in Instances
  <2>1. call[r] \in Calls
    BY DEF BaseInv, ControlInv, Fitting
  <2>2. QED
    BY <2>1, KeyFields, CallFields
<1>3. /\ Passed(k[1], r, k[2], call[r].sig) /\ ~Contributed(ph, k, r)
  BY <1>2 DEF AgreeInv, RankAgrees, Bound
<1>4. CASE k \in DOMAIN states[ph]
  <2>1. Entered(r) = states[ph][k]
    BY <1>4 DEF Entered
  <2>2. r \notin Entered(r).contributed
    BY <1>3, <1>4, <2>1 DEF Contributed
  <2>3. EntryAgrees(states[ph][k], k)
    BY <1>1, <1>4 DEF AgreeInv
  <2>4. PICK q \in states[ph][k].contributed : Passed(k[1], q, k[2], states[ph][k].signature)
    BY <2>3 DEF EntryAgrees
  <2>5. q \in Ranks
    BY <2>1, EnteredSound DEF StateEntry
  <2>6. states[ph][k].signature = call[r].sig
    BY <1>2, <1>3, <2>4, <2>5, PassedAgree DEF BaseInv
  <2>7. QED
    BY <2>1, <2>2, <2>6 DEF Diverges
<1>5. CASE k \notin DOMAIN states[ph]
  BY <1>5 DEF Diverges, Entered, FreshEntry
<1>6. QED
  BY <1>4, <1>5

\* The place of a call in progress, by key.
LEMMA BoundCall ==
  ASSUME ControlInv, NEW q \in Ranks, pc[q] # "idle"
  PROVE  /\ call[q] \in Calls /\ call[q].group \in Groups /\ call[q].instance \in Instances
         /\ call[q].sig \in Signatures /\ Key(call[q]) \in Keys
         /\ Key(call[q])[1] = call[q].group /\ Key(call[q])[2] = call[q].instance
  BY CallFields, KeyFields DEF ControlInv, Fitting

\* The key and the signature of a ticket.
LEMMA TicketFields ==
  ASSUME ControlInv, NEW q \in Ranks, NEW t \in tickets[q]
  PROVE  t \in Tickets /\ t.key \in Keys /\ t.key[1] \in Groups /\ t.key[2] \in Instances
<1>1. tickets[q] \subseteq Tickets
  BY DEF ControlInv
<1>2. t \in Tickets /\ t.key \in Keys
  BY <1>1 DEF Tickets
<1>3. QED
  BY <1>2 DEF Keys

\* A rank that takes on no place and no ticket, and contributes nothing,
\* still agrees.
LEMMA CarryRank ==
  ASSUME BaseInv, [SequencerNext]_sequencerVars, NEW q \in Ranks, RankAgrees(q),
         tickets'[q] \subseteq tickets[q],
         Bound(q)' => Bound(q) /\ call'[q] = call[q],
         pc'[q] = "enter" => pc[q] = "enter" \/ (Ahead(q) /\ Phase(call[q]) = "data"),
         Ahead(q)' => Ahead(q),
         \A ph \in Maps : \A k : Contributed(ph, k, q)' => Contributed(ph, k, q)
  PROVE  RankAgrees(q)'
<1>0. SequencerTypeOK /\ ControlInv
  BY DEF BaseInv
<1>1. Bound(q)' => /\ Passed(call[q].group, q, call[q].instance, call[q].sig)'
                   /\ \A t \in tickets'[q] : t.key # Key(call'[q])
  <2> SUFFICES ASSUME Bound(q)'
               PROVE  /\ Passed(call[q].group, q, call[q].instance, call[q].sig)'
                      /\ \A t \in tickets'[q] : t.key # Key(call'[q])
    OBVIOUS
  <2>1. Bound(q) /\ call'[q] = call[q]
    OBVIOUS
  <2>2. pc[q] # "idle"
    BY <2>1 DEF Bound, Inside
  <2>3. PICK g, i, s : g = call[q].group /\ i = call[q].instance /\ s = call[q].sig
    OBVIOUS
  <2>4. g \in Groups /\ Passed(g, q, i, s)
    BY <1>0, <2>1, <2>2, <2>3, BoundCall DEF RankAgrees
  <2>5. Passed(g, q, i, s)'
    BY <1>0, <2>4, PassedStays
  <2>6. QED
    BY <2>1, <2>3, <2>5 DEF RankAgrees, Passed
<1>2. ASSUME NEW t \in tickets'[q]
      PROVE  Passed(t.key[1], q, t.key[2], t.sig)' /\ ~Contributed("data", t.key, q)'
  <2>1. t \in tickets[q]
    OBVIOUS
  <2>2. Passed(t.key[1], q, t.key[2], t.sig) /\ ~Contributed("data", t.key, q)
    BY <2>1 DEF RankAgrees
  <2>3. t.key[1] \in Groups
    BY <1>0, <2>1, TicketFields
  <2>4. Passed(t.key[1], q, t.key[2], t.sig)'
    BY <1>0, <2>2, <2>3, PassedStays
  <2>5. "data" \in Maps
    BY DEF Maps
  <2>6. QED
    BY <2>2, <2>4, <2>5
<1>3. pc'[q] = "enter" => ~Contributed(Phase(call[q]), Key(call[q]), q)'
  <2> SUFFICES ASSUME pc'[q] = "enter" PROVE ~Contributed(Phase(call[q]), Key(call[q]), q)'
    OBVIOUS
  <2>1. Bound(q)'
    BY DEF Bound
  <2>2. PICK ph, k : ph = Phase(call[q]) /\ k = Key(call[q])
    OBVIOUS
  <2>3. ~Contributed(ph, k, q) /\ ph \in Maps
    <3>1. CASE pc[q] = "enter"
      <4>1. call[q].kind \in Ordered
        BY <1>0, <3>1 DEF ControlInv, Fitting
      <4>2. ph \in Maps
        BY <2>2, <4>1 DEF Phase, Maps, Ordered, DataKinds
      <4>3. QED
        BY <2>2, <3>1, <4>2 DEF RankAgrees
    <3>2. CASE Ahead(q) /\ Phase(call[q]) = "data"
      BY <2>2, <3>2 DEF RankAgrees, Maps
    <3>3. QED
      BY <3>1, <3>2
  <2>4. ~Contributed(ph, k, q)'
    BY <2>3
  <2>5. call'[q] = call[q]
    BY <2>1
  <2>6. QED
    BY <2>2, <2>4, <2>5 DEF Contributed
<1>4. Ahead(q)' => ~Contributed("data", Key(call[q]), q)'
  <2> SUFFICES ASSUME Ahead(q)' PROVE ~Contributed("data", Key(call[q]), q)'
    OBVIOUS
  <2>1. Bound(q)'
    BY DEF Ahead, Bound
  <2>2. PICK k : k = Key(call[q])
    OBVIOUS
  <2>3. ~Contributed("data", k, q) /\ "data" \in Maps
    BY <2>2 DEF RankAgrees, Maps
  <2>4. ~Contributed("data", k, q)'
    BY <2>3
  <2>5. call'[q] = call[q]
    BY <2>1
  <2>6. QED
    BY <2>2, <2>4, <2>5 DEF Contributed
<1>5. QED
  BY <1>1, <1>2, <1>3, <1>4 DEF RankAgrees

\* The entries only go, or stay with their contributors and signature.
Shrinks ==
    \A ph \in Maps : \A k \in DOMAIN states'[ph] :
        /\ k \in DOMAIN states[ph]
        /\ states'[ph][k].contributed = states[ph][k].contributed
        /\ states'[ph][k].signature = states[ph][k].signature

\* A contributor of an entry that agrees still does.
LEMMA CarryEntry ==
  ASSUME SequencerTypeOK, [SequencerNext]_sequencerVars, NEW k \in Keys, NEW e, NEW f,
         e.contributed \subseteq Ranks, EntryAgrees(e, k),
         f.contributed = e.contributed, f.signature = e.signature
  PROVE  EntryAgrees(f, k)'
<1>1. k[1] \in Groups
  BY DEF Keys
<1>2. ASSUME NEW q \in f.contributed PROVE Passed(k[1], q, k[2], f.signature)'
  <2>1. q \in Ranks /\ Passed(k[1], q, k[2], f.signature)
    BY DEF EntryAgrees
  <2>2. QED
    BY <1>1, <2>1, PassedStays
<1>3. QED
  BY <1>2 DEF EntryAgrees

\* Entries that stay or lose a rank still agree, whatever the sequencer does.
LEMMA CarryEntries ==
  ASSUME BaseInv, EntryInv, AgreeInv, [SequencerNext]_sequencerVars, Shrinks,
         NEW ph \in Maps, NEW k \in DOMAIN states'[ph]
  PROVE  EntryAgrees(states[ph][k], k)' /\ k \in Keys
<1>1. PICK f : f = states'[ph][k]
  OBVIOUS
<1>2. /\ k \in DOMAIN states[ph] /\ f.contributed = states[ph][k].contributed
      /\ f.signature = states[ph][k].signature
  BY <1>1 DEF Shrinks
<1>3. /\ k \in Keys /\ EntryAgrees(states[ph][k], k) /\ states[ph][k] \in StateEntry
  BY <1>2 DEF EntryInv, AgreeInv, SoundState
<1>4. states[ph][k].contributed \subseteq Ranks
  BY <1>3 DEF StateEntry
<1>5. EntryAgrees(f, k)'
  BY <1>2, <1>3, <1>4, CarryEntry DEF BaseInv
<1>6. QED
  BY <1>1, <1>3, <1>5 DEF EntryAgrees, Passed

\* Only a contribution adds to a map; leaving only takes away.
LEMMA MapsShrink ==
  ASSUME BaseInv, EntryInv, NEW r \in Ranks, RankStep(r), ~Contributes(r)
  PROVE  Shrinks
<1>1. CASE states' = states
  BY <1>1 DEF Shrinks
<1>2. CASE LeaveWithOutput(r)
  <2>1. /\ Phase(call[r]) \in Maps /\ Key(call[r]) \in DOMAIN states[Phase(call[r])]
        /\ ReapsEntry(r) \/ \E f : LeavesEntry(r, f)
    BY <1>2, ConsumeShape
  <2>2. DOMAIN states = Maps
    BY DEF EntryInv
  <2>3. CASE ReapsEntry(r)
    <3>1. states' = [states EXCEPT ![Phase(call[r])] = Without(@, Key(call[r]))]
      BY <2>3 DEF ReapsEntry
    <3>2. QED
      BY <2>1, <2>2, <3>1 DEF Without, Shrinks
  <2>4. ASSUME NEW f, LeavesEntry(r, f) PROVE Shrinks
    <3>1. /\ states' = [states EXCEPT ![Phase(call[r])] = With(@, Key(call[r]), f)]
          /\ f.contributed = states[Phase(call[r])][Key(call[r])].contributed
          /\ f.signature = states[Phase(call[r])][Key(call[r])].signature
      BY <2>4 DEF LeavesEntry
    <3>2. QED
      BY <2>1, <2>2, <3>1 DEF With, Shrinks
  <2>5. QED
    BY <2>1, <2>3, <2>4
<1>3. LeaveWithOutput(r) \/ states' = states
  <2>1. Arrives(r) \/ Leaves(r) \/ Turns(r) \/ Plain(r)
    BY PlainSteps DEF BaseInv
  <2>2. QED
    BY <2>1 DEF Arrives, Arrive, Leaves, LeaveAborted, LeaveBarrier, Turns, Check, Park,
       SpuriousWakeup, Reacquire, Plain, mapVars
<1>4. QED
  BY <1>1, <1>2, <1>3

\* Rank r takes on no place in the order and no ticket.
QuietPlace(r) ==
    /\ tickets'[r] \subseteq tickets[r]
    /\ Bound(r)' => Bound(r) /\ call'[r] = call[r]
    /\ pc'[r] = "enter" => pc[r] = "enter" \/ (Ahead(r) /\ Phase(call[r]) = "data")
    /\ Ahead(r)' => Ahead(r)

\* A rank takes on a place by submitting to the sequencer, or by using a
\* ticket; it gets a ticket by finishing a count exchange.
LEMMA PlaceSteps ==
  ASSUME ControlInv, RegistryTypeOK, NEW r \in Ranks, RankStep(r)
  PROVE  \/ QuietPlace(r) \/ Order(r)
         \/ LeaveWithOutput(r) /\ Phase(call[r]) = "counts"
         \/ \E c \in Calls : BeginDataPhase(r, c) /\ pc'[r] = "lease"
<1>c. /\ pc \in [Ranks -> Labels] /\ call \in [Ranks -> Calls \cup {NoCall}]
      /\ tickets \in [Ranks -> SUBSET Tickets] /\ Fitting(r)
  BY DEF ControlInv
<1>u. ASSUME tickets'[r] \subseteq tickets[r],
             \/ pc'[r] \in {"idle", "arrive", "finish", "complete", "begin_abort", "quiesce",
                            "complete_error", "post", "take"}
             \/ pc'[r] \in {"lease", "order"} /\ call'[r].kind # "all_to_all_v"
             \/ pc'[r] = "check" /\ call'[r].kind = "barrier"
      PROVE  QuietPlace(r)
  BY <1>u DEF QuietPlace, Bound, Ahead, Inside
<1>1. ASSUME made[r] < Len(Plan[r]), NEW c \in Plan[r][made[r] + 1], Begin(r, c)
      PROVE  QuietPlace(r)
  <2>1. /\ call' = [call EXCEPT ![r] = c] /\ tickets' = tickets /\ c.kind # "all_to_all_v"
        /\ pc' = [pc EXCEPT ![r] = "idle"] \/ pc' = [pc EXCEPT ![r] = FirstStep(c.kind)]
    BY <1>1 DEF Begin, Chosen, Return, Goto
  <2>2. FirstStep(c.kind) \in {"order", "take", "arrive", "lease"}
    BY DEF FirstStep
  <2>3. /\ pc'[r] \in {"idle", "order", "take", "arrive", "lease"}
        /\ call'[r].kind # "all_to_all_v" /\ tickets'[r] = tickets[r]
    BY <1>c, <2>1, <2>2
  <2>4. QED
    BY <1>u, <2>3
<1>2. ASSUME made[r] < Len(Plan[r]), NEW c \in Plan[r][made[r] + 1], BeginDataPhase(r, c)
      PROVE  QuietPlace(r) \/ \E d \in Calls : BeginDataPhase(r, d) /\ pc'[r] = "lease"
  <2>1. c \in Calls
    BY <1>2, PlannedCall
  <2>2. /\ tickets'[r] \subseteq tickets[r]
        /\ pc'[r] = "idle" \/ pc'[r] = "lease"
    BY <1>c, <1>2 DEF BeginDataPhase, Return, Goto
  <2>3. QED
    BY <1>u, <1>2, <2>1, <2>2
<1>3. ASSUME NEW c, Control(r, c) \/ ControlRefused(r, c) PROVE QuietPlace(r)
  <2>1. pc'[r] = "idle" /\ tickets'[r] = tickets[r]
    BY <1>c, <1>3 DEF Control, ControlRefused, Return, Goto
  <2>2. QED
    BY <1>u, <2>1
<1>4. CASE TakeLease(r)
  BY <1>c, <1>4 DEF TakeLease, Goto, AfterLease, callVars, QuietPlace, Bound, Ahead, Inside
<1>5. CASE OrderDataPhase(r)
  BY <1>c, <1>5 DEF OrderDataPhase, Fail, Goto, QuietPlace, Bound, Ahead, Inside, Phase
<1>6. ASSUME LeaseRefused(r) \/ OrderRefused(r) \/ LeaveAborted(r) \/ LeaveBarrier(r)
      PROVE  QuietPlace(r)
  <2>1. pc'[r] \in {"idle", "begin_abort"} /\ tickets'[r] = tickets[r]
    BY <1>c, <1>6 DEF LeaseRefused, OrderRefused, LeaveAborted, LeaveBarrier, Return, Fail, Goto
  <2>2. QED
    BY <1>u, <2>1
<1>7. CASE Turns(r)
  <2>1. call' = call /\ tickets' = tickets /\ Inside(r) /\ Inside(r)'
    BY <1>c, <1>7 DEF Turns, Check, Park, SpuriousWakeup, Reacquire, Goto, callVars, Inside
  <2>2. QED
    BY <2>1 DEF QuietPlace, Bound, Ahead, Inside
<1>8. ASSUME LeaveWithOutput(r), Phase(call[r]) # "counts" PROVE QuietPlace(r)
  <2>1. pc'[r] \in {"finish", "begin_abort"} /\ tickets' = tickets
    BY <1>c, <1>8 DEF LeaveWithOutput, Fail, Goto
  <2>2. QED
    BY <1>u, <2>1
<1>9. ASSUME Finish(r) \/ FinishMismatch(r) \/ CompleteOk(r) \/ RetireBegin(r) \/ RetireQuiesce(r)
             \/ CompleteError(r) \/ Post(r)
      PROVE  QuietPlace(r)
  <2>1. /\ pc'[r] \in {"idle", "complete", "begin_abort", "quiesce", "complete_error", "finish"}
        /\ tickets'[r] = tickets[r]
    BY <1>c, <1>9 DEF Finish, FinishMismatch, CompleteOk, RetireBegin, RetireQuiesce,
       CompleteError,
       Post, Return, Fail, Goto, callVars
  <2>2. QED
    BY <1>u, <2>1
<1>10. CASE Take(r)
  <2>1. call' = call /\ tickets' = tickets /\ call[r].kind = "recv" /\ pc'[r] \in {"idle", "lease"}
    BY <1>c, <1>10 DEF Take, Return, Goto, Fitting
  <2>2. QED
    BY <1>u, <2>1
<1>11. CASE Enter(r)
  <2>1. call' = call /\ tickets' = tickets /\ pc[r] = "enter"
    BY <1>11 DEF Enter
  <2>2. pc'[r] \in {"idle", "begin_abort", "check"}
    <3>1. CASE Diverges(r)
      BY <1>c, <1>11, <3>1 DEF Enter, RefuseContribution, Return, Fail, Goto
    <3>2. CASE ~Diverges(r)
      <4>1. Goto(r, "check") \/ NotifyAndGoto(r, Phase(call[r]), "check")
        BY <1>11, <3>2 DEF Enter, Contribute
      <4>2. QED
        BY <1>c, <4>1 DEF Goto, NotifyAndGoto
    <3>3. QED
      BY <3>1, <3>2
  <2>3. QED
    BY <2>1, <2>2 DEF QuietPlace, Bound, Ahead, Inside
<1>12. CASE Arrive(r)
  <2>1. call' = call /\ tickets' = tickets /\ call[r].kind = "barrier"
    BY <1>c, <1>12 DEF Arrive, Fitting
  <2>2. pc'[r] \in {"idle", "check"}
    <3>1. Return(r, "err") \/ Goto(r, "check") \/ NotifyAndGoto(r, "barrier", "check")
      BY <1>12 DEF Arrive
    <3>2. QED
      BY <1>c, <3>1 DEF Return, Goto, NotifyAndGoto
  <2>3. QED
    BY <1>u, <2>1, <2>2
<1>13. CASE Start(r)
  BY <1>1, <1>2, <1>3, <1>13 DEF Start
<1>14. CASE Run(r)
  BY <1>4, <1>5, <1>6, <1>7, <1>8, <1>9, <1>10, <1>14 DEF Run, Turns
<1>15. CASE Acquire(r) \/ SpuriousWakeup(r)
  BY <1>7, <1>11, <1>12, <1>15 DEF Acquire, Turns
<1>16. QED
  BY <1>13, <1>14, <1>15 DEF RankStep

\* A rank that only moves along with another's step still agrees.
LEMMA OthersAgree ==
  ASSUME BaseInv, [SequencerNext]_sequencerVars, AgreeInv, NEW q \in Ranks, Keeps(q),
         \A ph \in Maps : \A k : Contributed(ph, k, q)' => Contributed(ph, k, q)
  PROVE  RankAgrees(q)'
<1>1. /\ Bound(q)' => Bound(q) /\ call'[q] = call[q]
      /\ pc'[q] = "enter" => pc[q] = "enter"
      /\ Ahead(q)' => Ahead(q)
      /\ tickets'[q] \subseteq tickets[q]
  BY DEF Keeps, Bound, Ahead, Inside
<1>2. QED
  BY <1>1, CarryRank DEF AgreeInv

\* Where the maps only shrink nobody has contributed anew.
LEMMA ShrinkContributes ==
  ASSUME Shrinks, NEW q, NEW ph \in Maps, NEW k, Contributed(ph, k, q)'
  PROVE  Contributed(ph, k, q)
  BY DEF Shrinks, Contributed

\* The step of a rank that takes on a place: it agrees there.
LEMMA OrderAgrees ==
  ASSUME BaseInv, EntryInv, AgreeInv, [SequencerNext]_sequencerVars, NEW r \in Ranks, Order(r)
  PROVE  RankAgrees(r)'
<1> DEFINE g == call[r].group
           i == call[r].instance
           k == Key(call[r])
<1>1. /\ pc[r] = "order" /\ SequencerSubmit(g, r, i, call[r].sig)
      /\ UNCHANGED <<call, tickets, states>> /\ pc' = [pc EXCEPT ![r] = "enter"]
  BY DEF Order, Goto, callVars, mapVars
<1>2. pc'[r] = "enter"
  BY <1>1 DEF BaseInv, ControlInv
<1>3. /\ g \in Groups /\ i \in Instances /\ call[r].sig \in Signatures
      /\ k[1] = g /\ k[2] = i
  BY <1>1, BoundCall DEF BaseInv
<1>4. Passed(g, r, i, call[r].sig)' /\ \A t : ~Passed(g, r, i, t)
  <2>1. PICK h, j, s : h = g /\ j = i /\ s = call[r].sig
    OBVIOUS
  <2>2. Passed(h, r, j, s)' /\ \A t : ~Passed(h, r, j, t)
    BY <1>1, <1>3, <2>1, OrderPasses DEF BaseInv
  <2>3. QED
    BY <1>1, <2>1, <2>2 DEF Passed
<1>5. \A t \in tickets[r] : t.key # k
  BY <1>3, <1>4 DEF AgreeInv, RankAgrees
<1>6. ASSUME NEW ph \in Maps PROVE ~Contributed(ph, k, r)
  BY <1>3, <1>4 DEF AgreeInv, EntryAgrees, Contributed
<1>7. ASSUME NEW t \in tickets[r]
      PROVE  Passed(t.key[1], r, t.key[2], t.sig)' /\ ~Contributed("data", t.key, r)'
  <2>1. Passed(t.key[1], r, t.key[2], t.sig) /\ ~Contributed("data", t.key, r)
    BY DEF AgreeInv, RankAgrees
  <2>2. t.key[1] \in Groups
    BY TicketFields DEF BaseInv
  <2>3. QED
    BY <1>1, <2>1, <2>2, PassedStays DEF BaseInv, Contributed
<1>8. Phase(call[r]) \in Maps
  <2>1. call[r].kind \in Ordered
    BY <1>1 DEF BaseInv, ControlInv, Fitting
  <2>2. QED
    BY <2>1 DEF Phase, Maps, Ordered, DataKinds
<1>9. "data" \in Maps
  BY DEF Maps
<1>10. ~Contributed(Phase(call[r]), Key(call[r]), r)' /\ ~Contributed("data", Key(call[r]), r)'
  BY <1>1, <1>6, <1>8, <1>9 DEF Contributed
<1>11. QED
  BY <1>1, <1>4, <1>5, <1>7, <1>10 DEF RankAgrees

\* A ticket is for the place the rank was let through, and no other of its
\* tickets is for the same.
LEMMA TicketUsed ==
  ASSUME BaseInv, AgreeInv, [SequencerNext]_sequencerVars, NEW r \in Ranks, NEW c \in Calls,
         BeginDataPhase(r, c), pc'[r] = "lease"
  PROVE  RankAgrees(r)'
<1> DEFINE k == Key(c)
<1>1. /\ Ticket(c) \in tickets[r] /\ c.kind = "all_to_all_v" /\ call' = [call EXCEPT ![r] = c]
      /\ tickets' = [tickets EXCEPT ![r] = @ \ {Ticket(c)}] /\ UNCHANGED <<states>>
  BY DEF BeginDataPhase, Chosen, mapVars
<1>2. call'[r] = c /\ tickets'[r] = tickets[r] \ {Ticket(c)}
  BY <1>1 DEF BaseInv, ControlInv
<1>3. /\ k[1] = c.group /\ k[2] = c.instance /\ c.group \in Groups /\ c.instance \in Instances
  BY KeyFields, CallFields
<1>4. Ticket(c).key = k /\ Ticket(c).sig = c.sig
  BY DEF Ticket
<1>5. Passed(c.group, r, c.instance, c.sig) /\ ~Contributed("data", k, r)
  BY <1>1, <1>3, <1>4 DEF AgreeInv, RankAgrees
<1>6. ASSUME NEW t \in tickets'[r]
      PROVE  /\ t.key # k /\ Passed(t.key[1], r, t.key[2], t.sig)'
             /\ ~Contributed("data", t.key, r)'
  <2>1. t \in tickets[r] /\ t # Ticket(c)
    BY <1>2
  <2>2. /\ Passed(t.key[1], r, t.key[2], t.sig) /\ ~Contributed("data", t.key, r)
    BY <2>1 DEF AgreeInv, RankAgrees
  <2>3. t \in Tickets /\ t.key[1] \in Groups
    BY <2>1, TicketFields DEF BaseInv
  <2>4. t.key # k
    <3>1. SUFFICES ASSUME t.key = k PROVE FALSE
      OBVIOUS
    <3>2. t.sig = c.sig
      BY <1>3, <1>5, <2>2, <3>1, PassedAgree DEF BaseInv
    <3>3. QED
      BY <2>1, <2>3, <3>1, <3>2 DEF Ticket, Tickets
  <2>5. QED
    BY <1>1, <2>2, <2>3, <2>4, PassedStays DEF BaseInv, Contributed
<1>7. Passed(c.group, r, c.instance, c.sig)'
  BY <1>3, <1>5, PassedStays DEF BaseInv
<1>8. Passed(call[r].group, r, call[r].instance, call[r].sig)'
  BY <1>2, <1>7 DEF Passed
<1>9. ~Contributed("data", Key(call[r]), r)'
  BY <1>1, <1>2, <1>5 DEF Contributed
<1>10. pc'[r] # "enter"
  OBVIOUS
<1>11. QED
  BY <1>2, <1>6, <1>8, <1>9, <1>10 DEF RankAgrees

\* A count exchange that succeeds leaves a ticket for its place.
LEMMA TicketMade ==
  ASSUME BaseInv, EntryInv, AgreeInv, [SequencerNext]_sequencerVars, NEW r \in Ranks,
         LeaveWithOutput(r), Phase(call[r]) = "counts"
  PROVE  RankAgrees(r)'
<1> DEFINE T == Ticket(call[r])
<1>1. /\ pc[r] = "leave" /\ tickets' = [tickets EXCEPT ![r] = @ \cup {T}]
      /\ pc' = [pc EXCEPT ![r] = "idle"]
  BY DEF LeaveWithOutput, Return, Goto
<1>2. tickets'[r] = tickets[r] \cup {T} /\ pc'[r] = "idle"
  BY <1>1 DEF BaseInv, ControlInv
<1>3. call[r].kind = "exchange_counts"
  BY DEF Phase
<1>4. Bound(r) /\ Ahead(r)
  BY <1>1, <1>3 DEF Bound, Ahead, Inside
<1>5. /\ T.key[1] = call[r].group /\ T.key[2] = call[r].instance /\ T.sig = call[r].sig
      /\ T.key = Key(call[r]) /\ call[r].group \in Groups
  <2>1. T.key = Key(call[r]) /\ T.sig = call[r].sig
    BY DEF Ticket
  <2>2. pc[r] # "idle"
    BY <1>1
  <2>3. QED
    BY <2>1, <2>2, BoundCall DEF BaseInv
<1> HIDE DEF T
<1>6. Passed(T.key[1], r, T.key[2], T.sig) /\ ~Contributed("data", T.key, r)
  BY <1>4, <1>5 DEF AgreeInv, RankAgrees
<1>7. Shrinks
  BY MapsShrink DEF RankStep, Run, Contributes, Enter, LeaveWithOutput
<1>8. ASSUME NEW t \in tickets'[r]
      PROVE  Passed(t.key[1], r, t.key[2], t.sig)' /\ ~Contributed("data", t.key, r)'
  <2>1. /\ Passed(t.key[1], r, t.key[2], t.sig) /\ ~Contributed("data", t.key, r)
        /\ t.key[1] \in Groups
    <3>1. CASE t = T
      BY <1>5, <1>6, <3>1
    <3>2. CASE t \in tickets[r]
      BY <3>2, TicketFields DEF AgreeInv, RankAgrees, BaseInv
    <3>3. QED
      BY <1>2, <3>1, <3>2
  <2>2. "data" \in Maps
    BY DEF Maps
  <2>3. QED
    BY <1>7, <2>1, <2>2, PassedStays, ShrinkContributes DEF BaseInv
<1>9. ~Bound(r)' /\ ~Ahead(r)' /\ pc'[r] # "enter"
  BY <1>2 DEF Bound, Ahead, Inside
<1>10. QED
  BY <1>8, <1>9 DEF RankAgrees

\* What a contribution adds to the maps: r, in the entry of its call.
LEMMA ContributionIs ==
  ASSUME BaseInv, EntryInv, NEW r \in Ranks, Contributes(r), NEW ph \in Maps, NEW k, NEW q,
         Contributed(ph, k, q)'
  PROVE  Contributed(ph, k, q) \/ (q = r /\ ph = Phase(call[r]) /\ k = Key(call[r]))
<1>1. PICK e : NewEntry(r, e)
  BY ContributeShape
<1>2. /\ states' = [states EXCEPT ![Phase(call[r])] = With(@, Key(call[r]), e)]
      /\ e.contributed = Entered(r).contributed \cup {r}
  BY <1>1 DEF NewEntry
<1>3. Phase(call[r]) \in Maps /\ DOMAIN states = Maps
  BY ContributeShape, EnteredSound DEF EntryInv
<1>4. CASE ph = Phase(call[r]) /\ k = Key(call[r])
  <2>1. states'[ph][k] = e
    BY <1>2, <1>3, <1>4 DEF With
  <2>2. q \in Entered(r).contributed \cup {r}
    BY <1>2, <2>1 DEF Contributed
  <2>3. q \in Entered(r).contributed => Contributed(ph, k, q)
    BY <1>4 DEF Entered, FreshEntry, Contributed
  <2>4. QED
    BY <1>4, <2>2, <2>3
<1>5. CASE ~(ph = Phase(call[r]) /\ k = Key(call[r]))
  <2>1. k \in DOMAIN states[ph] /\ states'[ph][k] = states[ph][k]
    BY <1>2, <1>3, <1>5 DEF With, Contributed
  <2>2. QED
    BY <2>1 DEF Contributed
<1>6. QED
  BY <1>4, <1>5

\* The entry contributed to agrees: its signature is the call's, and r was
\* let through with it.
LEMMA ContributedEntries ==
  ASSUME BaseInv, EntryInv, AgreeInv, NEW r \in Ranks, Contributes(r), emitted' = emitted,
         NEW ph \in Maps, NEW k \in DOMAIN states'[ph]
  PROVE  EntryAgrees(states[ph][k], k)'
<1>1. PICK e : NewEntry(r, e)
  BY ContributeShape
<1>2. /\ states' = [states EXCEPT ![Phase(call[r])] = With(@, Key(call[r]), e)]
      /\ e.contributed = Entered(r).contributed \cup {r} /\ e.signature = Entered(r).signature
  BY <1>1 DEF NewEntry
<1>3. /\ Phase(call[r]) \in Maps /\ DOMAIN states = Maps /\ pc[r] = "enter"
      /\ Entered(r).signature = call[r].sig
  BY ContributeShape, EnteredSound DEF EntryInv
<1>4. CASE ph = Phase(call[r]) /\ k = Key(call[r])
  <2>1. states'[ph][k] = e
    BY <1>2, <1>3, <1>4 DEF With
  <2>2. k[1] = call[r].group /\ k[2] = call[r].instance
    BY <1>3, <1>4, BoundCall DEF BaseInv
  <2>3. Passed(k[1], r, k[2], e.signature)
    BY <1>2, <1>3, <2>2 DEF AgreeInv, RankAgrees, Bound
  <2>4. ASSUME NEW q \in Entered(r).contributed PROVE Passed(k[1], q, k[2], e.signature)
    <3>1. k \in DOMAIN states[ph] /\ Entered(r) = states[ph][k]
      BY <1>4, <2>4 DEF Entered, FreshEntry
    <3>2. QED
      BY <1>2, <2>4, <3>1 DEF AgreeInv, EntryAgrees
  <2>5. EntryAgrees(e, k)
    BY <1>2, <2>3, <2>4 DEF EntryAgrees
  <2>6. QED
    BY <2>1, <2>5 DEF EntryAgrees, Passed
<1>5. CASE ~(ph = Phase(call[r]) /\ k = Key(call[r]))
  <2>1. k \in DOMAIN states[ph] /\ states'[ph][k] = states[ph][k]
    BY <1>2, <1>3, <1>5 DEF With
  <2>2. EntryAgrees(states[ph][k], k)
    BY <2>1 DEF AgreeInv
  <2>3. QED
    BY <2>1, <2>2 DEF EntryAgrees, Passed
<1>6. QED
  BY <1>4, <1>5

\* The contributor still agrees: its tickets are for other exchanges, and a
\* count exchange contributes to another map than the data phase.
LEMMA ContributorAgrees ==
  ASSUME BaseInv, EntryInv, AgreeInv, NEW r \in Ranks, Contributes(r)
  PROVE  RankAgrees(r)'
<1> DEFINE k == Key(call[r])
<1>1. /\ pc[r] = "enter" /\ pc'[r] = "check" /\ call' = call /\ tickets' = tickets
      /\ emitted' = emitted
  BY ContributeShape
<1>2. Bound(r) /\ Ahead(r)
  BY <1>1 DEF Bound, Ahead
<1>3. /\ Passed(call[r].group, r, call[r].instance, call[r].sig)
      /\ \A t \in tickets[r] : t.key # k
      /\ ~Contributed("data", k, r)
  BY <1>2 DEF AgreeInv, RankAgrees
<1>4. "data" \in Maps
  BY DEF Maps
<1>5. Passed(call[r].group, r, call[r].instance, call[r].sig)'
  BY <1>1, <1>3 DEF Passed
<1>6. ASSUME NEW t \in tickets[r]
      PROVE  Passed(t.key[1], r, t.key[2], t.sig)' /\ ~Contributed("data", t.key, r)'
  <2>1. Passed(t.key[1], r, t.key[2], t.sig) /\ ~Contributed("data", t.key, r)
    BY DEF AgreeInv, RankAgrees
  <2>2. ~Contributed("data", t.key, r)'
    BY <1>3, <1>4, <2>1, ContributionIs
  <2>3. QED
    BY <1>1, <2>1, <2>2 DEF Passed
<1>7. Ahead(r)' => ~Contributed("data", Key(call[r]), r)'
  <2> SUFFICES ASSUME Ahead(r)' PROVE ~Contributed("data", Key(call[r]), r)'
    OBVIOUS
  <2>1. call[r].kind = "exchange_counts"
    BY <1>1 DEF Ahead, Inside
  <2>2. Phase(call[r]) # "data"
    BY <2>1 DEF Phase
  <2>3. PICK j : j = k
    OBVIOUS
  <2>4. ~Contributed("data", j, r)'
    BY <1>3, <1>4, <2>2, <2>3, ContributionIs
  <2>5. QED
    BY <1>1, <2>3, <2>4 DEF Contributed
<1>8. pc'[r] # "enter"
  BY <1>1
<1>9. QED
  BY <1>1, <1>3, <1>5, <1>6, <1>7, <1>8 DEF RankAgrees

\* Every step keeps the maps, the tickets and the agreed order in agreement.
LEMMA StepAgree == BaseInv /\ EntryInv /\ AgreeInv /\ [Next]_vars => AgreeInv'
<1> SUFFICES ASSUME BaseInv, EntryInv, AgreeInv, [Next]_vars PROVE AgreeInv'
  OBVIOUS
<1>s. [SequencerNext]_sequencerVars
  BY SequencerSteps DEF BaseInv
<1>1. ASSUME NEW r \in Ranks, RankStep(r) PROVE AgreeInv'
  <2>1. \A q \in Ranks : q # r => Keeps(q)
    BY <1>1, RankMoves DEF Moved, BaseInv
  <2>2. CASE Contributes(r)
    <3>1. ASSUME NEW q \in Ranks PROVE RankAgrees(q)'
      <4>1. CASE q = r
        BY <2>2, <4>1, ContributorAgrees
      <4>2. CASE q # r
        <5>1. \A ph \in Maps : \A k : Contributed(ph, k, q)' => Contributed(ph, k, q)
          BY <2>2, <4>2, ContributionIs
        <5>2. QED
          BY <1>s, <2>1, <4>2, <5>1, OthersAgree
      <4>3. QED
        BY <4>1, <4>2
    <3>2. emitted' = emitted
      BY <2>2, ContributeShape
    <3>3. ASSUME NEW ph \in Maps, NEW k \in DOMAIN states'[ph]
          PROVE  EntryAgrees(states[ph][k], k)'
      BY <2>2, <3>2, ContributedEntries
    <3>4. QED
      BY <3>1, <3>3 DEF AgreeInv
  <2>3. CASE ~Contributes(r)
    <3>1. Shrinks
      BY <1>1, <2>3, MapsShrink
    <3>2. ASSUME NEW q \in Ranks PROVE RankAgrees(q)'
      <4>1. \A ph \in Maps : \A k : Contributed(ph, k, q)' => Contributed(ph, k, q)
        BY <3>1, ShrinkContributes
      <4>2. CASE q # r
        BY <1>s, <2>1, <4>1, <4>2, OthersAgree
      <4>3. CASE q = r /\ QuietPlace(r)
        BY <1>s, <4>1, <4>3, CarryRank DEF AgreeInv, QuietPlace
      <4>4. CASE q = r /\ ~QuietPlace(r)
        BY <1>1, <1>s, <4>4, PlaceSteps, OrderAgrees, TicketMade, TicketUsed DEF BaseInv
      <4>5. QED
        BY <4>2, <4>3, <4>4
    <3>3. ASSUME NEW ph \in Maps, NEW k \in DOMAIN states'[ph]
          PROVE  EntryAgrees(states[ph][k], k)'
      BY <1>s, <3>1, CarryEntries
    <3>4. QED
      BY <3>2, <3>3 DEF AgreeInv
  <2>4. QED
    BY <2>2, <2>3
<1>2. CASE AbortSequencer \/ AbortRuns \/ UNCHANGED vars
  <2>1. states' = states /\ \A q \in Ranks : Keeps(q)
    BY <1>2, AbortKeeps DEF BaseInv
  <2>2. Shrinks
    BY <2>1 DEF Shrinks
  <2>3. ASSUME NEW q \in Ranks PROVE RankAgrees(q)'
    <3>1. \A ph \in Maps : \A k : Contributed(ph, k, q)' => Contributed(ph, k, q)
      BY <2>2, ShrinkContributes
    <3>2. QED
      BY <1>s, <2>1, <3>1, OthersAgree
  <2>4. ASSUME NEW ph \in Maps, NEW k \in DOMAIN states'[ph]
        PROVE  EntryAgrees(states[ph][k], k)'
    BY <1>s, <2>2, CarryEntries
  <2>5. QED
    BY <2>3, <2>4 DEF AgreeInv
<1>3. QED
  BY <1>1, <1>2 DEF Next, RankStep

\* No call, no ticket and no entry at the start.
LEMMA InitAgree == Init => AgreeInv
  BY SMT DEF Init, AgreeInv, RankAgrees, Bound, Ahead, Inside

-----------------------------------------------------------------------------
(* Who still has to complete an active slot.                                *)

\* Rank r is in a call that took its slot and has not completed it: from the
\* submission to the completion, on the error path only if the call is one
\* that closes its slot, and in the data phase from the start.
Owning(r) ==
    /\ call[r].kind \in Ordered
    /\ \/ pc[r] \in {"enter", "check", "park", "parked", "woken", "leave",
                     "finish", "complete", "complete_error"}
       \/ pc[r] \in {"begin_abort", "quiesce"} /\ closes[r]
       \/ pc[r] \in {"lease", "order"} /\ call[r].kind = "all_to_all_v"

HasOwner(slot) ==
    \/ slot \in dropped
    \/ \E t \in tickets[slot[2]] : t.key = <<slot[1], slot[3]>>
    \/ Owning(slot[2]) /\ Slot(slot[2]) = slot

\* SlotsOwned says "in a call"; which part of the call it is matters for the
\* next step.
SlotInv == \A slot \in active : HasOwner(slot)

\* Rank r drops no slot it owns, by call or by ticket, other than by
\* completing it, by turning one into the other or into `dropped'; the only
\* slot it adds is that of its call.
KeepsSlot(r) ==
    Owning(r) => \/ Owning(r)' /\ call'[r] = call[r]
                 \/ Slot(r) \notin active'
                 \/ Slot(r) \in dropped'
                 \/ \E t \in tickets'[r] : t.key = Key(call[r])

KeepsTickets(r) ==
    \A t \in tickets[r] :
        \/ t \in tickets'[r]
        \/ <<t.key[1], r, t.key[2]>> \in dropped'
        \/ Owning(r)' /\ Key(call'[r]) = t.key

HandsOn(r) ==
    /\ KeepsSlot(r)
    /\ KeepsTickets(r)
    /\ \A slot \in active' : slot \in active \/ (Owning(r)' /\ slot = Slot(r)')
    /\ dropped \subseteq dropped'

\* A step that hands on what its rank owns leaves no slot without owner.
LEMMA HandedOn ==
  ASSUME BaseInv, SequencerTypeOK', SlotInv, NEW r \in Ranks, HandsOn(r),
         \A q \in Ranks : q # r => Keeps(q)
  PROVE  SlotInv'
<1> SUFFICES ASSUME NEW slot \in active' PROVE HasOwner(slot)'
  BY DEF SlotInv
<1>1. PICK g \in Groups, q \in Ranks, i \in Instances : slot = <<g, q, i>>
  BY SMT DEF SequencerTypeOK, ActiveSlots
<1>2. slot[1] = g /\ slot[2] = q /\ slot[3] = i
  BY <1>1
<1>3. CASE slot \notin active
  <2>1. Owning(r)' /\ slot = Slot(r)'
    BY <1>3 DEF HandsOn
  <2>2. q = r
    BY <1>1, <2>1, SMT DEF Slot
  <2>3. QED
    BY <1>2, <2>1, <2>2 DEF HasOwner
<1>4. CASE slot \in active /\ slot \in dropped
  BY <1>4 DEF HandsOn, HasOwner
<1>5. ASSUME slot \in active, NEW t \in tickets[q], t.key = <<g, i>> PROVE HasOwner(slot)'
  <2>1. CASE t \in tickets'[q]
    BY <1>2, <1>5, <2>1 DEF HasOwner
  <2>2. CASE q # r
    BY <1>5, <2>1, <2>2 DEF Keeps
  <2>3. CASE q = r /\ <<t.key[1], r, t.key[2]>> \in dropped'
    <3>1. slot \in dropped'
      BY <1>1, <1>5, <2>3, SMT
    <3>2. QED
      BY <3>1 DEF HasOwner
  <2>4. CASE q = r /\ Owning(r)' /\ Key(call'[r]) = t.key
    <3>1. Slot(r)' = slot
      BY <1>1, <1>5, <2>4, SMT DEF Slot, Key
    <3>2. QED
      BY <1>2, <2>4, <3>1 DEF HasOwner
  <2>5. QED
    BY <1>5, <2>1, <2>2, <2>3, <2>4 DEF HandsOn, KeepsTickets
<1>6. ASSUME slot \in active, Owning(q), Slot(q) = slot PROVE HasOwner(slot)'
  <2>1. ASSUME call'[q] = call[q], Owning(q)' PROVE HasOwner(slot)'
    <3>1. Slot(q)' = slot
      BY <1>6, <2>1 DEF Slot
    <3>2. QED
      BY <1>2, <2>1, <3>1 DEF HasOwner
  <2>2. CASE q # r
    <3>1. Keeps(q)
      BY <2>2
    <3>2. Owning(q)' /\ call'[q] = call[q]
      BY <1>6, <3>1 DEF Keeps, Owning
    <3>3. QED
      BY <2>1, <3>2
  <2>3. CASE q = r /\ \E t \in tickets'[r] : t.key = Key(call[r])
    <3>1. Key(call[r]) = <<g, i>>
      BY <1>1, <1>6, <2>3, SMT DEF Slot, Key
    <3>2. QED
      BY <1>2, <2>3, <3>1 DEF HasOwner
  <2>4. CASE q = r /\ Slot(r) \in dropped'
    BY <1>6, <2>4 DEF HasOwner
  <2>5. QED
    BY <1>6, <2>1, <2>2, <2>3, <2>4 DEF HandsOn, KeepsSlot
<1>7. HasOwner(slot) \/ slot \notin active
  BY DEF SlotInv
<1>8. QED
  BY <1>2, <1>3, <1>4, <1>5, <1>6, <1>7 DEF HasOwner

\* Most steps change no ticket and no slot, and stay in the part of the call
\* that owns the slot if they were there.
LEMMA HandsOnQuietly ==
  ASSUME NEW r, tickets'[r] = tickets[r], active' = active, dropped' = dropped,
         Owning(r) => Owning(r)' /\ call'[r] = call[r]
  PROVE  HandsOn(r)
  BY DEF HandsOn, KeepsSlot, KeepsTickets

\* sequencer.complete leaves the slot inactive, whoever made it so.
LEMMA CompletedSlot ==
  ASSUME NEW r, CompleteSlot(r)
  PROVE  Slot(r) \notin active' /\ active' \subseteq active
<1>1. CASE Slot(r) \in active
  BY <1>1 DEF CompleteSlot, Complete, Slot
<1>2. CASE Slot(r) \notin active
  BY <1>2 DEF CompleteSlot, sequencerVars
<1>3. QED
  BY <1>1, <1>2

\* Starting a call: a ticket is handed to the data phase or to `dropped'.
LEMMA StartHandsOn ==
  ASSUME BaseInv, NEW r \in Ranks, Start(r)
  PROVE  HandsOn(r)
<1>c. /\ pc \in [Ranks -> Labels] /\ call \in [Ranks -> Calls \cup {NoCall}]
      /\ tickets \in [Ranks -> SUBSET Tickets]
  BY DEF BaseInv, ControlInv
<1>1. PICK c \in Plan[r][made[r] + 1] :
        Begin(r, c) \/ BeginDataPhase(r, c) \/ Control(r, c) \/ ControlRefused(r, c)
  BY DEF Start
<1>2. pc[r] = "idle"
  BY <1>1 DEF Begin, BeginDataPhase, Control, ControlRefused, Chosen
<1>3. ~Owning(r)
  BY <1>2 DEF Owning
<1>4. CASE Begin(r, c) \/ Control(r, c) \/ ControlRefused(r, c)
  <2>1. tickets'[r] = tickets[r] /\ dropped' = dropped /\ active' = active
    BY <1>4 DEF Begin, Control, ControlRefused, Announce, ObserveSkip, sequencerVars
  <2>2. QED
    BY <1>3, <2>1, HandsOnQuietly
<1>5. CASE BeginDataPhase(r, c)
  <2>1. c \in Calls
    BY <1>1, PlannedCall DEF Start, BaseInv
  <2>2. /\ call' = [call EXCEPT ![r] = c] /\ c.kind = "all_to_all_v"
        /\ tickets' = [tickets EXCEPT ![r] = @ \ {Ticket(c)}] /\ active' = active
    BY <1>5 DEF BeginDataPhase, Chosen, sequencerVars
  <2>3. call'[r] = c /\ tickets'[r] = tickets[r] \ {Ticket(c)}
    BY <1>c, <2>2
  <2>4. Ticket(c).key = Key(c) /\ Key(c)[1] = c.group /\ Key(c)[2] = c.instance
    BY DEF Ticket, Key
  <2>5. \/ dropped' = dropped \cup {<<c.group, r, c.instance>>}
        \/ pc' = [pc EXCEPT ![r] = "lease"] /\ dropped' = dropped
    BY <1>5 DEF BeginDataPhase, Goto
  <2>6. CASE dropped' = dropped \cup {<<c.group, r, c.instance>>}
    <3>1. \A t \in tickets[r] : t \in tickets'[r] \/ <<t.key[1], r, t.key[2]>> \in dropped'
      BY <2>3, <2>4, <2>6
    <3>2. QED
      BY <1>3, <2>2, <2>6, <3>1 DEF HandsOn, KeepsSlot, KeepsTickets
  <2>7. CASE pc' = [pc EXCEPT ![r] = "lease"] /\ dropped' = dropped
    <3>1. Owning(r)'
      BY <1>c, <2>2, <2>3, <2>7 DEF Owning, Ordered, DataKinds
    <3>2. \A t \in tickets[r] : t \in tickets'[r] \/ Key(call'[r]) = t.key
      BY <2>3, <2>4
    <3>3. QED
      BY <1>3, <2>2, <2>7, <3>1, <3>2 DEF HandsOn, KeepsSlot, KeepsTickets
  <2>8. QED
    BY <2>5, <2>6, <2>7
<1>6. QED
  BY <1>1, <1>4, <1>5

\* Inside a call: every path keeps the slot, completes it, turns it into a
\* ticket or drops it, or finds that abort has taken it.
LEMMA RunHandsOn ==
  ASSUME BaseInv, NEW r \in Ranks, Run(r)
  PROVE  HandsOn(r)
<1>c. /\ pc \in [Ranks -> Labels] /\ call \in [Ranks -> Calls \cup {NoCall}]
      /\ tickets \in [Ranks -> SUBSET Tickets] /\ closes \in [Ranks -> BOOLEAN] /\ Fitting(r)
  BY DEF BaseInv, ControlInv
<1>q. ASSUME call' = call, tickets' = tickets, active' = active, dropped' = dropped,
             Owning(r) => Owning(r)'
      PROVE  HandsOn(r)
  BY <1>q, HandsOnQuietly
<1>1. CASE TakeLease(r)
  <2>1. call' = call /\ tickets' = tickets /\ active' = active /\ dropped' = dropped
    BY <1>1 DEF TakeLease, sequencerVars
  <2>2. Owning(r) => Owning(r)'
    BY <1>c, <1>1, <2>1 DEF TakeLease, Goto, AfterLease, Owning
  <2>3. QED
    BY <1>q, <2>1, <2>2
<1>2. CASE LeaseRefused(r)
  <2>1. call' = call /\ tickets' = tickets /\ active' = active /\ dropped \subseteq dropped'
    BY <1>2 DEF LeaseRefused, sequencerVars
  <2>2. Owning(r) => Slot(r) \in dropped'
    BY <1>2 DEF LeaseRefused, Owning
  <2>3. QED
    BY <2>1, <2>2 DEF HandsOn, KeepsSlot, KeepsTickets
<1>3. CASE Order(r)
  <2>1. /\ call' = call /\ tickets' = tickets /\ dropped' = dropped /\ closes' = closes
        /\ active' = active \cup {Slot(r)} /\ pc' = [pc EXCEPT ![r] = "enter"]
    BY <1>3 DEF Order, SequencerSubmit, Goto, callVars, Slot
  <2>2. Owning(r)' /\ ~Owning(r)
    BY <1>c, <1>3, <2>1 DEF Order, Owning, Fitting
  <2>3. Slot(r)' = Slot(r)
    BY <2>1 DEF Slot
  <2>4. \A slot \in active' : slot \in active \/ slot = Slot(r)'
    BY <2>1, <2>3
  <2>5. QED
    BY <2>1, <2>2, <2>4 DEF HandsOn, KeepsSlot, KeepsTickets
<1>4. CASE OrderRefused(r)
  <2>1. call' = call /\ tickets' = tickets /\ active' = active /\ dropped' = dropped
    BY <1>4 DEF OrderRefused, RefuseSubmit
  <2>2. ~Owning(r)
    BY <1>4 DEF OrderRefused, Owning
  <2>3. QED
    BY <1>q, <2>1, <2>2
<1>5. CASE OrderDataPhase(r)
  <2>1. call' = call /\ tickets' = tickets /\ active' = active /\ dropped' = dropped
    BY <1>5 DEF OrderDataPhase, sequencerVars
  <2>2. CASE Slot(r) \in active
    <3>1. pc'[r] = "enter"
      BY <1>c, <1>5, <2>2 DEF OrderDataPhase, Goto
    <3>2. Owning(r)'
      BY <1>5, <2>1, <3>1 DEF OrderDataPhase, Owning, Ordered, DataKinds
    <3>3. QED
      BY <1>q, <2>1, <3>2
  <2>3. CASE Slot(r) \notin active
    BY <2>1, <2>3 DEF HandsOn, KeepsSlot, KeepsTickets
  <2>4. QED
    BY <2>2, <2>3
<1>6. CASE Check(r) \/ Park(r)
  <2>1. /\ call' = call /\ tickets' = tickets /\ active' = active /\ dropped' = dropped
    BY <1>6 DEF Check, Park, sequencerVars, callVars
  <2>2. pc'[r] \in {"park", "leave", "parked"} /\ pc[r] \in {"check", "park"}
    BY <1>c, <1>6 DEF Check, Park, Goto
  <2>3. Owning(r) => Owning(r)'
    BY <2>1, <2>2 DEF Owning
  <2>4. QED
    BY <1>q, <2>1, <2>3
<1>7. CASE LeaveAborted(r)
  <2>1. tickets' = tickets /\ active' = active /\ dropped' = dropped /\ active = {}
    BY <1>7 DEF LeaveAborted, sequencerVars, BaseInv, LifeInv
  <2>2. Slot(r) \notin active'
    BY <2>1
  <2>3. QED
    BY <2>1, <2>2 DEF HandsOn, KeepsSlot, KeepsTickets
<1>8. CASE LeaveWithOutput(r)
  <2>1. call' = call /\ active' = active /\ dropped' = dropped
    BY <1>8 DEF LeaveWithOutput, sequencerVars
  <2>2. CASE tickets' = [tickets EXCEPT ![r] = @ \cup {Ticket(call[r])}]
    <3>1. tickets[r] \subseteq tickets'[r] /\ Ticket(call[r]) \in tickets'[r]
      BY <1>c, <2>2
    <3>2. Ticket(call[r]).key = Key(call[r])
      BY DEF Ticket
    <3>3. QED
      BY <2>1, <3>1, <3>2 DEF HandsOn, KeepsSlot, KeepsTickets
  <2>3. CASE tickets' = tickets /\ (Goto(r, "finish") \/ Fail(r, TRUE))
    <3>1. pc'[r] = "finish" \/ (pc'[r] = "begin_abort" /\ closes'[r])
      BY <1>c, <2>3 DEF Fail, Goto
    <3>2. Owning(r) => Owning(r)'
      BY <2>1, <3>1 DEF Owning
    <3>3. QED
      BY <1>q, <2>1, <2>3, <3>2
  <2>4. QED
    BY <1>8, <2>2, <2>3 DEF LeaveWithOutput
<1>9. CASE LeaveBarrier(r)
  <2>1. call' = call /\ tickets' = tickets /\ active' = active /\ dropped' = dropped
    BY <1>9 DEF LeaveBarrier, sequencerVars
  <2>2. ~Owning(r)
    BY <1>9 DEF LeaveBarrier, Phase, Owning, Ordered, DataKinds
  <2>3. QED
    BY <1>q, <2>1, <2>2
<1>10. CASE Finish(r) \/ FinishMismatch(r)
  <2>1. call' = call /\ tickets' = tickets /\ active' = active /\ dropped' = dropped
    BY <1>10 DEF Finish, FinishMismatch, sequencerVars
  <2>2. /\ pc[r] = "finish"
        /\ call[r].kind \in DataKinds =>
             pc'[r] = "complete" \/ (pc'[r] = "begin_abort" /\ closes'[r])
    BY <1>c, <1>10 DEF Finish, FinishMismatch, Fail, Goto
  <2>3. call[r].kind \in Ordered => call[r].kind \in DataKinds
    BY <1>c, <2>2 DEF Fitting, Ordered, DataKinds
  <2>4. Owning(r) => Owning(r)'
    BY <2>1, <2>2, <2>3 DEF Owning
  <2>5. QED
    BY <1>q, <2>1, <2>4
<1>11. CASE CompleteOk(r) \/ CompleteError(r)
  <2>1. tickets' = tickets /\ dropped' = dropped /\ CompleteSlot(r)
    BY <1>11 DEF CompleteOk, CompleteError
  <2>2. QED
    BY <2>1, CompletedSlot DEF HandsOn, KeepsSlot, KeepsTickets
<1>12. CASE RetireBegin(r) \/ RetireQuiesce(r)
  <2>1. /\ call' = call /\ tickets' = tickets /\ active' = active /\ dropped' = dropped
        /\ closes' = closes
    BY <1>12 DEF RetireBegin, RetireQuiesce, sequencerVars, callVars
  <2>2. /\ pc[r] \in {"begin_abort", "quiesce"}
        /\ closes[r] => pc'[r] \in {"quiesce", "complete_error"}
    BY <1>c, <1>12 DEF RetireBegin, RetireQuiesce, Goto
  <2>3. Owning(r) => Owning(r)'
    BY <2>1, <2>2 DEF Owning
  <2>4. QED
    BY <1>q, <2>1, <2>3
<1>13. CASE Post(r) \/ Take(r)
  <2>1. call' = call /\ tickets' = tickets /\ active' = active /\ dropped' = dropped
    BY <1>13 DEF Post, Take, sequencerVars, callVars
  <2>2. ~Owning(r)
    BY <1>c, <1>13 DEF Post, Take, Owning
  <2>3. QED
    BY <1>q, <2>1, <2>2
<1>14. QED
  BY <1>1, <1>2, <1>3, <1>4, <1>5, <1>6, <1>7, <1>8, <1>9, <1>10, <1>11, <1>12, <1>13 DEF Run

\* Taking a map's lock: a contribution is never refused, so the call goes on.
LEMMA AcquireHandsOn ==
  ASSUME BaseInv, EntryInv, AgreeInv, NEW r \in Ranks, Acquire(r) \/ SpuriousWakeup(r)
  PROVE  HandsOn(r)
<1>c. pc \in [Ranks -> Labels] /\ Fitting(r)
  BY DEF BaseInv, ControlInv
<1>q. ASSUME call' = call, tickets' = tickets, active' = active, dropped' = dropped,
             Owning(r) => Owning(r)'
      PROVE  HandsOn(r)
  BY <1>q, HandsOnQuietly
<1>1. call' = call /\ tickets' = tickets /\ active' = active /\ dropped' = dropped
  BY DEF Acquire, Enter, Arrive, Reacquire, SpuriousWakeup, sequencerVars, callVars
<1>2. CASE Enter(r)
  <2>1. Contributes(r)
    BY <1>2, NoContributionRefused DEF Contributes, Enter
  <2>2. pc'[r] = "check" /\ pc[r] = "enter"
    BY <2>1, ContributeShape
  <2>3. Owning(r) => Owning(r)'
    BY <1>1, <2>2 DEF Owning
  <2>4. QED
    BY <1>q, <1>1, <2>3
<1>3. CASE Arrive(r)
  <2>1. ~Owning(r)
    BY <1>3 DEF Arrive, Owning
  <2>2. QED
    BY <1>q, <1>1, <2>1
<1>4. CASE Reacquire(r) \/ SpuriousWakeup(r)
  <2>1. pc[r] \in {"woken", "parked"} /\ pc'[r] \in {"check", "woken"}
    BY <1>c, <1>4 DEF Reacquire, SpuriousWakeup, Goto
  <2>2. Owning(r) => Owning(r)'
    BY <1>1, <2>1 DEF Owning
  <2>3. QED
    BY <1>q, <1>1, <2>2
<1>5. QED
  BY <1>2, <1>3, <1>4 DEF Acquire

\* Every step leaves every active slot with an owner.
LEMMA StepSlot == BaseInv /\ EntryInv /\ AgreeInv /\ SlotInv /\ [Next]_vars => SlotInv'
<1> SUFFICES ASSUME BaseInv, EntryInv, AgreeInv, SlotInv, [Next]_vars PROVE SlotInv'
  OBVIOUS
<1>t. SequencerTypeOK'
  BY StepBase DEF BaseInv
<1>1. ASSUME NEW r \in Ranks, RankStep(r) PROVE SlotInv'
  <2>1. \A q \in Ranks : q # r => Keeps(q)
    BY <1>1, RankMoves DEF Moved, BaseInv
  <2>2. HandsOn(r)
    BY <1>1, StartHandsOn, RunHandsOn, AcquireHandsOn DEF RankStep
  <2>3. QED
    BY <1>t, <2>1, <2>2, HandedOn
<1>2. CASE AbortSequencer
  BY <1>2 DEF AbortSequencer, SequencerAbort, SlotInv
<1>3. CASE AbortRuns \/ UNCHANGED vars
  <2>1. tickets' = tickets /\ dropped' = dropped /\ call' = call /\ \A q \in Ranks : Keeps(q)
    BY <1>3, AbortKeeps DEF BaseInv
  <2>2. active' = active
    BY <1>3 DEF AbortRuns, AbortCause, AbortNotify, sequencerVars, vars
  <2>3. ASSUME NEW slot \in active PROVE HasOwner(slot)'
    <3>1. slot[2] \in Ranks /\ HasOwner(slot)
      BY DEF BaseInv, SequencerTypeOK, ActiveSlots, SlotInv
    <3>2. PICK q \in Ranks : q = slot[2]
      BY <3>1
    <3>3. Owning(q) => Owning(q)'
      BY <2>1 DEF Keeps, Owning
    <3>4. Slot(q)' = Slot(q)
      BY <2>1 DEF Slot
    <3>5. QED
      BY <2>1, <3>1, <3>2, <3>3, <3>4 DEF HasOwner
  <2>4. QED
    BY <2>2, <2>3 DEF SlotInv
<1>4. QED
  BY <1>1, <1>2, <1>3 DEF Next, RankStep

\* No slot is active at the start.
LEMMA InitSlot == Init => SlotInv
  BY DEF Init, SequencerInit, SlotInv

\* The owner of a slot is a member in the middle of a call.
LEMMA OwnersInCalls == BaseInv /\ SlotInv => SlotsOwned
<1>1. \A r \in Ranks : Owning(r) => pc[r] # "idle"
  BY DEF Owning
<1>2. \A slot \in active : BaseInv => slot[2] \in Ranks
  BY DEF BaseInv, SequencerTypeOK, ActiveSlots
<1>3. QED
  BY <1>1, <1>2 DEF SlotInv, HasOwner, SlotsOwned

-----------------------------------------------------------------------------
(* Counting, and the theorems that rest on it, the registry's included.      *)
INSTANCE FiniteSetTheorems

\* The laws of finite sets used above.
LEMMA CountingHolds == CountingLaws
<1>1. IsFiniteSet({}) /\ Cardinality({}) = 0
  BY FS_EmptySet
<1>2. ASSUME NEW n \in Nat PROVE IsFiniteSet(1..n)
  BY FS_Interval, SMT
<1>3. ASSUME NEW S, IsFiniteSet(S) PROVE Cardinality(S) \in Nat
  BY <1>3, FS_CardinalityType
<1>4. ASSUME NEW S, IsFiniteSet(S), NEW x, x \notin S
      PROVE  IsFiniteSet(S \cup {x}) /\ Cardinality(S \cup {x}) = Cardinality(S) + 1
  BY <1>4, FS_AddElement
<1>5. ASSUME NEW S, IsFiniteSet(S), NEW T, T \subseteq S
      PROVE  /\ IsFiniteSet(T) /\ Cardinality(T) <= Cardinality(S)
             /\ Cardinality(T) = Cardinality(S) => T = S
  BY <1>5, FS_Subset
<1>6. ASSUME NEW S, IsFiniteSet(S), NEW x \in S
      PROVE  Cardinality(S \ {x}) = Cardinality(S) - 1
  BY <1>6, FS_RemoveElement
<1>7. QED
  BY <1>1, <1>2, <1>3, <1>4, <1>5, <1>6 DEF CountingLaws

\* The maps are empty at the start, and sets are counted as they should be.
LEMMA EntryStarts == Init => EntryInv
  BY CountingHolds, InitEntry

\* No expect() on a map can panic: while a rank is inside a rendezvous, its
\* entry is in the map and the rank is in the entry.
THEOREM EntriesOutliveRanks == Spec => []EntryOutlivesRanks
<1>1. EntryInv => EntryOutlivesRanks
  BY DEF EntryInv
<1>2. QED
  BY <1>1, InitBase, StepBase, EntryStarts, StepEntry, PTL DEF Spec

\* The maps do not leak: the last rank to leave reaps, whichever it is and
\* however the others are interleaved with it.
THEOREM LastRankReaps == Spec => []EntriesReaped
  BY EntriesHaveRanks, InitBase, StepBase, EntryStarts, StepEntry, PTL DEF Spec

\* The rendezvous is one: nobody leaves it early, short of an abort.
THEOREM NobodyLeavesEarly == Spec => []RendezvousComplete
  BY LeaversFoundAll, InitBase, StepBase, EntryStarts, StepEntry, PTL DEF Spec

\* No wakeup is lost: whenever a rank is parked, the notification that ends
\* its wait is still to come, from the last contributor or from abort.
THEOREM NoWakeupLost == Spec => []NoLostWakeup
<1>1. WakeInv => NoLostWakeup
  BY DEF WakeInv, NoLostWakeup, StillToNotify, Asleep
<1>2. QED
  BY <1>1, InitBase, StepBase, EntryStarts, StepEntry, InitLock, StepLock, InitWake, StepWake, PTL
     DEF Spec

\* The "diverged" and "contributed twice" errors of the rendezvous cannot be
\* returned: the sequencer has already refused what would cause them.
THEOREM RendezvousNeverDiverges == Spec => []RendezvousAgrees
<1>1. BaseInv /\ EntryInv /\ AgreeInv => RendezvousAgrees
  BY NoContributionRefused DEF RendezvousAgrees
<1>2. QED
  BY <1>1, InitBase, StepBase, EntryStarts, StepEntry, InitAgree, StepAgree, PTL DEF Spec

\* No error path of a collective strands a slot of the shared sequencer,
\* except that all_to_all_v may drop its ticket.
THEOREM SlotsHaveOwners == Spec => []SlotsOwned
  BY OwnersInCalls, InitBase, StepBase, EntryStarts, StepEntry, InitAgree, StepAgree,
     InitSlot, StepSlot, PTL
  DEF Spec

\* The registry never loses or double-counts an operation, and the tombstone
\* set stays inside the window free_buffer checks, across sealed epochs.
THEOREM RegistryCounts == RegistrySpec => [](TombstonesBounded /\ OperationsAccounted)
<1>1. RegistryInit => CountInv
  BY CountingHolds, InitCount
<1>2. QED
  BY <1>1, RegistryInitType, RegistryStepType, StepCount, PTL DEF RegistrySpec, CountInv
=============================================================================
