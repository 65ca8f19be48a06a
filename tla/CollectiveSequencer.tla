------------------------ MODULE CollectiveSequencer ------------------------
(***************************************************************************)
(* The per-group collective submit sequencer shared by every rank of one   *)
(* topology epoch: crates/onnx-runtime-comm/src/ordering.rs.               *)
(*                                                                         *)
(* One mutex guards the state; each public method is one action.  The      *)
(* first rank to reach a position of a group fixes the slot there          *)
(* (canonical); every other rank must bring the same slot.  Submitting     *)
(* for an undecided execution admits it, and that decision stays even when *)
(* the submission is then refused.                                         *)
(*                                                                         *)
(* The trace the code emits under the lock is kept where a property reads  *)
(* it: `emitted' is the Submit and ObserveSkip events of a rank in a       *)
(* group, `completed' its CompleteLocal events.  A slot's disposition,     *)
(* collective kind and signature are compared as one value: `op', a        *)
(* signature or "skip".  Groups start registered: register_group only      *)
(* installs the empty canonical order, and no handle exists before it.     *)
(***************************************************************************)
EXTENDS Integers, Sequences, FiniteSets

CONSTANTS
    Ranks,         \* world ranks
    Groups,        \* registered groups
    Members,       \* the members of each group
    MaxExecution,  \* bound: executions are 1..MaxExecution
    MaxSequence,   \* bound: CommSequenceId values are 0..MaxSequence
    Signatures     \* signatures (collective kind included) callers pass

Executions == 1..MaxExecution
Instances == Executions \X (0..MaxSequence)

ASSUME SequencerAssumption ==
    /\ Members \in [Groups -> SUBSET Ranks]
    /\ MaxExecution \in Nat
    /\ MaxSequence \in Nat
    /\ "skip" \notin Signatures

VARIABLES
    decisions,      \* decisions, by execution
    decidedPrefix,  \* decided_prefix
    canonical,      \* GroupState.canonical
    cursors,        \* GroupState.cursors
    active,         \* slots submitted and not locally complete
    aborted,        \* SequencerState.aborted
    emitted,        \* Submit and ObserveSkip events, by group and rank
    completed       \* CompleteLocal events, each <<group, rank, instance>>

sequencerVars == <<decisions, decidedPrefix, canonical, cursors, active,
                   aborted, emitted, completed>>

Slots == [instance : Instances, op : Signatures \cup {"skip"}]
ActiveSlots == Groups \X Ranks \X Instances
Decisions == {"undecided", "admitted", "skipped"}

\* CommInstanceId's derived order: execution, then sequence.
Before(i, j) == i[1] < j[1] \/ (i[1] = j[1] /\ i[2] < j[2])

-----------------------------------------------------------------------------
SequencerInit ==
    /\ decisions = [e \in Executions |-> "undecided"]
    /\ decidedPrefix = 0
    /\ canonical = [g \in Groups |-> <<>>]
    /\ cursors = [g \in Groups |-> [r \in Ranks |-> 0]]
    /\ active = {}
    /\ aborted = FALSE
    /\ emitted = [g \in Groups |-> [r \in Ranks |-> <<>>]]
    /\ completed = {}

\* decide_locked: decisions are made in execution order.
Decide(e, d) ==
    /\ ~aborted
    /\ e = decidedPrefix + 1
    /\ decisions' = [decisions EXCEPT ![e] = d]
    /\ decidedPrefix' = e

\* admit_execution and skip_execution.
Announce(e, d) ==
    /\ Decide(e, d)
    /\ UNCHANGED <<canonical, cursors, active, aborted, emitted, completed>>

\* The decision part of submit: admit the execution if it is undecided.
AdmitForSubmit(e) ==
    \/ decisions[e] = "undecided" /\ Decide(e, "admitted")
    \/ decisions[e] = "admitted" /\ UNCHANGED <<decisions, decidedPrefix>>

Fits_AnySlotAtCursor(g, r, slot) ==
    LET c == cursors[g][r] IN
    IF c < Len(canonical[g])
    THEN TRUE
    ELSE canonical[g] # <<>> =>
            Before(canonical[g][Len(canonical[g])].instance, slot.instance)

\* advance_group_locked accepts the slot: it is the canonical one at the
\* rank's cursor, or extends the order by a strictly later instance.
Fits(g, r, slot) ==
    LET c == cursors[g][r] IN
    IF c < Len(canonical[g])
    THEN canonical[g][c + 1] = slot
    ELSE canonical[g] # <<>> =>
            Before(canonical[g][Len(canonical[g])].instance, slot.instance)

\* Its effect, with the event the caller then emits.
AdvanceGroup(g, r, slot) ==
    /\ canonical' = IF cursors[g][r] < Len(canonical[g]) THEN canonical
                    ELSE [canonical EXCEPT ![g] = Append(@, slot)]
    /\ cursors' = [cursors EXCEPT ![g][r] = @ + 1]
    /\ emitted' = [emitted EXCEPT ![g][r] = Append(@, slot)]

SubmitAccepted(g, r, i, s) ==
    /\ ~aborted
    /\ decisions[i[1]] = "undecided" => i[1] = decidedPrefix + 1
    /\ decisions[i[1]] # "skipped"
    /\ Fits(g, r, [instance |-> i, op |-> s])

\* submit returns Ok.  Its duplicate check cannot fail (SlotLifecycle): a
\* rank never passes the same instance of a group twice.
SequencerSubmit(g, r, i, s) ==
    /\ SubmitAccepted(g, r, i, s)
    /\ AdmitForSubmit(i[1])
    /\ AdvanceGroup(g, r, [instance |-> i, op |-> s])
    /\ active' = active \cup {<<g, r, i>>}
    /\ UNCHANGED <<aborted, completed>>

\* submit returns Err: the slot is not taken, but an execution it admitted
\* on the way stays admitted.
RefuseSubmit(g, r, i, s) ==
    /\ ~SubmitAccepted(g, r, i, s)
    /\ IF ~aborted /\ decisions[i[1]] = "undecided" /\ i[1] = decidedPrefix + 1
       THEN Decide(i[1], "admitted")
       ELSE UNCHANGED <<decisions, decidedPrefix>>
    /\ UNCHANGED <<canonical, cursors, active, aborted, emitted, completed>>

ObserveSkip(g, r, i) ==
    /\ ~aborted
    /\ decisions[i[1]] = "skipped"
    /\ Fits(g, r, [instance |-> i, op |-> "skip"])
    /\ AdvanceGroup(g, r, [instance |-> i, op |-> "skip"])
    /\ UNCHANGED <<decisions, decidedPrefix, active, aborted, completed>>

Complete_LeavesActive(g, r, i) ==
    /\ <<g, r, i>> \in active
    /\ completed' = completed \cup {<<g, r, i>>}
    /\ UNCHANGED <<decisions, decidedPrefix, canonical, cursors, active,
                   aborted, emitted>>

\* complete: the CompleteLocal event of an active slot.  After an abort the
\* slot is gone and the call is a silent Ok.
Complete(g, r, i) ==
    /\ <<g, r, i>> \in active
    /\ active' = active \ {<<g, r, i>>}
    /\ completed' = completed \cup {<<g, r, i>>}
    /\ UNCHANGED <<decisions, decidedPrefix, canonical, cursors, aborted,
                   emitted>>

\* abort: closes submission and completes every active slot with an error.
SequencerAbort ==
    /\ ~aborted
    /\ aborted' = TRUE
    /\ active' = {}
    /\ completed' = completed \cup active
    /\ UNCHANGED <<decisions, decidedPrefix, canonical, cursors, emitted>>

SequencerNext ==
    \/ \E e \in Executions, d \in {"admitted", "skipped"} : Announce(e, d)
    \/ \E g \in Groups, i \in Instances : \E r \in Members[g] :
         \/ \E s \in Signatures : SequencerSubmit(g, r, i, s)
         \/ \E s \in Signatures : RefuseSubmit(g, r, i, s)
         \/ ObserveSkip(g, r, i)
         \/ Complete(g, r, i)
    \/ SequencerAbort

SequencerSpec == SequencerInit /\ [][SequencerNext]_sequencerVars

-----------------------------------------------------------------------------
(* Properties.                                                             *)

\* The sequencer state is well formed.
SequencerTypeOK ==
    /\ decisions \in [Executions -> Decisions]
    /\ decidedPrefix \in 0..MaxExecution
    /\ canonical \in [Groups -> Seq(Slots)]
    /\ cursors \in [Groups -> [Ranks -> Nat]]
    /\ active \in SUBSET ActiveSlots
    /\ aborted \in BOOLEAN
    /\ emitted \in [Groups -> [Ranks -> Seq(Slots)]]
    /\ completed \in SUBSET ActiveSlots

\* The decided executions are exactly a prefix (decide_locked).
DecidedIsPrefix ==
    \A e \in Executions : decisions[e] = "undecided" <=> e > decidedPrefix

\* What advance_group_locked is for: the slots a rank was let through are
\* exactly the group's canonical order up to its cursor, so any two ranks
\* of a group enqueue the same operations in the same order, one of them
\* possibly further along.
AgreedOrder ==
    \A g \in Groups, r \in Ranks :
        /\ cursors[g][r] = Len(emitted[g][r])
        /\ Len(emitted[g][r]) <= Len(canonical[g])
        /\ \A k \in 1..Len(emitted[g][r]) : emitted[g][r][k] = canonical[g][k]

\* A group's order is strictly increasing in (execution, sequence), whoever
\* extended it: no instance is enqueued twice or out of order.
OrderIncreasing ==
    \A g \in Groups : \A j, k \in 1..Len(canonical[g]) :
        j < k => Before(canonical[g][j].instance, canonical[g][k].instance)

\* A slot enters an order only as the coordinator decided its execution:
\* submitted when admitted, skipped when skipped.
OrderFollowsDecisions ==
    \A g \in Groups : \A k \in 1..Len(canonical[g]) :
        decisions[canonical[g][k].instance[1]] =
            IF canonical[g][k].op = "skip" THEN "skipped" ELSE "admitted"

\* Every submitted slot is either active or has its CompleteLocal event,
\* never both: submit's duplicate check cannot fail, complete and abort
\* publish one completion per submission between them.
SlotLifecycle ==
    /\ active \cap completed = {}
    /\ \A g \in Groups, r \in Ranks, i \in Instances :
         <<g, r, i>> \in active \cup completed <=>
            \E k \in 1..Len(emitted[g][r]) :
                emitted[g][r][k].instance = i /\ emitted[g][r][k].op # "skip"

\* abort closes the epoch: afterwards no slot is active and no submission,
\* skip or decision is accepted by any group.
AbortIsFinal ==
    [][aborted => active = {} /\ UNCHANGED sequencerVars]_sequencerVars

\* A published decision is never revised, also not by a submission that
\* admits an execution and is then refused.
DecisionsFinal ==
    [][\A e \in Executions :
         decisions[e] # "undecided" => decisions'[e] = decisions[e]]_sequencerVars
=============================================================================
