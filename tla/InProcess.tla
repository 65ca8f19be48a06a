----------------------------- MODULE InProcess -----------------------------
(***************************************************************************)
(* The in-process communicator: crates/onnx-runtime-comm/src/inprocess.rs, *)
(* composed with the lease registry and the submit sequencer it calls.     *)
(*                                                                         *)
(* Every rank is a thread making one call at a time; one more thread runs  *)
(* abort.  Five mutexes are involved: the registry's and the sequencer's   *)
(* (each of their methods is one step), and those of the data, count and   *)
(* barrier rendezvous maps, which a waiting rank holds from its entry to   *)
(* its wait.  `held' is the owner of each of these three.  Reading an      *)
(* abort flag under a map lock, and parking, are steps of their own, so    *)
(* that abort can fall in between.                                         *)
(*                                                                         *)
(* Abstracted: payloads (a rendezvous knows who contributed and whether    *)
(* the computed output is an error, which integer overflow makes it);      *)
(* argument checks that fail before any state is touched; the dtype and    *)
(* size words of a signature, which is one value.  A second abort repeats  *)
(* the flag writes and the notifications and is left out.                  *)
(***************************************************************************)
EXTENDS OwnershipRegistry, CollectiveSequencer

CONSTANTS
    Plan,      \* bound: the calls each rank may make, as a sequence of sets;
               \* an empty set ends a program
    Starts,    \* bound: how much of the plan precedes each program
    MayAbort,  \* bound: whether abort is called at all
    NoRank     \* the owner of a free mutex

VARIABLES
    abortCause,  \* InProcessSharedState.aborted is set
    states,      \* data_collectives and count_collectives, by phase and key
    barriers,    \* barriers, by key
    mail,        \* mailboxes: undelivered messages
    held,        \* owner of the mutex of each rendezvous map
    pc, call,    \* where each rank stands, in which call
    lease,       \* the operation its OperationLease names, 0 for none
    closes,      \* whether its error path ends with sequencer.complete
    tickets,     \* AllToAllVTickets it holds
    dropped,     \* slots whose ticket a failed all_to_all_v has consumed
    made,        \* calls it has begun
    result,      \* what its last call returned
    abortPc      \* where the thread in abort stands

mapVars == <<states, barriers, mail, held>>
callVars == <<call, lease, closes, tickets, dropped, made, result>>
abortVars == <<abortCause, abortPc>>
vars == <<registryVars, sequencerVars, mapVars, callVars, abortVars, pc>>

(***************************************************************************)
(* Calls.  "reduce" stands for the collectives whose signature fixes all   *)
(* sizes (all_reduce and reduce_scatter; all_gather and broadcast are its  *)
(* runs in which the computation succeeds), "alltoall" for all_to_all,     *)
(* whose chunk sizes may disagree between ranks; those of all_to_all_v     *)
(* come from the exchanged counts and cannot.  `sig' is the signature, or *)
(* the byte extent of a send or recv.                                      *)
(***************************************************************************)
DataKinds == {"reduce", "alltoall", "all_to_all_v"}
Kinds == DataKinds \cup {"exchange_counts", "barrier", "send", "recv",
                         "admit", "skip", "observe_skipped"}

Calls == [kind : Kinds, group : Groups, instance : Instances,
          sig : Signatures, reads : SUBSET Allocations,
          writes : SUBSET Allocations, peer : Ranks]

\* Only the members of a group have a handle to call it through.
ASSUME PlanAssumption ==
    /\ IsFiniteSet(Ranks)
    /\ NoRank \notin Ranks
    /\ Plan \in [Ranks -> Seq(SUBSET Calls)]
    /\ \A r \in Ranks : \A n \in 1..Len(Plan[r]) : \A c \in Plan[r][n] :
         r \in Members[c.group]
    /\ Starts \subseteq Nat

NoCall == [kind |-> "none"]

Key(c) == <<c.group, c.instance>>

\* A ticket carries the spec of its exchange, and with it the signature of
\* the data phase.
Ticket(c) == [key |-> Key(c), sig |-> c.sig]

Slot(r) == <<call[r].group, r, call[r].instance>>

Phase(c) == CASE c.kind = "barrier" -> "barrier"
              [] c.kind = "exchange_counts" -> "counts"
              [] OTHER -> "data"

Phases == {"data", "counts", "barrier"}
Maps == {"data", "counts"}

With(f, k, v) == [x \in DOMAIN f \cup {k} |-> IF x = k THEN v ELSE f[x]]
Without(f, k) == [x \in DOMAIN f \ {k} |-> f[x]]

Init ==
    /\ RegistryInit
    /\ SequencerInit
    /\ abortCause = FALSE
    /\ states = [ph \in Maps |-> [k \in {} |-> 0]]
    /\ barriers = [k \in {} |-> 0]
    /\ mail = {}
    /\ held = [ph \in Phases |-> NoRank]
    /\ pc = [r \in Ranks |-> "idle"]
    /\ call = [r \in Ranks |-> NoCall]
    /\ lease = [r \in Ranks |-> 0]
    /\ closes = [r \in Ranks |-> FALSE]
    /\ tickets = [r \in Ranks |-> {}]
    /\ dropped = {}
    /\ made \in {[r \in Ranks |-> n] : n \in Starts}
    /\ result = [r \in Ranks |-> "none"]
    /\ abortPc = "ready"

Goto(r, label) == pc' = [pc EXCEPT ![r] = label]

Return(r, outcome) ==
    /\ Goto(r, "idle")
    /\ result' = [result EXCEPT ![r] = outcome]
    /\ lease' = [lease EXCEPT ![r] = 0]

-----------------------------------------------------------------------------
(* The start of a call.                                                    *)

FirstStep(kind) ==
    CASE kind = "exchange_counts" -> "order"
      [] kind = "recv" -> "take"
      [] kind = "barrier" -> "arrive"
      [] OTHER -> "lease"

Chosen(r, c) ==
    /\ pc[r] = "idle"
    /\ made' = [made EXCEPT ![r] = @ + 1]
    /\ call' = [call EXCEPT ![r] = c]

\* check_not_aborted, then the call proper.
Begin(r, c) ==
    /\ Chosen(r, c)
    /\ c.kind \notin {"all_to_all_v", "admit", "skip", "observe_skipped"}
    /\ IF abortCause
       THEN Return(r, "err")
       ELSE Goto(r, FirstStep(c.kind)) /\ UNCHANGED <<lease, result>>
    /\ UNCHANGED <<registryVars, sequencerVars, mapVars, closes, tickets,
                   dropped, abortVars>>

\* all_to_all_v takes its ticket by value; its span checks come first.
BeginDataPhase(r, c) ==
    /\ Chosen(r, c)
    /\ c.kind = "all_to_all_v"
    /\ Ticket(c) \in tickets[r]
    /\ tickets' = [tickets EXCEPT ![r] = @ \ {Ticket(c)}]
    /\ \/ /\ Return(r, "err")
          /\ dropped' = dropped \cup {<<c.group, r, c.instance>>}
       \/ /\ ~abortCause
          /\ Goto(r, "lease")
          /\ UNCHANGED <<lease, result, dropped>>
    /\ UNCHANGED <<registryVars, sequencerVars, mapVars, closes, abortVars>>

\* admit_execution, skip_execution and observe_skipped: one sequencer call.
Control(r, c) ==
    /\ Chosen(r, c)
    /\ \/ c.kind = "admit" /\ Announce(c.instance[1], "admitted")
       \/ c.kind = "skip" /\ Announce(c.instance[1], "skipped")
       \/ /\ c.kind = "observe_skipped"
          /\ ObserveSkip(c.group, r, c.instance)
    /\ Return(r, "ok")
    /\ UNCHANGED <<registryVars, mapVars, closes, tickets, dropped, abortVars>>

\* The same three, refused by the sequencer.
ControlRefused(r, c) ==
    /\ Chosen(r, c)
    /\ \/ /\ c.kind \in {"admit", "skip"}
          /\ aborted \/ c.instance[1] # decidedPrefix + 1
       \/ /\ c.kind = "observe_skipped"
          /\ \/ aborted
             \/ decisions[c.instance[1]] # "skipped"
             \/ ~Fits(c.group, r, [instance |-> c.instance, op |-> "skip"])
    /\ Return(r, "err")
    /\ UNCHANGED <<registryVars, sequencerVars, mapVars, closes, tickets,
                   dropped, abortVars>>

-----------------------------------------------------------------------------
(* registry.submit and sequencer.submit.                                   *)

AfterLease(kind) ==
    CASE kind = "send" -> "post" [] kind = "recv" -> "finish" [] OTHER -> "order"

TakeLease(r) ==
    /\ pc[r] = "lease"
    /\ RegistrySubmit(call[r].reads, call[r].writes)
    /\ lease' = [lease EXCEPT ![r] = nextOperation]
    /\ Goto(r, AfterLease(call[r].kind))
    /\ UNCHANGED <<sequencerVars, mapVars, call, closes, tickets, dropped,
                   made, result, abortVars>>

LeaseRefused(r) ==
    /\ pc[r] = "lease"
    /\ ~BuffersAvailable(call[r].reads, call[r].writes)
    /\ Return(r, "err")
    /\ dropped' = IF call[r].kind = "all_to_all_v" THEN dropped \cup {Slot(r)}
                  ELSE dropped
    /\ UNCHANGED <<registryVars, sequencerVars, mapVars, call, closes, tickets,
                   made, abortVars>>

\* The error path of a call that holds a lease: retire_error, then, if
\* `last', sequencer.complete.
Fail(r, last) ==
    /\ Goto(r, "begin_abort")
    /\ closes' = [closes EXCEPT ![r] = last]

Order(r) ==
    /\ pc[r] = "order"
    /\ call[r].kind # "all_to_all_v"
    /\ SequencerSubmit(call[r].group, r, call[r].instance, call[r].sig)
    /\ Goto(r, "enter")
    /\ UNCHANGED <<registryVars, mapVars, callVars, abortVars>>

OrderRefused_KeepsLease(r) ==
    /\ pc[r] = "order"
    /\ call[r].kind # "all_to_all_v"
    /\ RefuseSubmit(call[r].group, r, call[r].instance, call[r].sig)
    /\ Return(r, "err")
    /\ UNCHANGED <<registryVars, mapVars, call, closes, tickets, dropped, made,
                   abortVars>>

OrderRefused(r) ==
    /\ pc[r] = "order"
    /\ call[r].kind # "all_to_all_v"
    /\ RefuseSubmit(call[r].group, r, call[r].instance, call[r].sig)
    /\ IF call[r].kind = "exchange_counts"
       THEN Return(r, "err") /\ UNCHANGED closes
       ELSE Fail(r, FALSE) /\ UNCHANGED <<lease, result>>
    /\ UNCHANGED <<registryVars, mapVars, call, tickets, dropped, made, abortVars>>

\* The data phase of all_to_all_v uses the slot exchange_counts submitted.
OrderDataPhase(r) ==
    /\ pc[r] = "order"
    /\ call[r].kind = "all_to_all_v"
    /\ IF Slot(r) \in active
       THEN Goto(r, "enter") /\ UNCHANGED closes
       ELSE Fail(r, FALSE)
    /\ UNCHANGED <<registryVars, sequencerVars, mapVars, call, lease, tickets,
                   dropped, made, result, abortVars>>

-----------------------------------------------------------------------------
(* The rendezvous: enter, check, park, reacquire, leave.                   *)

\* A rank's rendezvous is complete / the epoch is aborted, as its loop sees it.
Done(r) ==
    LET k == Key(call[r]) ph == Phase(call[r]) IN
    IF ph = "barrier"
    THEN k \notin DOMAIN barriers \/ barriers[k].released
    ELSE k \in DOMAIN states[ph] /\ states[ph][k].outputs # "none"

Stopped(r) == IF Phase(call[r]) = "barrier" THEN abortCause ELSE aborted

Waiting(ph) == {r \in Ranks : pc[r] = "parked" /\ Phase(call[r]) = ph}

NotifyAndGoto_Silent(r, ph, label) == Goto(r, label)

\* notify_all on a map's condition variable, and r moves on.
NotifyAndGoto(r, ph, label) ==
    pc' = [q \in Ranks |-> IF q = r THEN label
                           ELSE IF q \in Waiting(ph) THEN "woken" ELSE pc[q]]

\* What compute may return: only the reductions can fail.
Computed(kind) == IF kind = "reduce" THEN {"ok", "err"} ELSE {"ok"}

FreshEntry(sig) ==
    [signature |-> sig, contributed |-> {}, outputs |-> "none", consumed |-> 0]

Entered(r) ==
    LET k == Key(call[r]) m == states[Phase(call[r])] IN
    IF k \in DOMAIN m THEN m[k] ELSE FreshEntry(call[r].sig)

Diverges(r) ==
    \/ Entered(r).signature # call[r].sig
    \/ r \in Entered(r).contributed

\* The last contributor computes and notifies, under the map's lock.
Contribute(r) ==
    LET ph == Phase(call[r])
        e == [Entered(r) EXCEPT !.contributed = @ \cup {r}]
    IN  /\ held' = [held EXCEPT ![ph] = r]
        /\ IF e.contributed = Members[call[r].group]
           THEN /\ \E out \in Computed(call[r].kind) :
                     states' = [states EXCEPT
                                  ![ph] = With(@, Key(call[r]), [e EXCEPT !.outputs = out])]
                /\ NotifyAndGoto(r, ph, "check")
           ELSE /\ states' = [states EXCEPT ![ph] = With(@, Key(call[r]), e)]
                /\ Goto(r, "check")
        /\ UNCHANGED <<lease, closes, result>>

\* A contribution the map refuses: count exchange just returns; a data
\* collective closes its slot if the signature differs, not if the rank is
\* there twice.
RefuseContribution(r) ==
    /\ IF call[r].kind = "exchange_counts"
       THEN Return(r, "err") /\ UNCHANGED closes
       ELSE /\ Fail(r, Entered(r).signature # call[r].sig)
            /\ UNCHANGED <<lease, result>>
    /\ UNCHANGED <<states, held>>

Enter(r) ==
    /\ pc[r] = "enter"
    /\ held[Phase(call[r])] = NoRank
    /\ IF Diverges(r) THEN RefuseContribution(r) ELSE Contribute(r)
    /\ UNCHANGED <<registryVars, sequencerVars, barriers, mail, call, tickets,
                   dropped, made, abortVars>>

\* The arrival at a barrier.
Arrive(r) ==
    LET k == Key(call[r])
        b == IF k \in DOMAIN barriers THEN barriers[k]
             ELSE [arrived |-> {}, departed |-> 0, released |-> FALSE]
        all == b.arrived \cup {r} = Members[call[r].group]
    IN  /\ pc[r] = "arrive"
        /\ held["barrier"] = NoRank
        /\ IF r \in b.arrived
           THEN Return(r, "err") /\ UNCHANGED <<barriers, held>>
           ELSE /\ barriers' = With(barriers, k,
                                    [b EXCEPT !.arrived = @ \cup {r},
                                              !.released = @ \/ all])
                /\ held' = [held EXCEPT !["barrier"] = r]
                /\ IF all THEN NotifyAndGoto(r, "barrier", "check")
                   ELSE Goto(r, "check")
                /\ UNCHANGED <<lease, result>>
        /\ UNCHANGED <<registryVars, sequencerVars, states, mail, call, closes,
                       tickets, dropped, made, abortVars>>

\* The loop condition, evaluated with the map's lock held.
Check(r) ==
    /\ pc[r] = "check"
    /\ Goto(r, IF Done(r) \/ Stopped(r) THEN "leave" ELSE "park")
    /\ UNCHANGED <<registryVars, sequencerVars, mapVars, callVars, abortVars>>

\* Condvar::wait releases the lock and parks in one step.
Park(r) ==
    /\ pc[r] = "park"
    /\ held' = [held EXCEPT ![Phase(call[r])] = NoRank]
    /\ Goto(r, "parked")
    /\ UNCHANGED <<registryVars, sequencerVars, states, barriers, mail,
                   callVars, abortVars>>

\* A condition variable may wake a waiter without a notification.
SpuriousWakeup(r) ==
    /\ pc[r] = "parked"
    /\ Goto(r, "woken")
    /\ UNCHANGED <<registryVars, sequencerVars, mapVars, callVars, abortVars>>

Reacquire_TrustsWakeup(r) ==
    /\ pc[r] = "woken"
    /\ held[Phase(call[r])] = NoRank
    /\ held' = [held EXCEPT ![Phase(call[r])] = r]
    /\ Goto(r, "leave")
    /\ UNCHANGED <<registryVars, sequencerVars, states, barriers, mail,
                   callVars, abortVars>>

Reacquire(r) ==
    /\ pc[r] = "woken"
    /\ held[Phase(call[r])] = NoRank
    /\ held' = [held EXCEPT ![Phase(call[r])] = r]
    /\ Goto(r, "check")
    /\ UNCHANGED <<registryVars, sequencerVars, states, barriers, mail,
                   callVars, abortVars>>

Consume_FirstReaps(m, k, size) == Without(m, k)

\* A collective after its loop: is_aborted is read again, then this rank's
\* share is consumed and the last consumer reaps the entry.
Consume(m, k, size) ==
    IF m[k].consumed + 1 = size THEN Without(m, k)
    ELSE With(m, k, [m[k] EXCEPT !.consumed = @ + 1])

LeaveAborted(r) ==
    /\ pc[r] = "leave"
    /\ Phase(call[r]) # "barrier"
    /\ aborted
    /\ held' = [held EXCEPT ![Phase(call[r])] = NoRank]
    /\ IF call[r].kind = "exchange_counts"
       THEN Return(r, "err") /\ UNCHANGED closes
       ELSE Fail(r, FALSE) /\ UNCHANGED <<lease, result>>
    /\ UNCHANGED <<registryVars, sequencerVars, states, barriers, mail, call,
                   tickets, dropped, made, abortVars>>

LeaveWithOutput(r) ==
    LET ph == Phase(call[r]) k == Key(call[r]) IN
    /\ pc[r] = "leave"
    /\ ph # "barrier"
    /\ ~aborted
    /\ states' = [states EXCEPT
                    ![ph] = Consume(@, k, Cardinality(Members[call[r].group]))]
    /\ held' = [held EXCEPT ![ph] = NoRank]
    /\ \/ /\ ph = "counts"
          /\ tickets' = [tickets EXCEPT ![r] = @ \cup {Ticket(call[r])}]
          /\ Return(r, "ok")
          /\ UNCHANGED closes
       \/ /\ ph = "data"
          /\ IF states[ph][k].outputs = "ok"
             THEN Goto(r, "finish") /\ UNCHANGED closes
             ELSE Fail(r, TRUE)
          /\ UNCHANGED <<tickets, lease, result>>
    /\ UNCHANGED <<registryVars, sequencerVars, barriers, mail, call, dropped,
                   made, abortVars>>

LeaveBarrier_ByGroupSize(r) ==
    LET k == Key(call[r]) IN
    /\ pc[r] = "leave"
    /\ Phase(call[r]) = "barrier"
    /\ barriers' =
         IF k \notin DOMAIN barriers THEN barriers
         ELSE IF barriers[k].departed + 1 = Cardinality(Members[call[r].group])
              THEN Without(barriers, k)
              ELSE [barriers EXCEPT ![k].departed = @ + 1]
    /\ held' = [held EXCEPT !["barrier"] = NoRank]
    /\ Return(r, IF abortCause THEN "err" ELSE "ok")
    /\ UNCHANGED <<registryVars, sequencerVars, states, mail, call, closes,
                   tickets, dropped, made, abortVars>>

\* A rank leaves a barrier; the last of those that arrived reaps it.
LeaveBarrier(r) ==
    LET k == Key(call[r]) IN
    /\ pc[r] = "leave"
    /\ Phase(call[r]) = "barrier"
    /\ barriers' =
         IF k \notin DOMAIN barriers THEN barriers
         ELSE IF barriers[k].departed + 1 = Cardinality(barriers[k].arrived)
              THEN Without(barriers, k)
              ELSE [barriers EXCEPT ![k].departed = @ + 1]
    /\ held' = [held EXCEPT !["barrier"] = NoRank]
    /\ Return(r, IF abortCause THEN "err" ELSE "ok")
    /\ UNCHANGED <<registryVars, sequencerVars, states, mail, call, closes,
                   tickets, dropped, made, abortVars>>

-----------------------------------------------------------------------------
(* The end of a call that holds a lease.                                   *)

\* Output copied, then registry.complete_success.
Finish(r) ==
    /\ pc[r] = "finish"
    /\ CompleteSuccess(lease[r])
    /\ IF call[r].kind \in DataKinds
       THEN /\ Goto(r, "complete")
            /\ lease' = [lease EXCEPT ![r] = 0]
            /\ UNCHANGED result
       ELSE Return(r, "ok")
    /\ UNCHANGED <<sequencerVars, mapVars, call, closes, tickets, dropped,
                   made, abortVars>>

\* A peer's chunk has another size than this rank's chunk_sizes say.
FinishMismatch(r) ==
    /\ pc[r] = "finish"
    /\ call[r].kind = "alltoall"
    /\ Fail(r, TRUE)
    /\ UNCHANGED <<registryVars, sequencerVars, mapVars, call, lease, tickets,
                   dropped, made, result, abortVars>>

\* sequencer.complete: a slot abort has already completed is passed over,
\* and then the call still succeeds; without abort a missing slot is an error.
CompleteSlot(r) ==
    IF Slot(r) \in active
    THEN Complete(call[r].group, r, call[r].instance)
    ELSE UNCHANGED sequencerVars

CompleteOk(r) ==
    /\ pc[r] = "complete"
    /\ CompleteSlot(r)
    /\ Return(r, IF Slot(r) \in active \/ aborted THEN "ok" ELSE "err")
    /\ UNCHANGED <<registryVars, mapVars, call, closes, tickets, dropped, made,
                   abortVars>>

\* retire_error: begin_abort, then quiesce_abort.
RetireBegin(r) ==
    /\ pc[r] = "begin_abort"
    /\ BeginAbort(lease[r])
    /\ Goto(r, "quiesce")
    /\ UNCHANGED <<sequencerVars, mapVars, callVars, abortVars>>

RetireQuiesce_NeverCloses(r) ==
    /\ pc[r] = "quiesce"
    /\ QuiesceAbort(lease[r])
    /\ Return(r, "err")
    /\ UNCHANGED <<sequencerVars, mapVars, call, closes, tickets, dropped,
                   made, abortVars>>

RetireQuiesce(r) ==
    /\ pc[r] = "quiesce"
    /\ QuiesceAbort(lease[r])
    /\ IF closes[r]
       THEN /\ Goto(r, "complete_error")
            /\ lease' = [lease EXCEPT ![r] = 0]
            /\ UNCHANGED result
       ELSE Return(r, "err")
    /\ UNCHANGED <<sequencerVars, mapVars, call, closes, tickets, dropped,
                   made, abortVars>>

CompleteError(r) ==
    /\ pc[r] = "complete_error"
    /\ CompleteSlot(r)
    /\ Return(r, "err")
    /\ UNCHANGED <<registryVars, mapVars, call, closes, tickets, dropped, made,
                   abortVars>>

-----------------------------------------------------------------------------
(* Point to point.  A message is keyed by group, instance and both ends;   *)
(* a second send with the same key replaces the first.                     *)

Post(r) ==
    LET key == <<Key(call[r]), r, call[r].peer>> IN
    /\ pc[r] = "post"
    /\ mail' = {m \in mail : m.key # key} \cup {[key |-> key, extent |-> call[r].sig]}
    /\ Goto(r, "finish")
    /\ UNCHANGED <<registryVars, sequencerVars, states, barriers, held,
                   callVars, abortVars>>

\* recv removes the message first, then compares extents.
Take(r) ==
    LET key == <<Key(call[r]), call[r].peer, r>>
        found == {m \in mail : m.key = key}
    IN  /\ pc[r] = "take"
        /\ mail' = mail \ found
        /\ IF \E m \in found : m.extent = call[r].sig
           THEN Goto(r, "lease") /\ UNCHANGED <<lease, result>>
           ELSE Return(r, "err")
        /\ UNCHANGED <<registryVars, sequencerVars, states, barriers, held,
                       call, closes, tickets, dropped, made, abortVars>>

-----------------------------------------------------------------------------
(* abort: close the sequencer, set the cause, then notify the waiters of    *)
(* each map under its lock.                                                 *)

AbortSequencer_FlagOnly ==
    /\ MayAbort
    /\ abortPc = "ready"
    /\ aborted' = TRUE
    /\ abortPc' = "cause"
    /\ UNCHANGED <<decisions, decidedPrefix, canonical, cursors, active, emitted,
                   completed>>
    /\ UNCHANGED <<registryVars, mapVars, callVars, pc, abortCause>>

AbortSequencer ==
    /\ MayAbort
    /\ abortPc = "ready"
    /\ SequencerAbort
    /\ abortPc' = "cause"
    /\ UNCHANGED <<registryVars, mapVars, callVars, pc, abortCause>>

AbortCause ==
    /\ abortPc = "cause"
    /\ abortCause' = TRUE
    /\ abortPc' = "barrier"
    /\ UNCHANGED <<registryVars, sequencerVars, mapVars, callVars, pc>>

AbortNext(ph) ==
    CASE ph = "barrier" -> "data" [] ph = "data" -> "counts" [] OTHER -> "done"

AbortNotify_WithoutLock(ph) ==
    /\ abortPc = ph
    /\ pc' = [r \in Ranks |-> IF r \in Waiting(ph) THEN "woken" ELSE pc[r]]
    /\ abortPc' = AbortNext(ph)
    /\ UNCHANGED <<registryVars, sequencerVars, mapVars, callVars, abortCause>>

AbortNotify_SkipsCounts(ph) ==
    /\ abortPc = ph
    /\ held[ph] = NoRank
    /\ pc' = [r \in Ranks |-> IF r \in Waiting(ph) /\ ph # "counts"
                              THEN "woken" ELSE pc[r]]
    /\ abortPc' = AbortNext(ph)
    /\ UNCHANGED <<registryVars, sequencerVars, mapVars, callVars, abortCause>>

AbortNotify(ph) ==
    /\ abortPc = ph
    /\ held[ph] = NoRank
    /\ pc' = [r \in Ranks |-> IF r \in Waiting(ph) THEN "woken" ELSE pc[r]]
    /\ abortPc' = AbortNext(ph)
    /\ UNCHANGED <<registryVars, sequencerVars, mapVars, callVars, abortCause>>

-----------------------------------------------------------------------------
Start(r) ==
    /\ made[r] < Len(Plan[r])
    /\ \E c \in Plan[r][made[r] + 1] :
        Begin(r, c) \/ BeginDataPhase(r, c) \/ Control(r, c) \/ ControlRefused(r, c)

\* What a thread inside a call does, other than taking a map lock.
Run(r) ==
    \/ TakeLease(r) \/ LeaseRefused(r)
    \/ Order(r) \/ OrderRefused(r) \/ OrderDataPhase(r)
    \/ Check(r) \/ Park(r)
    \/ LeaveAborted(r) \/ LeaveWithOutput(r) \/ LeaveBarrier(r)
    \/ Finish(r) \/ FinishMismatch(r) \/ CompleteOk(r)
    \/ RetireBegin(r) \/ RetireQuiesce(r) \/ CompleteError(r)
    \/ Post(r) \/ Take(r)

Acquire(r) == Enter(r) \/ Arrive(r) \/ Reacquire(r)

AbortRuns == AbortCause \/ \E ph \in Phases : AbortNotify(ph)

Next ==
    \/ \E r \in Ranks : Start(r) \/ Run(r) \/ Acquire(r) \/ SpuriousWakeup(r)
    \/ AbortSequencer
    \/ AbortRuns

Spec == Init /\ [][Next]_vars

\* A thread inside a call keeps running, and one that finds the mutex it
\* wants free again and again gets it; nothing obliges a caller to call, nor
\* a condition variable to wake anyone unasked.
Fairness ==
    /\ \A r \in Ranks : WF_vars(Run(r)) /\ SF_vars(Acquire(r))
    /\ SF_vars(AbortRuns)

FairSpec == Spec /\ Fairness

\* Callers that also carry their programs through to the end.
ProgramSpec == FairSpec /\ \A r \in Ranks : WF_vars(Start(r))

-----------------------------------------------------------------------------
(* Properties.                                                             *)

Inside(r) == pc[r] \in {"check", "park", "parked", "woken", "leave"}

\* Condition-variable discipline of run_collective, exchange_counts, barrier
\* and abort: a parked rank's rendezvous is not complete, and if the flag its
\* loop reads is set then abort has yet to notify its map.
NoLostWakeup ==
    \A r \in Ranks : pc[r] = "parked" =>
        /\ ~Done(r)
        /\ Stopped(r) =>
             abortPc \in {"cause", "barrier"} \cup
                 CASE Phase(call[r]) = "barrier" -> {}
                   [] Phase(call[r]) = "data" -> {"data"}
                   [] OTHER -> {"data", "counts"}

\* The entry of a rendezvous outlives every rank inside it: none of the
\* expect()s on the maps can panic and no waiter is left watching a key that
\* its peers have removed.
EntryOutlivesRanks ==
    \A r \in Ranks : Inside(r) =>
        LET k == Key(call[r]) ph == Phase(call[r]) IN
        IF ph = "barrier"
        THEN k \in DOMAIN barriers /\ r \in barriers[k].arrived
        ELSE k \in DOMAIN states[ph] /\ r \in states[ph][k].contributed

\* No entry stays behind: a barrier, and without abort a collective, is in
\* its map only while some rank is inside it.
EntriesReaped ==
    /\ \A k \in DOMAIN barriers :
         \E r \in Ranks : Inside(r) /\ Phase(call[r]) = "barrier" /\ Key(call[r]) = k
    /\ ~aborted => \A ph \in Maps : \A k \in DOMAIN states[ph] :
         \E r \in Ranks : Inside(r) /\ Phase(call[r]) = ph /\ Key(call[r]) = k

\* The sequencer protects the rendezvous: what it lets through never meets
\* an entry with another signature or one the rank is already in, so the
\* "diverged" and "contributed twice" errors cannot be returned.
RendezvousAgrees == \A r \in Ranks : pc[r] = "enter" => ~Diverges(r)

\* A rank leaves a collective or a barrier without an abort only after every
\* member has entered it.
RendezvousComplete ==
    \A r \in Ranks : pc[r] = "leave" /\ ~Stopped(r) =>
        LET k == Key(call[r]) ph == Phase(call[r]) IN
        Members[call[r].group] =
            IF ph = "barrier" THEN barriers[k].arrived ELSE states[ph][k].contributed

\* Every live registry operation belongs to one call in progress: no return
\* path of any call, early or late, leaves a lease behind.
LeasesOwned ==
    /\ DOMAIN operations = {lease[r] : r \in Ranks} \ {0}
    /\ \A r, q \in Ranks : lease[r] = lease[q] /\ r # q => lease[r] = 0
    /\ \A r \in Ranks : pc[r] = "idle" => lease[r] = 0

\* Every active sequencer slot belongs to a call in progress or to a ticket;
\* the one way to strand it is an all_to_all_v that fails its span checks or
\* is refused its lease, having consumed the ticket.
SlotsOwned ==
    \A slot \in active :
        \/ slot \in dropped
        \/ \E t \in tickets[slot[2]] : t.key = <<slot[1], slot[3]>>
        \/ pc[slot[2]] # "idle" /\ Slot(slot[2]) = slot

\* The communicator uses the registry and the sequencer as they allow, so
\* what is proved of each of them alone holds in the composition.
ComponentSpecs == RegistrySpec /\ SequencerSpec

\* After abort every call in progress returns.
AbortDrains == \A r \in Ranks : (abortCause /\ pc[r] # "idle") ~> pc[r] = "idle"

\* Ranks that make the same calls in each group all get to the end of their
\* programs, and the call there succeeds: no rank waits for one that waits
\* for it, or fails for want of a peer.
ProgramsFinish ==
    <>(\A r \in Ranks : pc[r] = "idle" /\ made[r] = Len(Plan[r]) /\ result[r] = "ok")

=============================================================================
