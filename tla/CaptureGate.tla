---------------------------- MODULE CaptureGate ----------------------------
(***************************************************************************)
(* The process-wide gate between CUDA graph captures and operations that   *)
(* synchronize the device:                                                 *)
(* crates/onnx-runtime-cuda-memory/src/capture_gate.rs.                    *)
(*                                                                         *)
(* One mutex guards the gate and every critical section is a step of its   *)
(* own: a thread that has to wait parks in it, a thread that has to wake   *)
(* the others does so after it, in a later step.  The two thread-local     *)
(* depths are read by their own thread only and change together with the   *)
(* critical section next to them.                                          *)
(*                                                                         *)
(* `guards' is what a thread holds, oldest first:                          *)
(*   "capture", "yielding"  outermost CaptureExclusion; the second one set *)
(*                          its thread's own section aside                 *)
(*   "inner_capture"        nested CaptureExclusion                        *)
(*   "section"              outermost SynchronizingSection                 *)
(*   "inner_section"        nested one                                     *)
(*   "action"               the section of an action that runs at once     *)
(*   "inner_action"         an action that runs under an older section     *)
(*   "drain"                the synchronizer of a capture's deferred work  *)
(* A section asked for while capturing is None and leaves nothing to hold. *)
(* Actions do not start captures: the ones in the repository release       *)
(* memory.  A panic of an action ends it like a return.                    *)
(***************************************************************************)
EXTENDS Integers, Sequences, FiniteSets

CONSTANTS
    Threads,
    MaxGuards,   \* bound: guards a thread holds at a time
    MaxActions   \* bound: calls of run_or_defer_synchronizing

ASSUME GateAssumption ==
    /\ MaxGuards \in Nat
    /\ MaxActions \in Nat

Actions == 1..MaxActions

VARIABLES
    synchronizers, capturesWaiting, capturing, deferred,  \* GateState
    captureDepth, sharedDepth,  \* CAPTURE_DEPTH and SHARED_DEPTH, by thread
    guards,      \* the guards a thread holds
    pc,          \* "run", parked in "wait", awake to "check", or to "notify"
    want,        \* what a waiting thread waits for
    todo,        \* deferred actions a thread has taken over to run
    nextAction,  \* the next action to be submitted
    started      \* actions that have started to run

gateVars == <<synchronizers, capturesWaiting, capturing, deferred>>
vars == <<gateVars, captureDepth, sharedDepth, guards, pc, want, todo,
          nextAction, started>>

Outermost == {"capture", "yielding"}
Captures == Outermost \cup {"inner_capture"}
Counted == {"section", "action", "drain"}
Running == {"action", "inner_action"}
Guards == Captures \cup Counted \cup {"inner_section", "inner_action"}
NoWant == [kind |-> "none", action |-> 0]

Init ==
    /\ synchronizers = 0
    /\ capturesWaiting = 0
    /\ capturing = FALSE
    /\ deferred = <<>>
    /\ captureDepth = [t \in Threads |-> 0]
    /\ sharedDepth = [t \in Threads |-> 0]
    /\ guards = [t \in Threads |-> <<>>]
    /\ pc = [t \in Threads |-> "run"]
    /\ want = [t \in Threads |-> NoWant]
    /\ todo = [t \in Threads |-> <<>>]
    /\ nextAction = 1
    /\ started = {}

SaturatingSub(n) == IF n = 0 THEN 0 ELSE n - 1

Holds(t, kinds) == \E i \in 1..Len(guards[t]) : guards[t][i] \in kinds
Push(t, g) == guards' = [guards EXCEPT ![t] = Append(@, g)]
Add(f, t, n) == [f EXCEPT ![t] = @ + n]
Less(f, t) == [f EXCEPT ![t] = SaturatingSub(@)]
Goto(t, label) == pc' = [pc EXCEPT ![t] = label]

Top(t) == guards[t][Len(guards[t])]

\* A thread in its caller's or in an action's code; between two deferred
\* actions it is in neither.
InCaller(t) == pc[t] = "run" /\ (guards[t] # <<>> => Top(t) # "drain")

Calls(t) == InCaller(t) /\ Len(guards[t]) < MaxGuards

-----------------------------------------------------------------------------
(* CaptureExclusion::acquire.                                              *)

AcquireNested(t) ==
    /\ Calls(t)
    /\ captureDepth[t] > 0
    /\ captureDepth' = Add(captureDepth, t, 1)
    /\ Push(t, "inner_capture")
    /\ UNCHANGED <<gateVars, sharedDepth, pc, want, todo, nextAction, started>>

StartCapture(t) ==
    /\ capturing' = TRUE
    /\ Push(t, IF sharedDepth[t] > 0 THEN "yielding" ELSE "capture")
    /\ Goto(t, "notify")
    /\ want' = [want EXCEPT ![t] = NoWant]

\* The thread's own section is set aside before the wait.
Acquire(t) ==
    LET others == IF sharedDepth[t] > 0 THEN SaturatingSub(synchronizers)
                                        ELSE synchronizers
    IN  /\ Calls(t)
        /\ captureDepth[t] = 0
        /\ ~Holds(t, Running \cup {"drain"})
        /\ captureDepth' = Add(captureDepth, t, 1)
        /\ synchronizers' = others
        /\ \/ /\ ~capturing /\ others = 0
              /\ StartCapture(t)
              /\ UNCHANGED capturesWaiting
           \/ /\ capturing \/ others > 0
              /\ capturesWaiting' = capturesWaiting + 1
              /\ want' = [want EXCEPT ![t] = [kind |-> "capture", action |-> 0]]
              /\ Goto(t, "wait")
              /\ UNCHANGED <<capturing, guards>>
        /\ UNCHANGED <<deferred, sharedDepth, todo, nextAction, started>>

AcquireAgain(t) ==
    /\ pc[t] = "check"
    /\ want[t].kind = "capture"
    /\ \/ /\ ~capturing /\ synchronizers = 0
          /\ capturesWaiting' = capturesWaiting - 1
          /\ StartCapture(t)
       \/ /\ capturing \/ synchronizers > 0
          /\ Goto(t, "wait")
          /\ UNCHANGED <<capturesWaiting, capturing, guards, want>>
    /\ UNCHANGED <<synchronizers, deferred, captureDepth, sharedDepth, todo,
                   nextAction, started>>

-----------------------------------------------------------------------------
(* synchronizing_section.                                                  *)

SectionNested(t) ==
    /\ Calls(t)
    /\ captureDepth[t] = 0
    /\ sharedDepth[t] > 0
    /\ sharedDepth' = Add(sharedDepth, t, 1)
    /\ Push(t, "inner_section")
    /\ UNCHANGED <<gateVars, captureDepth, pc, want, todo, nextAction, started>>

\* Mutants: a section looks at waiting captures only; at live ones only.
MutantSectionIgnoresCapture == capturesWaiting > 0
MutantSectionIgnoresWaiters == capturing

\* A waiting capture turns new sections away.
SectionBlocked == capturing \/ capturesWaiting > 0

Enter(t, g) ==
    /\ synchronizers' = synchronizers + 1
    /\ sharedDepth' = Add(sharedDepth, t, 1)
    /\ Push(t, g)
    /\ Goto(t, "run")
    /\ want' = [want EXCEPT ![t] = NoWant]

Section(t) ==
    /\ \/ Calls(t) /\ captureDepth[t] = 0 /\ sharedDepth[t] = 0
       \/ pc[t] = "check" /\ want[t].kind = "section"
    /\ \/ ~SectionBlocked /\ Enter(t, "section")
       \/ /\ SectionBlocked
          /\ want' = [want EXCEPT ![t] = [kind |-> "section", action |-> 0]]
          /\ Goto(t, "wait")
          /\ UNCHANGED <<synchronizers, sharedDepth, guards>>
    /\ UNCHANGED <<capturesWaiting, capturing, deferred, captureDepth, todo,
                   nextAction, started>>

-----------------------------------------------------------------------------
(* run_or_defer_synchronizing.                                             *)

\* The thread's own capture is live: its action always waits.
DeferOwn(t) ==
    /\ InCaller(t)
    /\ nextAction \in Actions
    /\ captureDepth[t] > 0
    /\ deferred' = Append(deferred, nextAction)
    /\ nextAction' = nextAction + 1
    /\ UNCHANGED <<synchronizers, capturesWaiting, capturing, captureDepth,
                   sharedDepth, guards, pc, want, todo, started>>

RunNested(t) ==
    /\ Calls(t)
    /\ nextAction \in Actions
    /\ captureDepth[t] = 0
    /\ sharedDepth[t] > 0
    /\ Push(t, "inner_action")
    /\ started' = started \cup {nextAction}
    /\ nextAction' = nextAction + 1
    /\ UNCHANGED <<gateVars, captureDepth, sharedDepth, pc, want, todo>>

RunOrDefer(t, a) ==
    /\ \/ /\ capturing
          /\ deferred' = Append(deferred, a)
          /\ want' = [want EXCEPT ![t] = NoWant]
          /\ Goto(t, "run")
          /\ UNCHANGED <<synchronizers, sharedDepth, guards, started>>
       \/ /\ ~capturing /\ capturesWaiting > 0
          /\ want' = [want EXCEPT ![t] = [kind |-> "action", action |-> a]]
          /\ Goto(t, "wait")
          /\ UNCHANGED <<synchronizers, deferred, sharedDepth, guards, started>>
       \/ /\ ~capturing /\ capturesWaiting = 0
          /\ Enter(t, "action")
          /\ started' = started \cup {a}
          /\ UNCHANGED deferred
    /\ UNCHANGED <<capturesWaiting, capturing, captureDepth, todo>>

Submit(t) ==
    /\ Calls(t)
    /\ nextAction \in Actions
    /\ captureDepth[t] = 0
    /\ sharedDepth[t] = 0
    /\ RunOrDefer(t, nextAction)
    /\ nextAction' = nextAction + 1

SubmitAgain(t) ==
    /\ pc[t] = "check"
    /\ want[t].kind = "action"
    /\ RunOrDefer(t, want[t].action)
    /\ UNCHANGED nextAction

-----------------------------------------------------------------------------
(* Drops.  Drop does not look at the order; a thread drops its own guards,  *)
(* youngest first, as the callers in the repository do.                     *)

DropsA(t, kinds) == pc[t] = "run" /\ guards[t] # <<>> /\ Top(t) \in kinds
Pop(t) == guards' = [guards EXCEPT ![t] = SubSeq(@, 1, Len(@) - 1)]

DropNestedCapture(t) ==
    /\ DropsA(t, {"inner_capture"})
    /\ captureDepth' = Less(captureDepth, t)
    /\ Pop(t)
    /\ UNCHANGED <<gateVars, sharedDepth, pc, want, todo, nextAction, started>>

\* Mutant: the queue stays where it is and waits for the next capture.
MutantDropKeepsQueue(t) ==
    /\ DropsA(t, Outermost)
    /\ captureDepth' = Less(captureDepth, t)
    /\ capturing' = FALSE
    /\ synchronizers' = synchronizers + (IF Top(t) = "yielding" THEN 1 ELSE 0)
    /\ Pop(t)
    /\ Goto(t, "notify")
    /\ UNCHANGED <<capturesWaiting, deferred, sharedDepth, want, todo,
                   nextAction, started>>

\* The gate opens; what was deferred is taken over and runs under a
\* synchronizer of its own, next to the section that was set aside.
DropCapture(t) ==
    LET drains == deferred # <<>>
        yields == Top(t) = "yielding"
    IN  /\ DropsA(t, Outermost)
        /\ captureDepth' = Less(captureDepth, t)
        /\ capturing' = FALSE
        /\ todo' = [todo EXCEPT ![t] = deferred]
        /\ deferred' = <<>>
        /\ synchronizers' = synchronizers + (IF drains THEN 1 ELSE 0)
                                          + (IF yields THEN 1 ELSE 0)
        /\ guards' = [guards EXCEPT ![t] =
                        SubSeq(@, 1, Len(@) - 1) \o (IF drains THEN <<"drain">> ELSE <<>>)]
        /\ sharedDepth' = IF drains THEN Add(sharedDepth, t, 1) ELSE sharedDepth
        /\ Goto(t, "notify")
        /\ UNCHANGED <<capturesWaiting, want, nextAction, started>>

RunDeferred(t) ==
    /\ pc[t] = "run"
    /\ guards[t] # <<>>
    /\ Top(t) = "drain"
    /\ todo[t] # <<>>
    /\ Push(t, "inner_action")
    /\ started' = started \cup {Head(todo[t])}
    /\ todo' = [todo EXCEPT ![t] = Tail(@)]
    /\ UNCHANGED <<gateVars, captureDepth, sharedDepth, pc, want, nextAction>>

\* Mutant: the last synchronizer to leave wakes nobody.
MutantLeaveQuietly(t) ==
    /\ DropsA(t, Counted)
    /\ Top(t) = "drain" => todo[t] = <<>>
    /\ sharedDepth' = Less(sharedDepth, t)
    /\ synchronizers' = SaturatingSub(synchronizers)
    /\ Pop(t)
    /\ UNCHANGED <<capturesWaiting, capturing, deferred, captureDepth, pc, want,
                   todo, nextAction, started>>

\* The end of a counted section, of an action's or of a drain.
Leave(t) ==
    /\ DropsA(t, Counted)
    /\ Top(t) = "drain" => todo[t] = <<>>
    /\ sharedDepth' = Less(sharedDepth, t)
    /\ synchronizers' = SaturatingSub(synchronizers)
    /\ Pop(t)
    /\ Goto(t, IF synchronizers' = 0 THEN "notify" ELSE "run")
    /\ UNCHANGED <<capturesWaiting, capturing, deferred, captureDepth, want,
                   todo, nextAction, started>>

LeaveNested(t) ==
    /\ DropsA(t, {"inner_section", "inner_action"})
    /\ sharedDepth' = IF Top(t) = "inner_section" THEN Less(sharedDepth, t)
                                                  ELSE sharedDepth
    /\ Pop(t)
    /\ UNCHANGED <<gateVars, captureDepth, pc, want, todo, nextAction, started>>

-----------------------------------------------------------------------------
NotifyAll(t) ==
    /\ pc[t] = "notify"
    /\ pc' = [u \in Threads |-> IF u = t THEN "run"
                                ELSE IF pc[u] = "wait" THEN "check" ELSE pc[u]]
    /\ UNCHANGED <<gateVars, captureDepth, sharedDepth, guards, want, todo,
                   nextAction, started>>

SpuriousWakeup(t) ==
    /\ pc[t] = "wait"
    /\ Goto(t, "check")
    /\ UNCHANGED <<gateVars, captureDepth, sharedDepth, guards, want, todo,
                   nextAction, started>>

Call(t) ==
    \/ AcquireNested(t) \/ Acquire(t)
    \/ SectionNested(t) \/ Section(t)
    \/ DeferOwn(t) \/ RunNested(t) \/ Submit(t)

Drop(t) ==
    DropNestedCapture(t) \/ DropCapture(t) \/ Leave(t) \/ LeaveNested(t)

\* What a thread inside the gate's own code does.
Run(t) ==
    AcquireAgain(t) \/ (pc[t] = "check" /\ Section(t)) \/ SubmitAgain(t)
      \/ NotifyAll(t) \/ RunDeferred(t)

Next == \E t \in Threads : Call(t) \/ Drop(t) \/ Run(t) \/ SpuriousWakeup(t)

Spec == Init /\ [][Next]_vars

\* A runnable thread runs, an action returns, and callers drop what they hold
\* at last, whatever else they do in between.
Fairness ==
    \A t \in Threads :
        /\ WF_vars(Run(t))
        /\ \A n \in 1..(MaxGuards + 1) : SF_vars(Len(guards[t]) = n /\ Drop(t))

FairSpec == Spec /\ Fairness

-----------------------------------------------------------------------------
(* Properties.                                                             *)

\* A thread inside a driver call that may synchronize the device, for itself
\* or for the actions it runs.
Synchronizing(t) == Holds(t, Counted) /\ captureDepth[t] = 0

\* "Captures exclude synchronizers; synchronizers exclude captures": while a
\* thread holds a CaptureExclusion the gate is shut, no other thread holds one
\* and no other thread is inside a section, an action or a drain; a section
\* that its thread set aside to capture does not count while it captures.
CaptureExcludes ==
    \A t \in Threads : Holds(t, Captures) =>
        /\ capturing
        /\ \A u \in Threads \ {t} : ~Holds(u, Captures) /\ ~Synchronizing(u)

\* The condition under which the loop of a waiting thread waits on.
Blocked(t) ==
    CASE want[t].kind = "capture" -> capturing \/ synchronizers > 0
      [] want[t].kind = "section" -> SectionBlocked
      [] OTHER -> ~capturing /\ capturesWaiting > 0

\* A thread parked on the condition variable still has a reason to wait, or a
\* notify_all that will wake it is on its way: every critical section of
\* acquire and of the drops that lets a waiter go is followed by one.
NoLostWakeup ==
    \A t \in Threads : pc[t] = "wait" =>
        Blocked(t) \/ \E u \in Threads : pc[u] = "notify"

\* "a steady stream of allocations cannot starve a capture that is waiting to
\* start": once a thread waits in CaptureExclusion::acquire some capture
\* starts, however many sections the other threads go on to ask for.
CaptureStarts == capturesWaiting > 0 ~> capturing

\* Work that run_or_defer_synchronizing queues behind a capture is run: every
\* action in the queue is started once the capture's guard is dropped.
DeferredRuns ==
    \A a \in Actions :
        (\E i \in 1..Len(deferred) : deferred[i] = a) ~> a \in started
=============================================================================
