------------------------- MODULE CaptureGateProofs -------------------------
(* Proofs about the capture gate, for any number of threads, guards and     *)
(* actions.                                                                 *)
EXTENDS CaptureGate, TLAPS

Labels == {"run", "wait", "check", "notify"}

\* The part of the state that a waiting thread's loop looks at.
WaitType ==
  /\ synchronizers \in Nat
  /\ capturesWaiting \in Int
  /\ pc \in [Threads -> Labels]
  /\ want = [t \in Threads |-> want[t]]

WaitInv == WaitType /\ NoLostWakeup

\* Nobody waits at first.
LEMMA InitWait == Init => WaitInv
  BY DEF Init, WaitInv, WaitType, NoLostWakeup, Labels

\* A thread that is on its way to notify_all keeps the others safe.
LEMMA NotifierWakes ==
  ASSUME NEW t \in Threads, pc \in [Threads -> Labels], Goto(t, "notify")
  PROVE  NoLostWakeup'
  BY DEF Goto, NoLostWakeup

\* A step of one thread preserves NoLostWakeup when it leaves the others
\* blocked, and itself too if it parks.
LEMMA StillBlocked ==
  ASSUME WaitInv, NEW t \in Threads, NEW label \in Labels, Goto(t, label),
         pc[t] # "notify",
         label = "wait" => Blocked(t)',
         \A u \in Threads \ {t} : Blocked(u) => Blocked(u)'
  PROVE  NoLostWakeup'
<1> SUFFICES ASSUME NEW u \in Threads, pc'[u] = "wait"
             PROVE  Blocked(u)' \/ \E w \in Threads : pc'[w] = "notify"
  BY DEF NoLostWakeup
<1>1. CASE u = t
  BY <1>1 DEF Goto, WaitInv, WaitType
<1>2. CASE u # t
  <2>1. pc[u] = "wait"
    BY <1>2 DEF Goto, WaitInv, WaitType
  <2>2. CASE Blocked(u)
    BY <1>2, <2>2
  <2>3. CASE \E w \in Threads : pc[w] = "notify"
    <3>1. PICK w \in Threads : pc[w] = "notify"
      BY <2>3
    <3>2. pc'[w] = "notify"
      BY <3>1 DEF Goto, WaitInv, WaitType
    <3>3. QED
      BY <3>2
  <2>4. QED
    BY <2>1, <2>2, <2>3 DEF WaitInv, NoLostWakeup
<1>3. QED
  BY <1>1, <1>2

\* Every step keeps the types.
LEMMA StepType == WaitType /\ [Next]_vars => WaitType'
<1> SUFFICES ASSUME WaitType, [Next]_vars PROVE WaitType'
  OBVIOUS
<1> USE DEF WaitType, Goto, Labels
<1>1. ASSUME NEW t \in Threads, Call(t) PROVE WaitType'
  <2>1. CASE AcquireNested(t)
    BY <2>1 DEF AcquireNested, gateVars
  <2>2. CASE Acquire(t)
    BY <2>2 DEF Acquire, StartCapture, SaturatingSub
  <2>3. CASE SectionNested(t)
    BY <2>3 DEF SectionNested, gateVars
  <2>4. CASE Section(t)
    BY <2>4 DEF Section, Enter
  <2>5. CASE DeferOwn(t)
    BY <2>5 DEF DeferOwn
  <2>6. CASE RunNested(t)
    BY <2>6 DEF RunNested, gateVars
  <2>7. CASE Submit(t)
    BY <2>7 DEF Submit, RunOrDefer, Enter
  <2>8. QED
    BY <1>1, <2>1, <2>2, <2>3, <2>4, <2>5, <2>6, <2>7 DEF Call
<1>2. ASSUME NEW t \in Threads, Drop(t) PROVE WaitType'
  <2>1. CASE DropNestedCapture(t)
    BY <2>1 DEF DropNestedCapture, gateVars
  <2>2. CASE DropCapture(t)
    BY <2>2 DEF DropCapture
  <2>3. CASE Leave(t)
    BY <2>3 DEF Leave, SaturatingSub
  <2>4. CASE LeaveNested(t)
    BY <2>4 DEF LeaveNested, gateVars
  <2>5. QED
    BY <1>2, <2>1, <2>2, <2>3, <2>4 DEF Drop
<1>3. ASSUME NEW t \in Threads, Run(t) PROVE WaitType'
  <2>1. CASE AcquireAgain(t)
    BY <2>1 DEF AcquireAgain, StartCapture
  <2>2. CASE Section(t)
    BY <2>2 DEF Section, Enter
  <2>3. CASE SubmitAgain(t)
    BY <2>3 DEF SubmitAgain, RunOrDefer, Enter
  <2>4. CASE NotifyAll(t)
    BY <2>4 DEF NotifyAll, gateVars
  <2>5. CASE RunDeferred(t)
    BY <2>5 DEF RunDeferred, gateVars
  <2>6. QED
    BY <1>3, <2>1, <2>2, <2>3, <2>4, <2>5 DEF Run
<1>4. ASSUME NEW t \in Threads, SpuriousWakeup(t) PROVE WaitType'
  BY <1>4 DEF SpuriousWakeup, gateVars
<1>5. CASE UNCHANGED vars
  BY <1>5 DEF vars, gateVars
<1>6. QED
  BY <1>1, <1>2, <1>3, <1>4, <1>5 DEF Next

\* Every step leaves a parked thread blocked, or a notify_all on its way.
LEMMA StepWakes == WaitInv /\ [Next]_vars => NoLostWakeup'
<1> SUFFICES ASSUME WaitInv, [Next]_vars PROVE NoLostWakeup'
  OBVIOUS
<1>t. WaitType /\ WaitType'
  BY StepType DEF WaitInv
<1>q. ASSUME UNCHANGED <<gateVars, pc, want>> PROVE NoLostWakeup'
  BY <1>q DEF WaitInv, NoLostWakeup, Blocked, SectionBlocked, gateVars
<1>s. ASSUME NEW t \in Threads, Section(t), pc[t] # "notify" PROVE NoLostWakeup'
  <2>1. CASE ~SectionBlocked /\ Enter(t, "section")
    <3>1. \A u \in Threads \ {t} : Blocked(u) => Blocked(u)'
      BY <1>t, <1>s, <2>1 DEF Section, Enter, Blocked, SectionBlocked, WaitType
    <3>2. QED
      BY <1>s, <2>1, <3>1, StillBlocked DEF Enter, Labels
  <2>2. CASE SectionBlocked /\ Goto(t, "wait")
    <3>1. \A u \in Threads \ {t} : Blocked(u) => Blocked(u)'
      BY <1>t, <1>s, <2>2 DEF Section, Enter, Goto, Blocked, SectionBlocked, WaitType, Labels
    <3>2. Blocked(t)'
      BY <1>t, <1>s, <2>2 DEF Section, Enter, Goto, Blocked, SectionBlocked, WaitType, Labels
    <3>3. QED
      BY <1>s, <2>2, <3>1, <3>2, StillBlocked DEF Labels
  <2>3. QED
    BY <1>s, <2>1, <2>2 DEF Section
<1>r. ASSUME NEW t \in Threads, NEW a, RunOrDefer(t, a), pc[t] # "notify"
      PROVE  NoLostWakeup'
  <2>1. \A u \in Threads \ {t} : Blocked(u) => Blocked(u)'
    BY <1>t, <1>r DEF RunOrDefer, Enter, Blocked, SectionBlocked, WaitType
  <2>2. CASE Goto(t, "run")
    BY <1>r, <2>1, <2>2, StillBlocked DEF Labels
  <2>3. CASE Goto(t, "wait") /\ ~Goto(t, "run")
    <3>1. Blocked(t)'
      BY <1>t, <1>r, <2>3 DEF RunOrDefer, Enter, Blocked, WaitType
    <3>2. QED
      BY <1>r, <2>1, <2>3, <3>1, StillBlocked DEF Labels
  <2>4. QED
    BY <1>r, <2>2, <2>3 DEF RunOrDefer, Enter
<1>1. ASSUME NEW t \in Threads, Call(t) PROVE NoLostWakeup'
  <2>1. CASE AcquireNested(t) \/ SectionNested(t) \/ DeferOwn(t) \/ RunNested(t)
    <3>1. UNCHANGED <<synchronizers, capturesWaiting, capturing, pc, want>>
      BY <2>1 DEF AcquireNested, SectionNested, DeferOwn, RunNested, gateVars
    <3>2. QED
      BY <3>1 DEF WaitInv, NoLostWakeup, Blocked, SectionBlocked
  <2>2. CASE Acquire(t)
    <3>n. pc[t] = "run"
      BY <2>2 DEF Acquire, Calls, InCaller
    <3>1. CASE StartCapture(t)
      BY <1>t, <3>1, NotifierWakes DEF StartCapture, WaitType
    <3>2. CASE ~StartCapture(t)
      <4>1. /\ Goto(t, "wait")
            /\ capturing \/ synchronizers' > 0
            /\ capturing' = capturing
            /\ capturesWaiting' = capturesWaiting + 1
            /\ want' = [want EXCEPT ![t] = [kind |-> "capture", action |-> 0]]
        BY <2>2, <3>2 DEF Acquire
      <4>2. Blocked(t)'
        BY <1>t, <4>1 DEF Blocked, WaitType
      <4>3. \A u \in Threads \ {t} : Blocked(u) => Blocked(u)'
        BY <1>t, <4>1 DEF Blocked, SectionBlocked, WaitType
      <4>4. QED
        BY <3>n, <4>1, <4>2, <4>3, StillBlocked DEF Labels
    <3>3. QED
      BY <3>1, <3>2
  <2>3. CASE Section(t)
    <3>1. pc[t] # "notify"
      BY <2>3 DEF Section, Calls, InCaller
    <3>2. QED
      BY <1>s, <2>3, <3>1
  <2>4. CASE Submit(t)
    BY <1>r, <2>4 DEF Submit, Calls, InCaller
  <2>5. QED
    BY <1>1, <2>1, <2>2, <2>3, <2>4 DEF Call
<1>2. ASSUME NEW t \in Threads, Drop(t) PROVE NoLostWakeup'
  <2>1. CASE DropNestedCapture(t) \/ LeaveNested(t)
    BY <1>q, <2>1 DEF DropNestedCapture, LeaveNested
  <2>2. CASE DropCapture(t)
    BY <1>t, <2>2, NotifierWakes DEF DropCapture, WaitType
  <2>3. CASE Leave(t)
    <3>1. CASE synchronizers' = 0
      BY <1>t, <2>3, <3>1, NotifierWakes DEF Leave, WaitType
    <3>2. CASE synchronizers' # 0
      <4>1. Goto(t, "run") /\ pc[t] = "run"
        BY <2>3, <3>2 DEF Leave, DropsA
      <4>2. \A u \in Threads \ {t} : Blocked(u) => Blocked(u)'
        BY <1>t, <2>3, <3>2 DEF Leave, Blocked, SectionBlocked, WaitType
      <4>3. QED
        BY <4>1, <4>2, StillBlocked DEF Labels
    <3>3. QED
      BY <3>1, <3>2
  <2>4. QED
    BY <1>2, <2>1, <2>2, <2>3 DEF Drop
<1>3. ASSUME NEW t \in Threads, Run(t) PROVE NoLostWakeup'
  <2>1. CASE AcquireAgain(t)
    <3>1. CASE StartCapture(t)
      BY <1>t, <3>1, NotifierWakes DEF StartCapture, WaitType
    <3>2. CASE ~StartCapture(t)
      <4>1. /\ Goto(t, "wait") /\ pc[t] = "check"
            /\ want[t].kind = "capture"
            /\ capturing \/ synchronizers > 0
            /\ UNCHANGED <<synchronizers, capturing, capturesWaiting, want>>
        BY <2>1, <3>2 DEF AcquireAgain
      <4>2. Blocked(t)'
        BY <4>1 DEF Blocked
      <4>3. \A u \in Threads \ {t} : Blocked(u) => Blocked(u)'
        BY <4>1 DEF Blocked, SectionBlocked
      <4>4. QED
        BY <4>1, <4>2, <4>3, StillBlocked DEF Labels
    <3>3. QED
      BY <3>1, <3>2
  <2>2. CASE pc[t] = "check" /\ Section(t)
    BY <1>s, <2>2
  <2>3. CASE SubmitAgain(t)
    BY <1>r, <2>3 DEF SubmitAgain
  <2>4. CASE NotifyAll(t)
    BY <2>4 DEF NotifyAll, NoLostWakeup
  <2>5. CASE RunDeferred(t)
    BY <1>q, <2>5 DEF RunDeferred
  <2>6. QED
    BY <1>3, <2>1, <2>2, <2>3, <2>4, <2>5 DEF Run
<1>4. ASSUME NEW t \in Threads, SpuriousWakeup(t) PROVE NoLostWakeup'
  <2>1. /\ Goto(t, "check") /\ pc[t] = "wait"
        /\ UNCHANGED <<gateVars, want>>
    BY <1>4 DEF SpuriousWakeup
  <2>2. \A u \in Threads \ {t} : Blocked(u) => Blocked(u)'
    BY <2>1 DEF Blocked, SectionBlocked, gateVars
  <2>3. QED
    BY <2>1, <2>2, StillBlocked DEF Labels
<1>5. CASE UNCHANGED vars
  BY <1>q, <1>5 DEF vars
<1>6. QED
  BY <1>1, <1>2, <1>3, <1>4, <1>5 DEF Next

\* No wake-up is lost, whatever the number of threads: a thread parked in
\* acquire, synchronizing_section or run_or_defer_synchronizing still has a
\* reason to wait, or a notify_all is on its way.
THEOREM GateWakesWaiters == Spec => []NoLostWakeup
<1>1. Init => WaitInv
  BY InitWait
<1>2. WaitInv /\ [Next]_vars => WaitInv'
  BY StepType, StepWakes DEF WaitInv
<1>3. WaitInv => NoLostWakeup
  BY DEF WaitInv
<1>4. QED
  BY <1>1, <1>2, <1>3, PTL DEF Spec

-----------------------------------------------------------------------------
(* Captures and synchronizers exclude each other.                           *)

\* S has n elements: they can be numbered.
Numbers(n, S) ==
  /\ n \in Nat
  /\ \E f \in [1..n -> S] : /\ \A x \in S : \E i \in 1..n : f[i] = x
                            /\ \A i, j \in 1..n : f[i] = f[j] => i = j

LEMMA NumbersNone == Numbers(0, {})
<1>1. [i \in 1..0 |-> i] \in [1..0 -> {}]
  OBVIOUS
<1>2. QED
  BY <1>1, Zenon DEF Numbers

LEMMA NumbersZero ==
  ASSUME NEW n, NEW S, Numbers(n, S)
  PROVE  n \in Nat /\ (n = 0 <=> S = {})
<1>1. PICK f \in [1..n -> S] : \A x \in S : \E i \in 1..n : f[i] = x
  BY DEF Numbers
<1>2. n \in Nat
  BY DEF Numbers
<1>3. n # 0 => f[1] \in S
  BY <1>2
<1>4. n = 0 => S = {}
  BY <1>1
<1>5. QED
  BY <1>2, <1>3, <1>4

LEMMA NumbersAdd ==
  ASSUME NEW n, NEW S, Numbers(n, S), NEW x, x \notin S
  PROVE  Numbers(n + 1, S \cup {x})
<1>1. PICK f \in [1..n -> S] : /\ \A y \in S : \E i \in 1..n : f[i] = y
                               /\ \A i, j \in 1..n : f[i] = f[j] => i = j
  BY DEF Numbers
<1>2. n \in Nat
  BY DEF Numbers
<1> DEFINE g == [i \in 1..(n + 1) |-> IF i = n + 1 THEN x ELSE f[i]]
<1>3. /\ g \in [1..(n + 1) -> S \cup {x}] /\ g[n + 1] = x
      /\ \A i \in 1..n : g[i] = f[i] /\ i \in 1..(n + 1)
      /\ \A i \in 1..(n + 1) : i = n + 1 \/ i \in 1..n
  BY <1>2
<1> HIDE DEF g
<1>4. \A y \in S \cup {x} : \E i \in 1..(n + 1) : g[i] = y
  <2>1. n + 1 \in 1..(n + 1)
    BY <1>2
  <2>2. QED
    BY <1>1, <1>3, <2>1
<1>5. \A i, j \in 1..(n + 1) : g[i] = g[j] => i = j
  BY <1>1, <1>3
<1>6. n + 1 \in Nat /\ g \in [1..(n + 1) -> S \cup {x}]
  BY <1>2, <1>3
<1>7. QED
  BY <1>4, <1>5, <1>6, Zenon DEF Numbers

LEMMA NumbersRemove ==
  ASSUME NEW n, NEW S, Numbers(n, S), NEW x \in S
  PROVE  n > 0 /\ Numbers(n - 1, S \ {x})
<1>1. PICK f \in [1..n -> S] : /\ \A y \in S : \E i \in 1..n : f[i] = y
                               /\ \A i, j \in 1..n : f[i] = f[j] => i = j
  BY DEF Numbers
<1>2. PICK k \in 1..n : f[k] = x
  BY <1>1
<1>3. n \in Nat /\ n > 0 /\ n - 1 \in Nat
  BY <1>2 DEF Numbers
<1> DEFINE g == [i \in 1..(n - 1) |-> IF i = k THEN f[n] ELSE f[i]]
<1>4. /\ n \in 1..n
      /\ \A i \in 1..(n - 1) : i \in 1..n /\ i # n /\ g[i] = IF i = k THEN f[n] ELSE f[i]
      /\ \A i \in 1..n : i = n \/ i \in 1..(n - 1)
  BY <1>3
<1>5. g \in [1..(n - 1) -> S \ {x}]
  <2>1. \A i \in 1..(n - 1) : g[i] \in S \ {x}
    BY <1>1, <1>2, <1>4
  <2>2. QED
    BY <2>1
<1> HIDE DEF g
<1>6. \A y \in S \ {x} : \E i \in 1..(n - 1) : g[i] = y
  <2>1. SUFFICES ASSUME NEW y \in S \ {x} PROVE \E i \in 1..(n - 1) : g[i] = y
    OBVIOUS
  <2>2. PICK m \in 1..n : f[m] = y
    BY <1>1
  <2>3. m # k
    BY <1>2, <2>2
  <2>4. CASE m = n
    <3>1. k \in 1..(n - 1) /\ g[k] = y
      BY <1>4, <2>2, <2>3, <2>4
    <3>2. QED
      BY <3>1
  <2>5. CASE m # n
    BY <1>4, <2>2, <2>3, <2>5
  <2>6. QED
    BY <2>4, <2>5
<1>7. \A i, j \in 1..(n - 1) : g[i] = g[j] => i = j
  BY <1>1, <1>4
<1>8. QED
  BY <1>3, <1>5, <1>6, <1>7, Zenon DEF Numbers

\* The guards of some kinds on a thread's stack.
Idx(s, K) == {i \in 1..Len(s) : s[i] \in K}
Without(s) == SubSeq(s, 1, Len(s) - 1)

\* The guards that SHARED_DEPTH counts.
Shared == Counted \cup {"inner_section"}

\* What a thread waits for, if it waits.
Waiting(t) == IF pc[t] \in {"wait", "check"} THEN want[t].kind ELSE "none"

\* How the guards on a stack lie upon each other.
StackOK(s) ==
  /\ s \in Seq(Guards)
  /\ \A i \in 1..Len(s) : s[i] = "inner_section" => \E j \in 1..(i - 1) : s[j] \in Counted
  /\ \A i \in 1..Len(s) : s[i] = "inner_capture" => \E j \in 1..(i - 1) : s[j] \in Outermost
  /\ \A i, j \in 1..Len(s) : i < j /\ s[i] \in Captures => s[j] = "inner_capture"
  /\ \A i \in 1..Len(s) : s[i] \in Outermost =>
       (s[i] = "yielding" <=> \E j \in 1..Len(s) : s[j] \in Counted)
  /\ \A i, j \in 1..Len(s) : s[i] \in {"section", "action"} /\ s[j] \in {"section", "action"}
       => i = j

\* A stack with the two depths of its thread and what the thread waits for.
ThreadOK(s, cd, sd, w) ==
  /\ StackOK(s)
  /\ w # "capture" => Numbers(cd, Idx(s, Captures))
  /\ w = "capture" => cd = 1 /\ Idx(s, Captures) = {}
  /\ Numbers(sd, Idx(s, Shared))
  /\ cd > 0 => Idx(s, {"drain"}) = {}
  /\ w \in {"section", "action"} => cd = 0 /\ sd = 0
  /\ w \in {"none", "capture", "section", "action"}

ThreadsOK == \A t \in Threads : ThreadOK(guards[t], captureDepth[t], sharedDepth[t], Waiting(t))

\* The counted guards that are not set aside, by thread and place.
Active == {p \in Threads \X Nat : captureDepth[p[1]] = 0 /\ p[2] \in Idx(guards[p[1]], Counted)}

GateTypes ==
  /\ WaitType
  /\ capturing \in BOOLEAN
  /\ guards \in [Threads -> Seq(Guards)]
  /\ captureDepth \in [Threads -> Nat]
  /\ sharedDepth \in [Threads -> Nat]

GateInv ==
  /\ GateTypes
  /\ ThreadsOK
  /\ Numbers(synchronizers, Active)
  /\ CaptureExcludes

\* a is the stack s with g on top; s is a without its top.
Pushed(s, g, a) ==
  /\ s \in Seq(Guards) /\ a \in Seq(Guards) /\ g \in Guards
  /\ Len(a) = Len(s) + 1
  /\ a[Len(a)] = g
  /\ \A i \in 1..Len(s) : a[i] = s[i]

LEMMA AppendPushes ==
  ASSUME NEW s \in Seq(Guards), NEW g \in Guards
  PROVE  Pushed(s, g, Append(s, g))
  BY DEF Pushed

LEMMA WithoutPops ==
  ASSUME NEW s \in Seq(Guards), s # <<>>
  PROVE  Pushed(Without(s), s[Len(s)], s)
<1>1. Len(s) \in Nat \ {0} /\ Len(s) - 1 \in Nat
  OBVIOUS
<1>2. /\ Without(s) \in Seq(Guards) /\ Len(Without(s)) = Len(s) - 1
      /\ \A i \in 1..(Len(s) - 1) : Without(s)[i] = s[i]
  <2> DEFINE n == Len(s) - 1
  <2>1. n \in Int /\ 1 \in Int /\ \A i \in 1..n : s[i] \in Guards
    BY <1>1
  <2>2. /\ SubSeq(s, 1, n) \in Seq(Guards)
        /\ Len(SubSeq(s, 1, n)) = IF 1 <= n THEN n - 1 + 1 ELSE 0
        /\ \A i \in 1..(n - 1 + 1) : SubSeq(s, 1, n)[i] = s[1 + i - 1]
    <3> HIDE DEF n
    <3>1. QED
      BY <2>1
  <2>3. Len(SubSeq(s, 1, n)) = n /\ \A i \in 1..n : SubSeq(s, 1, n)[i] = s[i]
    <3>1. n \in Nat /\ n - 1 + 1 = n /\ \A i \in 1..n : 1 + i - 1 = i
      BY <1>1
    <3> HIDE DEF n
    <3>2. QED
      BY <2>2, <3>1
  <2>4. QED
    BY <2>2, <2>3 DEF Without
<1>3. s[Len(s)] \in Guards
  BY <1>1
<1>4. QED
  BY <1>1, <1>2, <1>3 DEF Pushed

\* Counting guards before and after.
LEMMA PushCounts ==
  ASSUME NEW s, NEW g, NEW a, Pushed(s, g, a), NEW K
  PROVE  /\ g \in K =>
              /\ Idx(a, K) = Idx(s, K) \cup {Len(a)}
              /\ \A n : Numbers(n, Idx(s, K)) => Numbers(n + 1, Idx(a, K))
              /\ \A n : Numbers(n, Idx(a, K)) => n > 0 /\ Numbers(n - 1, Idx(s, K))
         /\ g \notin K => Idx(a, K) = Idx(s, K)
         /\ Len(a) \notin Idx(s, K)
<1>1. Len(s) \in Nat /\ 1..Len(a) = (1..Len(s)) \cup {Len(a)}
  BY DEF Pushed
<1>2. Len(a) \notin Idx(s, K)
  BY <1>1 DEF Idx, Pushed
<1>3. CASE g \in K
  <2>1. Idx(a, K) = Idx(s, K) \cup {Len(a)}
    BY <1>1, <1>3 DEF Idx, Pushed
  <2>2. ASSUME NEW n, Numbers(n, Idx(s, K)) PROVE Numbers(n + 1, Idx(a, K))
    BY <1>2, <2>1, <2>2, NumbersAdd
  <2>3. ASSUME NEW n, Numbers(n, Idx(a, K)) PROVE n > 0 /\ Numbers(n - 1, Idx(s, K))
    <3>1. Len(a) \in Idx(a, K) /\ Idx(a, K) \ {Len(a)} = Idx(s, K)
      BY <1>2, <2>1
    <3>2. n > 0 /\ Numbers(n - 1, Idx(a, K) \ {Len(a)})
      BY <2>3, <3>1, NumbersRemove
    <3>3. QED
      BY <3>1, <3>2, Zenon
  <2>4. QED
    BY <1>2, <1>3, <2>1, <2>2, <2>3, Zenon
<1>4. CASE g \notin K
  BY <1>1, <1>2, <1>4, Zenon DEF Idx, Pushed
<1>5. QED
  BY <1>3, <1>4

\* The same for the kinds that matter.
LEMMA PushKinds ==
  ASSUME NEW s, NEW g, NEW a, Pushed(s, g, a)
  PROVE  /\ g \in Captures =>
              /\ Idx(a, Captures) = Idx(s, Captures) \cup {Len(a)}
              /\ \A n : Numbers(n, Idx(s, Captures)) => Numbers(n + 1, Idx(a, Captures))
              /\ \A n : Numbers(n, Idx(a, Captures)) => n > 0 /\ Numbers(n - 1, Idx(s, Captures))
         /\ g \notin Captures => Idx(a, Captures) = Idx(s, Captures)
         /\ g \in Shared =>
              /\ \A n : Numbers(n, Idx(s, Shared)) => Numbers(n + 1, Idx(a, Shared))
              /\ \A n : Numbers(n, Idx(a, Shared)) => n > 0 /\ Numbers(n - 1, Idx(s, Shared))
         /\ g \notin Shared => Idx(a, Shared) = Idx(s, Shared)
         /\ g \in Counted => Idx(a, Counted) = Idx(s, Counted) \cup {Len(a)}
         /\ g \notin Counted => Idx(a, Counted) = Idx(s, Counted)
         /\ Idx(s, {"drain"}) \subseteq Idx(a, {"drain"})
         /\ g # "drain" => Idx(a, {"drain"}) = Idx(s, {"drain"})
         /\ Len(a) \notin Idx(s, Counted)
<1>1. /\ g \in Captures =>
           /\ Idx(a, Captures) = Idx(s, Captures) \cup {Len(a)}
           /\ \A n : Numbers(n, Idx(s, Captures)) => Numbers(n + 1, Idx(a, Captures))
           /\ \A n : Numbers(n, Idx(a, Captures)) => n > 0 /\ Numbers(n - 1, Idx(s, Captures))
      /\ g \notin Captures => Idx(a, Captures) = Idx(s, Captures)
  BY PushCounts
<1>2. /\ g \in Shared =>
           /\ \A n : Numbers(n, Idx(s, Shared)) => Numbers(n + 1, Idx(a, Shared))
           /\ \A n : Numbers(n, Idx(a, Shared)) => n > 0 /\ Numbers(n - 1, Idx(s, Shared))
      /\ g \notin Shared => Idx(a, Shared) = Idx(s, Shared)
  BY PushCounts
<1>3. /\ g \in Counted => Idx(a, Counted) = Idx(s, Counted) \cup {Len(a)}
      /\ g \notin Counted => Idx(a, Counted) = Idx(s, Counted)
      /\ Len(a) \notin Idx(s, Counted)
  BY PushCounts
<1>4. /\ Idx(s, {"drain"}) \subseteq Idx(a, {"drain"})
      /\ g # "drain" => Idx(a, {"drain"}) = Idx(s, {"drain"})
  BY PushCounts
<1>5. QED
  BY <1>1, <1>2, <1>3, <1>4

\* What may lie on top of a stack.
MayPush(s, g) ==
  \/ g = "inner_capture" /\ Idx(s, Captures) # {}
  \/ /\ Idx(s, Captures) = {}
     /\ \/ g \in Outermost /\ (g = "yielding" <=> Idx(s, Counted) # {})
        \/ g \in {"section", "action"} /\ Idx(s, Counted) = {}
        \/ g = "inner_section" /\ Idx(s, Counted) # {}
        \/ g \in {"drain", "inner_action"}

LEMMA PushOK ==
  ASSUME NEW s, NEW g, NEW a, StackOK(s), Pushed(s, g, a), MayPush(s, g)
  PROVE  StackOK(a)
<1> USE DEF Pushed, Captures, Outermost, Counted
<1>1. Len(s) \in Nat /\ 1..Len(a) = (1..Len(s)) \cup {Len(a)} /\ Len(a) = Len(s) + 1
  OBVIOUS
<1>2. /\ Idx(s, Captures) = {} <=> \A i \in 1..Len(s) : s[i] \notin Captures
      /\ Idx(s, Counted) = {} <=> \A i \in 1..Len(s) : s[i] \notin Counted
  BY DEF Idx
<1>3. \A i \in 1..Len(a) : a[i] = "inner_section" => \E j \in 1..(i - 1) : a[j] \in Counted
  BY <1>1, <1>2 DEF StackOK, MayPush
<1>4. \A i \in 1..Len(a) : a[i] = "inner_capture" => \E j \in 1..(i - 1) : a[j] \in Outermost
  <2>1. CASE g = "inner_capture"
    <3>1. PICK k \in 1..Len(s) : s[k] \in Captures
      BY <1>2, <2>1 DEF MayPush
    <3>2. PICK j \in 1..Len(s) : s[j] \in Outermost
      BY <1>1, <3>1 DEF StackOK
    <3>3. a[j] \in Outermost /\ j \in 1..(Len(a) - 1)
      BY <1>1, <3>2
    <3>4. QED
      BY <1>1, <3>3 DEF StackOK
  <2>2. CASE g # "inner_capture"
    BY <1>1, <2>2 DEF StackOK
  <2>3. QED
    BY <2>1, <2>2
<1>5. \A i, j \in 1..Len(a) : i < j /\ a[i] \in Captures => a[j] = "inner_capture"
  <2>1. \A i, j \in 1..Len(s) : i < j /\ a[i] \in Captures => a[j] = "inner_capture"
    BY <1>1 DEF StackOK
  <2>2. \A i \in 1..Len(s) : a[i] \in Captures => g = "inner_capture"
    BY <1>1, <1>2, Zenon DEF MayPush
  <2>3. QED
    BY <1>1, <2>1, <2>2
<1>6. \A i \in 1..Len(a) : a[i] \in Outermost =>
        (a[i] = "yielding" <=> \E j \in 1..Len(a) : a[j] \in Counted)
  BY <1>1, <1>2, ZenonT(30) DEF StackOK, MayPush
<1>7. \A i, j \in 1..Len(a) : a[i] \in {"section", "action"} /\ a[j] \in {"section", "action"}
        => i = j
  BY <1>1, <1>2, Zenon DEF StackOK, MayPush
<1>8. QED
  BY <1>3, <1>4, <1>5, <1>6, <1>7 DEF StackOK

LEMMA PopOK ==
  ASSUME NEW s, NEW g, NEW a, StackOK(a), Pushed(s, g, a)
  PROVE  StackOK(s)
<1> USE DEF Pushed, Captures, Outermost, Counted
<1>1. /\ Len(s) \in Nat /\ 1..Len(a) = (1..Len(s)) \cup {Len(a)} /\ Len(a) = Len(s) + 1
      /\ \A i \in 1..Len(s) : i < Len(a)
  OBVIOUS
<1>2. \A i \in 1..Len(s) : s[i] = "inner_section" => \E j \in 1..(i - 1) : s[j] \in Counted
  BY <1>1 DEF StackOK
<1>3. \A i \in 1..Len(s) : s[i] = "inner_capture" => \E j \in 1..(i - 1) : s[j] \in Outermost
  BY <1>1 DEF StackOK
<1>4. \A i \in 1..Len(s) : s[i] \in Outermost =>
        (s[i] = "yielding" <=> \E j \in 1..Len(s) : s[j] \in Counted)
  BY <1>1 DEF StackOK
<1>5. QED
  BY <1>1, <1>2, <1>3, <1>4, ZenonT(30) DEF StackOK

-----------------------------------------------------------------------------
(* What each call and drop does to its thread's stack and depths. *)

\* SHARED_DEPTH says whether the thread is in a section.
LEMMA SharedMeansCounted ==
  ASSUME NEW s, NEW cd, NEW sd, NEW w, ThreadOK(s, cd, sd, w)
  PROVE  /\ cd \in Nat /\ sd \in Nat
         /\ sd > 0 <=> Idx(s, Counted) # {}
         /\ w # "capture" => (cd = 0 <=> Idx(s, Captures) = {})
         /\ w = "capture" => cd = 1
<1>1. s \in Seq(Guards)
  BY DEF ThreadOK, StackOK
<1>2. Idx(s, Shared) = {} <=> Idx(s, Counted) = {}
  <2>1. Idx(s, Counted) \subseteq Idx(s, Shared)
    BY DEF Idx, Shared
  <2>2. ASSUME NEW i \in Idx(s, Shared) PROVE Idx(s, Counted) # {}
    <3>1. i \in 1..Len(s) /\ (s[i] \in Counted \/ s[i] = "inner_section") /\ Len(s) \in Nat
      BY <1>1 DEF Idx, Shared
    <3>2. s[i] = "inner_section" => \E j \in 1..(i - 1) : s[j] \in Counted
      BY <3>1 DEF ThreadOK, StackOK
    <3>3. \E j \in 1..Len(s) : s[j] \in Counted
      BY <3>1, <3>2
    <3>4. QED
      BY <3>3 DEF Idx
  <2>3. QED
    BY <2>1, <2>2
<1>3. sd \in Nat /\ (sd = 0 <=> Idx(s, Shared) = {})
  BY NumbersZero DEF ThreadOK
<1>4. w # "capture" => cd \in Nat /\ (cd = 0 <=> Idx(s, Captures) = {})
  BY NumbersZero DEF ThreadOK
<1>5. w = "capture" => cd = 1
  BY DEF ThreadOK
<1>6. QED
  BY <1>2, <1>3, <1>4, <1>5

\* A thread without a drain is in at most one section that counts.
LEMMA OneSection ==
  ASSUME NEW s, StackOK(s), Idx(s, {"drain"}) = {}, Idx(s, Counted) # {}
  PROVE  \E i \in Nat : Idx(s, Counted) = {i}
<1>1. PICK i : i \in Idx(s, Counted)
  OBVIOUS
<1>2. \A j \in Idx(s, Counted) : j = i
  BY <1>1 DEF Idx, StackOK, Counted
<1>3. QED
  BY <1>1, <1>2 DEF Idx

LEMMA NestsCapture ==
  ASSUME NEW s, NEW cd, NEW sd, NEW a, ThreadOK(s, cd, sd, "none"), cd > 0,
         Pushed(s, "inner_capture", a)
  PROVE  ThreadOK(a, cd + 1, sd, "none") /\ Idx(s, Captures) # {}
<1>1. Idx(s, Captures) # {} /\ cd \in Nat
  BY SharedMeansCounted
<1>2. StackOK(a)
  BY <1>1, PushOK DEF ThreadOK, MayPush
<1>3. "inner_capture" \in Captures /\ "inner_capture" \notin Shared /\ "inner_capture" # "drain"
  BY DEF Captures, Outermost, Shared, Counted
<1>4. /\ Numbers(cd + 1, Idx(a, Captures))
      /\ Idx(a, Shared) = Idx(s, Shared) /\ Idx(a, {"drain"}) = Idx(s, {"drain"})
  BY <1>3, PushKinds DEF ThreadOK
<1>5. QED
  BY <1>1, <1>2, <1>3, <1>4 DEF ThreadOK

LEMMA StartsCapture ==
  ASSUME NEW s, NEW cd, NEW sd, NEW w, NEW g, NEW a, ThreadOK(s, cd, sd, w),
         \/ w = "none" /\ cd = 0 /\ Idx(s, {"drain"}) = {}
         \/ w = "capture",
         g = IF sd > 0 THEN "yielding" ELSE "capture", Pushed(s, g, a)
  PROVE  ThreadOK(a, 1, sd, "none") /\ Idx(s, Captures) = {}
<1>0. cd = 1 \/ Idx(s, {"drain"}) = {}
  BY SharedMeansCounted
<1>1. Idx(s, Captures) = {} /\ (sd > 0 <=> Idx(s, Counted) # {}) /\ Idx(s, {"drain"}) = {}
  <2>1. Idx(s, {"drain"}) = {}
    BY <1>0 DEF ThreadOK
  <2>2. w = "capture" => Idx(s, Captures) = {}
    BY DEF ThreadOK
  <2>3. QED
    BY <2>1, <2>2, SharedMeansCounted
<1>2. StackOK(a)
  BY <1>1, PushOK DEF ThreadOK, MayPush, Outermost
<1>3. g \in Captures /\ g \notin Shared /\ g # "drain"
  BY DEF Captures, Outermost, Shared, Counted
<1>4. /\ Numbers(0 + 1, Idx(a, Captures))
      /\ Idx(a, Shared) = Idx(s, Shared) /\ Idx(a, {"drain"}) = {}
  <2>1. Numbers(0, Idx(s, Captures))
    BY <1>1, NumbersNone
  <2>2. Numbers(0 + 1, Idx(a, Captures))
    BY <1>3, <2>1, PushKinds, Zenon
  <2>3. QED
    BY <1>1, <1>3, <2>2, PushKinds
<1>5. QED
  BY <1>1, <1>2, <1>3, <1>4 DEF ThreadOK

LEMMA WaitsForCapture ==
  ASSUME NEW s, NEW sd, ThreadOK(s, 0, sd, "none"), Idx(s, {"drain"}) = {}
  PROVE  ThreadOK(s, 1, sd, "capture")
<1>1. Idx(s, Captures) = {}
  BY SharedMeansCounted
<1>2. QED
  BY <1>1 DEF ThreadOK

LEMMA WaitsOutside ==
  ASSUME NEW s, NEW w, NEW v, ThreadOK(s, 0, 0, w), w # "capture",
         v \in {"none", "section", "action"}
  PROVE  ThreadOK(s, 0, 0, v)
  BY DEF ThreadOK

LEMMA EntersSection ==
  ASSUME NEW s, NEW w, NEW g, NEW a, ThreadOK(s, 0, 0, w), w # "capture",
         g \in {"section", "action"}, Pushed(s, g, a)
  PROVE  /\ ThreadOK(a, 0, 1, "none")
         /\ Idx(s, Counted) = {} /\ Idx(a, Counted) = {Len(a)} /\ Idx(a, Captures) = {}
<1>1. Idx(s, Captures) = {} /\ Idx(s, Counted) = {}
  BY SharedMeansCounted
<1>2. StackOK(a)
  BY <1>1, PushOK DEF ThreadOK, MayPush
<1>3. g \notin Captures /\ g \in Shared /\ g \in Counted
  BY Zenon DEF Captures, Outermost, Shared, Counted
<1>4. /\ Numbers(0 + 1, Idx(a, Shared))
      /\ Idx(a, Captures) = {} /\ Idx(a, Counted) = {Len(a)}
  BY <1>1, <1>3, PushKinds DEF ThreadOK
<1>5. QED
  BY <1>1, <1>2, <1>3, <1>4, NumbersNone DEF ThreadOK

LEMMA NestsSection ==
  ASSUME NEW s, NEW sd, NEW g, NEW a, ThreadOK(s, 0, sd, "none"), Pushed(s, g, a),
         \/ g = "inner_section" /\ sd > 0
         \/ g = "inner_action"
  PROVE  /\ ThreadOK(a, 0, IF g = "inner_section" THEN sd + 1 ELSE sd, "none")
         /\ Idx(a, Counted) = Idx(s, Counted) /\ Idx(a, Captures) = {}
<1>1. Idx(s, Captures) = {} /\ (sd > 0 <=> Idx(s, Counted) # {})
  BY SharedMeansCounted
<1>2. StackOK(a)
  BY <1>1, PushOK DEF ThreadOK, MayPush
<1>3. g \notin Captures /\ g \notin Counted /\ (g \in Shared <=> g = "inner_section")
  BY Zenon DEF Captures, Outermost, Shared, Counted
<1>4. /\ g = "inner_section" => Numbers(sd + 1, Idx(a, Shared))
      /\ g # "inner_section" => Numbers(sd, Idx(a, Shared))
      /\ Idx(a, Captures) = {} /\ Idx(a, Counted) = Idx(s, Counted)
  BY <1>1, <1>3, PushKinds DEF ThreadOK
<1>5. QED
  BY <1>1, <1>2, <1>3, <1>4, NumbersNone DEF ThreadOK

LEMMA DropsNestedCapture ==
  ASSUME NEW s, NEW cd, NEW sd, NEW a, ThreadOK(a, cd, sd, "none"),
         Pushed(s, "inner_capture", a)
  PROVE  /\ ThreadOK(s, cd - 1, sd, "none") /\ cd \in Nat /\ cd > 1
         /\ Idx(a, Captures) # {}
<1>1. StackOK(a) /\ StackOK(s)
  BY PopOK DEF ThreadOK
<1>2. "inner_capture" \in Captures /\ "inner_capture" \notin Shared /\ "inner_capture" # "drain"
  BY Zenon DEF Captures, Shared, Counted
<1>3. /\ cd > 0 /\ Numbers(cd - 1, Idx(s, Captures)) /\ Idx(a, Shared) = Idx(s, Shared)
      /\ Idx(a, {"drain"}) = Idx(s, {"drain"}) /\ Idx(a, Captures) # {}
  BY <1>2, PushKinds DEF ThreadOK
<1>4. Idx(s, Captures) # {}
  <2>1. Len(a) \in 1..Len(a) /\ a[Len(a)] = "inner_capture"
    BY DEF Pushed
  <2>2. PICK j \in 1..(Len(a) - 1) : a[j] \in Outermost
    BY <1>1, <2>1 DEF StackOK
  <2>3. j \in 1..Len(s) /\ s[j] \in Captures
    BY <2>2 DEF Pushed, Captures
  <2>4. QED
    BY <2>3 DEF Idx
<1>5. cd \in Nat /\ cd > 1
  BY <1>3, <1>4, NumbersZero, SharedMeansCounted
<1>6. QED
  BY <1>1, <1>3, <1>5 DEF ThreadOK

LEMMA DropsOutermost ==
  ASSUME NEW s, NEW cd, NEW sd, NEW g, NEW a, ThreadOK(a, cd, sd, "none"),
         g \in Outermost, Pushed(s, g, a)
  PROVE  /\ ThreadOK(s, 0, sd, "none") /\ cd = 1
         /\ Idx(a, Captures) # {} /\ Idx(s, Captures) = {} /\ Idx(s, {"drain"}) = {}
         /\ g = "yielding" <=> Idx(s, Counted) # {}
<1>1. StackOK(a) /\ StackOK(s)
  BY PopOK DEF ThreadOK
<1>2. g \in Captures /\ g \notin Shared /\ g \notin Counted /\ g # "drain" /\ g # "inner_capture"
  BY Zenon DEF Captures, Outermost, Shared, Counted
<1>3. /\ cd > 0 /\ Numbers(cd - 1, Idx(s, Captures)) /\ Idx(a, Shared) = Idx(s, Shared)
      /\ Idx(a, {"drain"}) = Idx(s, {"drain"})
      /\ Idx(a, Captures) # {} /\ Idx(a, Counted) = Idx(s, Counted)
  BY <1>2, PushKinds DEF ThreadOK
<1>4. /\ Len(a) \in 1..Len(a) /\ a[Len(a)] = g /\ Len(s) \in Nat /\ Len(a) = Len(s) + 1
      /\ \A i \in 1..Len(s) : a[i] = s[i]
  BY DEF Pushed
<1>5. Idx(s, Captures) = {}
  BY <1>1, <1>2, <1>4 DEF Idx, StackOK
<1>6. g = "yielding" <=> Idx(a, Counted) # {}
  BY <1>1, <1>4, Zenon DEF StackOK, Idx
<1>7. cd = 1
  BY <1>3, <1>5, NumbersZero, SharedMeansCounted
<1>8. QED
  BY <1>1, <1>3, <1>5, <1>6, <1>7, NumbersNone DEF ThreadOK

LEMMA StartsDrain ==
  ASSUME NEW s, NEW sd, NEW a, ThreadOK(s, 0, sd, "none"), Pushed(s, "drain", a)
  PROVE  /\ ThreadOK(a, 0, sd + 1, "none") /\ Idx(a, Captures) = {}
         /\ Idx(a, Counted) = Idx(s, Counted) \cup {Len(a)} /\ Len(a) \notin Idx(s, Counted)
<1>1. Idx(s, Captures) = {}
  BY SharedMeansCounted
<1>2. StackOK(a)
  BY <1>1, PushOK DEF ThreadOK, MayPush
<1>3. "drain" \notin Captures /\ "drain" \in Shared /\ "drain" \in Counted
  BY Zenon DEF Captures, Outermost, Shared, Counted
<1>4. /\ Numbers(sd + 1, Idx(a, Shared)) /\ Idx(a, Captures) = {}
      /\ Idx(a, Counted) = Idx(s, Counted) \cup {Len(a)} /\ Len(a) \notin Idx(s, Counted)
  BY <1>1, <1>3, PushKinds, Zenon DEF ThreadOK
<1>5. QED
  BY <1>1, <1>2, <1>4, NumbersNone DEF ThreadOK

\* A section, an action or a drain ends; nothing of its thread captures.
LEMMA DropsShared ==
  ASSUME NEW s, NEW cd, NEW sd, NEW g, NEW a, ThreadOK(a, cd, sd, "none"), Pushed(s, g, a),
         g \notin Captures
  PROVE  /\ cd = 0 /\ Idx(a, Captures) = {} /\ Idx(s, Captures) = {}
         /\ g \in Shared => ThreadOK(s, 0, sd - 1, "none")
         /\ g \notin Shared => ThreadOK(s, 0, sd, "none")
         /\ g \in Counted => Idx(a, Counted) = Idx(s, Counted) \cup {Len(a)}
         /\ g \notin Counted => Idx(a, Counted) = Idx(s, Counted)
         /\ Len(a) \notin Idx(s, Counted)
         /\ sd \in Nat
         /\ g \in Shared => sd > 0
<1>1. StackOK(a) /\ StackOK(s)
  BY PopOK DEF ThreadOK
<1>2. /\ Len(a) \in 1..Len(a) /\ a[Len(a)] = g /\ Len(s) \in Nat /\ Len(a) = Len(s) + 1
      /\ \A i \in 1..Len(s) : a[i] = s[i]
  BY DEF Pushed
<1>3. Idx(s, Captures) = {}
  <2>1. \A i \in 1..Len(s) : s[i] \in Captures => g = "inner_capture"
    BY <1>1, <1>2 DEF StackOK
  <2>2. g # "inner_capture"
    BY Zenon DEF Captures
  <2>3. QED
    BY <2>1, <2>2, Zenon DEF Idx
<1>4. /\ Idx(a, Captures) = {}
      /\ g \in Shared => sd > 0 /\ Numbers(sd - 1, Idx(s, Shared))
      /\ g \notin Shared => Numbers(sd, Idx(s, Shared))
  BY <1>3, PushKinds, Zenon DEF ThreadOK
<1>5. /\ g \in Counted => Idx(a, Counted) = Idx(s, Counted) \cup {Len(a)}
      /\ g \notin Counted => Idx(a, Counted) = Idx(s, Counted)
      /\ Len(a) \notin Idx(s, Counted)
  BY PushKinds
<1>6. cd = 0 /\ sd \in Nat
  BY <1>4, SharedMeansCounted, Zenon
<1>7. QED
  BY <1>1, <1>3, <1>4, <1>5, <1>6, NumbersNone DEF ThreadOK

-----------------------------------------------------------------------------
(* A step of one thread, seen by all. *)

\* The guards of a stack that hold the gate shut against captures.
ActiveOf(s, cd) == IF cd = 0 THEN Idx(s, Counted) ELSE {}

\* Thread t moves to stack s and depths cd and sd, and then waits for w.
Moves(t, s, cd, sd, w) ==
  /\ ThreadOK(s, cd, sd, w)
  /\ guards' = [guards EXCEPT ![t] = s]
  /\ captureDepth' = [captureDepth EXCEPT ![t] = cd]
  /\ sharedDepth' = [sharedDepth EXCEPT ![t] = sd]
  /\ \A u \in Threads : Waiting(u)' = IF u = t THEN w ELSE Waiting(u)

Counts == Numbers(synchronizers, Active)

LEMMA MovesKeepThreads ==
  ASSUME GateInv, NEW t \in Threads, NEW s, NEW cd, NEW sd, NEW w, Moves(t, s, cd, sd, w)
  PROVE  /\ ThreadsOK' /\ guards' \in [Threads -> Seq(Guards)]
         /\ captureDepth' \in [Threads -> Nat] /\ sharedDepth' \in [Threads -> Nat]
         /\ guards'[t] = s /\ captureDepth'[t] = cd
         /\ \A u \in Threads \ {t} : guards'[u] = guards[u] /\ captureDepth'[u] = captureDepth[u]
<1>1. cd \in Nat /\ sd \in Nat /\ s \in Seq(Guards)
  BY SharedMeansCounted, Zenon DEF Moves, ThreadOK, StackOK
<1>2. /\ guards' \in [Threads -> Seq(Guards)] /\ captureDepth' \in [Threads -> Nat]
      /\ sharedDepth' \in [Threads -> Nat]
      /\ guards'[t] = s /\ captureDepth'[t] = cd /\ sharedDepth'[t] = sd
      /\ \A u \in Threads \ {t} : /\ guards'[u] = guards[u] /\ captureDepth'[u] = captureDepth[u]
                                   /\ sharedDepth'[u] = sharedDepth[u]
  BY <1>1 DEF Moves, GateInv, GateTypes
<1>3. \A u \in Threads :
         ThreadOK(guards'[u], captureDepth'[u], sharedDepth'[u], Waiting(u)')
  BY <1>2, Zenon DEF Moves, GateInv, ThreadsOK
<1>4. QED
  BY <1>2, <1>3 DEF ThreadsOK

LEMMA MovesActive ==
  ASSUME GateInv, NEW t \in Threads, NEW s, NEW cd, NEW sd, NEW w, Moves(t, s, cd, sd, w)
  PROVE  /\ Active \subseteq Threads \X Nat /\ Active' \subseteq Threads \X Nat
         /\ \A p \in Threads \X Nat :
              /\ p[1] = t => (p \in Active' <=> p[2] \in ActiveOf(s, cd))
              /\ p[1] = t => (p \in Active <=> p[2] \in ActiveOf(guards[t], captureDepth[t]))
              /\ p[1] # t => (p \in Active' <=> p \in Active)
         /\ \A i \in Nat : \A p \in Threads \X Nat : p = <<t, i>> <=> p[1] = t /\ p[2] = i
         /\ \A i \in Nat : <<t, i>> \in Threads \X Nat
<1>1. Active \subseteq Threads \X Nat /\ Active' \subseteq Threads \X Nat
  BY Zenon DEF Active
<1>2. /\ guards'[t] = s /\ captureDepth'[t] = cd
      /\ \A u \in Threads \ {t} : guards'[u] = guards[u] /\ captureDepth'[u] = captureDepth[u]
  BY MovesKeepThreads, Zenon
<1>3. ASSUME NEW p \in Threads \X Nat
      PROVE  /\ p[1] = t => (p \in Active' <=> p[2] \in ActiveOf(s, cd))
             /\ p[1] = t => (p \in Active <=> p[2] \in ActiveOf(guards[t], captureDepth[t]))
             /\ p[1] # t => (p \in Active' <=> p \in Active)
  <2>1. p[1] \in Threads
    BY Zenon
  <2>2. /\ p \in Active <=> captureDepth[p[1]] = 0 /\ p[2] \in Idx(guards[p[1]], Counted)
        /\ p \in Active' <=> captureDepth'[p[1]] = 0 /\ p[2] \in Idx(guards'[p[1]], Counted)
    BY DEF Active
  <2>3. QED
    BY <1>2, <2>1, <2>2 DEF ActiveOf
<1>4. \A i \in Nat : \A p \in Threads \X Nat : p = <<t, i>> <=> p[1] = t /\ p[2] = i
  OBVIOUS
<1>5. QED
  BY <1>1, <1>3, <1>4

\* The count follows the sections that begin and end.
LEMMA CountKept ==
  ASSUME GateInv, NEW t \in Threads, NEW s, NEW cd, NEW sd, NEW w, Moves(t, s, cd, sd, w),
         ActiveOf(s, cd) = ActiveOf(guards[t], captureDepth[t]), synchronizers' = synchronizers
  PROVE  Counts'
<1>1. Active' = Active
  <2>1. Active \subseteq Threads \X Nat /\ Active' \subseteq Threads \X Nat
    BY MovesActive, Zenon
  <2>2. \A p \in Threads \X Nat : p \in Active' <=> p \in Active
    BY MovesActive
  <2>3. QED
    BY <2>1, <2>2, Zenon
<1>2. QED
  BY <1>1 DEF Counts, GateInv

LEMMA CountUp ==
  ASSUME GateInv, NEW t \in Threads, NEW s, NEW cd, NEW sd, NEW w, Moves(t, s, cd, sd, w),
         NEW i \in Nat, i \notin ActiveOf(guards[t], captureDepth[t]),
         ActiveOf(s, cd) = ActiveOf(guards[t], captureDepth[t]) \cup {i},
         synchronizers' = synchronizers + 1
  PROVE  Counts'
<1>1. Active' = Active \cup {<<t, i>>} /\ <<t, i>> \notin Active
  <2>1. Active \subseteq Threads \X Nat /\ Active' \subseteq Threads \X Nat
    BY MovesActive, Zenon
  <2>2. \A p \in Threads \X Nat : p \in Active' <=> p \in Active \/ p = <<t, i>>
    BY MovesActive
  <2>3. QED
    BY <2>1, <2>2, MovesActive
<1>2. Numbers(synchronizers + 1, Active')
  BY <1>1, NumbersAdd, Zenon DEF GateInv
<1>3. QED
  BY <1>2, Zenon DEF Counts

LEMMA CountUpTwice ==
  ASSUME GateInv, NEW t \in Threads, NEW s, NEW cd, NEW sd, NEW w, Moves(t, s, cd, sd, w),
         NEW i \in Nat, NEW j \in Nat, i # j,
         ActiveOf(guards[t], captureDepth[t]) = {}, ActiveOf(s, cd) = {i, j},
         synchronizers' = synchronizers + 2
  PROVE  Counts'
<1>1. /\ Active' = (Active \cup {<<t, i>>}) \cup {<<t, j>>}
      /\ <<t, i>> \notin Active /\ <<t, j>> \notin Active \cup {<<t, i>>}
  <2>1. Active \subseteq Threads \X Nat /\ Active' \subseteq Threads \X Nat
    BY MovesActive, Zenon
  <2>2. \A p \in Threads \X Nat : p \in Active' <=> p \in Active \/ p = <<t, i>> \/ p = <<t, j>>
    BY MovesActive
  <2>3. QED
    BY <2>1, <2>2, MovesActive
<1>2. Numbers(synchronizers + 1, Active \cup {<<t, i>>})
  BY <1>1, NumbersAdd, Zenon DEF GateInv
<1>3. Numbers(synchronizers + 1 + 1, Active')
  BY <1>1, <1>2, NumbersAdd
<1>4. synchronizers + 1 + 1 = synchronizers + 2
  BY DEF GateInv, GateTypes, WaitType
<1>5. QED
  BY <1>3, <1>4 DEF Counts

LEMMA CountDown ==
  ASSUME GateInv, NEW t \in Threads, NEW s, NEW cd, NEW sd, NEW w, Moves(t, s, cd, sd, w),
         NEW i \in Nat, i \in ActiveOf(guards[t], captureDepth[t]),
         ActiveOf(s, cd) = ActiveOf(guards[t], captureDepth[t]) \ {i},
         synchronizers' = SaturatingSub(synchronizers)
  PROVE  Counts' /\ synchronizers > 0
<1>1. Active' = Active \ {<<t, i>>} /\ <<t, i>> \in Active
  <2>1. Active \subseteq Threads \X Nat /\ Active' \subseteq Threads \X Nat
    BY MovesActive, Zenon
  <2>2. \A p \in Threads \X Nat : p \in Active' <=> p \in Active /\ p # <<t, i>>
    BY MovesActive
  <2>3. QED
    BY <2>1, <2>2, MovesActive
<1>2. synchronizers > 0 /\ Numbers(synchronizers - 1, Active')
  BY <1>1, NumbersRemove, Zenon DEF GateInv
<1>3. QED
  BY <1>2 DEF Counts, SaturatingSub

\* With the count at zero nobody synchronizes; with the gate open nobody captures.
LEMMA GateSays ==
  ASSUME GateInv
  PROVE  /\ synchronizers = 0 => Active = {}
         /\ \A u \in Threads : /\ Holds(u, Captures) <=> Idx(guards[u], Captures) # {}
                               /\ Synchronizing(u) <=> ActiveOf(guards[u], captureDepth[u]) # {}
                               /\ ~capturing => Idx(guards[u], Captures) = {}
<1>1. synchronizers = 0 => Active = {}
  BY NumbersZero DEF GateInv
<1>2. \A u \in Threads : /\ Holds(u, Captures) <=> Idx(guards[u], Captures) # {}
                         /\ Synchronizing(u) <=> ActiveOf(guards[u], captureDepth[u]) # {}
  BY Zenon DEF Holds, Synchronizing, Idx, ActiveOf
<1>3. QED
  BY <1>1, <1>2 DEF GateInv, CaptureExcludes

\* Exclusion after a step of thread t.
LEMMA MovesExclude ==
  ASSUME GateInv, NEW t \in Threads, NEW s, NEW cd, NEW sd, NEW w, Moves(t, s, cd, sd, w),
         \/ /\ ~capturing
            /\ Idx(s, Captures) = {}
         \/ /\ capturing' = capturing
            /\ Idx(s, Captures) # {} => Idx(guards[t], Captures) # {}
            /\ ActiveOf(s, cd) # {} =>
                 Idx(guards[t], Captures) # {} \/ ActiveOf(guards[t], captureDepth[t]) # {}
         \/ /\ Idx(guards[t], Captures) # {}
            /\ Idx(s, Captures) = {}
         \/ /\ ~capturing
            /\ capturing' = TRUE
            /\ \A u \in Threads \ {t} : ~Synchronizing(u)
  PROVE  CaptureExcludes'
<1>1. /\ guards'[t] = s /\ captureDepth'[t] = cd
      /\ \A u \in Threads \ {t} : guards'[u] = guards[u] /\ captureDepth'[u] = captureDepth[u]
  BY MovesKeepThreads
<1>2. \A u \in Threads :
                             /\ Holds(u, Captures)' <=> Idx(guards'[u], Captures) # {}
                             /\ Synchronizing(u)' <=> ActiveOf(guards'[u], captureDepth'[u]) # {}
  BY Zenon DEF Holds, Synchronizing, Idx, ActiveOf
<1>3. \A u \in Threads :
                             /\ Holds(u, Captures) <=> Idx(guards[u], Captures) # {}
                             /\ Synchronizing(u) <=> ActiveOf(guards[u], captureDepth[u]) # {}
                             /\ ~capturing => Idx(guards[u], Captures) = {}
  BY GateSays, ZenonT(30)
<1>4. \A u \in Threads : Holds(u, Captures) =>
        capturing /\ \A v \in Threads \ {u} : ~Holds(v, Captures) /\ ~Synchronizing(v)
  BY Zenon DEF GateInv, CaptureExcludes
<1>5. \A u \in Threads \ {t} : /\ Holds(u, Captures)' <=> Holds(u, Captures)
                               /\ Synchronizing(u)' <=> Synchronizing(u)
  BY <1>1, <1>2, <1>3, Zenon
<1>6. /\ Holds(t, Captures)' <=> Idx(s, Captures) # {}
      /\ Synchronizing(t)' <=> ActiveOf(s, cd) # {}
  BY <1>1, <1>2, Zenon
<1>7. SUFFICES ASSUME NEW u \in Threads, Holds(u, Captures)'
               PROVE  capturing' /\ \A v \in Threads \ {u} : ~Holds(v, Captures)' /\ ~Synchronizing(v)'
  BY ZenonT(30) DEF CaptureExcludes
<1>8. CASE u = t
  <2>1. Idx(s, Captures) # {}
    BY <1>6, <1>7, <1>8, Zenon
  <2>2. capturing' /\ \A v \in Threads \ {t} : ~Holds(v, Captures) /\ ~Synchronizing(v)
    <3>1. CASE capturing' = capturing /\ Idx(guards[t], Captures) # {}
      BY <1>3, <1>4, <3>1, Zenon
    <3>2. CASE ~capturing /\ capturing' = TRUE /\ \A v \in Threads \ {t} : ~Synchronizing(v)
      BY <1>3, <3>2, Zenon
    <3>3. QED
      BY <2>1, <3>1, <3>2, Zenon
  <2>3. QED
    BY <1>5, <1>8, <2>2, Zenon
<1>9. CASE u # t
  <2>1. Holds(u, Captures)
    BY <1>5, <1>7, <1>9, Zenon
  <2>2. capturing /\ \A v \in Threads \ {u} : ~Holds(v, Captures) /\ ~Synchronizing(v)
    BY <1>4, <2>1, Zenon
  <2>3. Idx(guards[t], Captures) = {} /\ ActiveOf(guards[t], captureDepth[t]) = {}
    BY <1>3, <1>9, <2>2, Zenon
  <2>4. capturing' = capturing /\ Idx(s, Captures) = {} /\ ActiveOf(s, cd) = {}
    BY <2>2, <2>3, Zenon
  <2>5. ~Holds(t, Captures)' /\ ~Synchronizing(t)'
    BY <1>6, <2>4, Zenon
  <2>6. QED
    BY <1>5, <2>2, <2>4, <2>5, Zenon
<1>10. QED
  BY <1>8, <1>9, ZenonT(30)

-----------------------------------------------------------------------------
(* The actions.                                                             *)

\* A thread at work, before its step.
LEMMA InRun ==
  ASSUME GateInv, NEW t \in Threads
  PROVE  /\ ThreadOK(guards[t], captureDepth[t], sharedDepth[t], Waiting(t))
         /\ pc[t] = "run" => Waiting(t) = "none"
         /\ pc[t] = "check" => Waiting(t) = want[t].kind
         /\ guards[t] \in Seq(Guards)
         /\ guards = [guards EXCEPT ![t] = guards[t]]
         /\ captureDepth = [captureDepth EXCEPT ![t] = captureDepth[t]]
         /\ sharedDepth = [sharedDepth EXCEPT ![t] = sharedDepth[t]]
  BY DEF GateInv, GateTypes, ThreadsOK, Waiting

\* What the threads wait for after a step.
LEMMA StaysInRun ==
  ASSUME GateInv, NEW t \in Threads, pc[t] = "run", UNCHANGED <<pc, want>>
  PROVE  \A u \in Threads : Waiting(u)' = IF u = t THEN "none" ELSE Waiting(u)
  BY DEF Waiting

LEMMA GoesTo ==
  ASSUME GateInv, NEW t \in Threads, NEW l \in Labels, Goto(t, l),
         \A u \in Threads \ {t} : want'[u] = want[u]
  PROVE  /\ l \in {"wait", "check"} =>
              \A u \in Threads : Waiting(u)' = IF u = t THEN want'[t].kind ELSE Waiting(u)
         /\ l \notin {"wait", "check"} =>
              \A u \in Threads : Waiting(u)' = IF u = t THEN "none" ELSE Waiting(u)
  BY DEF GateInv, GateTypes, WaitType, Goto, Waiting

\* The parts of the invariant together.
LEMMA Settles ==
  ASSUME GateInv, [Next]_vars, NEW t \in Threads, NEW s, NEW cd, NEW sd, NEW w,
         Moves(t, s, cd, sd, w), capturing' \in BOOLEAN, Counts', CaptureExcludes'
  PROVE  GateInv'
<1>1. WaitType'
  BY StepType DEF GateInv, GateTypes
<1>2. QED
  BY <1>1, MovesKeepThreads DEF GateInv, GateTypes, Counts

\* A step that touches neither the gate nor a stack.
LEMMA QuietKeeps ==
  ASSUME GateInv, [Next]_vars,
         UNCHANGED <<synchronizers, capturing, captureDepth, sharedDepth, guards>>,
         \A u \in Threads : Waiting(u)' = Waiting(u)
  PROVE  GateInv'
<1>1. WaitType'
  BY StepType, Zenon DEF GateInv, GateTypes
<1>2. ThreadsOK'
  BY DEF GateInv, ThreadsOK
<1>3. Active' = Active
  BY Zenon DEF Active
<1>4. CaptureExcludes'
  BY DEF GateInv, CaptureExcludes, Holds, Synchronizing
<1>5. QED
  BY <1>1, <1>2, <1>3, <1>4 DEF GateInv, GateTypes

\* The count is zero: the other threads are in no section.
LEMMA NobodyElse ==
  ASSUME GateInv, NEW t \in Threads, NEW s, NEW cd, NEW sd, NEW w, Moves(t, s, cd, sd, w),
         Counts', synchronizers' = 0
  PROVE  \A u \in Threads \ {t} : ~Synchronizing(u)
<1>1. Active' = {}
  BY NumbersZero, ZenonT(30) DEF Counts
<1>2. SUFFICES ASSUME NEW u \in Threads \ {t}, NEW i \in ActiveOf(guards[u], captureDepth[u])
               PROVE  FALSE
  BY GateSays
<1>3. i \in Nat /\ captureDepth[u] = 0 /\ i \in Idx(guards[u], Counted)
  BY <1>2 DEF ActiveOf, Idx
<1>4. <<u, i>> \in Active
  BY <1>3, Zenon DEF Active
<1>5. QED
  BY <1>1, <1>4, MovesActive

LEMMA AcquireNestedKeeps ==
  ASSUME GateInv, [Next]_vars, NEW t \in Threads, AcquireNested(t)
  PROVE  GateInv'
<1> DEFINE s == guards[t]
           a == Append(s, "inner_capture")
           cd == captureDepth[t]
           sd == sharedDepth[t]
<1>1. pc[t] = "run" /\ cd > 0 /\ cd + 1 # 0
  BY DEF AcquireNested, Calls, InCaller, GateInv, GateTypes
<1>2. Pushed(s, "inner_capture", a)
  BY InRun, AppendPushes, Zenon DEF Guards, Captures
<1>3. ThreadOK(a, cd + 1, sd, "none") /\ Idx(s, Captures) # {}
  BY <1>1, <1>2, InRun, NestsCapture, Zenon
<1>4. Moves(t, a, cd + 1, sd, "none")
  BY <1>1, <1>3, InRun, StaysInRun DEF Moves, AcquireNested, Push, Add
<1>5. ActiveOf(a, cd + 1) = {} /\ ActiveOf(s, cd) = {}
  BY <1>1 DEF ActiveOf
<1>6. UNCHANGED <<synchronizers, capturing>>
  BY Zenon DEF AcquireNested, gateVars
<1> HIDE DEF a
<1>7. Counts'
  BY <1>4, <1>5, <1>6, CountKept
<1>8. CaptureExcludes'
  BY <1>3, <1>4, <1>5, <1>6, MovesExclude, Zenon
<1>9. QED
  BY <1>4, <1>6, <1>7, <1>8, Settles DEF GateInv, GateTypes

\* The stack that begins to capture gives up its own section.
LEMMA SetsAside ==
  ASSUME GateInv, NEW t \in Threads, NEW a, NEW cd, NEW sd, NEW w, Moves(t, a, cd, sd, w), cd = 1,
         captureDepth[t] = 0, Waiting(t) = "none", Idx(guards[t], {"drain"}) = {},
         synchronizers' = IF sharedDepth[t] > 0 THEN SaturatingSub(synchronizers)
                                                ELSE synchronizers
  PROVE  Counts'
<1>1. ActiveOf(a, cd) = {} /\ ActiveOf(guards[t], captureDepth[t]) = Idx(guards[t], Counted)
  BY DEF ActiveOf
<1>2. /\ sharedDepth[t] \in Nat
      /\ sharedDepth[t] > 0 <=> Idx(guards[t], Counted) # {}
      /\ StackOK(guards[t])
  BY InRun, SharedMeansCounted, ZenonT(30) DEF ThreadOK
<1>3. CASE sharedDepth[t] > 0
  <2>1. PICK i \in Nat : Idx(guards[t], Counted) = {i}
    BY <1>2, <1>3, OneSection, Zenon
  <2>2. QED
    BY <1>1, <1>3, <2>1, CountDown
<1>4. CASE ~(sharedDepth[t] > 0)
  BY <1>1, <1>2, <1>4, CountKept, Zenon
<1>5. QED
  BY <1>3, <1>4, Zenon

LEMMA AcquireKeeps ==
  ASSUME GateInv, [Next]_vars, NEW t \in Threads, Acquire(t)
  PROVE  GateInv'
<1> DEFINE s == guards[t]
           g == IF sharedDepth[t] > 0 THEN "yielding" ELSE "capture"
           a == Append(s, g)
           sd == sharedDepth[t]
           others == IF sharedDepth[t] > 0 THEN SaturatingSub(synchronizers) ELSE synchronizers
<1>1. /\ pc[t] = "run" /\ captureDepth[t] = 0 /\ synchronizers' = others
      /\ captureDepth' = [captureDepth EXCEPT ![t] = 1] /\ sharedDepth' = sharedDepth
      /\ Waiting(t) = "none"
  BY InRun, SMTT(30) DEF Acquire, Calls, InCaller, Add, GateInv, GateTypes
<1>2. Idx(s, {"drain"}) = {}
  BY Zenon DEF Acquire, Holds, Idx
<1>3. CASE ~capturing /\ others = 0 /\ StartCapture(t)
  <2>1. Pushed(s, g, a)
    BY InRun, AppendPushes, Zenon DEF Guards, Captures, Outermost
  <2>2. ThreadOK(a, 1, sd, "none")
    BY <1>1, <1>2, <2>1, InRun, StartsCapture
  <2>3. \A u \in Threads : Waiting(u)' = IF u = t THEN "none" ELSE Waiting(u)
    BY <1>3, GoesTo, Zenon DEF StartCapture, Labels, GateInv, GateTypes, WaitType
  <2>4. Moves(t, a, 1, sd, "none")
    BY <1>1, <1>3, <2>2, <2>3, InRun, Zenon DEF Moves, StartCapture, Push
  <2> HIDE DEF a
  <2>5. Counts'
    BY <1>1, <1>2, <2>4, SetsAside
  <2>6. CaptureExcludes'
    BY <1>1, <1>3, <2>4, <2>5, NobodyElse, MovesExclude, Zenon DEF StartCapture
  <2>7. QED
    BY <1>3, <2>4, <2>5, <2>6, Settles DEF StartCapture
<1>4. CASE /\ want' = [want EXCEPT ![t] = [kind |-> "capture", action |-> 0]]
           /\ Goto(t, "wait") /\ UNCHANGED <<capturing, guards>>
  <2>1. ThreadOK(s, 1, sd, "capture")
    BY <1>1, <1>2, InRun, WaitsForCapture
  <2>2. \A u \in Threads : Waiting(u)' = IF u = t THEN "capture" ELSE Waiting(u)
    BY <1>4, GoesTo, Zenon DEF Labels, GateInv, GateTypes, WaitType
  <2>3. Moves(t, s, 1, sd, "capture")
    BY <1>1, <1>4, <2>1, <2>2, InRun, ZenonT(30) DEF Moves
  <2>4. Counts'
    BY <1>1, <1>2, <2>3, SetsAside
  <2>5. ActiveOf(s, 1) = {}
    BY DEF ActiveOf
  <2>6. CaptureExcludes'
    BY <1>4, <2>3, <2>5, MovesExclude, ZenonT(30)
  <2>7. QED
    BY <1>4, <2>3, <2>4, <2>6, Settles DEF GateInv, GateTypes
<1>5. QED
  BY <1>3, <1>4, Zenon DEF Acquire

LEMMA AcquireAgainKeeps ==
  ASSUME GateInv, [Next]_vars, NEW t \in Threads, AcquireAgain(t)
  PROVE  GateInv'
<1> DEFINE s == guards[t]
           g == IF sharedDepth[t] > 0 THEN "yielding" ELSE "capture"
           a == Append(s, g)
           sd == sharedDepth[t]
<1>1. /\ pc[t] = "check" /\ Waiting(t) = "capture" /\ captureDepth[t] = 1
      /\ ThreadOK(s, 1, sd, "capture")
  BY InRun, SharedMeansCounted, SMTT(30) DEF AcquireAgain
<1>2. UNCHANGED <<synchronizers, captureDepth, sharedDepth>>
  BY DEF AcquireAgain
<1>3. CASE ~capturing /\ synchronizers = 0 /\ StartCapture(t)
  <2>1. Pushed(s, g, a)
    BY InRun, AppendPushes, Zenon DEF Guards, Captures, Outermost
  <2>2. ThreadOK(a, 1, sd, "none")
    BY <1>1, <2>1, StartsCapture
  <2>3. \A u \in Threads : Waiting(u)' = IF u = t THEN "none" ELSE Waiting(u)
    BY <1>3, GoesTo, Zenon DEF StartCapture, Labels, GateInv, GateTypes, WaitType
  <2>4. Moves(t, a, 1, sd, "none")
    BY <1>1, <1>2, <1>3, <2>2, <2>3, InRun, Zenon DEF Moves, StartCapture, Push
  <2>5. ActiveOf(a, 1) = {} /\ ActiveOf(s, captureDepth[t]) = {}
    BY <1>1 DEF ActiveOf
  <2> HIDE DEF a
  <2>6. Counts'
    BY <1>2, <2>4, <2>5, CountKept
  <2>7. CaptureExcludes'
    BY <1>2, <1>3, <2>4, <2>6, NobodyElse, MovesExclude, Zenon DEF StartCapture
  <2>8. QED
    BY <1>3, <2>4, <2>6, <2>7, Settles, Zenon DEF StartCapture
<1>4. CASE Goto(t, "wait") /\ UNCHANGED <<capturing, guards, want>>
  <2>1. \A u \in Threads : Waiting(u)' = Waiting(u)
    BY <1>1, <1>4, Zenon DEF Goto, Waiting, GateInv, GateTypes, WaitType
  <2>2. QED
    BY <1>2, <1>4, <2>1, QuietKeeps
<1>5. QED
  BY <1>3, <1>4, Zenon DEF AcquireAgain

\* A section or an action inside an older section, or in a drain.
LEMMA NestedKeeps ==
  ASSUME GateInv, [Next]_vars, NEW t \in Threads, NEW g, pc[t] = "run", captureDepth[t] = 0,
         \/ g = "inner_section" /\ sharedDepth[t] > 0
         \/ g = "inner_action",
         Push(t, g), UNCHANGED <<synchronizers, capturing, captureDepth, pc, want>>,
         sharedDepth' = IF g = "inner_section" THEN Add(sharedDepth, t, 1) ELSE sharedDepth
  PROVE  GateInv'
<1> DEFINE s == guards[t]
           a == Append(s, g)
           sd == IF g = "inner_section" THEN sharedDepth[t] + 1 ELSE sharedDepth[t]
<1>1. Pushed(s, g, a)
  BY InRun, AppendPushes, ZenonT(30) DEF Guards
<1>2. ThreadOK(s, 0, sharedDepth[t], "none")
  BY InRun
<1>3. ThreadOK(a, 0, sd, "none") /\ Idx(a, Counted) = Idx(s, Counted) /\ Idx(a, Captures) = {}
  BY <1>1, <1>2, NestsSection, Zenon
<1>4. sharedDepth' = [sharedDepth EXCEPT ![t] = sd] /\ captureDepth' = [captureDepth EXCEPT ![t] = 0]
  BY InRun, Zenon DEF Add
<1>5. Moves(t, a, 0, sd, "none")
  BY <1>3, <1>4, StaysInRun, ZenonT(30) DEF Moves, Push
<1>6. ActiveOf(a, 0) = ActiveOf(s, captureDepth[t])
  BY <1>3, Zenon DEF ActiveOf
<1> HIDE DEF a, sd
<1>7. Counts'
  BY <1>5, <1>6, CountKept
<1>8. CaptureExcludes'
  BY <1>3, <1>5, <1>6, MovesExclude, Zenon
<1>9. QED
  BY <1>5, <1>7, <1>8, Settles, Zenon DEF GateInv, GateTypes

\* A thread outside the gate enters a section or an action's.
LEMMA EnterKeeps ==
  ASSUME GateInv, [Next]_vars, NEW t \in Threads, NEW g \in {"section", "action"},
         captureDepth[t] = 0, sharedDepth[t] = 0, Waiting(t) # "capture", ~capturing,
         Enter(t, g), UNCHANGED <<capturing, captureDepth>>
  PROVE  GateInv'
<1> DEFINE s == guards[t]
           a == Append(s, g)
<1>1. Pushed(s, g, a)
  BY InRun, AppendPushes, Zenon DEF Guards, Counted
<1>2. ThreadOK(s, 0, 0, Waiting(t))
  BY InRun
<1>3. /\ ThreadOK(a, 0, 1, "none")
      /\ Idx(s, Counted) = {} /\ Idx(a, Counted) = {Len(a)} /\ Idx(a, Captures) = {}
  BY <1>1, <1>2, EntersSection, Zenon
<1>4. \A u \in Threads : Waiting(u)' = IF u = t THEN "none" ELSE Waiting(u)
  BY GoesTo, Zenon DEF Enter, Labels, GateInv, GateTypes, WaitType
<1>5. Moves(t, a, 0, 1, "none")
  BY <1>3, <1>4, InRun, SMTT(30) DEF Moves, Enter, Push, Add
<1>6. ActiveOf(s, captureDepth[t]) = {} /\ ActiveOf(a, 0) = {Len(a)} /\ Len(a) \in Nat
  BY <1>1, <1>3, SMTT(30) DEF ActiveOf, Pushed
<1> HIDE DEF a
<1>7. Counts'
  BY <1>5, <1>6, CountUp DEF Enter
<1>8. CaptureExcludes'
  BY <1>3, <1>5, MovesExclude, Zenon
<1>9. capturing' \in BOOLEAN
  BY Zenon DEF GateInv, GateTypes
<1>10. QED
  BY <1>5, <1>7, <1>8, <1>9, Settles, Zenon

\* A thread outside the gate waits, or gives up its wait.
LEMMA OutsideKeeps ==
  ASSUME GateInv, [Next]_vars, NEW t \in Threads, NEW v \in {"none", "section", "action"},
         captureDepth[t] = 0, sharedDepth[t] = 0, Waiting(t) # "capture",
         \A u \in Threads : Waiting(u)' = IF u = t THEN v ELSE Waiting(u),
         UNCHANGED <<synchronizers, capturing, captureDepth, sharedDepth, guards>>
  PROVE  GateInv'
<1>1. ThreadOK(guards[t], 0, 0, v)
  BY InRun, WaitsOutside
<1>2. Moves(t, guards[t], 0, 0, v)
  BY <1>1, InRun, Zenon DEF Moves
<1>3. ActiveOf(guards[t], 0) = ActiveOf(guards[t], captureDepth[t])
  BY Zenon
<1>4. Counts'
  BY <1>2, <1>3, CountKept
<1>5. CaptureExcludes'
  BY <1>2, <1>3, MovesExclude, ZenonT(30)
<1>6. QED
  BY <1>2, <1>4, <1>5, Settles DEF GateInv, GateTypes

LEMMA SectionKeeps ==
  ASSUME GateInv, [Next]_vars, NEW t \in Threads, Section(t)
  PROVE  GateInv'
<1>1. captureDepth[t] = 0 /\ sharedDepth[t] = 0 /\ Waiting(t) # "capture"
  <2>1. CASE Calls(t) /\ captureDepth[t] = 0 /\ sharedDepth[t] = 0
    BY <2>1, InRun, Zenon DEF Calls, InCaller
  <2>2. CASE pc[t] = "check" /\ want[t].kind = "section"
    BY <2>2, InRun, Zenon DEF ThreadOK
  <2>3. QED
    BY <2>1, <2>2 DEF Section
<1>2. CASE ~SectionBlocked /\ Enter(t, "section")
  BY <1>1, <1>2, EnterKeeps, Zenon DEF Section, SectionBlocked
<1>3. CASE /\ want' = [want EXCEPT ![t] = [kind |-> "section", action |-> 0]]
           /\ Goto(t, "wait") /\ UNCHANGED <<synchronizers, sharedDepth, guards>>
  <2>1. \A u \in Threads : Waiting(u)' = IF u = t THEN "section" ELSE Waiting(u)
    BY <1>3, GoesTo, Zenon DEF Labels, GateInv, GateTypes, WaitType
  <2>2. QED
    BY <1>1, <1>3, <2>1, OutsideKeeps DEF Section
<1>4. QED
  BY <1>2, <1>3, Zenon DEF Section

LEMMA RunOrDeferKeeps ==
  ASSUME GateInv, [Next]_vars, NEW t \in Threads, NEW x, RunOrDefer(t, x),
         captureDepth[t] = 0, sharedDepth[t] = 0, Waiting(t) # "capture"
  PROVE  GateInv'
<1>1. CASE /\ want' = [want EXCEPT ![t] = NoWant]
           /\ Goto(t, "run") /\ UNCHANGED <<synchronizers, sharedDepth, guards>>
  <2>1. \A u \in Threads : Waiting(u)' = IF u = t THEN "none" ELSE Waiting(u)
    BY <1>1, GoesTo, ZenonT(30) DEF Labels, GateInv, GateTypes, WaitType
  <2>2. QED
    BY <1>1, <2>1, OutsideKeeps DEF RunOrDefer
<1>2. CASE /\ want' = [want EXCEPT ![t] = [kind |-> "action", action |-> x]]
           /\ Goto(t, "wait") /\ UNCHANGED <<synchronizers, sharedDepth, guards>>
  <2>1. \A u \in Threads : Waiting(u)' = IF u = t THEN "action" ELSE Waiting(u)
    BY <1>2, GoesTo, ZenonT(30) DEF Labels, GateInv, GateTypes, WaitType
  <2>2. QED
    BY <1>2, <2>1, OutsideKeeps DEF RunOrDefer
<1>3. CASE ~capturing /\ Enter(t, "action")
  BY <1>3, EnterKeeps, Zenon DEF RunOrDefer
<1>4. QED
  BY <1>1, <1>2, <1>3, ZenonT(30) DEF RunOrDefer

LEMMA DropNestedCaptureKeeps ==
  ASSUME GateInv, [Next]_vars, NEW t \in Threads, DropNestedCapture(t)
  PROVE  GateInv'
<1> DEFINE a == guards[t]
           s == Without(a)
           cd == captureDepth[t]
           sd == sharedDepth[t]
<1>1. pc[t] = "run" /\ Pushed(s, "inner_capture", a)
  BY InRun, WithoutPops, Zenon DEF DropNestedCapture, DropsA, Top
<1>2. /\ ThreadOK(s, cd - 1, sd, "none") /\ cd \in Nat /\ cd > 1
      /\ Idx(a, Captures) # {}
  BY <1>1, InRun, DropsNestedCapture
<1>3. captureDepth' = [captureDepth EXCEPT ![t] = cd - 1] /\ sharedDepth' = [sharedDepth EXCEPT ![t] = sd]
  <2>1. SaturatingSub(cd) = cd - 1
    BY <1>2 DEF SaturatingSub
  <2>2. QED
    BY <2>1, InRun, Zenon DEF DropNestedCapture, Less
<1>4. Moves(t, s, cd - 1, sd, "none")
  BY <1>1, <1>2, <1>3, StaysInRun, ZenonT(30) DEF Moves, DropNestedCapture, Pop, Without
<1>5. ActiveOf(s, cd - 1) = {} /\ ActiveOf(a, cd) = {}
  BY <1>2 DEF ActiveOf
<1>6. UNCHANGED <<synchronizers, capturing>>
  BY Zenon DEF DropNestedCapture, gateVars
<1> HIDE DEF s
<1>7. Counts'
  BY <1>4, <1>5, <1>6, CountKept
<1>8. CaptureExcludes'
  BY <1>2, <1>4, <1>5, <1>6, MovesExclude, Zenon
<1>9. QED
  BY <1>4, <1>6, <1>7, <1>8, Settles, Zenon DEF GateInv, GateTypes

LEMMA DropCaptureKeeps ==
  ASSUME GateInv, [Next]_vars, NEW t \in Threads, DropCapture(t)
  PROVE  GateInv'
<1> DEFINE a == guards[t]
           g == a[Len(a)]
           s == Without(a)
           sd == sharedDepth[t]
<1>1. pc[t] = "run" /\ Pushed(s, g, a) /\ g \in Outermost
  BY InRun, WithoutPops, Zenon DEF DropCapture, DropsA, Top
<1>2. /\ ThreadOK(s, 0, sd, "none") /\ captureDepth[t] = 1
      /\ Idx(a, Captures) # {} /\ Idx(s, Captures) = {} /\ Idx(s, {"drain"}) = {}
      /\ g = "yielding" <=> Idx(s, Counted) # {}
  BY <1>1, InRun, DropsOutermost
<1>3. /\ captureDepth' = [captureDepth EXCEPT ![t] = 0]
      /\ \A u \in Threads : Waiting(u)' = IF u = t THEN "none" ELSE Waiting(u)
  <2>1. captureDepth' = [captureDepth EXCEPT ![t] = 0]
    BY <1>2, InRun DEF DropCapture, Less, SaturatingSub
  <2>2. \A u \in Threads : Waiting(u)' = IF u = t THEN "none" ELSE Waiting(u)
    BY GoesTo, ZenonT(30) DEF DropCapture, Labels
  <2>3. QED
    BY <2>1, <2>2, Zenon
<1>4. ActiveOf(a, captureDepth[t]) = {} /\ ActiveOf(s, 0) = Idx(s, Counted) /\ StackOK(s)
  BY <1>2 DEF ActiveOf, ThreadOK
<1>5. /\ capturing' = FALSE /\ synchronizers \in Nat /\ s \in Seq(Guards)
      /\ synchronizers' = synchronizers + (IF deferred # <<>> THEN 1 ELSE 0)
                                        + (IF g = "yielding" THEN 1 ELSE 0)
      /\ guards' = [guards EXCEPT ![t] = s \o (IF deferred # <<>> THEN <<"drain">> ELSE <<>>)]
      /\ sharedDepth' = IF deferred # <<>> THEN Add(sharedDepth, t, 1) ELSE sharedDepth
  BY <1>1, ZenonT(30) DEF DropCapture, Top, Without, Pushed, GateInv, GateTypes, WaitType
<1> HIDE DEF s, g
<1>6. g = "yielding" => \E i \in Nat : Idx(s, Counted) = {i}
  BY <1>2, <1>4, OneSection
<1>7. CASE deferred = <<>>
  <2>1. guards' = [guards EXCEPT ![t] = s]
    BY <1>5, <1>7
  <2>2. Moves(t, s, 0, sd, "none")
    BY <1>2, <1>3, <1>5, <1>7, <2>1, InRun DEF Moves
  <2>3. CASE g = "yielding"
    <3>1. PICK i \in Nat : Idx(s, Counted) = {i}
      BY <1>6, <2>3, Zenon
    <3>2. synchronizers' = synchronizers + 1
      BY <1>5, <1>7, <2>3
    <3>3. Counts'
      BY <1>4, <2>2, <3>1, <3>2, CountUp
    <3>4. QED
      BY <1>2, <1>5, <2>2, <3>3, MovesExclude, Settles, Zenon
  <2>4. CASE g # "yielding"
    <3>1. synchronizers' = synchronizers
      BY <1>5, <1>7, <2>4, SMTT(30)
    <3>2. Counts'
      BY <1>2, <1>4, <2>2, <2>4, <3>1, CountKept
    <3>3. QED
      BY <1>2, <1>5, <2>2, <3>2, MovesExclude, Settles, Zenon
  <2>5. QED
    BY <2>3, <2>4
<1>8. CASE deferred # <<>>
  <2> DEFINE b == Append(s, "drain")
  <2>1. guards' = [guards EXCEPT ![t] = b]
    <3>1. "drain" \in Guards
      BY Zenon DEF Guards, Counted
    <3>2. b = s \o <<"drain">>
      BY <1>5, <3>1
    <3>3. QED
      BY <1>5, <1>8, <3>2, Zenon
  <2>2. Pushed(s, "drain", b)
    BY <1>5, AppendPushes, ZenonT(30) DEF Guards, Counted
  <2> HIDE DEF b
  <2>3. /\ ThreadOK(b, 0, sd + 1, "none") /\ Idx(b, Captures) = {}
        /\ Idx(b, Counted) = Idx(s, Counted) \cup {Len(b)} /\ Len(b) \notin Idx(s, Counted)
    BY <1>2, <2>2, StartsDrain
  <2>4. Moves(t, b, 0, sd + 1, "none")
    BY <1>3, <1>5, <1>8, <2>1, <2>3, Zenon DEF Moves, Add
  <2>5. ActiveOf(b, 0) = Idx(s, Counted) \cup {Len(b)} /\ Len(b) \in Nat
    BY <2>2, <2>3 DEF ActiveOf, Pushed
  <2>6. CaptureExcludes'
    BY <1>2, <2>3, <2>4, MovesExclude, Zenon
  <2>7. CASE g = "yielding"
    <3>1. PICK i \in Nat : Idx(s, Counted) = {i}
      BY <1>6, <2>7
    <3>2. synchronizers' = synchronizers + 2
      BY <1>5, <1>8, <2>7
    <3>3. i # Len(b) /\ ActiveOf(b, 0) = {i, Len(b)}
      BY <2>3, <2>5, <3>1
    <3>4. Counts'
      BY <1>4, <2>4, <2>5, <3>2, <3>3, CountUpTwice, Zenon
    <3>5. QED
      BY <1>5, <2>4, <2>6, <3>4, Settles, Zenon
  <2>8. CASE g # "yielding"
    <3>1. synchronizers' = synchronizers + 1
      BY <1>5, <1>8, <2>8
    <3>2. ActiveOf(b, 0) = {} \cup {Len(b)}
      BY <1>2, <2>5, <2>8, Zenon
    <3>3. Counts'
      BY <1>4, <2>4, <2>5, <3>1, <3>2, CountUp, Zenon
    <3>4. QED
      BY <1>5, <2>4, <2>6, <3>3, Settles, Zenon
  <2>9. QED
    BY <2>7, <2>8
<1>9. QED
  BY <1>7, <1>8, Zenon

LEMMA LeaveKeeps ==
  ASSUME GateInv, [Next]_vars, NEW t \in Threads, Leave(t)
  PROVE  GateInv'
<1> DEFINE a == guards[t]
           g == a[Len(a)]
           s == Without(a)
           sd == sharedDepth[t]
<1>1. /\ pc[t] = "run" /\ Pushed(s, g, a) /\ g \in Counted
      /\ g \notin Captures /\ g \in Shared
  BY InRun, WithoutPops, Zenon DEF Leave, DropsA, Top, Counted, Captures, Outermost, Shared
<1>2. /\ ThreadOK(s, 0, sd - 1, "none") /\ captureDepth[t] = 0
      /\ Idx(a, Captures) = {} /\ Idx(s, Captures) = {}
      /\ Idx(a, Counted) = Idx(s, Counted) \cup {Len(a)}
      /\ Len(a) \notin Idx(s, Counted)
      /\ sd \in Nat /\ sd > 0
  BY <1>1, InRun, DropsShared
<1>3. /\ sharedDepth' = [sharedDepth EXCEPT ![t] = sd - 1]
      /\ captureDepth' = [captureDepth EXCEPT ![t] = 0]
      /\ guards' = [guards EXCEPT ![t] = s]
  <2>1. SaturatingSub(sd) = sd - 1
    BY <1>2 DEF SaturatingSub
  <2>2. QED
    BY <1>2, <2>1, InRun, Zenon DEF Leave, Less, Pop, Without
<1>4. \A u \in Threads : Waiting(u)' = IF u = t THEN "none" ELSE Waiting(u)
  <2>1. CASE synchronizers' = 0
    BY <2>1, GoesTo, Zenon DEF Leave, Labels
  <2>2. CASE synchronizers' # 0
    BY <2>2, GoesTo, ZenonT(30) DEF Leave, Labels
  <2>3. QED
    BY <2>1, <2>2, Zenon
<1>5. /\ ActiveOf(a, captureDepth[t]) = Idx(a, Counted) /\ ActiveOf(s, 0) = Idx(s, Counted)
      /\ Len(a) \in Nat /\ s \in Seq(Guards)
  BY <1>1, <1>2 DEF ActiveOf, Pushed
<1> HIDE DEF s, g
<1>6. Moves(t, s, 0, sd - 1, "none")
  BY <1>2, <1>3, <1>4, ZenonT(30) DEF Moves
<1>7. /\ Len(a) \in ActiveOf(a, captureDepth[t])
      /\ ActiveOf(s, 0) = ActiveOf(a, captureDepth[t]) \ {Len(a)}
  BY <1>2, <1>5
<1>8. Counts'
  BY <1>5, <1>6, <1>7, CountDown, Zenon DEF Leave
<1>9. CaptureExcludes'
  BY <1>2, <1>6, <1>7, MovesExclude, Zenon DEF Leave
<1>10. QED
  BY <1>6, <1>8, <1>9, Settles, Zenon DEF Leave, GateInv, GateTypes

LEMMA LeaveNestedKeeps ==
  ASSUME GateInv, [Next]_vars, NEW t \in Threads, LeaveNested(t)
  PROVE  GateInv'
<1> DEFINE a == guards[t]
           g == a[Len(a)]
           s == Without(a)
           n == sharedDepth[t]
           sd == IF g \in Shared THEN n - 1 ELSE n
<1>1. /\ pc[t] = "run" /\ Pushed(s, g, a) /\ g \notin Captures /\ g \notin Counted
      /\ g \in Shared <=> g = "inner_section"
      /\ ThreadOK(a, captureDepth[t], n, "none")
  BY InRun, WithoutPops, Zenon DEF LeaveNested, DropsA, Top, Counted, Captures, Outermost, Shared
<1>2. /\ guards' = [guards EXCEPT ![t] = s]
      /\ sharedDepth' = IF g = "inner_section" THEN [sharedDepth EXCEPT ![t] = SaturatingSub(n)]
                                               ELSE [sharedDepth EXCEPT ![t] = n]
      /\ captureDepth' = [captureDepth EXCEPT ![t] = captureDepth[t]]
      /\ UNCHANGED <<synchronizers, capturing, pc, want>>
  BY InRun, ZenonT(30) DEF LeaveNested, Less, Pop, Without, Top, gateVars
<1> HIDE DEF s, g, a, n
<1>3. /\ captureDepth[t] = 0 /\ Idx(s, Captures) = {} /\ Idx(a, Counted) = Idx(s, Counted)
      /\ g \in Shared => ThreadOK(s, 0, n - 1, "none")
      /\ g \notin Shared => ThreadOK(s, 0, n, "none")
      /\ n \in Nat
      /\ g \in Shared => n > 0
  BY <1>1, DropsShared
<1>4. sharedDepth' = [sharedDepth EXCEPT ![t] = sd]
  <2>1. g \in Shared => SaturatingSub(n) = n - 1
    BY <1>3 DEF SaturatingSub
  <2>2. QED
    BY <1>1, <1>2, <2>1, Zenon
<1>5. ActiveOf(s, 0) = ActiveOf(a, captureDepth[t])
  BY <1>1, <1>3, Zenon DEF ActiveOf
<1>a. ThreadOK(s, 0, sd, "none")
  BY <1>3
<1> HIDE DEF sd
<1>6. Moves(t, s, 0, sd, "none")
  BY <1>a, <1>1, <1>2, <1>3, <1>4, StaysInRun, Zenon DEF Moves
<1> USE DEF a
<1>7. Counts'
  BY <1>2, <1>5, <1>6, CountKept
<1>8. CaptureExcludes'
  BY <1>2, <1>3, <1>5, <1>6, MovesExclude, Zenon
<1>9. QED
  BY <1>2, <1>6, <1>7, <1>8, Settles, Zenon DEF GateInv, GateTypes

\* Every step.
LEMMA StepExcludes == GateInv /\ [Next]_vars => GateInv'
<1> SUFFICES ASSUME GateInv, [Next]_vars PROVE GateInv'
  OBVIOUS
<1>1. ASSUME NEW t \in Threads, Call(t) PROVE GateInv'
  <2>1. CASE AcquireNested(t)
    BY <2>1, AcquireNestedKeeps
  <2>2. CASE Acquire(t)
    BY <2>2, AcquireKeeps, Zenon
  <2>3. CASE SectionNested(t)
    BY <2>3, NestedKeeps, Zenon DEF SectionNested, Calls, InCaller, gateVars
  <2>4. CASE Section(t)
    BY <2>4, SectionKeeps
  <2>5. CASE DeferOwn(t)
    BY <2>5, QuietKeeps, Zenon DEF DeferOwn, Waiting
  <2>6. CASE RunNested(t)
    BY <2>6, NestedKeeps, Zenon DEF RunNested, Calls, InCaller, gateVars
  <2>7. CASE Submit(t)
    BY <2>7, InRun, RunOrDeferKeeps DEF Submit, Calls, InCaller
  <2>8. QED
    BY <1>1, <2>1, <2>2, <2>3, <2>4, <2>5, <2>6, <2>7 DEF Call
<1>2. ASSUME NEW t \in Threads, Drop(t) PROVE GateInv'
  BY <1>2, DropNestedCaptureKeeps, DropCaptureKeeps, LeaveKeeps, LeaveNestedKeeps DEF Drop
<1>3. ASSUME NEW t \in Threads, Run(t) PROVE GateInv'
  <2>1. CASE AcquireAgain(t)
    BY <2>1, AcquireAgainKeeps
  <2>2. CASE Section(t)
    BY <2>2, SectionKeeps
  <2>3. CASE SubmitAgain(t)
    <3>1. captureDepth[t] = 0 /\ sharedDepth[t] = 0 /\ Waiting(t) # "capture"
      BY <2>3, InRun, Zenon DEF SubmitAgain, ThreadOK
    <3>2. QED
      BY <2>3, <3>1, RunOrDeferKeeps, Zenon DEF SubmitAgain
  <2>4. CASE NotifyAll(t)
    <3>1. \A u \in Threads : Waiting(u)' = Waiting(u)
      BY <2>4, Zenon DEF NotifyAll, Waiting
    <3>2. QED
      BY <2>4, <3>1, QuietKeeps, Zenon DEF NotifyAll, gateVars
  <2>5. CASE RunDeferred(t)
    <3>1. pc[t] = "run" /\ guards[t] # <<>> /\ guards[t][Len(guards[t])] = "drain"
      BY <2>5 DEF RunDeferred, Top
    <3>2. captureDepth[t] = 0
      <4>1. Len(guards[t]) \in Idx(guards[t], {"drain"})
        BY <3>1, InRun, SMTT(30) DEF Idx
      <4>2. ~(captureDepth[t] > 0) /\ captureDepth[t] \in Nat
        BY <4>1, InRun, Zenon DEF ThreadOK, GateInv, GateTypes
      <4>3. QED
        BY <4>2
    <3>3. QED
      BY <2>5, <3>1, <3>2, NestedKeeps, Zenon DEF RunDeferred, gateVars
  <2>6. QED
    BY <1>3, <2>1, <2>2, <2>3, <2>4, <2>5, Zenon DEF Run
<1>4. ASSUME NEW t \in Threads, SpuriousWakeup(t) PROVE GateInv'
  <2>1. \A u \in Threads : Waiting(u)' = Waiting(u)
    BY <1>4, SMTT(30) DEF SpuriousWakeup, Goto, Waiting, GateInv, GateTypes, WaitType
  <2>2. QED
    BY <1>4, <2>1, QuietKeeps, Zenon DEF SpuriousWakeup, gateVars
<1>5. CASE UNCHANGED vars
  BY <1>5, QuietKeeps DEF vars, gateVars, Waiting
<1>6. QED
  BY <1>1, <1>2, <1>3, <1>4, <1>5, Zenon DEF Next

\* Nobody holds anything at first.
LEMMA InitExcludes == Init => GateInv
<1> SUFFICES ASSUME Init PROVE GateInv
  OBVIOUS
<1>1. ASSUME NEW K PROVE Idx(<<>>, K) = {}
  BY DEF Idx
<1>2. GateTypes
  <2>1. WaitType
    BY InitWait DEF WaitInv
  <2>2. <<>> \in Seq(Guards)
    OBVIOUS
  <2>3. QED
    BY <2>1, <2>2, Zenon DEF Init, GateTypes
<1>3. ThreadOK(<<>>, 0, 0, "none")
  <2>1. StackOK(<<>>)
    BY DEF StackOK
  <2>2. QED
    BY <1>1, <2>1, NumbersNone, Zenon DEF ThreadOK
<1>4. ThreadsOK
  BY <1>3, Zenon DEF Init, ThreadsOK, Waiting
<1>5. Active = {}
  BY <1>1, Zenon DEF Active, Init
<1>6. CaptureExcludes
  BY DEF CaptureExcludes, Holds, Init
<1>7. QED
  BY <1>2, <1>4, <1>5, <1>6, NumbersNone DEF GateInv, Init

\* "Captures exclude synchronizers; synchronizers exclude captures", for any
\* number of threads and however their captures, sections and deferred actions
\* nest: while a CaptureExclusion is held no other thread holds one and no
\* other thread is inside a section, an action or a drain.
THEOREM CapturesExclude == Spec => []CaptureExcludes
<1>1. Init => GateInv
  BY InitExcludes
<1>2. GateInv /\ [Next]_vars => GateInv'
  BY StepExcludes
<1>3. GateInv => CaptureExcludes
  BY DEF GateInv
<1>4. QED
  BY <1>1, <1>2, <1>3, PTL DEF Spec
=============================================================================
