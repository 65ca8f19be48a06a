---------------------------- MODULE MCInProcess ----------------------------
(* Instances of the communicator: who calls what, by rank and position.    *)
(* What two ranks may disagree about is spread over them, since only the   *)
(* difference matters.                                                     *)
EXTENDS InProcess

CONSTANTS r1, r2, r3, world, sub, s1, s2

TwoRanks == {r1, r2}
ThreeRanks == {r1, r2, r3}
OneGroup == {world}
TwoGroups == {world, sub}
MCMembers == [g \in Groups |-> IF g = world THEN Ranks ELSE {r1, r2}]
MCSignatures == {s1, s2}

Call(r, kind, group, instance, sig, writes) ==
    [kind |-> kind, group |-> group, instance |-> instance, sig |-> sig,
     reads |-> {1}, writes |-> writes,
     peer |-> CHOOSE q \in Ranks : q # r]

Own(r) == IF r = r1 THEN {2} ELSE {3}

\* The two phases of all_to_all_v, and barriers instead of or after it.
PlanPhases ==
    [r \in Ranks |->
        <<{Call(r, "exchange_counts", world, <<1, 0>>, s, {}) :
              s \in IF r = r1 THEN {s1} ELSE MCSignatures},
          {Call(r, "barrier", world, <<1, 1>>, s1, {})} \cup
          {Call(r, "all_to_all_v", world, <<1, 0>>, s1, w) : w \in {Own(r), {2}}},
          {Call(r, "barrier", world, <<1, q>>, s1, {}) :
              q \in IF r = r1 THEN {2} ELSE {1, 2}}>>]

\* r1 sends and r2 receives, with extents that may differ
\* and into a buffer that the send may still be reading.
Mail(r) ==
    IF r = r1 THEN {Call(r, "send", world, <<1, 1>>, s, {}) : s \in MCSignatures}
              ELSE {Call(r, "recv", world, <<1, 1>>, s1, w) : w \in {{1}, {3}}}

\* r1 decides about the first execution; r2 observes the decision, or decides
\* about the second one, perhaps before there is a first.
Decisions1(r) ==
    IF r = r1 THEN {Call(r, k, world, <<1, 0>>, s1, {}) : k \in {"admit", "skip"}}
              ELSE {Call(r, "observe_skipped", world, <<1, 0>>, s1, {}),
                    Call(r, "admit", world, <<2, 0>>, s1, {})}

\* Collectives that may disagree in signature and in the buffer they write.
Reduces(r) ==
    {Call(r, "reduce", world, <<1, 0>>, s1, Own(r))}
      \cup IF r = r1 THEN {}
           ELSE {Call(r, "reduce", world, <<1, 0>>, s2, Own(r)),
                 Call(r, "reduce", world, <<1, 0>>, s1, {2})}

\* A message, a decision or a collective, then a collective of the next
\* execution or, on r2, another recv: they may overtake each other.
PlanCalls ==
    [r \in Ranks |->
        <<Mail(r) \cup Decisions1(r) \cup Reduces(r),
          {Call(r, "alltoall", world, <<2, 0>>, s1, Own(r))}
            \cup (IF r = r2 THEN {Call(r, "recv", world, <<1, 1>>, s1, {3})} ELSE {})>>]

\* Either of the two.
PlanAborted == [r \in Ranks |-> PlanCalls[r] \o <<{}>> \o PlanPhases[r]]

\* Matching programs over two groups; r3 is a member of the world only.
PlanPrograms ==
    [r \in Ranks |->
        IF r = r3
        THEN <<{Call(r, "reduce", world, <<1, 0>>, s1, {})},
               {Call(r, "alltoall", world, <<1, 1>>, s2, {})},
               {Call(r, "barrier", world, <<1, 2>>, s1, {})}>>
        ELSE <<{Call(r, "reduce", world, <<1, 0>>, s1, {})},
               {Call(r, "exchange_counts", sub, <<1, 0>>, s2, {})},
               {Call(r, "alltoall", world, <<1, 1>>, s2, {})},
               {Call(r, "barrier", world, <<1, 2>>, s1, {})}>>]
=============================================================================
