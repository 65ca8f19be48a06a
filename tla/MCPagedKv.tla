----------------------------- MODULE MCPagedKv -----------------------------
EXTENDS PagedKv, TLC

CONSTANTS a, b, p1, p2, p3

TwoTokens == {a, b}
MCTokens == TwoTokens \cup (0..5)
MCInputs(c, s, pos) ==
    IF c.maxPrefixes > 0 THEN IF s = 0 THEN {a} ELSE {b}
    ELSE IF c.window = 0 THEN TwoTokens
    ELSE {(pos + 3 * s) % 6}

Config(pageSize, tensors, window, sinks, maxLen, maxPrefixes) ==
    [pageSize |-> pageSize, tensors |-> tensors, window |-> window,
     sinks |-> sinks, maxLen |-> maxLen, maxPrefixes |-> maxPrefixes]

Forking == Config(2, TRUE, 0, 0, 3, 0)
Caching == Config(2, TRUE, 0, 0, 2, 1)
Window == Config(2, TRUE, 1, 0, 3, 0)
Sinks == Config(1, TRUE, 1, 1, 4, 0)
Counts == Config(2, FALSE, 1, 1, 5, 0)

AllConfigs == {Forking, Caching, Window, Sinks, Counts}

ThreePages == {p1, p2, p3}

Symmetry == Permutations(PageIds)
=============================================================================
