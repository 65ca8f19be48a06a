---------------------------- MODULE KvSequences ----------------------------
(***************************************************************************)
(* What a KV cache promises its users, with no page in sight: the trait    *)
(* KvCacheOps and the write, window and prefix operations around           *)
(* PagedKvCache (crates/onnx-genai-kv).  A sequence has a length and, at   *)
(* every position it retains, the entry that was written there.  A step    *)
(* changes one sequence and no other.  A published prefix is a string of   *)
(* entries that a fresh sequence may start from.                           *)
(***************************************************************************)
EXTENDS Naturals, Sequences

CONSTANT Ids    \* names of sequences

VARIABLES
    content,    \* live sequence -> [len, kept], kept a function of positions
    published,  \* the prefixes other sequences may start from
    config,     \* window: positions the sliding window keeps, 0 for no window;
                \* sinks: leading positions that are never dropped
    entries     \* what a position may hold

vars == <<content, published, config, entries>>

Live == DOMAIN content

Init == content = <<>> /\ published = {}

Empty == [len |-> 0, kept |-> <<>>]

Truncated(c, p) ==
    [len |-> p, kept |-> [i \in {q \in DOMAIN c.kept : q < p} |-> c.kept[i]]]

\* The positions a sequence can be cut at.
Cuts(c) == DOMAIN c.kept \cup {c.len}

-----------------------------------------------------------------------------
(* What may happen to a sequence: c becomes d.                             *)

Grown(c, d) ==
    /\ d.len \in c.len + 1..c.len + 2
    /\ DOMAIN d.kept = DOMAIN c.kept \cup (c.len..d.len - 1)
    /\ \A i \in DOMAIN c.kept : d.kept[i] = c.kept[i]
    /\ \A i \in c.len..d.len - 1 : d.kept[i] \in entries

Rewound(c, d) == \E p \in Cuts(c) : d = Truncated(c, p)

\* Positions between the sinks and the window may go; sinks and window stay.
Slid(c, d) ==
    /\ config.window > 0
    /\ d.len = c.len
    /\ DOMAIN d.kept \subseteq DOMAIN c.kept
    /\ \A i \in DOMAIN c.kept :
          i < config.sinks \/ i + config.window >= c.len => i \in DOMAIN d.kept
    /\ \A i \in DOMAIN d.kept : d.kept[i] = c.kept[i]

\* A fresh sequence starts from a published prefix of its prompt.
Attached(c, d) ==
    /\ c = Empty
    /\ \E path \in published : \E n \in 1..Len(path) :
          d = [len |-> n, kept |-> [i \in 0..n - 1 |-> path[i + 1]]]

Forked(d) == \E s \in Live : Rewound(content[s], d)

-----------------------------------------------------------------------------
\* Only s may come, change or go.
OthersStay(s) ==
    /\ DOMAIN content' \ {s} = Live \ {s}
    /\ \A u \in Live \ {s} : content'[u] = content[u]

Change(s) ==
    LET c == content[s]
        d == content'[s]
    IN  /\ OthersStay(s)
        /\ UNCHANGED <<published, config, entries>>
        /\ IF s \in Live
           THEN s \notin DOMAIN content'
                  \/ Grown(c, d) \/ Rewound(c, d) \/ Slid(c, d) \/ Attached(c, d)
           ELSE s \in DOMAIN content' /\ (d = Empty \/ Forked(d))

\* Only what a sequence holds from position 0 on is published.
Publish(s, n) ==
    /\ 0..n - 1 \subseteq DOMAIN content[s].kept
    /\ published' = published \cup {[i \in 1..n |-> content[s].kept[i - 1]]}
    /\ UNCHANGED <<content, config, entries>>

Withdraw(path) ==
    /\ published' = published \ {path}
    /\ UNCHANGED <<content, config, entries>>

Next ==
    \/ \E s \in Ids : Change(s)
    \/ \E s \in Live : \E n \in 1..content[s].len : Publish(s, n)
    \/ \E path \in published : Withdraw(path)

Spec == Init /\ [][Next]_vars
=============================================================================
