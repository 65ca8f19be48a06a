------------------------------ MODULE PagedKv ------------------------------
(***************************************************************************)
(* The paged KV cache of crates/onnx-genai-kv: PageTable (page_table.rs),  *)
(* PagedKvCache (paged_cache.rs) and the page side of PrefixCache          *)
(* (prefix_cache.rs) as the engine drives it (kv_bridge.rs, runtime.rs).   *)
(*                                                                         *)
(* One engine owns the cache and every call has it to itself, so a call is *)
(* one step.  What can go wrong is a long history of calls: pages shared   *)
(* by forks and cached prefixes, copied on write, moved between the hot    *)
(* and the cold tier, reused after a rewind, with copies and migrations    *)
(* that fail in the middle.  PagedKvCache::evict and the rewriting of      *)
(* written positions have no caller in the engine and are left out.        *)
(*                                                                         *)
(* `table' is the PageTable.  A call is an operator from a table to the    *)
(* set of its outcomes, [ok, t]: the result and the table it leaves, which *)
(* a failing call may have changed too.  Each page slot holds one entry,   *)
(* the K/V of one token.  `lru' lists the referenced hot pages, least      *)
(* recently accessed first, in place of the clock: the accesses of a cold  *)
(* page are forgotten when it is promoted.                                 *)
(***************************************************************************)
EXTENDS Integers, Sequences, SequencesExt, FiniteSets

CONSTANTS
    Tokens,       \* the entries that are written
    Inputs(_, _, _),  \* bound: the ones written in a configuration by a
                      \* sequence at a position
    Blank,        \* what a fresh slot holds
    HotCapacity,  \* hot_capacity, the pages of a new pool
    Configs,      \* engine configurations
    PageIds,      \* names of pages; their number bounds the pages ever made
    MaxSeqs       \* bound: sequences ever made

ASSUME PagedKvAssumption ==
    /\ HotCapacity \in Nat \ {0}
    /\ MaxSeqs \in Nat
    /\ Blank \notin Tokens
    /\ \A c \in Configs : /\ c.pageSize \in Nat \ {0}
                          /\ c.tensors \in BOOLEAN
                          /\ c.window \in Nat /\ c.sinks \in Nat
                          /\ c.maxLen \in Nat /\ c.maxPrefixes \in Nat

VARIABLES
    table,    \* PageTable
    nextSeq,  \* PagedKvCache.next_seq_id
    prefix,   \* PrefixCache: token path -> page ids, for the nodes with pages
    config    \* what the engine was built with.  pageSize: token slots of a
              \* page; tensors: pages have storage and a lease; window: the
              \* sliding window, 0 for none; sinks: sink tokens.  maxLen and
              \* maxPrefixes bound a sequence and the cached prefixes

vars == <<table, nextSeq, prefix, config>>

PageSize == config.pageSize
BlankData == [i \in 0..PageSize - 1 |-> Blank]
FreshPage == [ref |-> 0, hot |-> TRUE, data |-> BlankData]

Init ==
    /\ config \in Configs
    /\ \E pool \in [1..HotCapacity -> PageIds] :
          /\ IsInjective(pool)
          /\ table = [pages  |-> [p \in ToSet(pool) |-> FreshPage],
                      free   |-> [hot |-> pool, cold |-> <<>>],
                      lru    |-> <<>>,
                      seqs   |-> <<>>,
                      leased |-> HotCapacity,
                      inUse  |-> 0,
                      shared |-> 0]
    /\ nextSeq = 0
    /\ prefix = <<>>

Monus(a, b) == IF a > b THEN a - b ELSE 0
CeilDiv(a, b) == (a + b - 1) \div b
Less(a, b) == IF a < b THEN a ELSE b

Ok(t) == [ok |-> TRUE, t |-> t]
Err(t) == [ok |-> FALSE, t |-> t]

\* The outcomes of doing F after a call that succeeded.
Then(outcomes, F(_)) ==
    UNION {IF o.ok THEN F(o.t) ELSE {o} : o \in outcomes}

-----------------------------------------------------------------------------
(* PageTable: references, free lists and tiers.                            *)

HotUsed(t) == {p \in DOMAIN t.pages : t.pages[p].ref > 0 /\ t.pages[p].hot}

Touch(t, p) ==
    IF t.pages[p].hot THEN [t EXCEPT !.lru = Append(Remove(@, p), p)] ELSE t

Crossed(old, new, level) ==
    (IF new > level THEN 1 ELSE 0) - (IF old > level THEN 1 ELSE 0)

\* A page's count changes and the telemetry gauges follow.
SetRef(t, p, n) ==
    LET old == t.pages[p].ref
    IN  [t EXCEPT !.pages[p].ref = n,
                  !.inUse = Monus(@ + Crossed(old, n, 0), 0),
                  !.shared = Monus(@ + Crossed(old, n, 1), 0)]

Retain(t, p) == Touch(SetRef(t, p, t.pages[p].ref + 1), p)

\* The last reference resets the page and returns it to its tier's list.
Free(t, p) ==
    LET n == Monus(t.pages[p].ref, 1)
        u == SetRef(t, p, n)
        tier == IF t.pages[p].hot THEN "hot" ELSE "cold"
    IN  IF n > 0 THEN u
        ELSE [u EXCEPT !.pages[p].data = BlankData,
                       !.lru = Remove(@, p),
                       !.free[tier] = Append(@, p)]

\* A governed pool needs a transient lease for the copy, and either the lease
\* or the copy may be refused; a pool without storage has nothing to refuse.
MigratePage(t, p, hot) ==
    IF t.pages[p].hot = hot THEN {Ok(t)}
    ELSE {Ok([t EXCEPT !.pages[p].hot = hot,
                       !.lru = IF hot THEN Append(@, p) ELSE Remove(@, p)])}
           \cup (IF config.tensors THEN {Err(t)} ELSE {})

EvictLruHot(t, excluded) ==
    LET candidates == SelectSeq(t.lru, LAMBDA p : p \notin excluded)
    IN  IF candidates = <<>> THEN {Err(t)}
        ELSE MigratePage(t, Head(candidates), FALSE)

PromoteToHot(t, p) ==
    LET room == IF Cardinality(HotUsed(t)) >= HotCapacity
                THEN EvictLruHot(t, {p}) ELSE {Ok(t)}
        move(u) == MigratePage(u, p, TRUE)
        touch(u) == {Ok(Touch(u, p))}
    IN  IF t.pages[p].hot THEN {Ok(Touch(t, p))}
        ELSE Then(Then(room, move), touch)

\* A hot page: from the free list, or a new one when the tier has room.  In
\* the table of a success it is the page accessed last.
Allocate(t) ==
    LET room == IF t.free.hot = <<>> /\ Cardinality(HotUsed(t)) >= HotCapacity
                THEN EvictLruHot(t, {}) ELSE {Ok(t)}
        reuse(u) == LET p == Last(u.free.hot)
                    IN  Touch(SetRef([u EXCEPT !.free.hot = Front(@),
                                               !.pages[p].data = BlankData],
                                     p, 1), p)
        fresh(u, p) ==
            Touch(SetRef([u EXCEPT !.pages = [q \in DOMAIN @ \cup {p} |->
                                                IF q = p THEN FreshPage ELSE @[q]]],
                         p, 1), p)
        take(u) == IF u.free.hot # <<>> THEN {Ok(reuse(u))}
                   ELSE IF Cardinality(HotUsed(u)) < HotCapacity
                   THEN {Ok(fresh(u, p)) : p \in PageIds \ DOMAIN u.pages}
                   ELSE {Err(u)}
    IN  Then(room, take)

Allocated(t) == Last(t.lru)

-----------------------------------------------------------------------------
(* PagedKvCache: the page behind a position.                               *)

\* Sinks map to themselves, the window follows them.
BufferIndex(q, pos) == IF pos < q.sink THEN pos ELSE q.sink + (pos - q.start)

PageIndex(q, pos) == (BufferIndex(q, pos) \div PageSize) + 1
PageAt(t, s, pos) == t.seqs[s].pages[PageIndex(t.seqs[s], pos)]
SlotOf(q, pos) == BufferIndex(q, pos) % PageSize

Retained(q) == {pos \in 0..q.len - 1 : pos < q.sink \/ pos >= q.start}

\* Mutant: the free lists are not restored.
MutantRollbackAllocation(u, t, n) ==
    LET evicts == t.free.hot = <<>> /\ Cardinality(HotUsed(t)) >= HotCapacity
        victim == Head(t.lru)
        kept == IF t.free.hot # <<>> THEN DOMAIN u.pages ELSE DOMAIN u.pages \ {n}
        page(p) == IF p = n THEN t.pages[p]
                   ELSE IF evicts /\ p = victim
                   THEN [u.pages[p] EXCEPT !.hot = t.pages[p].hot,
                                           !.data = t.pages[p].data]
                   ELSE u.pages[p]
    IN  [SetRef(u, n, 0) EXCEPT !.pages = [p \in kept |-> page(p)],
                                !.lru = (IF evicts THEN <<victim>> ELSE <<>>)
                                           \o Remove(@, n)]

\* rollback_allocation: u is the table after allocating page n, t the one the
\* checkpoint was taken from; a reused page, the free lists and the page that
\* was evicted to make room come back.
RollbackAllocation(u, t, n) ==
    LET evicts == t.free.hot = <<>> /\ Cardinality(HotUsed(t)) >= HotCapacity
        victim == Head(t.lru)
        kept == IF t.free.hot # <<>> THEN DOMAIN u.pages ELSE DOMAIN u.pages \ {n}
        page(p) == IF p = n THEN t.pages[p]
                   ELSE IF evicts /\ p = victim
                   THEN [u.pages[p] EXCEPT !.hot = t.pages[p].hot,
                                           !.data = t.pages[p].data]
                   ELSE u.pages[p]
    IN  [SetRef(u, n, 0) EXCEPT !.pages = [p \in kept |-> page(p)],
                                !.free = t.free,
                                !.lru = (IF evicts THEN <<victim>> ELSE <<>>)
                                           \o Remove(@, n)]

\* ensure_page_for_write on a shared page: a copy takes its place.  Leases
\* for the snapshots and for a page the pool grows by come first.
CopyOnWrite(t, s, i) ==
    LET p == t.seqs[s].pages[i]
        growth == IF config.tensors /\ t.free.hot = <<>> THEN 1 ELSE 0
        commit(u) == LET n == Allocated(u)
                     IN  Free([u EXCEPT !.pages[n].data = u.pages[p].data,
                                        !.leased = @ + growth,
                                        !.seqs[s].pages[i] = n], p)
        copy(u) == {Ok(commit(u))}
                     \cup (IF config.tensors
                           THEN {Err(RollbackAllocation(u, t, Allocated(u)))}
                           ELSE {})
    IN  Then(Allocate(t), copy) \cup (IF config.tensors THEN {Err(t)} ELSE {})

\* Mutant: a shared page is written in place.
MutantEnsurePageForWrite(t, s, i) ==
    LET pages == t.seqs[s].pages
        push(u) == {Ok([u EXCEPT !.seqs[s].pages = Append(@, Allocated(u))])}
    IN  IF i \in DOMAIN pages THEN PromoteToHot(t, pages[i])
        ELSE IF i # Len(pages) + 1 THEN {Err(t)}
        ELSE Then(Allocate(t), push)

EnsurePageForWrite(t, s, i) ==
    LET pages == t.seqs[s].pages
        push(u) == {Ok([u EXCEPT !.seqs[s].pages = Append(@, Allocated(u))])}
    IN  IF i \in DOMAIN pages
        THEN IF t.pages[pages[i]].ref > 1 THEN CopyOnWrite(t, s, i)
             ELSE PromoteToHot(t, pages[i])
        ELSE IF i # Len(pages) + 1 THEN {Err(t)}
        ELSE Then(Allocate(t), push)

\* The page for a position, ready to be written.
WritablePage(t, s, pos) ==
    LET promote(u) == PromoteToHot(u, PageAt(u, s, pos))
    IN  Then(EnsurePageForWrite(t, s, PageIndex(t.seqs[s], pos)), promote)

\* In list order; a page that fails ends the loop with the others done.
ForEachPage(t, pages, F(_, _)) ==
    FoldLeft(LAMBDA os, p : Then(os, LAMBDA u : F(u, p)), {Ok(t)}, pages)

Prefetch(t, s, from, to) ==
    LET q == t.seqs[s]
    IN  IF from = to THEN {Ok(t)}
        ELSE ForEachPage(t, SubSeq(q.pages, PageIndex(q, from),
                                            PageIndex(q, to - 1)),
                         PromoteToHot)

-----------------------------------------------------------------------------
(* The calls.                                                              *)

Ids == 0..MaxSeqs - 1
Live == DOMAIN table.seqs

\* A call ends in one of its outcomes; the rest of the cache stays.
Becomes(t) ==
    /\ table' = t
    /\ UNCHANGED <<nextSeq, prefix, config>>

Create ==
    /\ nextSeq < MaxSeqs
    /\ table' = [table EXCEPT !.seqs = [s \in Live \cup {nextSeq} |->
                    IF s = nextSeq THEN [pages |-> <<>>, len |-> 0, start |-> 0,
                                         sink |-> 0]
                    ELSE table.seqs[s]]]
    /\ nextSeq' = nextSeq + 1
    /\ UNCHANGED <<prefix, config>>

\* write_token_kv at the end of the sequence, where the engine calls it.
WriteTokenKv(s, e) ==
    LET q == table.seqs[s]
        store(u) == LET p == PageAt(u, s, q.len)
                    IN  {Ok(Touch([u EXCEPT !.pages[p].data[SlotOf(q, q.len)] = e,
                                            !.seqs[s].len = @ + 1], p))}
    IN  /\ s \in Live
        /\ config.tensors
        /\ q.len < config.maxLen
        /\ e \in Inputs(config, s, q.len)
        /\ \E o \in Then(WritablePage(table, s, q.len), store) : Becomes(o.t)

\* append: n more positions of a cache without tensors.
AppendTokens(s, n) ==
    LET q == table.seqs[s]
        positions == [i \in 1..n |-> q.len + i - 1]
        advance(u, pos) == WritablePage(u, s, pos)
        finish(u) == {Ok([u EXCEPT !.seqs[s].len = q.len + n])}
    IN  /\ s \in Live
        /\ ~config.tensors
        /\ q.len + n <= config.maxLen
        /\ \E o \in Then(ForEachPage(table, positions, advance), finish) :
              Becomes(o.t)

\* rewind_to: pages behind the position are released; a position among the
\* sinks drops the window, and the sequence is a plain prefix again.
RewindTo(s, pos) ==
    LET q == table.seqs[s]
        keep == CeilDiv(BufferIndex(q, pos), PageSize)
        tail == SubSeq(q.pages, keep + 1, Len(q.pages))
        t == FoldLeft(Free, table, tail)
    IN  /\ s \in Live
        /\ pos <= q.len
        /\ pos < q.start => pos < q.sink
        /\ Becomes([t EXCEPT !.seqs[s] =
              [pages |-> SubSeq(q.pages, 1, keep),
               len   |-> pos,
               start |-> IF pos < q.sink THEN 0 ELSE q.start,
               sink  |-> IF pos < q.sink THEN 0 ELSE q.sink]])

\* Mutant: the child's pages are not retained.
MutantFork(s, pos) ==
    LET q == table.seqs[s]
        shares == SubSeq(q.pages, 1, CeilDiv(BufferIndex(q, pos), PageSize))
    IN  /\ s \in Live
        /\ nextSeq < MaxSeqs
        /\ pos \in q.start..q.len
        /\ table' = [table EXCEPT !.seqs = [u \in Live \cup {nextSeq} |->
                        IF u = nextSeq THEN [q EXCEPT !.pages = shares, !.len = pos]
                        ELSE table.seqs[u]]]
        /\ nextSeq' = nextSeq + 1
        /\ UNCHANGED <<prefix, config>>

\* fork: the child shares every page up to the position.
Fork(s, pos) ==
    LET q == table.seqs[s]
        shares == SubSeq(q.pages, 1, CeilDiv(BufferIndex(q, pos), PageSize))
        t == FoldLeft(Retain, table, shares)
    IN  /\ s \in Live
        /\ nextSeq < MaxSeqs
        /\ pos \in q.start..q.len
        /\ table' = [t EXCEPT !.seqs = [u \in Live \cup {nextSeq} |->
                        IF u = nextSeq THEN [q EXCEPT !.pages = shares, !.len = pos]
                        ELSE table.seqs[u]]]
        /\ nextSeq' = nextSeq + 1
        /\ UNCHANGED <<prefix, config>>

\* The pages that leave when the window's pages i+1..i+n go.
DropPages(t, s, i, n, start, sink) ==
    LET pages == t.seqs[s].pages
        u == FoldLeft(Free, t, SubSeq(pages, i + 1, i + n))
    IN  [u EXCEPT !.seqs[s].pages = SubSeq(pages, 1, i)
                                      \o SubSeq(pages, i + n + 1, Len(pages)),
                  !.seqs[s].start = start,
                  !.seqs[s].sink = sink]

ApplySlidingWindow(s) ==
    LET q == table.seqs[s]
        behind == Monus(Monus(q.len, config.window), q.start) \div PageSize
        n == Less(behind, Len(q.pages))
    IN  /\ s \in Live
        /\ config.window > 0
        /\ config.sinks = 0
        /\ behind > 0
        /\ Becomes(DropPages(table, s, 0, n, q.start + n * PageSize, q.sink))

ApplySlidingWindowWithSinks(s) ==
    LET q == table.seqs[s]
        sinkPages == CeilDiv(config.sinks, PageSize)
        sinkLen == sinkPages * PageSize
        keepFrom == Monus(q.len, config.window)
        current == IF q.sink > 0 THEN q.start ELSE sinkLen
        target == (keepFrom \div PageSize) * PageSize
        n == IF target <= current THEN 0
             ELSE Less((target - current) \div PageSize,
                       Monus(Monus(Len(q.pages), sinkPages), 1))
    IN  /\ s \in Live
        /\ config.window > 0
        /\ config.sinks > 0
        /\ keepFrom > sinkLen
        /\ Becomes(DropPages(table, s, sinkPages, n, current + n * PageSize, sinkLen))

RemoveSequence(s) ==
    LET t == FoldLeft(Free, table, table.seqs[s].pages)
    IN  /\ s \in Live
        /\ Becomes([t EXCEPT !.seqs = [u \in Live \ {s} |-> table.seqs[u]]])

\* preempt_sequence and restore_sequence move pages between tiers.
PreemptSequence(s) ==
    LET demote(u, p) == IF u.pages[p].ref <= 1 THEN MigratePage(u, p, FALSE)
                                                ELSE {Ok(u)}
    IN  /\ s \in Live
        /\ \E o \in ForEachPage(table, table.seqs[s].pages, demote) : Becomes(o.t)

RestoreSequence(s) ==
    LET q == table.seqs[s]
    IN  /\ s \in Live
        /\ \E o \in Prefetch(table, s, q.start, q.len) : Becomes(o.t)

-----------------------------------------------------------------------------
(* The prefix cache, used by engines with tensors and without a window     *)
(* (uses_token_prefix_cache); a node's own count is back at zero when      *)
(* prepare_session_prefix returns.                                         *)

\* What a sequence retains, read through its pages (materialize_sequence).
Content(t, s) ==
    LET q == t.seqs[s]
    IN  [len  |-> q.len,
         kept |-> [pos \in Retained(q) |->
                     t.pages[PageAt(t, s, pos)].data[SlotOf(q, pos)]]]

SharesPrefixes == config.tensors /\ config.window = 0

\* insert_cached_prefix: the pages of the first n tokens are retained.
InsertCachedPrefix(s, n) ==
    LET path == [i \in 1..n |-> Content(table, s).kept[i - 1]]
        pages == SubSeq(table.seqs[s].pages, 1, CeilDiv(n, PageSize))
    IN  /\ s \in Live
        /\ SharesPrefixes
        /\ n \in 1..table.seqs[s].len
        /\ path \notin DOMAIN prefix
        /\ Cardinality(DOMAIN prefix) < config.maxPrefixes
        /\ table' = FoldLeft(Retain, table, pages)
        /\ prefix' = [x \in DOMAIN prefix \cup {path} |->
                         IF x = path THEN pages ELSE prefix[x]]
        /\ UNCHANGED <<nextSeq, config>>

\* prepare_session_prefix of an empty session: the longest cached prefix is
\* borrowed, its pages are retained for the session, the borrow is returned.
\* At least one token of the prompt is left to run.
PrepareSessionPrefix(s, prompt) ==
    LET hits == {x \in DOMAIN prefix : IsPrefix(x, prompt)}
        best == CHOOSE x \in hits : \A y \in hits : Len(y) <= Len(x)
        n == IF Len(best) = Len(prompt) THEN Len(best) - 1 ELSE Len(best)
        pages == SubSeq(prefix[best], 1, CeilDiv(n, PageSize))
        borrowed == FoldLeft(Retain, table, prefix[best])
        retained == FoldLeft(Retain, borrowed, pages)
    IN  /\ s \in Live
        /\ SharesPrefixes
        /\ table.seqs[s].pages = <<>>
        /\ hits # {}
        /\ Becomes([FoldLeft(Free, retained, prefix[best])
                       EXCEPT !.seqs[s].pages = pages, !.seqs[s].len = n])

\* PrefixCache::evict_lru of one prefix; which one is left open.
EvictPrefix(path) ==
    /\ table' = FoldLeft(Free, table, prefix[path])
    /\ prefix' = [x \in DOMAIN prefix \ {path} |-> prefix[x]]
    /\ UNCHANGED <<nextSeq, config>>

\* Every sequence is shorter than the longest of the configurations.
Positions == 0..Max({c.maxLen : c \in Configs})

Next ==
    \/ Create
    \/ \E s \in Ids : \E e \in Tokens : WriteTokenKv(s, e)
    \/ \E s \in Ids : \E n \in 1..2 : AppendTokens(s, n)
    \/ \E s \in Ids, pos \in Positions : RewindTo(s, pos)
    \/ \E s \in Ids, pos \in Positions : Fork(s, pos)
    \/ \E s \in Ids : ApplySlidingWindow(s)
    \/ \E s \in Ids : ApplySlidingWindowWithSinks(s)
    \/ \E s \in Ids : RemoveSequence(s)
    \/ \E s \in Ids : PreemptSequence(s)
    \/ \E s \in Ids : RestoreSequence(s)
    \/ \E s \in Ids, n \in Positions : InsertCachedPrefix(s, n)
    \/ \E s \in Ids : \E path \in DOMAIN prefix : \E e \in Tokens :
          \E prompt \in {path, Append(path, e)} : PrepareSessionPrefix(s, prompt)
    \/ \E path \in DOMAIN prefix : EvictPrefix(path)

Spec == Init /\ [][Next]_vars

-----------------------------------------------------------------------------
(* Properties.                                                             *)

\* A page's ref_count is the number of its owners: one for every sequence
\* whose list names it and one for every cached prefix.  Retain, free, fork,
\* copy-on-write with its rollback, rewind, windows, attach and eviction keep
\* the books together; a count too low frees a page in use, one too high
\* leaks it.
RefsExact ==
    \A p \in DOMAIN table.pages :
        table.pages[p].ref =
            Cardinality({s \in Live : Contains(table.seqs[s].pages, p)})
              + Cardinality({x \in DOMAIN prefix : Contains(prefix[x], p)})

OnFreeList(p, tier) == 
    Cardinality({i \in DOMAIN table.free[tier] : table.free[tier][i] = p})

\* A page is on a free list exactly once when nobody owns it, on the list of
\* the tier it resides in, and on none while somebody does: allocate_page
\* never hands a page out twice and a failed copy-on-write puts a page it took
\* back where it was.
FreeListsExact ==
    \A p \in DOMAIN table.pages :
        LET tier == IF table.pages[p].hot THEN "hot" ELSE "cold"
            other == IF table.pages[p].hot THEN "cold" ELSE "hot"
        IN  /\ OnFreeList(p, tier) = (IF table.pages[p].ref = 0 THEN 1 ELSE 0)
            /\ OnFreeList(p, other) = 0

Kv == INSTANCE KvSequences WITH
    Ids <- Ids,
    content <- [s \in Live |-> Content(table, s)],
    published <- DOMAIN prefix,
    entries <- IF config.tensors THEN Tokens ELSE {Blank}

\* However pages are shared, copied, moved and reused, a user of the cache sees
\* the sequences of KvSequences: every retained position holds what was written
\* there, a call on one sequence never changes another, a call that fails
\* changes none, a window keeps its sinks and its last tokens, and a session
\* that starts from a cached prefix holds exactly that prefix.
ImplementsKvSequences == Kv!Spec
=============================================================================
