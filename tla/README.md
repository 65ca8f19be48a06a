# onnx-genai in TLA+

A TLA+ development kept beside the Rust sources of onnx-genai. It models the
parts of the system whose correctness depends on the order in which threads,
tickets and messages meet, checks them with TLC on small instances, and proves
the main invariants with TLAPS for every value of the constants.

The models are translated from the Rust code. The design specifications in
`specs/tla/` of the repository describe intended protocols; nothing here is
derived from them.

## 1. The system and what is modelled

onnx-genai is a workspace of 59 crates. An HTTP server, a CLI and language
bindings sit on a generation engine, which uses a scheduler, a paged KV cache
and ONNX Runtime sessions; a second runtime (`onnx-runtime-*`) supplies graph
IR, execution providers, memory management and a communicator for multi-rank
execution. `PROJECT.json` lists every part, modelled or not, with the reason.

| Part | Source (under `crates/`) | Module |
|---|---|---|
| Host governor: tickets for machine-wide host memory | `onnx-genai-scheduler/src/pressure.rs` | `HostGovernor` |
| Host lease adapter: byte leases over whole allocations | `onnx-genai-scheduler/src/host_lease.rs` | `HostLease` |
| Buffer ownership registry | `onnx-runtime-comm/src/registry.rs` | `OwnershipRegistry` |
| Collective submit sequencer | `onnx-runtime-comm/src/ordering.rs` | `CollectiveSequencer` |
| In-process communicator | `onnx-runtime-comm/src/inprocess.rs` | `InProcess` |
| CUDA capture gate | `onnx-runtime-cuda-memory/src/capture_gate.rs` | `CaptureGate` |
| Device memory ledger and mapped allowances | `onnx-runtime-memory-governor/src/` | `LeaseLedger` |
| Paged KV cache | `onnx-genai-kv/src/`, and how the engine drives it | `PagedKv`, `KvSequences` |
| Server sessions, turn leases, routes, loaded models | `onnx-genai-server/src/` | `ServerSessions` |

How they interact: the lease adapter is a client of the host governor. The
communicator calls the registry (to lease the buffers of an operation) and the
sequencer (to be let through in the agreed order); `InProcess` extends both
modules and takes their actions as its own steps. `KvSequences` says what
a KV cache promises with no page in sight, and `PagedKv` is shown to implement
it. `ServerSessions` composes the session registry, the lease map, the routes
that use both, and the engines of the loaded models.

Conventions: an operator named `F_What` (`Settle_Once`) or `MutantF` is `F` with
a plausible bug and is used by no other definition; replacing `F` by it shows
that a property can tell the difference (`PROJECT.json`, `mutants`). `MC*` modules only supply constants.
`Sums` defines the sum of a function as the number of unit slots under its
graph, the form in which the proofs can reason about it. `M` is proved about in
`MProofs`; the host governor has a second such module, `HostGovernorLedgerProofs`,
and the communicator has two: `CommunicatorProofs` (the registry, the sequencer,
the calls into them, and who is in a rendezvous) and `InProcessProofs`, which
goes on from it and draws the theorems about the rendezvous.

## 2. The modules

### HostGovernor

State: the ledger (`free`, `reclaimable`, `generation`, `entry`,
`nextRequest`), the cancellation mailbox (`queue` and its reserved slots), the
tickets, and the thread that holds the ledger lock (`pc`, `call`, the drained
commands `todo`, the collected `wakes`).

Every public operation of the code takes the ledger lock, drains the mailbox,
applies each command, does its own work, arbitrates, unlocks and then wakes.
The model has one action per such stage (`Call*`, `CancelUncharged` /
`CancelGranted` / stale, the body such as `RequestHostPages` or
`TimeOutGranted`, `Grant` once per granted request, `ArbitrationDone`, `Wake`).
What needs no ledger lock can happen between any two stages: dropping a ticket
(`DropTicket`), disarming one (`Disarm`), parking and waking.

Atomicity: `drain` and `reserve_slot` take the mailbox lock separately while
the ledger lock is held. A publish or a slot release that falls between them
commutes with them, so the drain is one step. The wake-ups of one operation
are a set: their order is not observable.

Left out: trace events, and attributes that are stored and never read (owner,
pinned flag, reclaim shortfall).

### HostLease

Leases reserve, grow, shrink and drop on several threads over one adapter.
`try_claim` reads the credit under the adapter's lock (`SpendCredit`, `Ask`),
asks the governor without it (`Granted`, `Refused`), and takes it again to
record the allocation (`Record`). `release` settles under the lock (`Release`,
`Settle`, one allocation per step) and gives back after it (`GiveBack`). The
governor is reduced to its free bytes, with `OthersTake` and `OthersGive` for
its other clients.

### OwnershipRegistry and CollectiveSequencer

Each method of these two types holds one mutex from start to end, so each is
one action; refusals that change nothing are not steps, refusals that change
something (`RefuseSubmit`, which may already have admitted the execution) are.
`emitted` and `completed` in the sequencer record the events the code emits.

### InProcess

Each rank is a thread making one call at a time; another thread runs `abort`.
The mutexes of the data, count and barrier maps are explicit (`held`): a rank
checks its condition, decides to park and parks in separate steps, so that
abort's flag write and its notifications fall in between. Wake-ups may be
spurious. All error paths are followed: refused lease, refused order, diverging
signature, failed reduction, abort. `Plan` says which calls each rank may make.

Abstracted: payload bytes, argument checks that fail before any state is
touched, and the words of a signature. The fixed-shape collectives
(`all_reduce`, `all_gather`, `broadcast`, `reduce_scatter`) go through the same
`run_collective` and are one kind of call. Groups exist from the start. A
second abort repeats writes and notifications and is left out.

### CaptureGate

State: the `GateState` behind the mutex (`synchronizers`, `capturesWaiting`,
`capturing`, `deferred`), the two thread-local depths, the guards each thread
holds (oldest first), and where each thread is. Every critical section is a
step; a thread that must wait parks inside it, and `notify_all` is a step after
it, so that other threads run in between. Wake-ups may be spurious. All of
`acquire`, `synchronizing_section`, `run_or_defer_synchronizing` and the drops
are followed, nested and outermost, including a capture that sets its own
thread's section aside and the drain of the deferred actions. A thread drops
its own guards, youngest first. The code does not enforce this: a guard is a
plain `Send` value, and `graph.rs` stores the exclusion from `begin` to `end` or
`abort`. These two refuse another thread than the one that began, and the
callers in the repository drop inner guards before outer ones; other orders are
not examined.

### LeaseLedger

One tier of the governor: the counters (`ledger`), the leases charged to them,
a mapped allowance per holder, and the operation that is active among those
that queue by ticket. Compare-and-swap loops are one step. Three operations
load a counter under the gate and store a value computed from it later; they
are two steps (`StoreRefund` and the like), and lock-free releases fall in
between. A growth transaction asks, takes free capacity or moves a victim's
allowance, waits for the victim to reclaim, and is settled, dropped or rolled
back; contexts may terminate at any time. The limit changes in two ways:
`try_set_limit_bytes` queues, pauses growth and refuses a limit beneath what is
in use (`TrySetLimit`), `set_limit` stores any limit at any time (`SetLimit`). Left out: authority checks, counter
overflow and metrics.

### PagedKv and KvSequences

`table` is the `PageTable`: pages with reference counts and tiers, free lists,
the page lists of sequences. A call is an operator from a table to its possible
outcomes, because a failing copy or migration may leave changes behind. The
actions are the calls the engine makes: append, fork, rewind, window, free,
preempt and restore, and publishing, attaching and evicting cached prefixes.
One engine owns the cache, so a call is one step; what is checked is what long
histories of calls do to shared pages.

`KvSequences` has only sequences: a length and, at each retained position, what
was written there. `ImplementsKvSequences` is its specification under the
refinement mapping that reads a sequence's entries through its pages.

### ServerSessions

A conversation is a session of one loading of a model's engine. The code names
it by model and engine session id; the model adds the loading (`gen`), which no
code sees. Every registry call, lease operation and engine command is one step,
and a request (`req`) carries between them what the route holds: the handle it
resolved, the binding it read, the guards it owns. Turn, create, fork and delete
are followed through every refusal, lost claim, eviction and abandoned close. A
turn that leases before admission asks the engine for the session's carry
(`Carry`) and is refused if the session is gone; one that leases after admission,
at its second look or after a lost claim, goes to the engine unchecked. What
`Submit` then does with an unknown session depends on the entry point: a plain
prompt is refused, a turn with tensors or on a specialized speculative driver
runs without its session (`sessionless`). Models are loaded, evicted, unloaded and loaded again underneath.

Left out: tokens, streaming and the workers' own accounting. Admission may
refuse. The walk of `evict_lru` over the registry is one step.

## 3. The runs

| Run | Instance | Shows |
|---|---|---|
| `governor_races` | 2 requests, 1 device, capacity 2 with 1 fixed, 1 reconfiguration, all operations, fair | the ledger is conserved, cancels are neither lost nor misapplied, no lost wake-up, claims are final; a verdict reached is delivered to its waiter |
| `governor_arbitration` | 3 requests, 3 sizes, 2 priorities, aging cap 2, 2 mailbox slots | a matured request is not overtaken |
| `registry` | 3 allocations, 3 operations, 2 tombstones | leases never conflict; freed is for ever; leases end only at a terminal state |
| `sequencer` | 2 ranks, 2 groups, 2 executions × 2 sequences, 1 signature | ranks agree on one increasing order; one completion per slot |
| `inprocess_calls` | 2 ranks, abort, fair; from the start: admit, skip, messages and collectives that may disagree; from a second start: count exchange, all_to_all_v and barriers | no lost wake-up, lease or slot; no disagreement reaches a rendezvous; entries live as long as the ranks inside them; after abort every call returns; the component specifications hold in the composition |
| `inprocess_programs` | 3 ranks, 2 groups, matching programs, fair | nobody leaves a rendezvous early; all programs finish |
| `lease_books` | 2 threads, sizes 1–3, 6 bytes | the adapter's books, the leases and the machine agree |
| `capture_gate` | 3 threads, 2 guards each, 1 deferred action, fair | captures and synchronizers exclude each other, no lost wake-up, a waiting capture starts, deferred work runs |
| `lease_ledger` | 1 grower, 1 owner of plain leases, weights and an administrator, limits 1 and 2, fair | the ledger never under-reports, no capacity is promised twice, holders stay within their allowances, no grant goes beyond the limit, the queue is served |
| `paged_kv` | 3 pages of which 2 are hot, 2 sequences, five engine configurations | reference counts and free lists are exact; the cache implements `KvSequences` |
| `server_sessions` | 2 clients, 2 requests, 2 models of which 1 is loaded, registry of 1, the default model loaded twice | no session is closed under a turn that found it open, leases are exactly the guards held, engine and registry agree until a reload |
| `server_sessions_unique` | the same with a registry of 2 | finds the disagreement described below |

Why the bounds are enough to be interesting: two requests suffice for a grant,
a cancel and a time-out to race over the same bytes, and three for one to be
overtaken; capacity and sizes are chosen so that some requests fit only alone.
Three operations let a reader, a writer and a late submitter meet. Two ranks
suffice for every disagreement between peers (signatures disagree in the
communicator's runs; the sequencer's own run needs only one, since a skipped
slot already differs from a submitted one), and the third rank is needed for an
entry to have a reader that is neither the first nor the last. Three lease
sizes let a credit cover one allocation and not another, and let two small
allocations compete with a large one. In the capture gate the third thread is
the stream of sections that could starve a waiting capture while another one
runs. A limit of 2 with requests of up to 2 makes a growth fit, fit after a
transfer, and fail. Three pages with two hot ones force a migration in the
middle of a copy-on-write, and five configurations (forks, cached prefixes,
window, window with sinks, page counts without tensors) keep each space small
while every call occurs. A registry of one session makes every second binding
evict; a second loading of the default model is what lets an old binding meet
a new engine. An instance whose default model opens two sessions in each of two
loadings (9.2 million states) passes as well.

Two exceptions are part of the properties because the code has them. An
`all_to_all_v` that fails its span checks or is refused its lease has already
consumed its ticket, and its sequencer slot stays active (`SlotsOwned` allows
exactly these slots). After an abort, an entry of a data or count rendezvous may
stay in its map (`EntriesReaped` demands the clean-up of collectives only
without abort, that of barriers always).

`EngineMatchesRegistry` is stated for the first loading of a model, and leaves
out the conversations in `dropped`: a client that goes away while its close
waits for room in the worker's queue takes the only guard with it, so the
session stays in the engine with no name until the engine stops.
`NoGrantBeyondLimit` names the two operations that check nothing: recording
reports memory that is already committed, and `set_limit` lowers the limit
beneath what is in use (a test of the repository relies on it). After that
no lease is granted until the leases fit again.
`TurnKeepsSession` speaks of turns whose session the engine has confirmed, by
reading its carry or by starting on it; a turn that leased after admission is
covered from its start on, and one that runs without its session is not.

Deadlock is checked for the governor, the lease adapter, the registry and the
capture gate. It is off for the others because those do stop: an aborted
sequencer accepts nothing more, ranks finish their plans, every context of the
ledger may be terminated, and the cache and the server stop at the bounds on
pages, sequences, sessions and loadings.

### A finding

`server_sessions_unique`: a session's key (model, session id) is documented as
globally unique. Unloading a model keeps its bindings, and the next engine of
that model numbers its sessions afresh, so two client ids can end up bound to
one key: a turn through one refuses the other, and deleting one closes the
other's session. The quotations are in `PROJECT.json`, `findings`.

### Smaller observations

Met while modelling; each is behaviour of the models above, and none violates a
property of a run.

- `request_host_pages` says a submission can only grant the request just
  submitted. It can grant an older one: a pending head removed by cancel or
  time-out does not arbitrate, so the next submission does.
- The lease adapter says an allocation is returned as soon as one is covered. It
  can stay charged although the credit covers it, until a later release. Its
  `available` adds credit and free bytes, which no single claim can combine.
- A `recv` that is refused its lease has already consumed the message, so the
  retry the registry's documentation asks for finds none.
- `allocate_page` evicts only when the hot free list is empty, so the hot tier
  can exceed its capacity, and the pool grows without growing its lease.
- A release between the load and the store of `consume_mapped_growth` or
  `refund_mapped_growth` is overwritten: `used` stays above the leases. It never
  falls below them (`UsedCoversLeases`).
- A turn that leases after admission may find the session closed by a delete in
  between. A plain prompt is then refused. A turn with tensors or on a specialized
  speculative driver goes through `generate_with_pipeline_callbacks`, which runs
  an unknown session id as a request without a session, so the turn succeeds
  without the conversation it names.
- After a reload the lease of a newly opened session can conflict with a turn
  on an old binding of the same key, and the opened session is left unnamed.

## 4. Fairness

`HostGovernor`: the holder of the ledger lock, a thread about to wake or to
disarm, and a signaled waiter are runnable and get on (weak fairness). A waiter
contending for the lock gets it eventually (strong fairness: the lock is free
again and again). Nothing is assumed of callers.

`InProcess`: a rank inside a call keeps running (weak), and a rank or the abort
thread that finds its mutex free again and again gets it (strong). Operating
system mutexes and condition variables give this in practice; the standard
library does not promise it. Spurious wake-ups are never assumed to happen.
Only `inprocess_programs` adds that callers carry their programs through.

`CaptureGate`: a runnable thread runs (weak). A guard is dropped at last even if
its thread goes on to open and drop inner ones (strong, for each nesting depth):
sections and actions surround bounded driver calls, and a capture is ended or
aborted by the run that began it.

`LeaseLedger`: a thread inside the governor keeps running and a reclaim ends,
for it waits with a timeout (weak). A grant is settled or dropped although its
holder may do other things first (strong): it lives within one allocation.

Not claimed: that every request is eventually granted. The cancel of a dropped,
granted ticket waits in the mailbox until the next governor operation, and a
pending head removed by cancel or time-out does not trigger arbitration, so a
waiter can stay parked while nobody calls the governor. The repository's
`specs/tla/README.md` makes no such promise either.

## 5. What is proved

The proofs assume only the named `ASSUME`s on the constants: finite devices,
natural-number sizes, limits and bounds, an initial configuration that fits its
capacity (`with_sinks` rejects others), members that are ranks, names that
differ (no thread is the owner of a free lock, no grower is the weights or the
administrator), and that the default model is a model that is loaded at least
once, as the server does at start. Of the communicator's plan of calls they
assume that there are finitely many ranks and that a rank calls only groups it
is a member of. Bounds such as `MaxRequests` are arbitrary in
the proofs. Threads, growers, requests and clients may be any set; where bytes
are summed over them, that the sum is finite is part of the invariant and not
an assumption.

`HostGovernorProofs` and `HostGovernorLedgerProofs`, which extends it. The
invariant `ProtocolInv` is inductive: types, that
identifiers not handed out yet are untouched (`Fresh`), that a ticket and its
entry carry one generation (`SameGeneration`), that posted commands belong to
dropped tickets (`CommandsAreDropped`), and the safety properties themselves.
The extra conjuncts are needed because "this cancel is not lost" is preserved
by applying a command only if the generation test cannot reject a live one.
Types are preserved action by action; `Ties` collects the conjuncts that relate
entries, tickets and mailbox, and is then preserved action by action.
Results: `TypeCorrect`, `SlotsAccounted`, `CancelsNotLost`, `ChargesOwned`,
`WakeupsExact`, `NoStalePending`.

The ledger's totals are sums (`Sums`) that need no induction: `TotalUpdate`
says what changing one summand does, `LedgerMoves` reduces each action to such
a change. Results: `LedgerAlwaysConserved`, `ClaimsAreFinal`,
`MaturedNeverOvertaken`.

`CancelApplies` needs `CancelInv` beside `ProtocolInv`: no request has two
posted commands, a command carries its ticket's generation, and a ticket that
can still be dropped has an entry that is not claimed. The second command of a
request would find its entry gone, and a dropped ticket without an entry would
post a command for nothing. Steps that leave the mailbox alone are covered by
one lemma (`CancelKept`); draining, applying and dropping have their own.
Result: `CancelsApply`.

`HostLeaseProofs`. `BooksInv` joins the three properties of the adapter with
types, the finiteness of the sums, and that only the holder of the lock settles
(`LockHeld`): the credit may cover an allocation only while a thread is in the
loop that returns it. `BagUpdate` says what one allocation more or less does to
a bag's bytes. Results: `LeasesAreBacked`, `MachineIsConserved`,
`NothingIsStranded`.

`LeaseLedgerProofs`. `LedgerInv` has, beside types, one part per property and
two that connect them. `UsedInv`: a value that was loaded and is to be stored is
never below the counter it was read from, because only releases run in between.
`Lending`: what a growth transaction has reserved is exactly what it was lent so
far. `Alive`: whoever an operation names is not dropped under it. `Covered` and
`Mapped` are the properties on allowances with what the steps under way owe. The
step lemmas take the fact about sums (`SumsAdd`) as an assumption, and the last
section proves it; the finite-set theorems it rests on make every proof after
them slower. Results: `UsedAlwaysCovers`, `AllowancesAlwaysCovered`,
`MappingBounded`, and the action property `LimitRespected`.

`CommunicatorProofs`, the registry. Lease conflicts and freed buffers are inductive only
together: a new lease is safe because freed buffers are refused, a free is safe
because leased buffers are. Results: `RegistryTypeCorrect`,
`LeasesNeverConflict`, `FreedIsForever`, `LeasesReleasedAtTerminal`, and
`RegistryCounts`. The last one and the counts of the rendezvous below need facts
about finite sets; like `SumsAdd` they are assumed where they are used
(`CountingLaws`, a conjunct of `CountInv` and `EntryInv`) and proved in the last
section of `InProcessProofs`, where the theorems that need them are.

`CommunicatorProofs`, the sequencer. Agreement is proved by showing that what a rank
was let through is a prefix of its group's order, and that a slot that fits
comes after all of it (`FitsLater`). Results: `SequencerTypeCorrect`,
`RanksAgree`, `OrdersFollowDecisions`, `DecisionsAreFinal`, `SlotsComplete`,
`AbortCloses`.

`CaptureGateProofs`. `NoLostWakeup` is inductive with the types of what a
waiting thread asks for (`WaitInv`). A step that can end a wait leaves its thread
at a notification (`NotifierWakes`); any other keeps a blocked thread blocked
(`StillBlocked`). Result: `GateWakesWaiters`, for any number of threads.
`GateInv` ties the counter and the flag behind the mutex to the guards: the
synchronizers are as many as the counted guards that no capture of their own
thread has set aside (`Active`), and each thread's depths are those of its stack
of guards (`ThreadsOK`). Exclusion follows only through that count, since
`acquire` sees the count and the flag and never a guard. A step gives one
thread a new stack (`Moves`): `CountUp` and `CountDown` follow the count,
`MovesExclude` the exclusion. Result: `CapturesExclude`.

`ServerSessionsProofs`. The invariant `SessionsInv` adds to the two properties
what a request holds at each point of its route (`RequestsOK`): which guards,
that a victim's key differs from its own, and that a turn whose session was
confirmed is on the one its guard names. `Moves` describes a request's step by the guards it
gives up and takes; `MovesKeepLeases` shows that such a step keeps the leases
exact, and each action is shown to be one. A close cannot reach a running turn
because both would hold the same key (`CloseSpares`), nor an unload because
the turn's request holds the engine (`RunningHolds`). Results:
`LeasesHaveOneOwner`, `TurnsKeepTheirSessions`.

`EngineMatchesRegistry` needs `RegistryInv` on top of it. Whatever anyone names
has been numbered by its engine (`Counters`, `Counted`), so a session just
opened is new to all. And each request relies on something at each point of its
route (`Upheld`): what it took off the registry is not bound, what it is about to
publish is still in the engine, what it works on is bound unless its close was
lost. A step of one request is safe for another because two requests never hold
one key (`Hands`, `HandsKeep`). Result: `EnginesMatchRegistry`.

`CommunicatorProofs` and `InProcessProofs`, the communicator. `ControlInv` says
where a rank may stand in which call, and that a call in progress is one its
rank has a handle for. With it every step of the communicator is a step of the
registry and one of the sequencer, or leaves them alone (`RegistrySteps`,
`SequencerSteps`), so the two specifications hold in it and so do the theorems
about them. Result: `UsesComponents`, the refinement `ComponentSpecs`. `BaseInv`
is `ControlInv` with what those theorems give. Each of the following invariants
is inductive on top of it. In all of them a rank's step leaves the other ranks
where they were, except that it may wake parked ones (`Keeps`, `RankMoves`), so
only the moving rank needs one case per action.

- `LeaseInv`: at which points of a call its rank holds a lease, and whether the
  registry has that lease submitted or aborting. Without the state of the lease
  one could not show that the error path finds what it retires. Result:
  `CallsOwnLeases`.
- `LockInv`: a rank that checks, decides to park or leaves owns its map's mutex.
- `EntryInv`: an entry has as contributors those inside it and as many others as
  were counted out (`Balanced`), and an output only when the group is complete.
  The code compares counts with sizes and never looks at who is inside; the
  reaping is right only because the two agree. After an abort ranks leave
  without being counted, and the invariant then keeps only the part that the
  ranks still inside need. Results: `EntriesOutliveRanks`, `LastRankReaps`,
  `NobodyLeavesEarly`.
- `WakeInv`: a rank between its test and its wait has the mutex, so nobody can
  complete its rendezvous or notify its map meanwhile; if the flag is set behind
  its back, abort has yet to come to that map (`StillToNotify`). It uses `LockInv`
  and `EntryInv`. Result: `NoWakeupLost`.
- `AgreeInv`: whoever is about to contribute, has contributed or holds a ticket was
  let through by the sequencer with that signature for that instance (`Passed`),
  and a rank has not contributed to what its tickets and its call are still to
  enter. Two ranks let through at one instance have one signature, because they
  were let through along one order (`PassedAgree`), and none is let through twice
  (`OrderPasses`). Result: `RendezvousNeverDiverges`.
- `SlotInv`: which part of a call owns its slot; on the error path only a call that
  will close it does (`Owning`). A refused contribution would return without
  closing the slot, so `AgreeInv` is needed to rule it out; a data phase that finds
  no slot has none to lose. Each action either keeps the slot with its owner or
  hands it on (`HandsOn`). Result: `SlotsHaveOwners`.

Proved and in no run: `TypeOK`, `SlotAccounting`, `PendingIsCurrent` and
`ChargeHasOwner` of the governor, `OperationsAccounted` of the registry,
`OrderFollowsDecisions`, `DecisionsFinal` and `AbortIsFinal` of the sequencer.

Only model-checked: liveness (`VerdictIsDelivered`, `AbortDrains`,
`ProgramsFinish`, `CaptureStarts`, `DeferredRuns`, `QueueServed`), which the
prover does not reach; and the properties of `PagedKv`: `RefsExact`,
`FreeListsExact` and the refinement `ImplementsKvSequences`. The calls of `PagedKv`
fold over page lists, and what a fold computes would need induction over data.

## 6. Not modelled

The modules cover the protocols in which several threads, requests or long
histories of calls meet. Most of the code is outside them, and `PROJECT.json`
gives the reason part by part:

- Kernels, execution providers, graph passes, parsers, pre-processing and
  numeric code: pure functions of large data, checked by their own tests and
  oracles.
- Bindings, ABIs, plugins and driver calls: no protocol of their own, or one
  that lives in a foreign library.
- The generation engine's decode loops: tensor work. Its prefix cache is in
  `PagedKv`, its sessions are in `ServerSessions`.
- The continuous-batching scheduler and its byte budget: waiting, running and
  swapped sets that one worker advances in sequence. These could be modelled,
  as could the router's affinity maps, where a stale value costs a worse choice
  and not a wrong answer.
- The memory manager above the ledger, the deferred-release machine and the
  CUDA release queue: bookkeeping behind one lock each, driven by device events.

Within the modelled parts: group creation and buffer allocation of the
communicator, `PagedKvCache::evict` (without a caller in the engine), metrics
and registration of the memory governor, and admission and streaming in the
server.

## 7. Running it

`tlc -config X.cfg M` for a run (module and configuration are in
`PROJECT.json`); `tlapm M.tla` for a proof module. From nothing a proof module
takes between half a minute and about a quarter of an hour; the longest are the
two of the communicator. The SMT encoding gets slower with every obligation it has
seen, so the two communicator modules make Zenon the default (`USE Zenon`) and
name SMT where it is needed.
