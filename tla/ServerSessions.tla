--------------------------- MODULE ServerSessions ---------------------------
(***************************************************************************)
(* Conversations of the server: the session registry (client ids bound to  *)
(* model-qualified placements, least recently used first), the exclusive   *)
(* turn leases, the routes that use both, and the engines of the loaded    *)
(* models that own the sessions.                                           *)
(*                                                                         *)
(* A conversation is a session of one loading of a model's engine.  The    *)
(* code names it by model and engine session id (Key); the generation is   *)
(* what an observer adds, because an engine that is loaded again numbers   *)
(* its sessions afresh.  Every registry call is one step (one mutex), so   *)
(* is every lease operation and every command an engine worker runs; a     *)
(* request holds the handle it resolved until it ends.  Workers, tokens,   *)
(* admission and streaming are left out: admission may refuse, a turn ends.*)
(***************************************************************************)
EXTENDS Integers, Sequences, FiniteSets

CONSTANTS Models, Clients, Requests, None,
          Default,       \* the default model, loaded at the start
          MaxLoaded,     \* max_loaded_models
          MaxSessions,   \* the registry's bound
          MaxIds,        \* sessions an engine of each model opens in one loading
          MaxLoads       \* loadings of each model

ASSUME SessionsAssumption ==
  /\ None \notin Models
  /\ Default \in Models
  /\ MaxLoads \in [Models -> Nat] /\ MaxLoads[Default] > 0

VARIABLES
  gen,      \* the latest loading of each model
  loaded,   \* is it in the model registry
  open,     \* conversations the engines hold
  next,     \* sessions each loading has opened
  lru,      \* bound client ids, least recently used first
  binding,  \* the conversation of each client id
  leases,   \* SessionLeases: keys with a guard
  dropped,  \* history: conversations whose close was never sent
  req       \* the request each task runs

vars == <<gen, loaded, open, next, lru, binding, leases, dropped, req>>
registry == <<lru, binding>>
engines == <<gen, loaded, open, next>>

Conv(m, g, i) == [model |-> m, gen |-> g, id |-> i]
NoConv == Conv(None, 0, 0)
Key(c) == <<c.model, c.id>>
Loads(m) == 0..MaxLoads[m]

\* own and victim: the conversations whose leases the request holds; seen: a
\* binding it has read or was handed; model and gen: the handle it resolved.
Idle == [pc |-> "idle", client |-> None, model |-> None, gen |-> 0,
         own |-> NoConv, seen |-> NoConv, victim |-> NoConv]

Init ==
  /\ gen = [m \in Models |-> IF m = Default THEN 1 ELSE 0]
  /\ loaded = [m \in Models |-> m = Default]
  /\ open = {}
  /\ next = [m \in Models |-> [g \in Loads(m) |-> 0]]
  /\ lru = <<>>
  /\ binding = [c \in Clients |-> NoConv]
  /\ leases = {}
  /\ dropped = {}
  /\ req = [r \in Requests |-> Idle]

Bound(c) == binding[c] # NoConv
At(r, p) == req[r].pc = p
End(r) == req' = [req EXCEPT ![r] = Idle]
Touch(c) == lru' = Append(SelectSeq(lru, LAMBDA d : d # c), c)

-----------------------------------------------------------------------------
(* The model registry and the engines. *)

\* The conversations of loading g of model m.
Sessions(m, g) == {c \in open : c.model = m /\ c.gen = g}

\* release_handle: an engine nobody else holds stops with its sessions.
Held(m) == \E r \in Requests : req[r].model = m /\ req[r].gen = gen[m]
Release(out) ==
  LET gone == UNION {Sessions(m, gen[m]) : m \in {n \in out : ~Held(n)}} IN
  /\ open' = open \ gone
  /\ dropped' = dropped \ gone

\* unload: the handle goes; the engine lives on while requests hold it.
Unload(m) ==
  /\ loaded[m]
  /\ loaded' = [loaded EXCEPT ![m] = FALSE]
  /\ Release({m})
  /\ UNCHANGED <<gen, next, registry, leases, req>>

\* The last request that held a released engine has ended: its worker stops.
StopEngine(m, g) ==
  /\ g < gen[m] \/ ~loaded[m]
  /\ Sessions(m, g) # {}
  /\ \A r \in Requests : ~(req[r].model = m /\ req[r].gen = g)
  /\ open' = open \ Sessions(m, g)
  /\ dropped' = dropped \ Sessions(m, g)
  /\ UNCHANGED <<gen, loaded, next, registry, leases, req>>

\* enforce_eviction: above the bound a model other than the one being loaded
\* goes, the default one last.  Which of several is least recent is left open.
Evicted(m) ==
  LET others == {n \in Models \ {m} : loaded[n]} IN
  IF Cardinality(others) < MaxLoaded THEN {{}}
  ELSE {{v} : v \in IF others = {Default} THEN others ELSE others \ {Default}}

\* ModelRegistry::load of an unloaded model: a new engine with its own counter.
Load(m) ==
  /\ ~loaded[m]
  /\ gen[m] < MaxLoads[m]
  /\ gen' = [gen EXCEPT ![m] = @ + 1]
  /\ \E out \in Evicted(m) : loaded' = [n \in Models |-> (n = m) \/ (loaded[n] /\ n \notin out)]
                              /\ Release(out)
  /\ UNCHANGED <<next, registry, leases, req>>

\* A session opened by loading g of model m.
Opened(m, g) == Conv(m, g, next[m][g] + 1)

OpenIn(m, g) ==
  /\ next[m][g] < MaxIds[m]
  /\ open' = open \union {Opened(m, g)}
  /\ next' = [next EXCEPT ![m][g] = @ + 1]
  /\ UNCHANGED <<gen, loaded>>

-----------------------------------------------------------------------------
(* A turn: lease_bound_session, then open_session_after_admission. *)

\* The model is resolved and the client id looked up (a touch when bound); an
\* id that is bound in another model is refused.
StartTurn(r, c, m) ==
  /\ At(r, "idle")
  /\ loaded[m]
  /\ IF Bound(c) THEN Touch(c) /\ UNCHANGED binding ELSE UNCHANGED registry
  /\ \/ /\ binding[c].model \in {m, None}
        /\ req' = [req EXCEPT ![r] = [Idle EXCEPT !.client = c, !.model = m, !.gen = gen[m],
                     !.pc = IF Bound(c) THEN "bound" ELSE "unbound", !.seen = binding[c]]]
     \/ /\ binding[c].model \notin {m, None}
        /\ UNCHANGED req
  /\ UNCHANGED <<engines, leases, dropped>>

\* SessionRegistry::acquire on the binding that was read; a conflict refuses.
\* Only a lease taken before admission is followed by the carry check.
Acquire(r) ==
  /\ req[r].pc \in {"bound", "rebound"}
  /\ \/ /\ Key(req[r].seen) \in leases
        /\ End(r)
        /\ UNCHANGED leases
     \/ /\ Key(req[r].seen) \notin leases
        /\ leases' = leases \union {Key(req[r].seen)}
        /\ LET p == IF At(r, "bound") THEN "carrying" ELSE "leased" IN
             req' = [req EXCEPT ![r] = [@ EXCEPT !.pc = p, !.own = req[r].seen]]
  /\ UNCHANGED <<engines, registry, dropped>>

\* The session that the engine of a request x knows by the id of its lease.
Session(x) == Conv(x.model, x.gen, x.own.id)

\* carried_session_tokens asks the engine what the session carries, before
\* admission; a session that the engine does not know refuses the turn.
Carry(r) ==
  /\ At(r, "carrying")
  /\ \/ /\ Session(req[r]) \in open
        /\ req' = [req EXCEPT ![r] = [@ EXCEPT !.pc = "carried"]]
        /\ UNCHANGED leases
     \/ /\ Session(req[r]) \notin open
        /\ leases' = leases \ {Key(req[r].own)}
        /\ End(r)
  /\ UNCHANGED <<engines, registry, dropped>>

\* Admission or the engine's session limit refuses, or the client goes away (a
\* session whose creation is not acknowledged is closed again by the worker):
\* the guard is dropped.
Refuse(r) ==
  /\ req[r].pc \in {"carrying", "carried", "leased", "unbound", "creating", "forkleased"}
  /\ leases' = leases \ {Key(req[r].own)}
  /\ End(r)
  /\ UNCHANGED <<engines, registry, dropped>>

\* Admitted without a lease: look again, for the id may be bound by now.
LookAgain(r) ==
  /\ At(r, "unbound")
  /\ LET c == req[r].client IN
     \/ /\ Bound(c)
        /\ Touch(c)
        /\ UNCHANGED binding
        /\ IF binding[c].model = req[r].model
             THEN req' = [req EXCEPT ![r] = [@ EXCEPT !.pc = "rebound", !.seen = binding[c]]]
             ELSE End(r)
     \/ /\ ~Bound(c)
        /\ req' = [req EXCEPT ![r] = [@ EXCEPT !.pc = "creating"]]
        /\ UNCHANGED registry
  /\ UNCHANGED <<engines, leases, dropped>>

\* The engine opens a session for this request.
Create(r) ==
  /\ At(r, "creating")
  /\ OpenIn(req[r].model, req[r].gen)
  /\ req' = [req EXCEPT ![r] = [@ EXCEPT !.pc = "created", !.seen = Opened(req[r].model, req[r].gen)]]
  /\ UNCHANGED <<registry, leases, dropped>>

\* Its lease is taken before it is published; a conflict is returned as it is.
LeaseOpened(r) ==
  /\ At(r, "created")
  /\ \/ /\ Key(req[r].seen) \in leases
        /\ End(r)
        /\ UNCHANGED leases
     \/ /\ Key(req[r].seen) \notin leases
        /\ leases' = leases \union {Key(req[r].seen)}
        /\ req' = [req EXCEPT ![r] = [@ EXCEPT !.pc = "claiming", !.own = req[r].seen]]
  /\ UNCHANGED <<engines, registry, dropped>>

\* Mutant: the victim is the oldest binding, busy or not.
MutantVictims == {c \in Clients : Bound(c)}

\* evict_lru: the bindings whose lease can be taken.
Victims == {c \in Clients : Bound(c) /\ Key(binding[c]) \notin leases}

\* make_room finds the registry below its bound.
Room == Len(lru) < MaxSessions

Full == ~Room /\ Victims = {}

\* Bind client c to conv, evicting the oldest victim when the registry is full.
\* The request goes on as `bound`, or as `evicting` with the victim it leased.
Bind(r, c, conv, bound, evicting) ==
  \/ /\ Room
     /\ lru' = Append(lru, c)
     /\ binding' = [binding EXCEPT ![c] = conv]
     /\ req' = [req EXCEPT ![r] = bound]
     /\ UNCHANGED leases
  \/ /\ ~Room
     /\ \E i \in 1..Len(lru) :
          LET v == lru[i] IN
          /\ v \in Victims
          /\ \A j \in 1..(i - 1) : lru[j] \notin Victims
          /\ lru' = Append(SelectSeq(lru, LAMBDA d : d # v), c)
          /\ binding' = [binding EXCEPT ![v] = NoConv, ![c] = conv]
          /\ leases' = leases \union {Key(binding[v])}
          /\ req' = [req EXCEPT ![r] = [evicting EXCEPT !.victim = binding[v]]]

\* SessionRegistry::claim decides under one lock who owns the client id.
Claim(r) ==
  /\ At(r, "claiming")
  /\ LET c == req[r].client IN
     \/ /\ Bound(c)
        /\ Touch(c)
        /\ req' = [req EXCEPT ![r] = [@ EXCEPT !.pc = "lost", !.seen = binding[c]]]
        /\ UNCHANGED <<binding, leases>>
     \/ /\ ~Bound(c)
        /\ Full
        /\ req' = [req EXCEPT ![r] = [@ EXCEPT !.pc = "refused"]]
        /\ UNCHANGED <<registry, leases>>
     \/ /\ ~Bound(c)
        /\ ~Full
        /\ Bind(r, c, req[r].own, [req[r] EXCEPT !.pc = "leased"],
                               [req[r] EXCEPT !.pc = "evicting"])
  /\ UNCHANGED <<engines, dropped>>

\* run_generation.  When the engine does not know the session, a turn that goes
\* through generate_in_session fails; one that carries tensors or runs on a
\* specialized speculative driver is run all the same, without the session
\* (generate_with_pipeline_callbacks, workflow_api.rs).
Submit(r) ==
  /\ req[r].pc \in {"carried", "leased"}
  /\ \/ /\ Session(req[r]) \in open
        /\ req' = [req EXCEPT ![r] = [@ EXCEPT !.pc = "running"]]
        /\ UNCHANGED leases
     \/ /\ Session(req[r]) \notin open
        /\ leases' = leases \ {Key(req[r].own)}
        /\ End(r)
     \/ /\ Session(req[r]) \notin open
        /\ req' = [req EXCEPT ![r] = [@ EXCEPT !.pc = "sessionless"]]
        /\ UNCHANGED leases
  /\ UNCHANGED <<engines, registry, dropped>>

\* The row is retired, whichever way, and its lease with it.
EndTurn(r) ==
  /\ req[r].pc \in {"running", "sessionless"}
  /\ leases' = leases \ {Key(req[r].own)}
  /\ End(r)
  /\ UNCHANGED <<engines, registry, dropped>>

-----------------------------------------------------------------------------
(* Closing: close_leased_session resolves the model the guard names. *)

\* What the close is about, and whether the engine knows it.
Closing(r) == IF At(r, "evicting") THEN req[r].victim ELSE req[r].own
Target(r) == Conv(Closing(r).model, gen[Closing(r).model], Closing(r).id)
CloseSucceeds(r) == loaded[Closing(r).model] => Target(r) \in open

\* Where the request goes on: a lost claim takes its turn on the winner's
\* session, an eviction proceeds to the turn or, for create and fork, ends.
AfterClose(r) ==
  IF ~CloseSucceeds(r) THEN Idle
  ELSE CASE At(r, "lost") /\ req[r].seen.model = req[r].model ->
              [req[r] EXCEPT !.pc = "rebound", !.own = NoConv]
         [] At(r, "evicting") /\ req[r].own # NoConv ->
              [req[r] EXCEPT !.pc = "leased", !.victim = NoConv]
         [] OTHER -> Idle

Dropped(r) ==
  {Key(Closing(r))} \union (IF AfterClose(r) = Idle THEN {Key(req[r].own)} ELSE {})

\* Mutant: an evicted session is only forgotten.
MutantClose(r) ==
  /\ req[r].pc \in {"lost", "refused", "evicting", "deleting"}
  /\ open' = IF At(r, "evicting") \/ ~loaded[Closing(r).model] THEN open ELSE open \ {Target(r)}
  /\ leases' = leases \ Dropped(r)
  /\ req' = [req EXCEPT ![r] = AfterClose(r)]
  /\ UNCHANGED <<gen, loaded, next, registry, dropped>>

\* The worker closes the session, then the guard is dropped.  A model that is
\* not loaded took its sessions with it.
Close(r) ==
  /\ req[r].pc \in {"lost", "refused", "evicting", "deleting"}
  /\ open' = IF loaded[Closing(r).model] THEN open \ {Target(r)} ELSE open
  /\ leases' = leases \ Dropped(r)
  /\ req' = [req EXCEPT ![r] = AfterClose(r)]
  /\ UNCHANGED <<gen, loaded, next, registry, dropped>>

\* The client goes away while the close waits for room in the worker's queue:
\* the guards are dropped with the future and nothing is sent.
AbandonClose(r) ==
  /\ req[r].pc \in {"lost", "refused", "evicting", "deleting"}
  /\ loaded[Closing(r).model]
  /\ dropped' = dropped \union ({Closing(r)} \intersect open)
  /\ leases' = leases \ {Key(Closing(r)), Key(req[r].own)}
  /\ End(r)
  /\ UNCHANGED <<engines, registry>>

\* Mutant: the binding goes whether or not a turn is in flight.
MutantTakeForClose(r, c) ==
  /\ At(r, "idle")
  /\ Bound(c)
  /\ leases' = leases \union {Key(binding[c])}
  /\ lru' = SelectSeq(lru, LAMBDA d : d # c)
  /\ binding' = [binding EXCEPT ![c] = NoConv]
  /\ req' = [req EXCEPT ![r] = [Idle EXCEPT !.pc = "deleting", !.own = binding[c]]]
  /\ UNCHANGED <<engines, dropped>>

\* take_for_close: lease and unbind in one critical section; busy refuses.
TakeForClose(r, c) ==
  /\ At(r, "idle")
  /\ Bound(c)
  /\ Key(binding[c]) \notin leases
  /\ leases' = leases \union {Key(binding[c])}
  /\ lru' = SelectSeq(lru, LAMBDA d : d # c)
  /\ binding' = [binding EXCEPT ![c] = NoConv]
  /\ req' = [req EXCEPT ![r] = [Idle EXCEPT !.pc = "deleting", !.own = binding[c]]]
  /\ UNCHANGED <<engines, dropped>>

-----------------------------------------------------------------------------
(* POST /sessions and fork: a session without a lease is inserted. *)

CreateSession(r, m) ==
  /\ At(r, "idle")
  /\ loaded[m]
  /\ OpenIn(m, gen[m])
  /\ req' = [req EXCEPT ![r] = [Idle EXCEPT !.pc = "made", !.model = m, !.gen = gen[m],
                                            !.seen = Opened(m, gen[m])]]
  /\ UNCHANGED <<registry, leases, dropped>>

\* insert under a fresh client id.  A refused session is leased and closed,
\* unless its lease is taken.
Insert(r, c) ==
  /\ At(r, "made")
  /\ ~Bound(c)
  /\ LET conv == req[r].seen IN
     \/ /\ ~Full
        /\ Bind(r, c, conv, Idle, [req[r] EXCEPT !.pc = "evicting"])
     \/ /\ Full
        /\ Key(conv) \notin leases
        /\ leases' = leases \union {Key(conv)}
        /\ req' = [req EXCEPT ![r] = [@ EXCEPT !.pc = "refused", !.own = conv]]
        /\ UNCHANGED registry
     \/ /\ Full
        /\ Key(conv) \in leases
        /\ End(r)
        /\ UNCHANGED <<registry, leases>>
  /\ UNCHANGED <<engines, dropped>>

\* fork_session reads the binding, then leases it as a turn does ...
StartFork(r, c) ==
  /\ At(r, "idle")
  /\ Bound(c)
  /\ Touch(c)
  /\ req' = [req EXCEPT ![r] = [Idle EXCEPT !.pc = "forking", !.seen = binding[c]]]
  /\ UNCHANGED <<engines, binding, leases, dropped>>

ForkAcquire(r) ==
  /\ At(r, "forking")
  /\ \/ /\ Key(req[r].seen) \in leases
        /\ End(r)
        /\ UNCHANGED leases
     \/ /\ Key(req[r].seen) \notin leases
        /\ leases' = leases \union {Key(req[r].seen)}
        /\ req' = [req EXCEPT ![r] = [@ EXCEPT !.pc = "forkleased", !.own = req[r].seen]]
  /\ UNCHANGED <<engines, registry, dropped>>

\* ... and the worker forks it and drops the source's guard.
ForkSession(r) ==
  /\ At(r, "forkleased")
  /\ leases' = leases \ {Key(req[r].own)}
  /\ LET m == req[r].own.model IN
     \/ /\ loaded[m]
        /\ Conv(m, gen[m], req[r].own.id) \in open
        /\ OpenIn(m, gen[m])
        /\ req' = [req EXCEPT ![r] = [Idle EXCEPT !.pc = "made", !.model = m, !.gen = gen[m],
                                                  !.seen = Opened(m, gen[m])]]
     \/ /\ ~loaded[m] \/ Conv(m, gen[m], req[r].own.id) \notin open
        /\ End(r)
        /\ UNCHANGED engines
  /\ UNCHANGED <<registry, dropped>>

-----------------------------------------------------------------------------
Step(r) ==
  \/ Acquire(r) \/ Carry(r) \/ Refuse(r) \/ LookAgain(r) \/ Create(r) \/ LeaseOpened(r)
  \/ Claim(r) \/ Submit(r) \/ EndTurn(r) \/ Close(r) \/ AbandonClose(r)
  \/ \E c \in Clients : Insert(r, c)
  \/ ForkAcquire(r) \/ ForkSession(r)

Next ==
  \/ \E r \in Requests : Step(r)
  \/ \E r \in Requests, c \in Clients, m \in Models : StartTurn(r, c, m)
  \/ \E r \in Requests, c \in Clients : TakeForClose(r, c)
  \/ \E r \in Requests, c \in Clients : StartFork(r, c)
  \/ \E r \in Requests : CreateSession(r, Default)
  \/ \E m \in Models : Unload(m)
  \/ \E m \in Models : \E g \in Loads(m) : StopEngine(m, g)
  \/ \E m \in Models : Load(m)

Spec == Init /\ [][Next]_vars

-----------------------------------------------------------------------------
(* Properties. *)

\* Requests that hold a conversation to work on or to close.
Holds(r) == {c \in {req[r].own, req[r].victim} : c # NoConv}

\* The engine has been seen to hold the session of the turn.
OnSession == {"carried", "running"}

\* A turn whose session the engine was seen to hold, by the carry check or when
\* it started, can rely on it to the end of the turn: the check is not stale
\* after admission, and no close, eviction or lost claim of another request
\* takes the session away, not even through an unload.  A turn that leased its
\* session after admission has no such check and may run without it.
TurnKeepsSession ==
  \A r \in Requests : req[r].pc \in OnSession => Session(req[r]) \in open

\* Every lease is the guard of exactly one request, and every guard is in the
\* map: nothing leaks on any way out and no two requests share a conversation.
LeasesOwned ==
  /\ leases = UNION {{Key(c) : c \in Holds(r)} : r \in Requests}
  /\ \A r, s \in Requests : r # s => {Key(c) : c \in Holds(r)} \intersect {Key(c) : c \in Holds(s)} = {}

\* Until a model is loaded again, its engine holds exactly the sessions that a
\* client can reach or a request still holds: no orphan is left and no client
\* id names a session that is gone.
Reachable ==
  {binding[c] : c \in Clients} \union (UNION {Holds(r) : r \in Requests})
    \union {req[r].seen : r \in {s \in Requests : req[s].pc \in {"created", "made"}}}

EngineMatchesRegistry ==
  \A m \in Models : gen[m] = 1 /\ loaded[m] =>
    /\ \A c \in open : c.model = m => c \in Reachable \union dropped
    /\ \A c \in Clients : binding[c].model = m => binding[c] \in open
    /\ \A c, d \in Clients : c # d /\ binding[c].model = m => binding[c] # binding[d]

\* "The globally unique identity of one conversation": the key a client id is
\* bound to names one conversation.
KeysUnique ==
  \A c, d \in Clients : c # d /\ Bound(c) => Key(binding[c]) # Key(binding[d])

=============================================================================
