------------------------ MODULE ServerSessionsProofs ------------------------
(* Proofs about the server's sessions, for any number of models, clients,   *)
(* requests, sessions and loadings: who owns a lease and what a turn runs   *)
(* on (SessionsInv), then that the registry and the engines agree           *)
(* (RegistryInv).                                                           *)
EXTENDS ServerSessions, TLAPS

\* A conversation of some model.
Real(c) == c.model \in Models

\* The keys whose guards a request in state x holds.
KeysOf(x) == {Key(c) : c \in {d \in {x.own, x.victim} : d # NoConv}}

Unleased == {"idle", "unbound", "bound", "rebound", "creating", "created", "forking", "made"}
Leased == {"carrying", "carried", "leased", "running", "sessionless", "claiming", "lost",
           "refused", "deleting", "forkleased"}

\* What a request holds at each point of its route, and which model it is about.
ReqOK(x) ==
  /\ x \in [pc : {x.pc}, client : {x.client}, model : {x.model}, gen : {x.gen},
             own : {x.own}, seen : {x.seen}, victim : {x.victim}]
  /\ x.pc \in Unleased \cup Leased \cup {"evicting"}
  /\ x.pc \in Unleased => x.own = NoConv
  /\ x.pc \in Leased => Real(x.own)
  /\ x.pc \in Unleased \cup Leased => x.victim = NoConv
  /\ x.pc = "evicting" => /\ Real(x.victim)
                          /\ x.own = NoConv \/ Real(x.own)
                          /\ Key(x.own) # Key(x.victim)
  /\ x.pc \in {"bound", "rebound", "created", "forking", "made", "lost"} => Real(x.seen)
  /\ x.pc \in {"unbound", "creating"} => x.model \in Models
  /\ x.pc \in {"unbound", "creating", "created", "claiming"} => x.client \in Clients
  /\ x.pc \in {"bound", "rebound", "created"} => x.seen.model = x.model
  /\ x.pc \in {"carrying", "carried", "leased", "running", "sessionless", "claiming"} =>
       x.own.model = x.model
  /\ x.pc = "evicting" /\ x.own # NoConv => x.own.model = x.model

\* Bindings name conversations, and every request is well formed.
RequestsOK ==
  /\ binding = [c \in Clients |-> binding[c]]
  /\ \A c \in Clients : binding[c] = NoConv \/ Real(binding[c])
  /\ req = [r \in Requests |-> req[r]]
  /\ \A r \in Requests : ReqOK(req[r])

SessionsInv == RequestsOK /\ LeasesOwned /\ TurnKeepsSession

\* No conversation of a model is NoConv, and the key of NoConv is not theirs.
LEMMA RealIsSome ==
  ASSUME NEW c, Real(c)
  PROVE  c # NoConv /\ Key(c) # Key(NoConv)
  BY SessionsAssumption DEF Real, NoConv, Conv, Key

\* What a request holds, spelt out.
LEMMA KeysOfReq ==
  ASSUME NEW x, ReqOK(x)
  PROVE  /\ x.pc \in Unleased => KeysOf(x) = {}
         /\ x.pc \in Leased => KeysOf(x) = {Key(x.own)}
         /\ x.pc = "evicting" =>
              KeysOf(x) = {Key(x.victim)} \cup
                          (IF x.own = NoConv THEN {} ELSE {Key(x.own)})
  BY RealIsSome DEF ReqOK, KeysOf

\* Leases are the keys of the requests; they are never the key of NoConv.
LEMMA LeasesOfRequests ==
  ASSUME RequestsOK, LeasesOwned
  PROVE  /\ Key(NoConv) \notin leases
         /\ \A k : k \in leases <=> \E r \in Requests : k \in KeysOf(req[r])
         /\ \A r, s \in Requests : r # s => KeysOf(req[r]) \cap KeysOf(req[s]) = {}
<1>1. \A r \in Requests : {Key(c) : c \in Holds(r)} = KeysOf(req[r])
  BY DEF Holds, KeysOf
<1>2. \A k : k \in leases <=> \E r \in Requests : k \in KeysOf(req[r])
  BY <1>1 DEF LeasesOwned
<1>3. \A r \in Requests : Key(NoConv) \notin KeysOf(req[r])
  BY RealIsSome DEF RequestsOK, ReqOK, KeysOf
<1>4. QED
  BY <1>1, <1>2, <1>3, ZenonT(40) DEF LeasesOwned

\* A step of one request, from req[r] to x: the leases that the request gave
\* up are gone, and those it took were free.
Moves(r, x) ==
  /\ ReqOK(x)
  /\ req' = [req EXCEPT ![r] = x]
  /\ leases' = (leases \ KeysOf(req[r])) \cup KeysOf(x)
  /\ KeysOf(x) \cap (leases \ KeysOf(req[r])) = {}

BindingsOK ==
  /\ binding = [c \in Clients |-> binding[c]]
  /\ \A c \in Clients : binding[c] = NoConv \/ Real(binding[c])

LEMMA MovesKeepLeases ==
  ASSUME RequestsOK, LeasesOwned, BindingsOK', NEW r \in Requests, NEW x, Moves(r, x)
  PROVE  RequestsOK' /\ LeasesOwned'
<1>1. /\ req'[r] = x
      /\ \A s \in Requests : s # r => req'[s] = req[s]
      /\ req' = [s \in Requests |-> req'[s]]
  BY DEF Moves, RequestsOK
<1>2. RequestsOK'
  BY <1>1 DEF Moves, RequestsOK, BindingsOK
<1>3. \A s \in Requests : {Key(c) : c \in Holds(s)'} = KeysOf(req'[s])
  BY DEF Holds, KeysOf
<1>4. \A s \in Requests : s # r => KeysOf(x) \cap KeysOf(req[s]) = {}
  BY LeasesOfRequests DEF Moves
<1>5. \A s, q \in Requests : s # q => KeysOf(req'[s]) \cap KeysOf(req'[q]) = {}
  BY <1>1, <1>4, LeasesOfRequests
<1>6. \A k : k \in leases' <=> \E s \in Requests : k \in KeysOf(req'[s])
  BY <1>1, LeasesOfRequests DEF Moves
<1>7. leases' = UNION {KeysOf(req'[s]) : s \in Requests}
  BY <1>6
<1>8. LeasesOwned'
  <2>1. leases' = UNION {{Key(c) : c \in Holds(s)'} : s \in Requests}
    BY <1>3, <1>7
  <2>2. \A s, q \in Requests : s # q =>
          {Key(c) : c \in Holds(s)'} \cap {Key(c) : c \in Holds(q)'} = {}
    BY <1>3, <1>5, Zenon
  <2>3. QED
    BY <2>1, <2>2, Zenon DEF LeasesOwned
<1>9. QED
  BY <1>2, <1>8

\* A request that ends holds nothing.
LEMMA IdleOK == ReqOK(Idle) /\ KeysOf(Idle) = {}
<1>1. ReqOK(Idle)
  BY DEF ReqOK, Idle, Unleased, Leased
<1>2. QED
  BY <1>1, KeysOfReq DEF Idle, Unleased

\* The three ways in which a request moves: it keeps what it holds, ...
LEMMA Keeps ==
  ASSUME RequestsOK, LeasesOwned, NEW r \in Requests, NEW x, ReqOK(x),
         KeysOf(x) = KeysOf(req[r]), req' = [req EXCEPT ![r] = x], leases' = leases
  PROVE  Moves(r, x)
  BY LeasesOfRequests DEF Moves

\* ... takes the lease of a conversation, ...
LEMMA Takes ==
  ASSUME NEW r \in Requests, NEW x, ReqOK(x), NEW k, k \notin leases,
         KeysOf(req[r]) = {}, KeysOf(x) = {k},
         req' = [req EXCEPT ![r] = x], leases' = leases \cup {k}
  PROVE  Moves(r, x)
  BY DEF Moves

\* ... or ends and drops its guards.
LEMMA Ends ==
  ASSUME NEW r \in Requests, End(r), leases' = leases \ KeysOf(req[r])
  PROVE  Moves(r, Idle)
  BY IdleOK DEF Moves, End

\* A move of one request keeps the sessions of turns that stay open.
LEMMA MovesKeepTurns ==
  ASSUME SessionsInv, BindingsOK', NEW r \in Requests, NEW x, Moves(r, x),
         x.pc \in OnSession => Session(x) \in open',
         \A s \in Requests \ {r} : req[s].pc \in OnSession => Session(req[s]) \in open'
  PROVE  SessionsInv'
<1>1. /\ req'[r] = x
      /\ \A s \in Requests : s # r => req'[s] = req[s]
  BY DEF Moves, SessionsInv, RequestsOK
<1>2. TurnKeepsSession'
  BY <1>1 DEF TurnKeepsSession, At
<1>3. QED
  BY <1>2, MovesKeepLeases DEF SessionsInv

\* The same for a step that opens or leaves alone the engines' sessions.
LEMMA Step1 ==
  ASSUME SessionsInv, BindingsOK', NEW r \in Requests, NEW x, Moves(r, x),
         x.pc \notin OnSession, open \subseteq open'
  PROVE  SessionsInv'
  BY MovesKeepTurns DEF SessionsInv, TurnKeepsSession

\* A lease is taken on the conversation that the request has read or opened.
LEMMA TakesSeen ==
  ASSUME SessionsInv, BindingsOK', NEW r \in Requests, NEW p,
         \/ At(r, "bound") /\ p = "carrying"
         \/ At(r, "rebound") /\ p = "leased"
         \/ At(r, "created") /\ p = "claiming"
         \/ At(r, "forking") /\ p = "forkleased"
         \/ At(r, "made") /\ p = "refused",
         Key(req[r].seen) \notin leases,
         leases' = leases \cup {Key(req[r].seen)},
         req' = [req EXCEPT ![r] = [req[r] EXCEPT !.pc = p, !.own = req[r].seen]],
         open' = open
  PROVE  SessionsInv'
<1> DEFINE x == [req[r] EXCEPT !.pc = p, !.own = req[r].seen]
<1>1. ReqOK(req[r]) /\ KeysOf(req[r]) = {}
  BY KeysOfReq DEF SessionsInv, RequestsOK, At, Unleased
<1>2. ReqOK(x) /\ x.pc \in Leased \ OnSession /\ x.own = req[r].seen
  BY <1>1, ZenonT(40) DEF ReqOK, At, Unleased, Leased, OnSession
<1>3. req' = [req EXCEPT ![r] = x]
  OBVIOUS
<1> HIDE DEF x
<1>4. KeysOf(x) = {Key(req[r].seen)}
  BY <1>2, KeysOfReq
<1>5. Moves(r, x)
  BY <1>1, <1>2, <1>3, <1>4, Takes, ZenonT(40)
<1>6. QED
  BY <1>2, <1>5, Step1

\* A request ends and drops the guards it holds.
LEMMA EndStep ==
  ASSUME SessionsInv, BindingsOK', NEW r \in Requests, End(r),
         leases' = leases \ KeysOf(req[r]), open' = open
  PROVE  SessionsInv'
  BY Ends, Step1 DEF Idle, OnSession

\* acquire, with the binding that was read or the session that was opened.
LEMMA AcquireStep ==
  ASSUME SessionsInv, NEW r \in Requests, Acquire(r) \/ LeaseOpened(r) \/ ForkAcquire(r)
  PROVE  SessionsInv'
<1>1. /\ ReqOK(req[r]) /\ KeysOf(req[r]) = {}
      /\ BindingsOK' /\ open' = open
  BY KeysOfReq DEF Acquire, LeaseOpened, ForkAcquire, SessionsInv, RequestsOK,
       BindingsOK, registry, engines, At, Unleased
<1>2. CASE Key(req[r].seen) \in leases
  BY <1>1, <1>2, EndStep, SMTT(30) DEF Acquire, LeaseOpened, ForkAcquire
<1>3. CASE Key(req[r].seen) \notin leases
  <2>1. PICK p :
          /\ \/ At(r, "bound") /\ p = "carrying"
             \/ At(r, "rebound") /\ p = "leased"
             \/ At(r, "created") /\ p = "claiming"
             \/ At(r, "forking") /\ p = "forkleased"
          /\ leases' = leases \cup {Key(req[r].seen)}
          /\ req' = [req EXCEPT ![r] = [req[r] EXCEPT !.pc = p, !.own = req[r].seen]]
    BY <1>3, ZenonT(40) DEF Acquire, LeaseOpened, ForkAcquire, At
  <2>2. QED
    BY <1>1, <1>3, <2>1, TakesSeen, ZenonT(40)
<1>4. QED
  BY <1>2, <1>3

\* A request goes on with what it holds.
LEMMA KeepStep ==
  ASSUME SessionsInv, BindingsOK', NEW r \in Requests, NEW x, ReqOK(x),
         x.pc \notin OnSession, KeysOf(x) = KeysOf(req[r]),
         req' = [req EXCEPT ![r] = x], leases' = leases, open \subseteq open'
  PROVE  SessionsInv'
  BY Keeps, Step1, ZenonT(40) DEF SessionsInv

\* The facts about a request before its step.
LEMMA Before ==
  ASSUME SessionsInv, NEW r \in Requests
  PROVE  /\ ReqOK(req[r]) /\ BindingsOK
         /\ req[r].pc \in Unleased => KeysOf(req[r]) = {}
         /\ req[r].pc \in Leased => KeysOf(req[r]) = {Key(req[r].own)}
         /\ KeysOf(req[r]) \subseteq leases
         /\ Key(NoConv) \notin leases
  BY KeysOfReq, LeasesOfRequests DEF SessionsInv, RequestsOK, BindingsOK

\* Nothing that the invariant is about changes.
LEMMA Quiet ==
  ASSUME SessionsInv, UNCHANGED <<binding, leases, req>>,
         \A r \in Requests : req[r].pc \in OnSession => Session(req[r]) \in open'
  PROVE  SessionsInv'
<1>1. RequestsOK' /\ LeasesOwned'
  BY DEF SessionsInv, RequestsOK, LeasesOwned, Holds
<1>2. TurnKeepsSession'
  BY DEF TurnKeepsSession, At
<1>3. QED
  BY <1>1, <1>2 DEF SessionsInv

LEMMA StartTurnStep ==
  ASSUME SessionsInv, NEW r \in Requests, NEW c \in Clients, NEW m \in Models,
         StartTurn(r, c, m)
  PROVE  SessionsInv'
<1> DEFINE x == [Idle EXCEPT !.client = c, !.model = m, !.gen = gen[m],
                   !.pc = IF Bound(c) THEN "bound" ELSE "unbound", !.seen = binding[c]]
<1>1. /\ BindingsOK /\ BindingsOK' /\ KeysOf(req[r]) = {}
      /\ open' = open /\ binding' = binding /\ leases' = leases
  BY Before DEF StartTurn, BindingsOK, registry, engines, At, Unleased
<1>2. CASE binding[c].model \in {m, None}
  <2>1. ReqOK(x) /\ x.pc \in Unleased
    BY <1>1, <1>2, SessionsAssumption, ZenonT(40)
       DEF ReqOK, Idle, Bound, BindingsOK, Real, Unleased, Leased
  <2>2. req' = [req EXCEPT ![r] = x]
    BY <1>2 DEF StartTurn
  <2> HIDE DEF x
  <2>3. KeysOf(x) = {} /\ x.pc \notin OnSession
    BY <2>1, KeysOfReq DEF Unleased, OnSession
  <2>4. QED
    BY <1>1, <2>1, <2>2, <2>3, KeepStep, ZenonT(40)
<1>3. CASE binding[c].model \notin {m, None}
  BY <1>1, <1>3, Quiet DEF StartTurn, SessionsInv, TurnKeepsSession
<1>4. QED
  BY <1>2, <1>3

LEMMA RefuseStep ==
  ASSUME SessionsInv, NEW r \in Requests, Refuse(r) \/ EndTurn(r)
  PROVE  SessionsInv'
<1>1. BindingsOK' /\ open' = open /\ End(r) /\ leases' = leases \ {Key(req[r].own)}
  BY Before, Zenon DEF Refuse, EndTurn, BindingsOK, registry, engines
<1>2. leases \ {Key(req[r].own)} = leases \ KeysOf(req[r])
  BY Before DEF Refuse, EndTurn, At, ReqOK, Leased, Unleased
<1>3. QED
  BY <1>1, <1>2, EndStep

LEMMA LookAgainStep ==
  ASSUME SessionsInv, NEW r \in Requests, LookAgain(r)
  PROVE  SessionsInv'
<1> DEFINE b == binding[req[r].client]
           x == [req[r] EXCEPT !.pc = "rebound", !.seen = b]
           y == [req[r] EXCEPT !.pc = "creating"]
<1>1. /\ ReqOK(req[r]) /\ At(r, "unbound")
      /\ BindingsOK' /\ open' = open /\ leases' = leases
      /\ KeysOf(req[r]) = {}
  BY Before DEF LookAgain, BindingsOK, registry, engines, At, Unleased
<1>2. CASE req' = [req EXCEPT ![r] = x] /\ b.model = req[r].model
  <2>1. ReqOK(x) /\ x.pc \in Unleased
    BY <1>1, <1>2, ZenonT(40) DEF ReqOK, Real, At, Unleased, Leased
  <2> HIDE DEF x
  <2>2. KeysOf(x) = {} /\ x.pc \notin OnSession
    BY <2>1, KeysOfReq DEF Unleased, OnSession
  <2>3. QED
    BY <1>1, <1>2, <2>1, <2>2, KeepStep, ZenonT(40)
<1>3. CASE End(r)
  BY <1>1, <1>3, EndStep
<1>4. CASE req' = [req EXCEPT ![r] = y]
  <2>1. ReqOK(y) /\ y.pc \in Unleased
    BY <1>1, <1>4 DEF ReqOK, At, Unleased, Leased
  <2> HIDE DEF y
  <2>2. KeysOf(y) = {} /\ y.pc \notin OnSession
    BY <2>1, KeysOfReq DEF Unleased, OnSession
  <2>3. QED
    BY <1>1, <1>4, <2>1, <2>2, KeepStep, ZenonT(40)
<1>5. QED
  BY <1>2, <1>3, <1>4 DEF LookAgain

\* The engine opens a session for a request without a lease: for a turn, ...
LEMMA CreateStep ==
  ASSUME SessionsInv, NEW r \in Requests, Create(r)
  PROVE  SessionsInv'
<1> DEFINE x == [req[r] EXCEPT !.pc = "created", !.seen = Opened(req[r].model, req[r].gen)]
<1>1. /\ ReqOK(req[r]) /\ At(r, "creating")
      /\ BindingsOK' /\ open \subseteq open' /\ leases' = leases
      /\ KeysOf(req[r]) = {}
  BY Before DEF Create, OpenIn, BindingsOK, registry, At, Unleased
<1>2. ReqOK(x) /\ x.pc \in Unleased
  BY <1>1, ZenonT(40) DEF ReqOK, Real, Opened, Conv, At, Unleased, Leased
<1>3. req' = [req EXCEPT ![r] = x]
  BY DEF Create
<1> HIDE DEF x
<1>4. KeysOf(x) = {} /\ x.pc \notin OnSession
  BY <1>2, KeysOfReq DEF Unleased, OnSession
<1>5. QED
  BY <1>1, <1>2, <1>3, <1>4, KeepStep, ZenonT(40)

\* ... for POST /sessions and for a fork.
LEMMA MadeStep ==
  ASSUME SessionsInv, BindingsOK', NEW r \in Requests, NEW m \in Models, NEW g, NEW c,
         c.model \in Models, open \subseteq open',
         leases' = leases \ KeysOf(req[r]),
         req' = [req EXCEPT ![r] = [Idle EXCEPT !.pc = "made", !.model = m, !.gen = g,
                                                !.seen = c]]
  PROVE  SessionsInv'
<1> DEFINE x == [Idle EXCEPT !.pc = "made", !.model = m, !.gen = g, !.seen = c]
<1>1. ReqOK(x) /\ x.pc \in Unleased
  BY ZenonT(40) DEF ReqOK, Real, Idle, Unleased, Leased
<1>2. req' = [req EXCEPT ![r] = x]
  OBVIOUS
<1> HIDE DEF x
<1>3. KeysOf(x) = {} /\ x.pc \notin OnSession
  BY <1>1, KeysOfReq DEF Unleased, OnSession
<1>4. Moves(r, x)
  BY <1>1, <1>2, <1>3, ZenonT(40) DEF Moves
<1>5. QED
  BY <1>3, <1>4, Step1

LEMMA CreateSessionStep ==
  ASSUME SessionsInv, NEW r \in Requests, CreateSession(r, Default)
  PROVE  SessionsInv'
<1>1. /\ BindingsOK' /\ open \subseteq open' /\ leases' = leases
      /\ KeysOf(req[r]) = {}
  BY Before DEF CreateSession, OpenIn, BindingsOK, registry, At, Unleased
<1>2. Opened(Default, gen[Default]).model \in Models
  BY SessionsAssumption DEF Opened, Conv
<1>3. QED
  BY <1>1, <1>2, MadeStep, SessionsAssumption, ZenonT(40) DEF CreateSession

LEMMA ForkSessionStep ==
  ASSUME SessionsInv, NEW r \in Requests, ForkSession(r)
  PROVE  SessionsInv'
<1> DEFINE m == req[r].own.model
<1>1. /\ BindingsOK' /\ m \in Models
      /\ leases' = leases \ KeysOf(req[r])
  BY Before, ZenonT(40) DEF ForkSession, BindingsOK, registry, At, Leased, ReqOK, Real
<1>2. CASE End(r) /\ UNCHANGED engines
  BY <1>1, <1>2, EndStep, SMTT(30) DEF engines
<1>3. CASE OpenIn(m, gen[m]) /\
           req' = [req EXCEPT ![r] = [Idle EXCEPT !.pc = "made", !.model = m, !.gen = gen[m],
                                                  !.seen = Opened(m, gen[m])]]
  <2>1. open \subseteq open' /\ Opened(m, gen[m]).model \in Models
    BY <1>1, <1>3, ZenonT(40) DEF OpenIn, Opened, Conv
  <2>2. QED
    BY <1>1, <1>3, <2>1, MadeStep, ZenonT(40)
<1>4. QED
  BY <1>2, <1>3, SMTT(30) DEF ForkSession

LEMMA StartForkStep ==
  ASSUME SessionsInv, NEW r \in Requests, NEW c \in Clients, StartFork(r, c)
  PROVE  SessionsInv'
<1> DEFINE x == [Idle EXCEPT !.pc = "forking", !.seen = binding[c]]
<1>1. /\ BindingsOK /\ BindingsOK' /\ open' = open /\ leases' = leases
      /\ KeysOf(req[r]) = {}
  BY Before DEF StartFork, BindingsOK, engines, At, Unleased
<1>2. ReqOK(x) /\ x.pc \in Unleased
  BY <1>1, ZenonT(40) DEF ReqOK, Idle, StartFork, Bound, BindingsOK, Unleased, Leased
<1>3. req' = [req EXCEPT ![r] = x]
  BY DEF StartFork
<1> HIDE DEF x
<1>4. KeysOf(x) = {} /\ x.pc \notin OnSession
  BY <1>2, KeysOfReq DEF Unleased, OnSession
<1>5. QED
  BY <1>1, <1>2, <1>3, <1>4, KeepStep, ZenonT(40)

LEMMA TakeForCloseStep ==
  ASSUME SessionsInv, NEW r \in Requests, NEW c \in Clients, TakeForClose(r, c)
  PROVE  SessionsInv'
<1> DEFINE x == [Idle EXCEPT !.pc = "deleting", !.own = binding[c]]
<1>1. /\ BindingsOK /\ BindingsOK' /\ open' = open
      /\ KeysOf(req[r]) = {}
  BY Before, ZenonT(40) DEF TakeForClose, BindingsOK, engines, At, Unleased
<1>2. ReqOK(x) /\ x.pc \in Leased \ OnSession /\ x.own = binding[c]
  BY <1>1, ZenonT(40) DEF ReqOK, Idle, TakeForClose, Bound, BindingsOK, Unleased, Leased, OnSession
<1>3. req' = [req EXCEPT ![r] = x]
  BY DEF TakeForClose
<1> HIDE DEF x
<1>4. KeysOf(x) = {Key(binding[c])}
  BY <1>2, KeysOfReq
<1>5. Moves(r, x)
  BY <1>1, <1>2, <1>3, <1>4, Takes, ZenonT(40) DEF TakeForClose
<1>6. QED
  BY <1>1, <1>2, <1>5, Step1

\* Room in the registry: the request is bound; otherwise it has leased a victim
\* that nobody else holds, the conversation it works on included.
LEMMA BindStep ==
  ASSUME SessionsInv, NEW r \in Requests, req[r].pc \in {"claiming", "made"},
         NEW c \in Clients, NEW conv, Real(conv), NEW x, ReqOK(x), x.pc \notin OnSession,
         KeysOf(x) = KeysOf(req[r]), open' = open,
         Bind(r, c, conv, x, [req[r] EXCEPT !.pc = "evicting"])
  PROVE  SessionsInv'
<1>1. ReqOK(req[r]) /\ BindingsOK /\ KeysOf(req[r]) \subseteq leases
  BY Before
<1>2. KeysOf(req[r]) = IF req[r].pc = "made" THEN {} ELSE {Key(req[r].own)}
  BY Before DEF Unleased, Leased
<1>3. CASE Room
  <2>1. BindingsOK'
    BY <1>1, <1>3 DEF Bind, BindingsOK
  <2>2. QED
    BY <1>3, <2>1, KeepStep DEF Bind
<1>4. CASE ~Room
  <2>1. PICK i \in 1..Len(lru) :
          LET v == lru[i] IN
          /\ v \in Victims
          /\ binding' = [binding EXCEPT ![v] = NoConv, ![c] = conv]
          /\ leases' = leases \cup {Key(binding[v])}
          /\ req' = [req EXCEPT ![r] = [[req[r] EXCEPT !.pc = "evicting"]
                                                 EXCEPT !.victim = binding[v]]]
    BY <1>4, ZenonT(40) DEF Bind
  <2> DEFINE b == binding[lru[i]]
             z == [[req[r] EXCEPT !.pc = "evicting"] EXCEPT !.victim = b]
  <2>2. Real(b) /\ Key(b) \notin leases /\ BindingsOK'
    BY <1>1, <2>1, ZenonT(40) DEF Victims, Bound, BindingsOK
  <2>3. Key(req[r].own) # Key(b)
    BY <1>1, <1>2, <2>2, RealIsSome DEF ReqOK, Unleased
  <2>4. /\ ReqOK(z) /\ z.pc = "evicting" /\ z.victim = b /\ z.own = req[r].own
        /\ req[r].own = NoConv <=> req[r].pc = "made"
    BY <1>1, <2>2, <2>3, RealIsSome, ZenonT(40) DEF ReqOK, Unleased, Leased
  <2>5. req' = [req EXCEPT ![r] = z] /\ leases' = leases \cup {Key(b)}
    BY <2>1
  <2> HIDE DEF z, b
  <2>6. KeysOf(z) = {Key(b)} \cup KeysOf(req[r])
    BY <1>2, <2>4, KeysOfReq
  <2>7. Moves(r, z)
    BY <1>1, <2>2, <2>4, <2>5, <2>6 DEF Moves
  <2>8. QED
    BY <2>2, <2>4, <2>7, Step1 DEF OnSession
<1>5. QED
  BY <1>3, <1>4

LEMMA ClaimStep ==
  ASSUME SessionsInv, NEW r \in Requests, Claim(r)
  PROVE  SessionsInv'
<1> DEFINE c == req[r].client
           lost == [req[r] EXCEPT !.pc = "lost", !.seen = binding[c]]
           refused == [req[r] EXCEPT !.pc = "refused"]
           bound == [req[r] EXCEPT !.pc = "leased"]
<1>1. /\ ReqOK(req[r]) /\ BindingsOK /\ At(r, "claiming") /\ open' = open
      /\ KeysOf(req[r]) = {Key(req[r].own)} /\ c \in Clients
  BY Before, Zenon DEF Claim, engines, At, Leased, ReqOK
<1>2. CASE Bound(c)
  <2>1. ReqOK(lost) /\ lost.pc \in Leased \ OnSession /\ lost.own = req[r].own
    BY <1>1, <1>2, ZenonT(40) DEF ReqOK, BindingsOK, Bound, At, Unleased, Leased, OnSession
  <2>2. req' = [req EXCEPT ![r] = lost] /\ leases' = leases /\ BindingsOK'
    BY <1>1, <1>2 DEF Claim, BindingsOK
  <2> HIDE DEF lost
  <2>3. KeysOf(lost) = KeysOf(req[r])
    BY <1>1, <2>1, KeysOfReq
  <2>4. QED
    BY <1>1, <2>1, <2>2, <2>3, KeepStep, ZenonT(40)
<1>3. CASE ~Bound(c) /\ Full
  <2>1. ReqOK(refused) /\ refused.pc \in Leased \ OnSession /\ refused.own = req[r].own
    BY <1>1 DEF ReqOK, At, Unleased, Leased, OnSession
  <2>2. req' = [req EXCEPT ![r] = refused] /\ leases' = leases /\ BindingsOK'
    BY <1>1, <1>3 DEF Claim, BindingsOK, registry
  <2> HIDE DEF refused
  <2>3. KeysOf(refused) = KeysOf(req[r])
    BY <1>1, <2>1, KeysOfReq
  <2>4. QED
    BY <1>1, <2>1, <2>2, <2>3, KeepStep, ZenonT(40)
<1>4. CASE ~Bound(c) /\ ~Full
  <2>1. /\ ReqOK(bound) /\ bound.pc \in Leased \ OnSession /\ bound.own = req[r].own
        /\ Real(req[r].own)
    BY <1>1 DEF ReqOK, At, Unleased, Leased, OnSession
  <2>2. Bind(r, c, req[r].own, bound, [req[r] EXCEPT !.pc = "evicting"])
    BY <1>4 DEF Claim
  <2> HIDE DEF bound
  <2>3. KeysOf(bound) = KeysOf(req[r])
    BY <1>1, <2>1, KeysOfReq
  <2>4. QED
    BY <1>1, <2>1, <2>2, <2>3, BindStep DEF At
<1>5. QED
  BY <1>2, <1>3, <1>4, SMTT(30)

LEMMA InsertStep ==
  ASSUME SessionsInv, NEW r \in Requests, NEW c \in Clients, Insert(r, c)
  PROVE  SessionsInv'
<1>1. /\ ReqOK(req[r]) /\ At(r, "made") /\ open' = open /\ BindingsOK
      /\ KeysOf(req[r]) = {} /\ Real(req[r].seen)
  BY Before DEF Insert, engines, At, Unleased, ReqOK
<1>2. CASE ~Full
  <2>1. Bind(r, c, req[r].seen, Idle, [req[r] EXCEPT !.pc = "evicting"])
    BY <1>2 DEF Insert
  <2>2. Idle.pc \notin OnSession
    BY SMTT(30) DEF Idle, OnSession
  <2>3. QED
    BY <1>1, <2>1, <2>2, IdleOK, BindStep DEF At
<1>3. CASE Full /\ Key(req[r].seen) \notin leases
  BY <1>1, <1>3, TakesSeen, ZenonT(40) DEF Insert, BindingsOK, registry
<1>4. CASE Full /\ Key(req[r].seen) \in leases
  BY <1>1, <1>4, EndStep DEF Insert, BindingsOK, registry
<1>5. QED
  BY <1>2, <1>3, <1>4, SMTT(30)

\* The carry check and the start of the turn.  The turn goes on with its lease: the
\* engine knows the session (p is carried or running), or runs the turn without it.
LEMMA SubmitStep ==
  ASSUME SessionsInv, NEW r \in Requests, Submit(r) \/ Carry(r)
  PROVE  SessionsInv'
<1>1. /\ req[r].pc \in {"carrying", "carried", "leased"} /\ open' = open /\ BindingsOK'
      /\ ReqOK(req[r]) /\ KeysOf(req[r]) = {Key(req[r].own)}
  BY Before DEF Submit, Carry, engines, registry, BindingsOK, At, Leased
<1>2. CASE End(r) /\ leases' = leases \ {Key(req[r].own)}
  BY <1>1, <1>2, EndStep
<1>3. ASSUME NEW p \in OnSession \cup {"sessionless"},
             p \in OnSession => Session(req[r]) \in open, leases' = leases,
             req' = [req EXCEPT ![r] = [req[r] EXCEPT !.pc = p]]
      PROVE  SessionsInv'
  <2> DEFINE x == [req[r] EXCEPT !.pc = p]
  <2>1. /\ ReqOK(x) /\ x.pc = p /\ x.pc \in Leased /\ x.own = req[r].own
        /\ Session(x) = Session(req[r])
    BY <1>1, <1>3, ZenonT(40) DEF ReqOK, Unleased, Leased, OnSession, Session
  <2>2. req' = [req EXCEPT ![r] = x]
    BY <1>3
  <2> HIDE DEF x
  <2>3. KeysOf(x) = KeysOf(req[r])
    BY <1>1, <2>1, KeysOfReq
  <2>4. Moves(r, x)
    BY <1>3, <2>1, <2>2, <2>3, Keeps, ZenonT(40) DEF SessionsInv
  <2>5. x.pc \in OnSession => Session(x) \in open'
    BY <1>1, <1>3, <2>1, Zenon
  <2>6. QED
    BY <1>1, <2>4, <2>5, MovesKeepTurns DEF SessionsInv, TurnKeepsSession
<1>4. CASE Carry(r)
  BY <1>2, <1>3, <1>4, Zenon DEF Carry, OnSession
<1>5. CASE Submit(r)
  BY <1>2, <1>3, <1>5, Zenon DEF Submit, OnSession
<1>6. QED
  BY <1>4, <1>5

\* What a closing request holds: the lease of what it closes and its own.
LEMMA ClosingHolds ==
  ASSUME SessionsInv, NEW r \in Requests,
         req[r].pc \in {"lost", "refused", "evicting", "deleting"}
  PROVE  /\ KeysOf(req[r]) = {Key(Closing(r))} \cup
                              (IF req[r].own = NoConv THEN {} ELSE {Key(req[r].own)})
         /\ Key(NoConv) \notin leases
         /\ Key(Target(r)) = Key(Closing(r))
<1>1. Key(Target(r)) = Key(Closing(r))
  BY DEF Target, Key, Conv
<1>2. ReqOK(req[r])
  BY Before
<1>3. CASE At(r, "evicting")
  BY <1>1, <1>2, <1>3, KeysOfReq, Before DEF Closing, At
<1>4. CASE ~At(r, "evicting")
  <2>1. KeysOf(req[r]) = {Key(req[r].own)} /\ Closing(r) = req[r].own
    BY <1>4, Before DEF At, Closing, Leased
  <2>2. QED
    BY <1>1, <2>1, Before
<1>5. QED
  BY <1>3, <1>4

\* A turn of another request is on another conversation.
LEMMA CloseSpares ==
  ASSUME SessionsInv, NEW r \in Requests, NEW s \in Requests, s # r,
         req[r].pc \in {"lost", "refused", "evicting", "deleting"}, req[s].pc \in OnSession
  PROVE  Session(req[s]) # Target(r)
<1>1. Key(Target(r)) \in KeysOf(req[r])
  BY ClosingHolds
<1>2. ReqOK(req[s]) /\ KeysOf(req[s]) = {Key(req[s].own)}
  BY Before DEF Leased, OnSession
<1>3. Key(Session(req[s])) = Key(req[s].own)
  BY <1>2 DEF ReqOK, OnSession, Session, Key, Conv
<1>4. KeysOf(req[r]) \cap KeysOf(req[s]) = {}
  BY LeasesOfRequests DEF SessionsInv
<1>5. QED
  BY <1>1, <1>2, <1>3, <1>4

LEMMA AbandonCloseStep ==
  ASSUME SessionsInv, NEW r \in Requests, AbandonClose(r)
  PROVE  SessionsInv'
<1>1. /\ leases' = leases \ {Key(Closing(r)), Key(req[r].own)} /\ open' = open
      /\ BindingsOK' /\ End(r)
  BY Before DEF AbandonClose, engines, registry, BindingsOK
<1>2. leases' = leases \ KeysOf(req[r])
  BY <1>1, ClosingHolds, SMTT(30) DEF AbandonClose
<1>3. QED
  BY <1>1, <1>2, EndStep, SMTT(30)

\* A close gives up the lease of what it closed, and every lease when the
\* request ends with it; the conversation was its alone.
LEMMA CloseStep ==
  ASSUME SessionsInv, NEW r \in Requests, Close(r)
  PROVE  SessionsInv'
<1> DEFINE bound == [req[r] EXCEPT !.pc = "rebound", !.own = NoConv]
           leased == [req[r] EXCEPT !.pc = "leased", !.victim = NoConv]
<1>1. /\ ReqOK(req[r]) /\ BindingsOK'
      /\ req[r].pc \in {"lost", "refused", "evicting", "deleting"}
      /\ leases' = leases \ Dropped(r)
  BY Before DEF Close, BindingsOK, registry
<1>2. \A s \in Requests \ {r} : req[s].pc \in OnSession => Session(req[s]) \in open'
  BY <1>1, CloseSpares, SMTT(30) DEF Close, SessionsInv, TurnKeepsSession
<1>3. CASE AfterClose(r) = Idle
  <2>1. Dropped(r) = {Key(Closing(r)), Key(req[r].own)}
    BY <1>3 DEF Dropped
  <2>2. leases' = leases \ KeysOf(req[r])
    BY <1>1, <2>1, ClosingHolds, SMTT(30)
  <2>3. End(r)
    BY <1>3 DEF Close, End
  <2>4. Moves(r, Idle)
    BY <2>2, <2>3, Ends, SMTT(30)
  <2>5. QED
    BY <1>1, <1>2, <2>4, MovesKeepTurns, SMTT(30) DEF Idle, OnSession
<1>4. CASE AfterClose(r) # Idle /\ At(r, "lost") /\ AfterClose(r) = bound
                /\ req[r].seen.model = req[r].model
  <2>1. ReqOK(bound) /\ bound.pc = "rebound"
    BY <1>1, <1>4, ZenonT(40) DEF ReqOK, At, Unleased, Leased
  <2>2. req' = [req EXCEPT ![r] = bound]
    BY <1>4 DEF Close
  <2>3. KeysOf(req[r]) = {Key(req[r].own)} /\ Dropped(r) = {Key(req[r].own)}
    BY <1>4, Before DEF At, Leased, Dropped, Closing
  <2> HIDE DEF bound
  <2>4. KeysOf(bound) = {}
    BY <2>1, KeysOfReq DEF Unleased
  <2>5. Moves(r, bound)
    BY <1>1, <2>1, <2>2, <2>3, <2>4 DEF Moves
  <2>6. QED
    BY <1>1, <1>2, <2>1, <2>5, MovesKeepTurns, SMTT(30) DEF OnSession
<1>5. CASE AfterClose(r) # Idle /\ At(r, "evicting") /\ req[r].own # NoConv
                /\ AfterClose(r) = leased
  <2>1. ReqOK(leased) /\ leased.pc = "leased" /\ leased.own = req[r].own
    BY <1>1, <1>5, ZenonT(40) DEF ReqOK, At, Unleased, Leased
  <2>2. req' = [req EXCEPT ![r] = leased]
    BY <1>5 DEF Close
  <2>3. /\ KeysOf(req[r]) = {Key(req[r].victim), Key(req[r].own)}
        /\ Dropped(r) = {Key(req[r].victim)} /\ Key(req[r].own) # Key(req[r].victim)
        /\ KeysOf(req[r]) \subseteq leases
    BY <1>1, <1>5, Before, KeysOfReq DEF At, Dropped, Closing, ReqOK
  <2> HIDE DEF leased
  <2>4. KeysOf(leased) = {Key(req[r].own)}
    BY <2>1, KeysOfReq, SMTT(30) DEF Leased
  <2>5. Moves(r, leased)
    BY <1>1, <2>1, <2>2, <2>3, <2>4, SMTT(30) DEF Moves
  <2>6. QED
    BY <1>1, <1>2, <2>1, <2>5, MovesKeepTurns DEF OnSession
<1>6. QED
  BY <1>3, <1>4, <1>5, SMTT(30) DEF AfterClose, At

\* The session of a turn belongs to an engine its request holds.
LEMMA RunningHolds ==
  ASSUME SessionsInv, NEW r \in Requests, req[r].pc \in OnSession
  PROVE  /\ Session(req[r]) \in open
         /\ Session(req[r]).model = req[r].model /\ Session(req[r]).gen = req[r].gen
  BY SMTT(30) DEF SessionsInv, TurnKeepsSession, Session, Conv

\* The model registry lets go of engines; one with a turn is held.
LEMMA EngineStep ==
  ASSUME SessionsInv, NEW m \in Models, Unload(m) \/ Load(m) \/ \E g \in Loads(m) : StopEngine(m, g)
  PROVE  SessionsInv'
<1>1. UNCHANGED <<binding, leases, req>>
  BY DEF Unload, Load, StopEngine, registry
<1>2. ASSUME NEW r \in Requests, req[r].pc \in OnSession
      PROVE  Session(req[r]) \in open'
  <2>1. /\ Session(req[r]) \in open
        /\ Session(req[r]).model = req[r].model /\ Session(req[r]).gen = req[r].gen
    BY <1>2, RunningHolds
  <2>2. ASSUME NEW out, Release(out)
        PROVE  Session(req[r]) \in open'
    <3>1. \A n \in out : ~Held(n) => Session(req[r]) \notin Sessions(n, gen[n])
      BY <2>1 DEF Held, Sessions
    <3>2. QED
      BY <2>1, <2>2, <3>1, SMTT(30) DEF Release
  <2>3. ASSUME NEW g \in Loads(m), StopEngine(m, g)
        PROVE  Session(req[r]) \in open'
    BY <2>1, <2>3 DEF StopEngine, Sessions
  <2>4. CASE Unload(m)
    BY <2>2, <2>4, Zenon DEF Unload
  <2>5. CASE Load(m)
    BY <2>2, <2>5 DEF Load
  <2>6. QED
    BY <2>3, <2>4, <2>5, SMTT(30)
<1>3. QED
  BY <1>1, <1>2, Quiet, SMTT(30)

LEMMA InitSessions == Init => SessionsInv
<1> SUFFICES ASSUME Init PROVE SessionsInv
  OBVIOUS
<1>1. RequestsOK
  BY IdleOK DEF Init, RequestsOK
<1>2. \A r \in Requests : Holds(r) = {} /\ req[r].pc \notin OnSession
  BY DEF Init, Holds, Idle, OnSession
<1>3. QED
  BY <1>1, <1>2 DEF SessionsInv, Init, LeasesOwned, TurnKeepsSession

LEMMA StepSessions == SessionsInv /\ [Next]_vars => SessionsInv'
<1> SUFFICES ASSUME SessionsInv, [Next]_vars PROVE SessionsInv'
  OBVIOUS
<1>1. ASSUME NEW r \in Requests, Step(r) PROVE SessionsInv'
  BY <1>1, AcquireStep, RefuseStep, LookAgainStep, CreateStep, ClaimStep, SubmitStep,
     CloseStep, AbandonCloseStep, InsertStep, ForkSessionStep DEF Step
<1>2. ASSUME NEW r \in Requests, NEW c \in Clients,
             TakeForClose(r, c) \/ StartFork(r, c) \/ \E m \in Models : StartTurn(r, c, m)
      PROVE  SessionsInv'
  BY <1>2, TakeForCloseStep, StartForkStep, StartTurnStep, SMTT(30)
<1>3. CASE UNCHANGED vars
  BY <1>3, Quiet DEF vars, SessionsInv, TurnKeepsSession
<1>4. QED
  BY <1>1, <1>2, <1>3, CreateSessionStep, EngineStep DEF Next

\* Every lease in SessionLeases is the guard of exactly one request, for any
\* number of requests, clients, sessions and reloads: acquire, claim, insert,
\* take_for_close and the closes never leak a guard or give one out twice.
THEOREM LeasesHaveOneOwner == Spec => []LeasesOwned
<1>1. SessionsInv => LeasesOwned
  BY DEF SessionsInv
<1>2. QED
  BY InitSessions, StepSessions, <1>1, PTL DEF Spec

\* From the carry check that found it, or from the start of the turn, the session
\* stays in its engine to the end of the turn, whatever other requests evict or
\* close and whichever models are unloaded or loaded again.
THEOREM TurnsKeepTheirSessions == Spec => []TurnKeepsSession
<1>1. SessionsInv => TurnKeepsSession
  BY DEF SessionsInv
<1>2. QED
  BY InitSessions, StepSessions, <1>1, PTL DEF Spec

-----------------------------------------------------------------------------
(* The first loading of an engine: EngineMatchesRegistry.                   *)

\* The conversation is of a model's first loading, which is still in place.
Live(c) == c.model \in Models /\ gen[c.model] = 1 /\ loaded[c.model]

Bindings == {binding[c] : c \in Clients}

\* It has opened its conversation and nobody else knows of it.
Fresh(x) == x.pc \in {"created", "made"}

\* What a request holds or has opened, and all that it has read.
Mine(x) == {x.own, x.victim} \cup (IF Fresh(x) THEN {x.seen} ELSE {})
Named(x) ==
  {x.own, x.victim} \cup (IF Fresh(x) \/ x.pc \in {"bound", "rebound", "forking", "lost"} THEN {x.seen} ELSE {})

\* The conversation that is off the registry, to be published or closed ...
Off(x) ==
  IF x.pc = "evicting" THEN {x.victim}
  ELSE IF x.pc \in {"claiming", "lost", "refused", "deleting"} THEN {x.own} ELSE {}

\* ... and the one it works on under its client id.
Turning == {"carrying", "carried", "leased", "running", "sessionless", "forkleased"}
Kept(x) == IF x.pc \in Turning \cup {"evicting"} THEN {x.own} ELSE {}

\* A conversation that some engine has opened.
Numbered(c) ==
  /\ c = Conv(c.model, c.gen, c.id)
  /\ c.model \in Models
  /\ c.gen \in 1..gen[c.model]
  /\ c.id \in 1..next[c.model][c.gen]

\* Loadings and sessions are counted, and what anyone names has been opened.
Counters ==
  /\ gen \in [Models -> Nat] /\ loaded \in [Models -> BOOLEAN]
  /\ next = [m \in Models |-> next[m]]
  /\ \A m \in Models : /\ next[m] \in [Loads(m) -> Nat]
                       /\ gen[m] <= MaxLoads[m] /\ (loaded[m] => gen[m] > 0)

Counted ==
  /\ \A c \in open : Numbered(c)
  /\ \A c \in Bindings : c = NoConv \/ Numbered(c)
  /\ \A r \in Requests : \A c \in Named(req[r]) : c = NoConv \/ Numbered(c)
  /\ \A r \in Requests : req[r].pc \in {"unbound", "creating"} =>
                           req[r].gen \in 1..gen[req[r].model]

\* What a request relies on when the engines hold the sessions o, the registry
\* has the bindings b and the closes of the sessions d were never sent: what is
\* off the registry is not bound, a session to be published is there, and one
\* under a client id is bound unless its close was lost.
Upheld(x, o, b, d) ==
  /\ \A c \in Off(x) : Live(c) => c \notin b
  /\ x.pc = "claiming" /\ Live(x.own) => x.own \in o
  /\ \A c \in Kept(x) : Live(c) /\ c \in o => c \in b \cup d
  /\ Fresh(x) /\ Live(x.seen) => x.seen \in o /\ x.seen \notin b

\* The clauses of EngineMatchesRegistry.
Matched ==
  /\ \A c \in open : Live(c) => c \in Bindings \cup dropped \/ \E r \in Requests : c \in Mine(req[r])
  /\ \A c \in Bindings : Live(c) => c \in open
  /\ \A c, d \in Clients : c # d /\ Live(binding[c]) => binding[c] # binding[d]

RegistryInv ==
  /\ Counters
  /\ Counted
  /\ Matched
  /\ \A r \in Requests : Upheld(req[r], open, Bindings, dropped)
  /\ \A r, s \in Requests : r # s /\ Fresh(req[r]) /\ Live(req[r].seen) =>
                              req[r].seen \notin Named(req[s])

LEMMA DeadNoConv == ~Live(NoConv)
  BY SessionsAssumption DEF Live, NoConv, Conv

\* Within the first loading a key names one conversation.
LEMMA SameKey ==
  ASSUME NEW c, NEW d, Numbered(c), Numbered(d), Live(c), Key(c) = Key(d)
  PROVE  c = d
<1>1. c.model = d.model /\ c.id = d.id /\ c.gen = 1 /\ d.gen = 1
  BY DEF Numbered, Live, Key
<1>2. QED
  BY <1>1 DEF Numbered

\* What a request holds or has opened is its alone.
LEMMA Apart ==
  ASSUME SessionsInv, RegistryInv, NEW r \in Requests, NEW s \in Requests, r # s,
         NEW c \in Mine(req[r]), Live(c)
  PROVE  c \notin Mine(req[s])
<1> SUFFICES ASSUME c \in Mine(req[s]) PROVE FALSE
  OBVIOUS
<1>1. c # NoConv /\ c \in Named(req[r]) /\ c \in Named(req[s])
  BY DeadNoConv DEF Mine, Named
<1>2. ~(Fresh(req[r]) /\ c = req[r].seen) /\ ~(Fresh(req[s]) /\ c = req[s].seen)
  BY <1>1 DEF RegistryInv
<1>3. Key(c) \in KeysOf(req[r]) /\ Key(c) \in KeysOf(req[s])
  BY <1>1, <1>2 DEF Mine, KeysOf
<1>4. QED
  BY <1>3, LeasesOfRequests DEF SessionsInv

\* A conversation without a lease is nobody's, unless it was just opened.
LEMMA Unleasing ==
  ASSUME SessionsInv, NEW c, Live(c), Key(c) \notin leases, NEW s \in Requests, c \in Mine(req[s])
  PROVE  Fresh(req[s]) /\ c = req[s].seen
<1>1. c # NoConv
  BY DeadNoConv
<1>2. c \notin {req[s].own, req[s].victim}
  BY <1>1, LeasesOfRequests DEF SessionsInv, KeysOf
<1>3. QED
  BY <1>2 DEF Mine

\* A step of one request, from req[r] to x, as the registry and the engines see
\* it: bindings that go are handed to the request, new ones were its own, and
\* what it lets go of is closed, bound or dropped.
Hands(r, x) ==
  /\ req' = [req EXCEPT ![r] = x] /\ UNCHANGED <<gen, loaded, next>>
  /\ ~Fresh(x) /\ Upheld(x, open', Bindings', dropped')
  /\ x.pc \in {"unbound", "creating"} => x.gen \in 1..gen[x.model]
  /\ Named(x) \subseteq Named(req[r]) \cup Bindings \cup {NoConv}
  /\ Bindings' \subseteq Bindings \cup Mine(req[r]) \cup {NoConv}
  /\ \A c, d \in Clients : c # d /\ Live(binding'[c]) => binding'[c] # binding'[d]
  /\ \A b \in Bindings' : Live(b) => b \in open'
  /\ \A b \in Bindings \ Bindings' :
       Live(b) => b \in Mine(x) /\ \A s \in Requests \ {r} : b \notin Mine(req[s])
  /\ open' \subseteq open /\ \A c \in open \ open' : Live(c) => c \in Mine(req[r])
  /\ dropped \subseteq dropped'
  /\ \A c \in Mine(req[r]) : Live(c) /\ c \in open' => c \in Mine(x) \cup Bindings' \cup dropped'

LEMMA HandsKeep ==
  ASSUME SessionsInv, RegistryInv, NEW r \in Requests, NEW x, Hands(r, x)
  PROVE  RegistryInv'
<1>1. /\ req'[r] = x
      /\ \A s \in Requests \ {r} : req'[s] = req[s]
  BY Zenon DEF Hands, SessionsInv, RequestsOK
<1>2. /\ \A c : Live(c)' <=> Live(c)
      /\ \A c : Numbered(c)' <=> Numbered(c)
  BY DEF Hands, Live, Numbered
<1>3. Counters'
  BY DEF Hands, RegistryInv, Counters
<1>4. \A s \in Requests : Mine(req[s]) \subseteq Named(req[s])
  BY DEF Mine, Named
<1>5. Counted'
  <2>1. \A c \in open' : Numbered(c)'
    BY <1>2, Zenon DEF Hands, RegistryInv, Counted
  <2>2. \A c \in Bindings' : c = NoConv \/ Numbered(c)'
    BY <1>2, <1>4, Zenon DEF Hands, RegistryInv, Counted
  <2>3. \A s \in Requests : \A c \in Named(req'[s]) : c = NoConv \/ Numbered(c)'
    BY <1>1, <1>2, Zenon DEF Hands, RegistryInv, Counted
  <2>4. \A s \in Requests : req'[s].pc \in {"unbound", "creating"} =>
                              req'[s].gen \in 1..gen'[req'[s].model]
    BY <1>1, ZenonT(30) DEF Hands, RegistryInv, Counted
  <2>5. QED
    BY <2>1, <2>2, <2>3, <2>4, Zenon DEF Counted, Named, Fresh
<1>6. Matched'
  <2>1. \A c \in open' : Live(c) =>
          c \in Bindings' \cup dropped' \/ \E s \in Requests : c \in Mine(req'[s])
    <3> SUFFICES ASSUME NEW c \in open', Live(c)
                 PROVE  c \in Bindings' \cup dropped' \/ \E s \in Requests : c \in Mine(req'[s])
      BY Zenon
    <3>1. c \in Bindings \cup dropped \/ \E s \in Requests : c \in Mine(req[s])
      BY Zenon DEF Hands, RegistryInv, Matched
    <3>2. CASE c \in Bindings \cup dropped
      BY <1>1, <3>2, Zenon DEF Hands
    <3>3. ASSUME NEW s \in Requests, c \in Mine(req[s])
          PROVE  c \in Bindings' \cup dropped' \/ \E q \in Requests : c \in Mine(req'[q])
      BY <1>1, <3>3, Zenon DEF Hands
    <3>4. QED
      BY <3>1, <3>2, <3>3
  <2>2. QED
    BY <1>2, <2>1 DEF Hands, Matched, Mine, Fresh
<1>7. ASSUME NEW s \in Requests \ {r}
      PROVE  Upheld(req[s], open', Bindings', dropped')
  <2>1. Upheld(req[s], open, Bindings, dropped)
    BY Zenon DEF RegistryInv
  <2>2. /\ Off(req[s]) \cup Kept(req[s]) \subseteq Mine(req[s])
        /\ req[s].own \in Mine(req[s])
        /\ Fresh(req[s]) => req[s].seen \in Mine(req[s])
    BY Zenon DEF Off, Kept, Turning, Mine
  <2>3. \A c \in Mine(req[s]) : Live(c) =>
          /\ c \in Bindings' <=> c \in Bindings
          /\ c \in open' <=> c \in open
    BY Apart, DeadNoConv, Zenon DEF Hands
  <2>4. QED
    BY <2>1, <2>2, <2>3 DEF Upheld, Hands
<1>8. \A s \in Requests : Upheld(req'[s], open', Bindings', dropped')
  BY <1>1, <1>7 DEF Hands
<1>9. \A s, q \in Requests : s # q /\ Fresh(req'[s]) /\ Live(req'[s].seen) =>
                               req'[s].seen \notin Named(req'[q])
  <2> SUFFICES ASSUME NEW s \in Requests, NEW q \in Requests, s # q,
                      Fresh(req'[s]), Live(req'[s].seen)
               PROVE  req'[s].seen \notin Named(req'[q])
    BY Zenon
  <2>1. s # r /\ req'[s] = req[s]
    BY <1>1, Zenon DEF Hands
  <2>2. CASE q # r
    BY <1>1, <2>1, <2>2, Zenon DEF RegistryInv
  <2>3. CASE q = r
    <3>1. req[s].seen \notin Named(req[r]) /\ req[s].seen # NoConv
      BY <2>1, DeadNoConv, Zenon DEF RegistryInv
    <3>2. req[s].seen \notin Bindings
      BY <2>1, ZenonT(30) DEF RegistryInv, Upheld
    <3>3. QED
      BY <1>1, <2>1, <2>3, <3>1, <3>2, Zenon DEF Hands
  <2>4. QED
    BY <2>2, <2>3
<1>10. /\ \A s \in Requests : Upheld(req[s], open, Bindings, dropped)'
       /\ \A s, q \in Requests : s # q /\ Fresh(req[s])' /\ Live(req[s].seen)' =>
                                   req'[s].seen \notin Named(req[q])'
  BY <1>2, <1>8, <1>9 DEF Upheld, Off, Kept, Turning, Fresh, Named
<1>11. QED
  BY <1>3, <1>5, <1>6, <1>10 DEF RegistryInv

\* The registry and the engines stay as they are.
Walks(r, x) ==
  /\ req' = [req EXCEPT ![r] = x] /\ UNCHANGED <<gen, loaded, next, open, binding>>
  /\ dropped \subseteq dropped'
  /\ ~Fresh(x) /\ Upheld(x, open, Bindings, dropped')
  /\ x.pc \in {"unbound", "creating"} => x.gen \in 1..gen[x.model]
  /\ Named(x) \subseteq Named(req[r]) \cup Bindings \cup {NoConv}
  /\ \A c \in Mine(req[r]) : Live(c) /\ c \in open => c \in Mine(x) \cup Bindings \cup dropped'

LEMMA WalksKeep ==
  ASSUME SessionsInv, RegistryInv, NEW r \in Requests, NEW x, Walks(r, x)
  PROVE  RegistryInv'
<1>1. Bindings' = Bindings
  BY Zenon DEF Walks, Bindings
<1>2. Hands(r, x)
  BY <1>1 DEF Walks, Hands, RegistryInv, Matched
<1>3. QED
  BY <1>2, HandsKeep, Zenon

\* The request ends with conversations that are bound, dropped or closed.
LEMMA EndsKeep ==
  ASSUME SessionsInv, RegistryInv, NEW r \in Requests, End(r),
         UNCHANGED <<gen, loaded, next, open, binding>>, dropped \subseteq dropped',
         \A c \in Mine(req[r]) : Live(c) /\ c \in open => c \in Bindings \cup dropped'
  PROVE  RegistryInv'
<1>1. /\ Named(Idle) = {NoConv} /\ ~Fresh(Idle) /\ Off(Idle) = {} /\ Kept(Idle) = {}
      /\ Idle.pc = "idle"
  BY Zenon DEF Idle, Named, Fresh, Off, Kept, Turning
<1>2. Walks(r, Idle)
  BY <1>1, Zenon DEF Walks, Upheld, End
<1>3. QED
  BY <1>2, WalksKeep, Zenon

\* What a request may let go of.
LEMMA LetGo ==
  ASSUME SessionsInv, RegistryInv, NEW r \in Requests
  PROVE  /\ req[r].pc \in Unleased /\ ~Fresh(req[r]) => Mine(req[r]) = {NoConv}
         /\ req[r].pc \in Turning =>
              \A c \in Mine(req[r]) : Live(c) /\ c \in open => c \in Bindings \cup dropped
         /\ Fresh(req[r]) => Mine(req[r]) = {NoConv, req[r].seen}
<1>1. ReqOK(req[r])
  BY Before
<1>2. Upheld(req[r], open, Bindings, dropped)
  BY Zenon DEF RegistryInv
<1>3. /\ req[r].pc \in Unleased /\ ~Fresh(req[r]) => Mine(req[r]) = {NoConv}
      /\ Fresh(req[r]) => Mine(req[r]) = {NoConv, req[r].seen}
  BY <1>1, Zenon DEF ReqOK, Mine, Fresh, Unleased
<1>4. ASSUME req[r].pc \in Turning
      PROVE  \A c \in Mine(req[r]) : Live(c) /\ c \in open => c \in Bindings \cup dropped
  <2>1. Mine(req[r]) = {req[r].own, NoConv} /\ Kept(req[r]) = {req[r].own}
    BY <1>1, <1>4, Zenon DEF ReqOK, Mine, Fresh, Kept, Turning, Leased
  <2>2. QED
    BY <1>2, <2>1, DeadNoConv, Zenon DEF Upheld
<1>5. QED
  BY <1>3, <1>4

\* A bound session whose lease is free is in the registry, closed or dropped ...
LEMMA SeenIsBound ==
  ASSUME SessionsInv, RegistryInv, NEW r \in Requests, req[r].pc \in {"bound", "rebound", "forking"},
         Key(req[r].seen) \notin leases, Live(req[r].seen), req[r].seen \in open
  PROVE  req[r].seen \in Bindings \cup dropped
<1> DEFINE c == req[r].seen
<1>1. c \in Named(req[r]) /\ ~Fresh(req[r])
  BY Zenon DEF Named, Fresh
<1>2. ASSUME NEW s \in Requests, c \in Mine(req[s]) PROVE FALSE
  <2>1. Fresh(req[s]) /\ c = req[s].seen
    BY <1>2, Unleasing, Zenon
  <2>2. QED
    BY <1>1, <2>1, Zenon DEF RegistryInv
<1>3. QED
  BY <1>2 DEF RegistryInv, Matched

\* ... and a session that was just opened has a free lease.
LEMMA FreshIsFree ==
  ASSUME SessionsInv, RegistryInv, NEW r \in Requests, Fresh(req[r]), Live(req[r].seen)
  PROVE  Key(req[r].seen) \notin leases
<1> DEFINE c == req[r].seen
<1> SUFFICES ASSUME Key(c) \in leases PROVE FALSE
  OBVIOUS
<1>1. PICK s \in Requests : Key(c) \in KeysOf(req[s])
  BY LeasesOfRequests DEF SessionsInv
<1>2. PICK d \in {req[s].own, req[s].victim} : d # NoConv /\ Key(d) = Key(c)
  BY <1>1, Zenon DEF KeysOf
<1>3. c \in Named(req[r]) /\ d \in Named(req[s]) /\ c # NoConv
  BY DeadNoConv, Zenon DEF Named
<1>4. Numbered(c) /\ Numbered(d)
  BY <1>2, <1>3, Zenon DEF RegistryInv, Counted
<1>5. c = d
  BY <1>2, <1>4, SameKey, ZenonT(30)
<1>6. s # r
  BY <1>2, LetGo, Before DEF Fresh, Unleased, ReqOK
<1>7. QED
  BY <1>3, <1>5, <1>6 DEF RegistryInv

LEMMA AcquireMatches ==
  ASSUME SessionsInv, RegistryInv, NEW r \in Requests, Acquire(r) \/ ForkAcquire(r)
  PROVE  RegistryInv'
<1>1. /\ UNCHANGED <<gen, loaded, next, open, binding, dropped>>
      /\ req[r].pc \in {"bound", "rebound", "forking"}
  BY ZenonT(30) DEF Acquire, ForkAcquire, engines, registry, At
<1>2. Mine(req[r]) = {NoConv} /\ ReqOK(req[r])
  BY <1>1, LetGo, Before DEF Unleased, Fresh
<1>3. CASE Key(req[r].seen) \in leases
  BY <1>1, <1>2, <1>3, EndsKeep, DeadNoConv DEF Acquire, ForkAcquire
<1>4. ASSUME NEW p \in {"carrying", "leased", "forkleased"}, Key(req[r].seen) \notin leases,
             req' = [req EXCEPT ![r] = [req[r] EXCEPT !.pc = p, !.own = req[r].seen]]
      PROVE  RegistryInv'
  <2> DEFINE x == [req[r] EXCEPT !.pc = p, !.own = req[r].seen]
  <2>1. x.pc = p /\ x.own = req[r].seen /\ x.victim = NoConv
    BY <1>1, <1>2 DEF ReqOK, Unleased
  <2>2. req' = [req EXCEPT ![r] = x]
    BY <1>4, Zenon
  <2> HIDE DEF x
  <2>3. /\ ~Fresh(x) /\ Off(x) = {} /\ Kept(x) = {req[r].seen}
        /\ Named(x) = {req[r].seen, NoConv} /\ req[r].seen \in Named(req[r])
    BY <1>1, <2>1 DEF Fresh, Off, Kept, Turning, Named
  <2>4. Upheld(x, open, Bindings, dropped)
    BY <1>1, <1>4, <2>1, <2>3, SeenIsBound, ZenonT(30) DEF Upheld
  <2>5. Walks(r, x)
    BY <1>1, <1>2, <2>1, <2>2, <2>3, <2>4, DeadNoConv DEF Walks
  <2>6. QED
    BY <2>5, WalksKeep
<1>5. QED
  BY <1>3, <1>4, Zenon DEF Acquire, ForkAcquire

LEMMA LeaseOpenedMatches ==
  ASSUME SessionsInv, RegistryInv, NEW r \in Requests, LeaseOpened(r)
  PROVE  RegistryInv'
<1> DEFINE x == [req[r] EXCEPT !.pc = "claiming", !.own = req[r].seen]
<1>1. /\ UNCHANGED <<gen, loaded, next, open, binding, dropped>>
      /\ Fresh(req[r]) /\ req[r].pc = "created" /\ ReqOK(req[r])
      /\ Mine(req[r]) = {NoConv, req[r].seen}
  BY Before, LetGo DEF LeaseOpened, engines, registry, At, Fresh
<1>2. CASE Key(req[r].seen) \in leases
  BY <1>1, <1>2, EndsKeep, FreshIsFree, DeadNoConv DEF LeaseOpened
<1>3. CASE Key(req[r].seen) \notin leases
  <2>1. x.pc = "claiming" /\ x.own = req[r].seen /\ x.victim = NoConv
    BY <1>1 DEF ReqOK, Unleased
  <2>2. req' = [req EXCEPT ![r] = x]
    BY <1>3, Zenon DEF LeaseOpened
  <2> HIDE DEF x
  <2>3. /\ ~Fresh(x) /\ Off(x) = {x.own} /\ Kept(x) = {} /\ x.own \in Mine(x)
        /\ Named(x) = {x.own, NoConv} /\ x.own \in Named(req[r])
    BY <1>1, <2>1, Zenon DEF Fresh, Off, Kept, Turning, Named, Mine
  <2>4. Upheld(x, open, Bindings, dropped)
    BY <1>1, <2>1, <2>3, Zenon DEF Upheld, RegistryInv
  <2>5. Walks(r, x)
    BY <1>1, <2>1, <2>2, <2>3, <2>4, DeadNoConv DEF Walks
  <2>6. QED
    BY <2>5, WalksKeep
<1>4. QED
  BY <1>2, <1>3

LEMMA RefuseMatches ==
  ASSUME SessionsInv, RegistryInv, NEW r \in Requests, Refuse(r) \/ EndTurn(r)
  PROVE  RegistryInv'
<1>1. End(r) /\ UNCHANGED <<gen, loaded, next, open, binding, dropped>>
  BY Zenon DEF Refuse, EndTurn, engines, registry
<1>2. \A c \in Mine(req[r]) : Live(c) /\ c \in open => c \in Bindings \cup dropped
  <2>1. \/ req[r].pc \in Unleased /\ ~Fresh(req[r])
        \/ req[r].pc \in Turning
    BY Zenon DEF Refuse, EndTurn, Unleased, Fresh, Turning
  <2>2. QED
    BY <2>1, LetGo, DeadNoConv, Zenon
<1>3. QED
  BY <1>1, <1>2, EndsKeep, Zenon

\* A request that holds nothing reads a binding, or that there is none.
LEMMA ReadMatches ==
  ASSUME SessionsInv, RegistryInv, NEW r \in Requests, NEW x, Mine(req[r]) = {NoConv},
         UNCHANGED <<gen, loaded, next, open, binding, dropped>>,
         req' = [req EXCEPT ![r] = x], x.own = NoConv, x.victim = NoConv,
         \/ x.pc \in {"bound", "rebound", "forking"} /\ x.seen \in Bindings
         \/ x.pc \in {"unbound", "creating"} /\ x.gen \in 1..gen[x.model]
  PROVE  RegistryInv'
<1>1. ~Fresh(x) /\ Off(x) = {} /\ Kept(x) = {} /\ Named(x) \subseteq {NoConv} \cup Bindings
  BY Zenon DEF Fresh, Off, Kept, Turning, Named
<1>2. Walks(r, x)
  BY <1>1, DeadNoConv DEF Walks, Upheld
<1>3. QED
  BY <1>2, WalksKeep, Zenon

\* Only the recency of the bindings changes.
LEMMA NothingMatches ==
  ASSUME RegistryInv, UNCHANGED <<gen, loaded, next, open, binding, dropped, req>>
  PROVE  RegistryInv'
<1>1. Bindings' = Bindings /\ (\A c : Live(c)' <=> Live(c)) /\ (\A c : Numbered(c)' <=> Numbered(c))
  BY Zenon DEF Bindings, Live, Numbered
<1>2. Counters' /\ Counted'
  BY <1>1, Zenon DEF RegistryInv, Counters, Counted, Named, Fresh
<1>3. Matched'
  BY <1>1, Zenon DEF RegistryInv, Matched, Mine, Fresh
<1>4. \A r \in Requests : Upheld(req[r], open, Bindings, dropped)'
  BY <1>1, Zenon DEF RegistryInv, Upheld, Off, Kept, Turning, Fresh
<1>5. QED
  BY <1>1, <1>2, <1>3, <1>4, Zenon DEF RegistryInv, Fresh, Named

\* The loading of a loaded model.
LEMMA LoadedCounts ==
  ASSUME RegistryInv, NEW m \in Models, loaded[m]
  PROVE  gen[m] \in 1..gen[m] /\ gen[m] \in Loads(m)
<1>1. gen[m] \in Nat /\ gen[m] > 0 /\ gen[m] <= MaxLoads[m]
  BY Zenon DEF RegistryInv, Counters
<1>2. QED
  BY <1>1, SessionsAssumption DEF Loads

LEMMA LookAgainMatches ==
  ASSUME SessionsInv, RegistryInv, NEW r \in Requests, LookAgain(r)
  PROVE  RegistryInv'
<1> DEFINE b == binding[req[r].client]
           x == [req[r] EXCEPT !.pc = "rebound", !.seen = b]
           y == [req[r] EXCEPT !.pc = "creating"]
<1>1. /\ UNCHANGED <<gen, loaded, next, open, binding, dropped>>
      /\ req[r].pc = "unbound" /\ ReqOK(req[r]) /\ Mine(req[r]) = {NoConv}
      /\ req[r].gen \in 1..gen[req[r].model]
  BY Before, LetGo DEF LookAgain, engines, registry, At, Unleased, Fresh, RegistryInv, Counted
<1>2. CASE req' = [req EXCEPT ![r] = x]
  <2>1. x.pc = "rebound" /\ x.seen = b /\ x.own = NoConv /\ x.victim = NoConv /\ b \in Bindings
    BY <1>1 DEF ReqOK, Unleased, Bindings
  <2> HIDE DEF x
  <2>2. QED
    BY <1>1, <1>2, <2>1, ReadMatches, Zenon
<1>3. CASE req' = [req EXCEPT ![r] = y]
  <2>1. /\ y.pc = "creating" /\ y.own = NoConv /\ y.victim = NoConv
        /\ y.gen = req[r].gen /\ y.model = req[r].model
    BY <1>1, ZenonT(30) DEF ReqOK, Unleased
  <2> HIDE DEF y
  <2>2. QED
    BY <1>1, <1>3, <2>1, ReadMatches, Zenon
<1>4. CASE End(r)
  BY <1>1, <1>4, EndsKeep, DeadNoConv
<1>5. QED
  BY <1>2, <1>3, <1>4, Zenon DEF LookAgain

LEMMA StartMatches ==
  ASSUME SessionsInv, RegistryInv, NEW r \in Requests, NEW c \in Clients,
         StartFork(r, c) \/ \E m \in Models : StartTurn(r, c, m)
  PROVE  RegistryInv'
<1>1. /\ UNCHANGED <<gen, loaded, next, open, binding, dropped>>
      /\ Mine(req[r]) = {NoConv}
  BY LetGo, ZenonT(30) DEF StartFork, StartTurn, engines, registry, At, Unleased, Fresh
<1>2. CASE StartFork(r, c)
  <2> DEFINE x == [Idle EXCEPT !.pc = "forking", !.seen = binding[c]]
  <2>1. /\ x.pc = "forking" /\ x.seen \in Bindings /\ x.own = NoConv /\ x.victim = NoConv
        /\ req' = [req EXCEPT ![r] = x]
    BY <1>2, ZenonT(30) DEF StartFork, Idle, Bindings
  <2> HIDE DEF x
  <2>2. QED
    BY <1>1, <2>1, ReadMatches, Zenon
<1>3. ASSUME NEW m \in Models, StartTurn(r, c, m)
      PROVE  RegistryInv'
  <2> DEFINE x == [Idle EXCEPT !.client = c, !.model = m, !.gen = gen[m],
                     !.pc = IF Bound(c) THEN "bound" ELSE "unbound", !.seen = binding[c]]
  <2>1. req' = [req EXCEPT ![r] = x] \/ UNCHANGED req
    BY <1>3, Zenon DEF StartTurn
  <2>2. gen[m] \in 1..gen[m]
    BY <1>3, LoadedCounts, Zenon DEF StartTurn
  <2>3. /\ x.pc \in {"bound", "unbound"} /\ x.own = NoConv /\ x.victim = NoConv
        /\ x.seen \in Bindings /\ x.gen \in 1..gen[x.model]
    BY <2>2 DEF Idle, Bindings
  <2> HIDE DEF x
  <2>4. QED
    BY <1>1, <2>1, <2>3, ReadMatches, NothingMatches
<1>4. QED
  BY <1>2, <1>3

LEMMA SubmitMatches ==
  ASSUME SessionsInv, RegistryInv, NEW r \in Requests, Submit(r) \/ Carry(r)
  PROVE  RegistryInv'
<1>1. /\ UNCHANGED <<gen, loaded, next, open, binding, dropped>>
      /\ req[r].pc \in Turning /\ ReqOK(req[r])
  BY Before, Zenon DEF Submit, Carry, engines, registry, At, Turning
<1>2. \A d \in Mine(req[r]) : Live(d) /\ d \in open => d \in Bindings \cup dropped
  BY <1>1, LetGo, Zenon
<1>3. ASSUME NEW p \in {"carried", "running", "sessionless"},
             req' = [req EXCEPT ![r] = [req[r] EXCEPT !.pc = p]]
      PROVE  RegistryInv'
  <2> DEFINE x == [req[r] EXCEPT !.pc = p]
  <2>1. x.pc = p /\ x.own = req[r].own /\ x.victim = req[r].victim
    BY <1>1, Zenon DEF ReqOK
  <2>2. req' = [req EXCEPT ![r] = x]
    BY <1>3, Zenon
  <2> HIDE DEF x
  <2>3. /\ ~Fresh(x) /\ Off(x) = {} /\ Kept(x) = {req[r].own}
        /\ req[r].own \in Mine(req[r]) /\ Named(x) \subseteq Named(req[r])
    BY <2>1, Zenon DEF Fresh, Off, Kept, Mine, Named, Turning
  <2>4. Walks(r, x)
    BY <1>1, <1>2, <2>1, <2>2, <2>3, Zenon DEF Walks, Upheld
  <2>5. QED
    BY <2>4, WalksKeep
<1>4. CASE End(r)
  BY <1>1, <1>2, <1>4, EndsKeep
<1>5. QED
  BY <1>3, <1>4, Zenon DEF Submit, Carry

\* An engine opens a session that nobody knows of yet.
LEMMA OpeningCounts ==
  ASSUME RegistryInv, NEW m \in Models, NEW g \in 1..gen[m], OpenIn(m, g)
  PROVE  /\ Counters'
         /\ \A c : Numbered(c) => Numbered(c)' /\ c # Opened(m, g)
         /\ \A c : c = Opened(m, g) => Numbered(c)'
         /\ Opened(m, g) # NoConv
<1>1. /\ gen[m] \in Nat /\ MaxLoads[m] \in Nat /\ gen[m] <= MaxLoads[m]
      /\ next[m] \in [Loads(m) -> Nat] /\ next = [n \in Models |-> next[n]]
      /\ \A n \in Models : gen[n] \in Nat /\ gen[n] <= MaxLoads[n] /\ next[n] \in [Loads(n) -> Nat]
  BY SessionsAssumption DEF RegistryInv, Counters
<1>2. g \in Nat /\ g >= 1 /\ g \in Loads(m) /\ next[m][g] \in Nat
  BY <1>1 DEF Loads
<1>3. /\ gen' = gen /\ loaded' = loaded
      /\ next' = [next EXCEPT ![m] = [next[m] EXCEPT ![g] = next[m][g] + 1]]
  BY DEF OpenIn
<1>4. /\ next'[m] = [next[m] EXCEPT ![g] = next[m][g] + 1]
      /\ \A n \in Models \ {m} : next'[n] = next[n]
      /\ next' = [n \in Models |-> next'[n]]
  BY <1>1, <1>3, Zenon
<1>5. next'[m] \in [Loads(m) -> Nat] /\ next'[m][g] = next[m][g] + 1
      /\ \A h \in Loads(m) \ {g} : next'[m][h] = next[m][h]
  BY <1>1, <1>2, <1>4
<1>6. Counters'
  BY <1>1, <1>3, <1>4, <1>5 DEF RegistryInv, Counters, Loads
<1>7. ASSUME NEW c, Numbered(c) PROVE Numbered(c)' /\ c # Opened(m, g)
  <2>1. /\ c = Conv(c.model, c.gen, c.id) /\ c.model \in Models
        /\ c.gen \in 1..gen[c.model] /\ c.id \in 1..next[c.model][c.gen]
    BY <1>7, Zenon DEF Numbered
  <2>2. c.gen \in Loads(c.model) /\ next[c.model][c.gen] \in Nat
    BY <1>1, <2>1, SessionsAssumption DEF Loads
  <2>3. next'[c.model][c.gen] \in {next[c.model][c.gen], next[c.model][c.gen] + 1}
    BY <1>4, <1>5, <2>1, <2>2, Zenon
  <2>4. c.id \in 1..next'[c.model][c.gen]
    BY <2>1, <2>2, <2>3
  <2>5. Numbered(c)'
    BY <1>3, <2>1, <2>4, Zenon DEF Numbered
  <2>6. c # Opened(m, g)
    <3> SUFFICES ASSUME c = Opened(m, g) PROVE FALSE
      BY Zenon
    <3>1. c.model = m /\ c.gen = g /\ c.id = next[m][g] + 1
      BY Zenon DEF Opened, Conv
    <3>2. QED
      BY <1>2, <2>1, <3>1
  <2>7. QED
    BY <2>5, <2>6
<1>8. ASSUME NEW c, c = Opened(m, g) PROVE Numbered(c)'
  <2>1. c.model = m /\ c.gen = g /\ c.id = next[m][g] + 1 /\ c = Conv(m, g, c.id)
    BY <1>8, Zenon DEF Opened, Conv
  <2>2. c.id \in 1..next'[m][g]
    BY <1>2, <1>5, <2>1
  <2>3. QED
    BY <1>3, <2>1, <2>2, Zenon DEF Numbered
<1>9. Opened(m, g) # NoConv
  BY SessionsAssumption, Zenon DEF Opened, NoConv, Conv
<1>10. QED
  BY <1>6, <1>7, <1>8, <1>9, Zenon

LEMMA OpensMatch ==
  ASSUME SessionsInv, RegistryInv, NEW r \in Requests, NEW m \in Models, NEW g \in 1..gen[m],
         OpenIn(m, g), UNCHANGED <<binding, dropped>>,
         NEW x, req' = [req EXCEPT ![r] = x], NEW new, new = Opened(m, g),
         x.pc \in {"created", "made"}, x.own = NoConv, x.victim = NoConv, x.seen = new,
         \A c \in Mine(req[r]) : Live(c) /\ c \in open => c \in Bindings \cup dropped
  PROVE  RegistryInv'
<1>1. /\ req'[r] = x /\ \A s \in Requests \ {r} : req'[s] = req[s]
      /\ open' = open \cup {new} /\ Bindings' = Bindings
      /\ gen' = gen /\ loaded' = loaded
  BY DEF SessionsInv, RequestsOK, OpenIn, Bindings
<1>2. /\ Counters' /\ new # NoConv /\ Numbered(new)'
      /\ \A c : Numbered(c) => Numbered(c)' /\ c # new
  BY OpeningCounts, Zenon
<1>3. \A c : Live(c)' <=> Live(c)
  BY <1>1, Zenon DEF Live
<1>4. /\ new \notin open /\ new \notin Bindings
      /\ \A s \in Requests : new \notin Named(req[s])
  BY <1>2, Zenon DEF RegistryInv, Counted
<1>5. Named(x) = {NoConv, new} /\ Mine(x) = {NoConv, new} /\ Fresh(x) /\ Off(x) = {} /\ Kept(x) = {}
  BY DEF Named, Mine, Fresh, Off, Kept, Turning
<1>6. Counted'
  <2>1. /\ \A c \in open' : Numbered(c)'
        /\ \A c \in Bindings' : c = NoConv \/ Numbered(c)'
    BY <1>1, <1>2 DEF RegistryInv, Counted
  <2>2. \A s \in Requests : \A c \in Named(req'[s]) : c = NoConv \/ Numbered(c)'
    BY <1>1, <1>2, <1>5, Zenon DEF RegistryInv, Counted
  <2>3. \A s \in Requests : req'[s].pc \in {"unbound", "creating"} =>
                              req'[s].gen \in 1..gen'[req'[s].model]
    BY <1>1, Zenon DEF RegistryInv, Counted
  <2>4. QED
    BY <2>1, <2>2, <2>3, ZenonT(30) DEF Counted, Named, Fresh
<1>7. \A c \in open' : Live(c) =>
        c \in Bindings' \cup dropped' \/ \E s \in Requests : c \in Mine(req'[s])
  BY <1>1, <1>5, Zenon DEF RegistryInv, Matched
<1>8. Matched'
  BY <1>1, <1>3, <1>7, ZenonT(30) DEF RegistryInv, Matched, Mine, Fresh
<1>9. \A s \in Requests : Upheld(req'[s], open', Bindings', dropped')
  <2>1. Upheld(x, open', Bindings', dropped')
    BY <1>1, <1>4, <1>5, Zenon DEF Upheld, Fresh
  <2>2. ASSUME NEW s \in Requests \ {r} PROVE Upheld(req[s], open', Bindings', dropped')
    <3>1. new \notin Kept(req[s])
      BY <1>4, Zenon DEF Named, Kept, Turning
    <3>2. QED
      BY <1>1, <3>1, Zenon DEF RegistryInv, Upheld
  <2>3. QED
    BY <1>1, <2>1, <2>2, Zenon
<1>10. \A s, q \in Requests : s # q /\ Fresh(req'[s]) /\ Live(req'[s].seen) =>
                                req'[s].seen \notin Named(req'[q])
  <2> SUFFICES ASSUME NEW s \in Requests, NEW q \in Requests, s # q,
                      Fresh(req'[s]), Live(req'[s].seen)
               PROVE  req'[s].seen \notin Named(req'[q])
    BY Zenon
  <2>1. CASE s = r
    BY <1>1, <1>4, <2>1, Zenon
  <2>2. CASE s # r /\ q = r
    <3>1. req[s].seen \in Named(req[s]) /\ req[s].seen # NoConv
      BY <1>1, <2>2, DeadNoConv, ZenonT(30) DEF Named
    <3>2. QED
      BY <1>1, <1>4, <1>5, <2>2, <3>1, Zenon
  <2>3. CASE s # r /\ q # r
    BY <1>1, <2>3 DEF RegistryInv
  <2>4. QED
    BY <2>1, <2>2, <2>3, Zenon
<1>11. /\ \A s \in Requests : Upheld(req[s], open, Bindings, dropped)'
       /\ \A s, q \in Requests : s # q /\ Fresh(req[s])' /\ Live(req[s].seen)' =>
                                   req'[s].seen \notin Named(req[q])'
  BY <1>3, <1>9, <1>10, ZenonT(30) DEF Upheld, Off, Kept, Turning, Fresh, Named
<1>12. QED
  BY <1>2, <1>6, <1>8, <1>11, Zenon DEF RegistryInv

LEMMA CreateMatches ==
  ASSUME SessionsInv, RegistryInv, NEW r \in Requests, Create(r)
  PROVE  RegistryInv'
<1> DEFINE m == req[r].model
           g == req[r].gen
           x == [req[r] EXCEPT !.pc = "created", !.seen = Opened(m, g)]
<1>1. req[r].pc = "creating" /\ ReqOK(req[r]) /\ Mine(req[r]) = {NoConv}
  BY Before, LetGo DEF Create, At, Unleased, Fresh
<1>2. m \in Models /\ g \in 1..gen[m]
  BY <1>1, Zenon DEF ReqOK, RegistryInv, Counted
<1>3. OpenIn(m, g) /\ UNCHANGED <<binding, dropped>> /\ req' = [req EXCEPT ![r] = x]
  BY DEF Create, registry
<1>4. x.pc = "created" /\ x.own = NoConv /\ x.victim = NoConv /\ x.seen = Opened(m, g)
  BY <1>1 DEF ReqOK, Unleased
<1> HIDE DEF x, m, g
<1>5. QED
  BY <1>1, <1>2, <1>3, <1>4, OpensMatch, DeadNoConv, Zenon

\* POST /sessions, and a fork that drops the guard of its source.
LEMMA MadeMatches ==
  ASSUME SessionsInv, RegistryInv, NEW r \in Requests, CreateSession(r, Default) \/ ForkSession(r)
  PROVE  RegistryInv'
<1> DEFINE m == IF CreateSession(r, Default) THEN Default ELSE req[r].own.model
           g == gen[m]
           x == [Idle EXCEPT !.pc = "made", !.model = m, !.gen = g, !.seen = Opened(m, g)]
<1>1. /\ \A c \in Mine(req[r]) : Live(c) /\ c \in open => c \in Bindings \cup dropped
      /\ UNCHANGED <<binding, dropped>> /\ m \in Models
  <2>1. UNCHANGED <<binding, dropped>> /\ req[r].pc \in {"idle", "forkleased"}
    BY Zenon DEF CreateSession, ForkSession, At, registry
  <2>2. CASE CreateSession(r, Default)
    <3>1. req[r].pc = "idle"
      BY <2>2, Zenon DEF CreateSession, At
    <3>2. req[r].pc \in Unleased /\ ~Fresh(req[r])
      BY <3>1, Zenon DEF Unleased, Fresh
    <3>3. QED
      BY <2>1, <2>2, <3>2, LetGo, DeadNoConv, SessionsAssumption
  <2>3. CASE ~CreateSession(r, Default)
    <3>1. req[r].pc = "forkleased"
      BY <2>3 DEF ForkSession, At
    <3>2. req[r].own.model \in Models
      BY <3>1, Before, Zenon DEF ReqOK, Real, Leased
    <3>3. QED
      BY <2>1, <2>3, <3>1, <3>2, LetGo, Zenon DEF Turning
  <2>4. QED
    BY <2>2, <2>3
<1>2. CASE End(r) /\ UNCHANGED engines
  BY <1>1, <1>2, EndsKeep DEF engines
<1>3. CASE loaded[m] /\ OpenIn(m, g) /\ req' = [req EXCEPT ![r] = x]
  <2>1. x.pc = "made" /\ x.own = NoConv /\ x.victim = NoConv /\ x.seen = Opened(m, g)
    BY Zenon DEF Idle
  <2>2. g \in 1..gen[m]
    BY <1>1, <1>3, LoadedCounts, Zenon
  <2> HIDE DEF x, g, m
  <2>3. QED
    BY <1>1, <1>3, <2>1, <2>2, OpensMatch, ZenonT(30)
<1>4. QED
  BY <1>2, <1>3, Zenon DEF CreateSession, ForkSession

\* A binding without a lease is nobody's conversation.
LEMMA FreeBinding ==
  ASSUME SessionsInv, RegistryInv, NEW c \in Clients, Key(binding[c]) \notin leases,
         Live(binding[c]), NEW s \in Requests
  PROVE  binding[c] \notin Mine(req[s])
<1>1. binding[c] \in Bindings
  BY DEF Bindings
<1>2. QED
  BY <1>1, Unleasing, Zenon DEF RegistryInv, Upheld

LEMMA TakeForCloseMatches ==
  ASSUME SessionsInv, RegistryInv, NEW r \in Requests, NEW c \in Clients, TakeForClose(r, c)
  PROVE  RegistryInv'
<1> DEFINE b == binding[c]
           x == [Idle EXCEPT !.pc = "deleting", !.own = b]
<1>1. /\ UNCHANGED <<gen, loaded, next, open, dropped>> /\ Mine(req[r]) = {NoConv}
      /\ Key(b) \notin leases /\ req' = [req EXCEPT ![r] = x]
      /\ binding' = [binding EXCEPT ![c] = NoConv] /\ b \in Bindings
  BY LetGo DEF TakeForClose, engines, At, Unleased, Fresh, Bindings
<1>2. binding'[c] = NoConv /\ \A d \in Clients \ {c} : binding'[d] = binding[d]
  BY <1>1 DEF SessionsInv, RequestsOK
<1>3. x.pc = "deleting" /\ x.own = b /\ x.victim = NoConv
  BY Zenon DEF Idle
<1> HIDE DEF x
<1>4. ~Fresh(x) /\ Off(x) = {b} /\ Kept(x) = {} /\ Named(x) = {b, NoConv} /\ b \in Mine(x)
  BY <1>3, Zenon DEF Fresh, Off, Kept, Turning, Named, Mine
<1>5. /\ Bindings' \subseteq Bindings \cup {NoConv}
      /\ Bindings \ Bindings' \subseteq {b}
      /\ Live(b) => b \notin Bindings'
      /\ \A d, e \in Clients : d # e /\ Live(binding'[d]) => binding'[d] # binding'[e]
  BY <1>2, DeadNoConv, Zenon DEF Bindings, RegistryInv, Matched
<1>6. Upheld(x, open', Bindings', dropped')
  BY <1>3, <1>4, <1>5, Zenon DEF Upheld
<1>7. Live(b) => \A s \in Requests \ {r} : b \notin Mine(req[s])
  BY <1>1, FreeBinding
<1>8. Hands(r, x)
  <2>1. x.pc \notin {"unbound", "creating"}
    BY <1>3
  <2>2. \A d \in Bindings' : Live(d) => d \in open'
    BY <1>1, <1>5, DeadNoConv, Zenon DEF RegistryInv, Matched
  <2>3. \A d \in Bindings \ Bindings' :
          Live(d) => d \in Mine(x) /\ \A s \in Requests \ {r} : d \notin Mine(req[s])
    BY <1>4, <1>5, <1>7, Zenon
  <2>4. \A d \in Mine(req[r]) : ~Live(d)
    BY <1>1, DeadNoConv, Zenon
  <2>5. Named(x) \subseteq Named(req[r]) \cup Bindings \cup {NoConv}
    BY <1>1, <1>4, Zenon
  <2>6. QED
    BY <1>1, <1>4, <1>5, <1>6, <2>1, <2>2, <2>3, <2>4, <2>5, Zenon DEF Hands
<1>9. QED
  BY <1>8, HandsKeep

\* What a request publishes is there and not bound.
LEMMA PublishedIsOpen ==
  ASSUME SessionsInv, RegistryInv, NEW r \in Requests, NEW conv,
         \/ req[r].pc = "claiming" /\ conv = req[r].own
         \/ req[r].pc = "made" /\ conv = req[r].seen
  PROVE  /\ conv \in Mine(req[r]) /\ Mine(req[r]) \subseteq {conv, NoConv}
         /\ req[r].own \in {conv, NoConv} /\ req[r].victim = NoConv
         /\ Live(conv) => conv \in open /\ conv \notin Bindings
<1>1. ReqOK(req[r]) /\ Upheld(req[r], open, Bindings, dropped)
  BY Before, Zenon DEF RegistryInv
<1>2. CASE req[r].pc = "claiming"
  BY <1>1, <1>2, Zenon DEF ReqOK, Leased, Upheld, Off, Mine, Fresh
<1>3. CASE req[r].pc = "made"
  BY <1>1, <1>3, Zenon DEF ReqOK, Unleased, Upheld, Mine, Fresh
<1>4. QED
  BY <1>2, <1>3, Zenon

LEMMA BindMatches ==
  ASSUME SessionsInv, RegistryInv, NEW r \in Requests, NEW c \in Clients, ~Bound(c), NEW conv,
         \/ req[r].pc = "claiming" /\ conv = req[r].own
         \/ req[r].pc = "made" /\ conv = req[r].seen,
         UNCHANGED <<gen, loaded, next, open, dropped>>, NEW x, x.pc \in {"idle", "leased"},
         x.own \in {conv, NoConv}, x.victim = NoConv,
         Bind(r, c, conv, x, [req[r] EXCEPT !.pc = "evicting"])
  PROVE  RegistryInv'
<1>1. /\ conv \in Mine(req[r]) /\ Mine(req[r]) \subseteq {conv, NoConv} /\ conv \in Named(req[r])
      /\ req[r].own \in {conv, NoConv} /\ req[r].victim = NoConv
      /\ Live(conv) => conv \in open /\ conv \notin Bindings
      /\ binding[c] = NoConv
  BY PublishedIsOpen DEF Bound, Named, Mine, Fresh
<1>2. CASE Room
  <2>1. req' = [req EXCEPT ![r] = x] /\ binding' = [binding EXCEPT ![c] = conv]
    BY <1>2 DEF Bind
  <2>2. binding'[c] = conv /\ \A d \in Clients \ {c} : binding'[d] = binding[d]
    BY <2>1 DEF SessionsInv, RequestsOK
  <2>3. ~Fresh(x) /\ Off(x) = {} /\ Kept(x) \subseteq {conv, NoConv} /\ Named(x) \subseteq {conv, NoConv}
    BY DEF Fresh, Off, Kept, Turning, Named
  <2>4. /\ conv \in Bindings' /\ Bindings' \subseteq Bindings \cup {conv}
        /\ Bindings \ Bindings' \subseteq {NoConv}
    BY <1>1, <2>2 DEF Bindings
  <2>5. \A d, e \in Clients : d # e /\ Live(binding'[d]) => binding'[d] # binding'[e]
    BY <1>1, <2>2 DEF RegistryInv, Matched, Bindings
  <2>6. Hands(r, x)
    BY <1>1, <2>1, <2>3, <2>4, <2>5, DeadNoConv DEF Hands, Upheld, RegistryInv, Matched
  <2>7. QED
    BY <2>6, HandsKeep
<1>3. CASE ~Room
  <2>1. PICK i \in 1..Len(lru) :
          LET v == lru[i] IN
          /\ v \in Victims
          /\ binding' = [binding EXCEPT ![v] = NoConv, ![c] = conv]
          /\ req' = [req EXCEPT ![r] = [[req[r] EXCEPT !.pc = "evicting"]
                                                 EXCEPT !.victim = binding[v]]]
    BY <1>3, ZenonT(40) DEF Bind
  <2> DEFINE v == lru[i]
             b == binding[v]
             z == [[req[r] EXCEPT !.pc = "evicting"] EXCEPT !.victim = b]
  <2>2. v \in Clients /\ b # NoConv /\ Key(b) \notin leases /\ v # c /\ b \in Bindings
    BY <1>1, <2>1 DEF Victims, Bound, Bindings
  <2>3. req' = [req EXCEPT ![r] = z] /\ binding' = [binding EXCEPT ![v] = NoConv, ![c] = conv]
    BY <2>1, Zenon
  <2>4. z.pc = "evicting" /\ z.own = req[r].own /\ z.victim = b
    BY Before DEF ReqOK
  <2> HIDE DEF z, b, v
  <2>5. /\ binding'[c] = conv /\ binding'[v] = NoConv
        /\ \A d \in Clients \ {c, v} : binding'[d] = binding[d]
    BY <2>2, <2>3 DEF SessionsInv, RequestsOK
  <2>6. /\ ~Fresh(z) /\ Off(z) = {b} /\ Kept(z) = {req[r].own}
        /\ Named(z) = {req[r].own, b} /\ b \in Mine(z)
    BY <2>4, Zenon DEF Fresh, Off, Kept, Turning, Named, Mine
  <2>7. /\ conv \in Bindings' /\ Bindings' \subseteq Bindings \cup {conv, NoConv}
        /\ Bindings \ Bindings' \subseteq {b, NoConv}
        /\ Live(b) => b \notin Bindings'
    BY <1>1, <2>2, <2>5, DeadNoConv DEF Bindings, RegistryInv, Matched, b
  <2>8. \A d, e \in Clients : d # e /\ Live(binding'[d]) => binding'[d] # binding'[e]
    BY <1>1, <2>5, DeadNoConv DEF RegistryInv, Matched, Bindings
  <2>9. Live(b) => \A s \in Requests \ {r} : b \notin Mine(req[s])
    BY <2>2, FreeBinding DEF b
  <2>10. Upheld(z, open', Bindings', dropped')
    BY <1>1, <2>4, <2>6, <2>7, DeadNoConv DEF Upheld
  <2>11. Hands(r, z)
    <3>1. Named(z) \subseteq Named(req[r]) \cup Bindings \cup {NoConv}
      BY <1>1, <2>2, <2>6
    <3>2. \A d \in Bindings' : Live(d) => d \in open'
      BY <1>1, <2>7, DeadNoConv DEF RegistryInv, Matched
    <3>3. \A d \in Bindings \ Bindings' :
            Live(d) => d \in Mine(z) /\ \A s \in Requests \ {r} : d \notin Mine(req[s])
      BY <2>6, <2>7, <2>9, DeadNoConv
    <3>4. \A d \in Mine(req[r]) : Live(d) => d \in Bindings'
      BY <1>1, <2>7, DeadNoConv
    <3>5. QED
      BY <1>1, <2>3, <2>4, <2>6, <2>7, <2>8, <2>10, <3>1, <3>2, <3>3, <3>4, Zenon DEF Hands
  <2>12. QED
    BY <2>11, HandsKeep
<1>4. QED
  BY <1>2, <1>3

LEMMA ClaimMatches ==
  ASSUME SessionsInv, RegistryInv, NEW r \in Requests, Claim(r)
  PROVE  RegistryInv'
<1> DEFINE c == req[r].client
           bound == [req[r] EXCEPT !.pc = "leased"]
<1>1. /\ UNCHANGED <<gen, loaded, next, open, dropped>> /\ req[r].pc = "claiming"
      /\ ReqOK(req[r]) /\ c \in Clients /\ req[r].victim = NoConv
  BY Before DEF Claim, engines, At, ReqOK, Leased
<1>2. ASSUME NEW x, req' = [req EXCEPT ![r] = x], UNCHANGED binding, x.own = req[r].own,
             x.victim = NoConv, x.pc = "refused" \/ (x.pc = "lost" /\ x.seen \in Bindings)
      PROVE  RegistryInv'
  <2>1. /\ ~Fresh(x) /\ Off(x) = {req[r].own} /\ Kept(x) = {} /\ Off(req[r]) = {req[r].own}
        /\ Named(x) \subseteq {req[r].own, NoConv} \cup Bindings /\ req[r].own \in Named(req[r])
        /\ Mine(x) = {req[r].own, NoConv} /\ Mine(req[r]) = {req[r].own, NoConv}
    BY <1>1, <1>2 DEF Fresh, Off, Kept, Turning, Named, Mine
  <2>2. Walks(r, x)
    BY <1>1, <1>2, <2>1, Zenon DEF Walks, Upheld, RegistryInv
  <2>3. QED
    BY <2>2, WalksKeep, ZenonT(30)
<1>3. CASE Bound(c)
  <2> DEFINE x == [req[r] EXCEPT !.pc = "lost", !.seen = binding[c]]
  <2>1. req' = [req EXCEPT ![r] = x] /\ UNCHANGED binding
    BY <1>3 DEF Claim
  <2>2. x.pc = "lost" /\ x.own = req[r].own /\ x.victim = NoConv /\ x.seen \in Bindings
    BY <1>1 DEF ReqOK, Bindings
  <2> HIDE DEF x
  <2>3. QED
    BY <1>2, <2>1, <2>2, Zenon
<1>4. CASE ~Bound(c) /\ Full
  <2> DEFINE x == [req[r] EXCEPT !.pc = "refused"]
  <2>1. req' = [req EXCEPT ![r] = x] /\ UNCHANGED binding
    BY <1>4 DEF Claim, registry
  <2>2. x.pc = "refused" /\ x.own = req[r].own /\ x.victim = NoConv
    BY <1>1 DEF ReqOK
  <2> HIDE DEF x
  <2>3. QED
    BY <1>2, <2>1, <2>2, Zenon
<1>5. CASE ~Bound(c) /\ ~Full
  <2>1. bound.pc = "leased" /\ bound.own = req[r].own /\ bound.victim = NoConv
    BY <1>1 DEF ReqOK
  <2>2. Bind(r, c, req[r].own, bound, [req[r] EXCEPT !.pc = "evicting"])
    BY <1>5 DEF Claim
  <2> HIDE DEF bound, c
  <2>3. QED
    BY <1>1, <1>5, <2>1, <2>2, BindMatches
<1>6. QED
  BY <1>3, <1>4, <1>5, Zenon

LEMMA InsertMatches ==
  ASSUME SessionsInv, RegistryInv, NEW r \in Requests, NEW c \in Clients, Insert(r, c)
  PROVE  RegistryInv'
<1> DEFINE conv == req[r].seen
<1>1. /\ UNCHANGED <<gen, loaded, next, open, dropped>> /\ req[r].pc = "made"
      /\ ReqOK(req[r]) /\ Fresh(req[r]) /\ ~Bound(c)
      /\ Mine(req[r]) = {NoConv, conv}
  BY Before, LetGo DEF Insert, engines, At, Fresh
<1>2. CASE ~Full
  <2>1. Bind(r, c, conv, Idle, [req[r] EXCEPT !.pc = "evicting"])
    BY <1>2, Zenon DEF Insert
  <2>2. Idle.pc = "idle" /\ Idle.own = NoConv /\ Idle.victim = NoConv
    BY DEF Idle
  <2>3. QED
    BY <1>1, <2>1, <2>2, BindMatches
<1>3. CASE Full /\ Key(conv) \in leases
  BY <1>1, <1>3, EndsKeep, FreshIsFree, DeadNoConv DEF Insert, registry
<1>4. CASE Full /\ Key(conv) \notin leases
  <2> DEFINE x == [req[r] EXCEPT !.pc = "refused", !.own = conv]
  <2>1. req' = [req EXCEPT ![r] = x] /\ UNCHANGED binding
    BY <1>4 DEF Insert, registry
  <2>2. x.pc = "refused" /\ x.own = conv /\ x.victim = NoConv
    BY <1>1, ZenonT(30) DEF ReqOK, Unleased
  <2> HIDE DEF x
  <2>3. /\ ~Fresh(x) /\ Off(x) = {conv} /\ Kept(x) = {} /\ Named(x) = {conv, NoConv}
        /\ Mine(x) = {conv, NoConv} /\ conv \in Named(req[r])
    BY <1>1, <2>2 DEF Fresh, Off, Kept, Turning, Named, Mine
  <2>4. Walks(r, x)
    BY <1>1, <2>1, <2>2, <2>3, ZenonT(30) DEF Walks, Upheld, RegistryInv
  <2>5. QED
    BY <2>4, WalksKeep
<1>5. QED
  BY <1>2, <1>3, <1>4

\* What a closing request holds: the conversation it closes, which no client id
\* names, and for an eviction the one that took the place.
LEMMA ClosingIs ==
  ASSUME SessionsInv, RegistryInv, NEW r \in Requests,
         req[r].pc \in {"lost", "refused", "evicting", "deleting"}
  PROVE  /\ \A c \in Mine(req[r]) : Live(c) /\ c # Closing(r) /\ c \in open => c \in Bindings \cup dropped
         /\ Closing(r) \in Mine(req[r]) /\ Closing(r).model \in Models
         /\ Live(Closing(r)) => Closing(r) \notin Bindings
         /\ Live(Target(r)) \/ Live(Closing(r)) => Target(r) = Closing(r)
<1>1. ReqOK(req[r]) /\ Upheld(req[r], open, Bindings, dropped)
  BY Before DEF RegistryInv
<1>2. /\ Off(req[r]) = {Closing(r)} /\ Closing(r) \in Mine(req[r]) /\ Closing(r) # NoConv
      /\ Closing(r).model \in Models
      /\ Mine(req[r]) \subseteq {Closing(r), NoConv} \cup Kept(req[r])
  BY <1>1, RealIsSome, ZenonT(30) DEF ReqOK, Real, Leased, Off, Closing, At, Mine, Fresh, Kept, Turning
<1>3. Numbered(Closing(r))
  BY <1>2, Zenon DEF RegistryInv, Counted, Mine, Named
<1>4. Target(r).model = Closing(r).model
  BY Zenon DEF Target, Conv
<1>5. Live(Target(r)) \/ Live(Closing(r)) => Target(r) = Closing(r)
  BY <1>3, <1>4 DEF Target, Live, Numbered
<1>6. QED
  BY <1>1, <1>2, <1>5, DeadNoConv DEF Upheld

LEMMA AbandonCloseMatches ==
  ASSUME SessionsInv, RegistryInv, NEW r \in Requests, AbandonClose(r)
  PROVE  RegistryInv'
<1>1. /\ End(r) /\ UNCHANGED <<gen, loaded, next, open, binding>>
      /\ dropped' = dropped \cup ({Closing(r)} \cap open)
      /\ req[r].pc \in {"lost", "refused", "evicting", "deleting"}
  BY DEF AbandonClose, engines, registry
<1>2. \A c \in Mine(req[r]) : Live(c) /\ c \in open => c \in Bindings \cup dropped'
  BY <1>1, ClosingIs, Zenon
<1>3. QED
  BY <1>1, <1>2, EndsKeep, ZenonT(30)

LEMMA CloseMatches ==
  ASSUME SessionsInv, RegistryInv, NEW r \in Requests, Close(r)
  PROVE  RegistryInv'
<1> DEFINE x == AfterClose(r)
<1>1. /\ UNCHANGED <<gen, loaded, next, binding, dropped>> /\ Bindings' = Bindings
      /\ open' = IF loaded[Closing(r).model] THEN open \ {Target(r)} ELSE open
      /\ req' = [req EXCEPT ![r] = x] /\ ReqOK(req[r])
      /\ req[r].pc \in {"lost", "refused", "evicting", "deleting"}
  BY Before, ZenonT(30) DEF Close, registry, Bindings
<1>2. /\ open' \subseteq open /\ \A c \in open \ open' : Live(c) => c = Closing(r)
      /\ Live(Closing(r)) => Closing(r) \notin open'
  BY <1>1, ClosingIs DEF Live
<1>3. \/ x.pc = "idle" /\ x.own = NoConv /\ x.victim = NoConv
      \/ x.pc = "rebound" /\ x.own = NoConv /\ x.victim = NoConv /\ x.seen = req[r].seen
           /\ req[r].pc = "lost"
      \/ x.pc = "leased" /\ x.own = req[r].own /\ x.victim = NoConv /\ req[r].pc = "evicting"
  BY <1>1, Zenon DEF AfterClose, Idle, ReqOK, Leased, At
<1> HIDE DEF x
<1>4. ~Fresh(x) /\ Off(x) = {} /\ Named(x) \subseteq Named(req[r]) \cup {NoConv}
  BY <1>3, Zenon DEF Fresh, Off, Named
<1>5. \A c \in Kept(x) : Live(c) /\ c \in open => c \in Bindings \cup dropped
  <2>1. Kept(x) \subseteq Kept(req[r])
    BY <1>3, ZenonT(30) DEF Kept, Turning
  <2>2. QED
    BY <2>1, Zenon DEF RegistryInv, Upheld
<1>6. Upheld(x, open', Bindings', dropped')
  BY <1>1, <1>2, <1>3, <1>4, <1>5 DEF Upheld
<1>7. \A b \in Bindings' : Live(b) => b \in open'
  BY <1>1, <1>2, ClosingIs, ZenonT(30) DEF RegistryInv, Matched
<1>8. \A c \in Mine(req[r]) : Live(c) /\ c \in open' => c \in Bindings' \cup dropped'
  BY <1>1, <1>2, ClosingIs, ZenonT(30)
<1>9. x.pc \notin {"unbound", "creating"} /\ Closing(r) \in Mine(req[r])
  BY <1>1, <1>3, ClosingIs
<1>10. Hands(r, x)
  BY <1>1, <1>2, <1>4, <1>6, <1>7, <1>8, <1>9, Zenon DEF Hands, RegistryInv, Matched
<1>11. QED
  BY <1>10, HandsKeep

\* Loading and stopping engines: no request and no binding changes, no
\* conversation becomes one of a first loading, and what is of one stays where
\* it is.
LEMMA EngineMatches ==
  ASSUME SessionsInv, RegistryInv, UNCHANGED <<next, binding, req>>, Counters',
         open' \subseteq open,
         \A m \in Models : gen[m] <= gen'[m],
         \A c : Live(c)' /\ Numbered(c) => Live(c),
         \A c : Live(c)' /\ Numbered(c) => (c \in open' <=> c \in open) /\ (c \in dropped' <=> c \in dropped)
  PROVE  RegistryInv'
<1>1. Bindings' = Bindings /\ \A r \in Requests : req'[r] = req[r]
  BY ZenonT(30) DEF Bindings
<1>2. \A c : Numbered(c) => Numbered(c)'
  BY DEF Numbered, RegistryInv, Counters
<1>3. Counted'
  <2>1. /\ \A c \in open' : Numbered(c)'
        /\ \A c \in Bindings' : c = NoConv \/ Numbered(c)'
    BY <1>1, <1>2 DEF RegistryInv, Counted
  <2>2. \A r \in Requests : \A c \in Named(req'[r]) : c = NoConv \/ Numbered(c)'
    BY <1>1, <1>2, ZenonT(30) DEF RegistryInv, Counted
  <2>3. \A r \in Requests : req'[r].pc \in {"unbound", "creating"} =>
                              req'[r].gen \in 1..gen'[req'[r].model]
    <3>1. TAKE r \in Requests
    <3>2. HAVE req'[r].pc \in {"unbound", "creating"}
    <3>3. req[r].gen \in 1..gen[req[r].model] /\ req[r].model \in Models
      BY <1>1, <3>2, Before, Zenon DEF RegistryInv, Counted, ReqOK
    <3>4. QED
      BY <1>1, <3>3 DEF RegistryInv, Counters
  <2>4. QED
    BY <2>1, <2>2, <2>3, ZenonT(30) DEF Counted, Named, Fresh
<1>4. \A c : Live(c)' /\ (c \in Bindings \/ c \in open \/ \E r \in Requests : c \in Named(req[r])) =>
             Live(c) /\ (c \in open' <=> c \in open) /\ (c \in dropped' <=> c \in dropped)
  <2>1. ~Live(NoConv)'
    BY SessionsAssumption, ZenonT(30) DEF Live, NoConv, Conv
  <2>2. QED
    BY <2>1, Zenon DEF RegistryInv, Counted
<1>5. Matched'
  <2>1. \A c \in open' : Live(c)' =>
          c \in Bindings' \cup dropped' \/ \E r \in Requests : c \in Mine(req'[r])
    BY <1>1, <1>4, Zenon DEF RegistryInv, Matched
  <2>2. \A c \in Bindings' : Live(c)' => c \in open'
    BY <1>1, <1>4, Zenon DEF RegistryInv, Matched
  <2>3. \A c, d \in Clients : c # d /\ Live(binding[c])' => binding'[c] # binding'[d]
    <3>1. \A c \in Clients : binding[c] \in Bindings /\ binding'[c] = binding[c]
      BY ZenonT(30) DEF Bindings
    <3>2. \A c \in Clients : Live(binding[c])' => Live(binding[c])
      <4>1. TAKE c \in Clients
      <4>2. HAVE Live(binding[c])'
      <4>3. PICK b \in Bindings : b = binding[c]
        BY <3>1, Zenon
      <4>4. Live(b)'
        BY <3>1, <4>2, <4>3 DEF Live
      <4>5. QED
        BY <1>4, <4>3, <4>4, Zenon
    <3>3. QED
      BY <3>1, <3>2, Zenon DEF RegistryInv, Matched
  <2>4. QED
    BY <2>1, <2>2, <2>3 DEF Matched, Mine, Fresh
<1>6. ASSUME NEW r \in Requests PROVE Upheld(req[r], open, Bindings, dropped)'
  <2>1. Upheld(req[r], open, Bindings, dropped) /\ req'[r] = req[r]
    BY <1>1 DEF RegistryInv
  <2>2. /\ req[r].own \in Named(req[r]) /\ Off(req[r]) \cup Kept(req[r]) \subseteq Named(req[r])
        /\ Fresh(req[r]) => req[r].seen \in Named(req[r])
    BY ZenonT(30) DEF Named, Off, Kept, Turning
  <2>3. \A c \in Named(req[r]) : Live(c)' =>
          Live(c) /\ (c \in open' <=> c \in open) /\ (c \in dropped' <=> c \in dropped)
    BY <1>4, Zenon
  <2>4. PICK x : x = req[r]
    OBVIOUS
  <2>5. /\ \A c \in Off(x) : Live(c)' => c \notin Bindings'
        /\ x.pc = "claiming" /\ Live(x.own)' => x.own \in open'
        /\ \A c \in Kept(x) : Live(c)' /\ c \in open' => c \in Bindings' \cup dropped'
        /\ Fresh(x) /\ Live(x.seen)' => x.seen \in open' /\ x.seen \notin Bindings'
    BY <1>1, <2>1, <2>2, <2>3, <2>4, ZenonT(30) DEF Upheld
  <2>6. QED
    BY <2>1, <2>4, <2>5, ZenonT(30) DEF Upheld, Off, Kept, Turning, Fresh, Live
<1>7. ASSUME NEW r \in Requests, NEW s \in Requests, r # s, Fresh(req[r])', Live(req[r].seen)'
      PROVE  (req[r].seen \notin Named(req[s]))'
  <2>1. PICK c : c = req[r].seen
    BY Zenon
  <2>2. Fresh(req[r]) /\ Live(c)' /\ c \in Named(req[r])
    BY <1>1, <1>7, <2>1, Zenon DEF Fresh, Live, Named
  <2>3. Live(c)
    BY <1>4, <2>2, Zenon
  <2>4. c \notin Named(req[s])
    BY <1>7, <2>1, <2>2, <2>3, Zenon DEF RegistryInv
  <2>5. QED
    BY <1>1, <2>1, <2>4, Zenon DEF Named, Fresh
<1>8. QED
  BY <1>3, <1>5, <1>6, <1>7, Zenon DEF RegistryInv

LEMMA UnloadMatches ==
  ASSUME SessionsInv, RegistryInv, NEW m \in Models, Unload(m)
  PROVE  RegistryInv'
<1> DEFINE gone == UNION {Sessions(n, gen[n]) : n \in {k \in {m} : ~Held(k)}}
<1>1. /\ UNCHANGED <<gen, next, binding, req>> /\ loaded' = [loaded EXCEPT ![m] = FALSE]
      /\ open' = open \ gone /\ dropped' = dropped \ gone
  BY Zenon DEF Unload, registry, Release
<1>2. \A c \in gone : c.model = m
  BY Zenon DEF Sessions
<1> HIDE DEF gone
<1>3. Counters' /\ \A n \in Models : gen[n] <= gen'[n]
  BY <1>1 DEF RegistryInv, Counters
<1>4. \A c : Live(c)' => Live(c) /\ c.model # m
  BY <1>1, Zenon DEF Live, RegistryInv, Counters
<1>5. QED
  BY <1>1, <1>2, <1>3, <1>4, EngineMatches, Zenon

LEMMA LoadMatches ==
  ASSUME SessionsInv, RegistryInv, NEW m \in Models, Load(m)
  PROVE  RegistryInv'
<1>1. PICK out \in Evicted(m) :
        /\ loaded' = [n \in Models |-> (n = m) \/ (loaded[n] /\ n \notin out)] /\ Release(out)
  BY Zenon DEF Load
<1> DEFINE gone == UNION {Sessions(n, gen[n]) : n \in {k \in out : ~Held(k)}}
<1>2. /\ UNCHANGED <<next, binding, req>> /\ gen' = [gen EXCEPT ![m] = gen[m] + 1]
      /\ gen[m] < MaxLoads[m] /\ open' = open \ gone /\ dropped' = dropped \ gone
  BY <1>1, Zenon DEF Load, registry, Release
<1>3. \A c \in gone : c.model \in out
  BY Zenon DEF Sessions
<1> HIDE DEF gone
<1>4. /\ \A n \in Models : gen[n] \in Nat /\ MaxLoads[n] \in Nat /\ gen[n] <= MaxLoads[n]
      /\ gen' \in [Models -> Nat] /\ gen'[m] = gen[m] + 1 /\ \A n \in Models \ {m} : gen'[n] = gen[n]
  <2>1. gen \in [Models -> Nat] /\ \A n \in Models : gen[n] <= MaxLoads[n]
    BY Zenon DEF RegistryInv, Counters
  <2>2. gen[m] + 1 \in Nat /\ \A n \in Models : gen[n] \in Nat /\ MaxLoads[n] \in Nat
    BY <2>1, SessionsAssumption
  <2>3. gen' = [gen EXCEPT ![m] = gen[m] + 1]
    BY <1>2
  <2>4. QED
    BY <2>1, <2>2, <2>3, Zenon
<1>5. /\ loaded' \in [Models -> BOOLEAN] /\ \A n \in Models \ {m} : loaded'[n] => loaded[n] /\ n \notin out
  <2>1. \A n \in Models : loaded[n] \in BOOLEAN
    BY DEF RegistryInv, Counters
  <2>2. \A n \in Models : loaded'[n] = ((n = m) \/ (loaded[n] /\ n \notin out))
    BY <1>1, Zenon
  <2>3. loaded' \in [Models -> BOOLEAN]
    BY <1>1, ZenonT(30)
  <2>4. QED
    BY <2>2, <2>3, Zenon
<1>6. Counters' /\ \A n \in Models : gen[n] <= gen'[n]
  <2>1. \A n \in Models : gen[n] <= gen'[n] /\ gen'[n] <= MaxLoads[n] /\ (loaded'[n] => gen'[n] > 0)
    BY <1>2, <1>4, <1>5 DEF RegistryInv, Counters
  <2>2. QED
    BY <1>2, <1>4, <1>5, <2>1, Zenon DEF RegistryInv, Counters
<1>7. ASSUME NEW c, Live(c)', Numbered(c) PROVE Live(c) /\ c.model \notin out
  <2>1. c.model \in Models /\ gen'[c.model] = 1 /\ loaded'[c.model] /\ c.gen \in 1..gen[c.model]
    BY <1>7, Zenon DEF Live, Numbered
  <2>2. c.model # m
    BY <1>4, <2>1
  <2>3. QED
    BY <1>4, <1>5, <2>1, <2>2, Zenon DEF Live
<1>8. QED
  BY <1>2, <1>3, <1>6, <1>7, EngineMatches, Zenon

LEMMA StopEngineMatches ==
  ASSUME SessionsInv, RegistryInv, NEW m \in Models, NEW g \in Loads(m), StopEngine(m, g)
  PROVE  RegistryInv'
<1>1. /\ UNCHANGED <<gen, loaded, next, binding, req>> /\ (g < gen[m] \/ ~loaded[m])
      /\ open' = open \ Sessions(m, g) /\ dropped' = dropped \ Sessions(m, g)
  BY Zenon DEF StopEngine, registry
<1>2. \A c \in Sessions(m, g) : c.model = m /\ c.gen = g
  BY Zenon DEF Sessions
<1>3. Counters' /\ \A n \in Models : gen[n] <= gen'[n]
  BY <1>1 DEF RegistryInv, Counters
<1>4. \A c : Live(c)' /\ Numbered(c) => Live(c) /\ c \notin Sessions(m, g)
  BY <1>1, <1>2 DEF Live, Numbered, RegistryInv, Counters, Loads
<1>5. QED
  BY <1>1, <1>3, <1>4, EngineMatches, Zenon

LEMMA InitRegistry == Init => RegistryInv
<1> SUFFICES ASSUME Init PROVE RegistryInv
  OBVIOUS
<1>1. Counters
  <2>1. /\ gen \in [Models -> Nat] /\ next = [m \in Models |-> next[m]]
        /\ \A m \in Models : next[m] \in [Loads(m) -> Nat]
    BY DEF Init
  <2>2. loaded \in [Models -> BOOLEAN] /\ \A m \in Models : loaded[m] = (m = Default)
    BY Zenon DEF Init
  <2>3. \A m \in Models : gen[m] <= MaxLoads[m] /\ (m = Default => gen[m] > 0)
    BY SessionsAssumption DEF Init
  <2>4. \A m \in Models : gen[m] <= MaxLoads[m] /\ (loaded[m] => gen[m] > 0)
    BY <2>2, <2>3, Zenon
  <2>5. QED
    BY <2>1, <2>2, <2>4, Zenon DEF Counters
<1>2. /\ open = {} /\ Bindings \subseteq {NoConv} /\ \A c \in Clients : binding[c] = NoConv
      /\ \A r \in Requests : req[r] = Idle
  BY Zenon DEF Init, Bindings
<1>3. /\ ~Fresh(Idle) /\ Named(Idle) = {NoConv} /\ Off(Idle) = {} /\ Kept(Idle) = {}
      /\ Idle.pc = "idle" /\ Idle.pc \notin {"unbound", "creating"}
  BY Zenon DEF Idle, Fresh, Named, Off, Kept, Turning
<1>4. Counted
  <2>1. \A r \in Requests : \A c \in Named(req[r]) : c = NoConv
    BY <1>2, <1>3
  <2>2. \A r \in Requests : req[r].pc \notin {"unbound", "creating"}
    BY <1>2, <1>3
  <2>3. QED
    BY <1>2, <2>1, <2>2, Zenon DEF Counted
<1>5. Matched
  BY <1>2, DeadNoConv, Zenon DEF Matched
<1>6. \A r \in Requests : Upheld(req[r], open, Bindings, dropped)
  BY <1>2, <1>3, Zenon DEF Upheld
<1>7. QED
  BY <1>1, <1>2, <1>3, <1>4, <1>5, <1>6, Zenon DEF RegistryInv

LEMMA StepRegistry == SessionsInv /\ RegistryInv /\ [Next]_vars => RegistryInv'
<1> SUFFICES ASSUME SessionsInv, RegistryInv, [Next]_vars PROVE RegistryInv'
  BY Zenon
<1>1. ASSUME NEW r \in Requests, Step(r) PROVE RegistryInv'
  BY <1>1, AcquireMatches, RefuseMatches, LookAgainMatches, CreateMatches, LeaseOpenedMatches,
     ClaimMatches, SubmitMatches, CloseMatches, AbandonCloseMatches, InsertMatches, MadeMatches, Zenon
     DEF Step
<1>2. ASSUME NEW r \in Requests, NEW c \in Clients,
             TakeForClose(r, c) \/ StartFork(r, c) \/ \E m \in Models : StartTurn(r, c, m)
      PROVE  RegistryInv'
  BY <1>2, TakeForCloseMatches, StartMatches
<1>3. CASE UNCHANGED vars
  BY <1>3, NothingMatches DEF vars, registry, engines
<1>4. QED
  BY <1>1, <1>2, <1>3, MadeMatches, UnloadMatches, StopEngineMatches, LoadMatches DEF Next

\* The registry and the engines of first loadings agree, for any number of
\* models, clients and concurrent requests: an open session is bound, held by a
\* request or one whose close was never sent; a bound session is open; and no
\* two client ids share one.
THEOREM EnginesMatchRegistry == Spec => []EngineMatchesRegistry
<1>1. SessionsInv /\ RegistryInv => EngineMatchesRegistry
  <2> SUFFICES ASSUME SessionsInv, RegistryInv, NEW m \in Models, gen[m] = 1, loaded[m]
               PROVE  /\ \A c \in open : c.model = m => c \in Reachable \union dropped
                      /\ \A c \in Clients : binding[c].model = m => binding[c] \in open
                      /\ \A c, d \in Clients : c # d /\ binding[c].model = m => binding[c] # binding[d]
    BY DEF EngineMatchesRegistry
  <2>1. \A c : c.model = m => Live(c)
    BY ZenonT(30) DEF Live
  <2>2. \A c \in Clients : binding[c] \in Bindings
    BY Zenon DEF Bindings
  <2>3. Bindings \subseteq Reachable
    BY Zenon DEF Bindings, Reachable
  <2>4. ASSUME NEW c, Live(c), NEW r \in Requests, c \in Mine(req[r]) PROVE c \in Reachable
    <3>1. c # NoConv
      BY <2>4, DeadNoConv
    <3>2. CASE c \in {req[r].own, req[r].victim}
      <4>1. c \in Holds(r)
        BY <3>1, <3>2, Zenon DEF Holds
      <4>2. QED
        BY <4>1, ZenonT(30) DEF Reachable
    <3>3. CASE Fresh(req[r]) /\ c = req[r].seen
      BY <3>3 DEF Fresh, Reachable
    <3>4. QED
      BY <2>4, <3>2, <3>3, Zenon DEF Mine
  <2>5. QED
    BY <2>1, <2>2, <2>3, <2>4, Zenon DEF RegistryInv, Matched
<1>2. QED
  BY InitSessions, StepSessions, InitRegistry, StepRegistry, <1>1, PTL DEF Spec

=============================================================================
