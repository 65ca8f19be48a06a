------------------------- MODULE MCServerSessions -------------------------
(* Two models of which one is loaded at a time, two clients, two requests.  *)
EXTENDS ServerSessions, TLC

CONSTANTS m1, m2, c1, c2, r1, r2

TwoModels == {m1, m2}
TwoClients == {c1, c2}
TwoRequests == {r1, r2}

\* The default model opens one session per loading and may be loaded twice; the
\* other one is loaded once and opens two.
Ids == m1 :> 1 @@ m2 :> 2
Loadings == m1 :> 2 @@ m2 :> 1

Symmetry == Permutations(Clients) \union Permutations(Requests)
=============================================================================
