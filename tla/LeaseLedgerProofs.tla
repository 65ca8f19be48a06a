-------------------------- MODULE LeaseLedgerProofs --------------------------
(* Proofs about the device ledger, for any growers, owners, limits and sizes. *)
EXTENDS LeaseLedger, TLAPS

-----------------------------------------------------------------------------
(* How a sum changes when one or two of its terms do.                      *)

\* f is a sum of finitely many units.
Summable(f, S) == f \in [S -> Nat] /\ IsFiniteSet(Slots(f))

\* Sums are finite and change by the change of a term.  FiniteSetTheorems makes
\* every proof that follows it slower: the lemmas assume this fact, and the last
\* section proves it.
SumsAdd ==
  \A S, f : Summable(f, S) =>
    /\ Total(f) \in Nat
    /\ \A x \in S : \A g \in [S -> Nat] :
         (\A y \in S \ {x} : g[y] = f[y]) =>
           /\ Summable(g, S)
           /\ Total(g) = Total(f) - f[x] + g[x]
           /\ f[x] \in Nat /\ f[x] <= Total(f)

\* One term changes, ...
LEMMA TotalUpdate ==
  ASSUME SumsAdd, NEW S, NEW f, Summable(f, S), NEW x \in S,
         NEW g \in [S -> Nat], \A y \in S \ {x} : g[y] = f[y]
  PROVE  /\ Summable(g, S)
         /\ Total(g) = Total(f) - f[x] + g[x]
         /\ Total(f) \in Nat /\ f[x] \in Nat /\ f[x] <= Total(f)
  BY DEF SumsAdd

\* ... or two do.
LEMMA TotalMove ==
  ASSUME SumsAdd, NEW S, NEW f, Summable(f, S), NEW x \in S, NEW y \in S, x # y,
         NEW g \in [S -> Nat], \A z \in S \ {x, y} : g[z] = f[z]
  PROVE  /\ Summable(g, S)
         /\ Total(g) = Total(f) - f[x] + g[x] - f[y] + g[y]
         /\ Total(f) \in Nat
<1> DEFINE m == [z \in S |-> IF z = x THEN g[x] ELSE f[z]]
<1>1. f \in [S -> Nat]
  BY DEF Summable
<1>2. /\ m \in [S -> Nat] /\ \A z \in S \ {x} : m[z] = f[z]
      /\ \A z \in S \ {y} : g[z] = m[z]
      /\ m[x] = g[x] /\ m[y] = f[y]
  BY <1>1
<1> HIDE DEF m
<1>3. /\ Summable(m, S) /\ Total(m) = Total(f) - f[x] + m[x]
      /\ Total(f) \in Nat /\ f[x] \in Nat
  BY <1>2, TotalUpdate
<1>4. Summable(g, S) /\ Total(g) = Total(m) - m[y] + g[y]
  BY <1>2, <1>3, TotalUpdate
<1>5. QED
  BY <1>2, <1>3, <1>4

-----------------------------------------------------------------------------
(* The inductive invariant. *)

Askers == Growers \union {Admin}
Request == [who : Askers, bytes : Nat]
Allowance == [limit : Nat, mapped : Nat, growth : Nat]
Promised == [h \in Holders |-> allowance[h].limit]

\* The phases of a growth, and those in which the requester holds a reservation.
Growing == {"physical", "unassigned", "taking", "victim", "reclaim", "rollback", "granted",
            "consuming", "refunding", "return"}
Lent == Growing \ {"physical", "return"}
Granted == {"granted", "consuming", "refunding"}

LedgerType ==
  /\ ledger \in [limit : Nat, used : Nat, growth : Nat, allow : Nat]
  /\ grant \in [bytes : Nat, token : Nat, left : Nat, unassigned : Nat,
                transferred : Nat, target : Nat, n : Nat, loaded : Nat]
  /\ phase \in Growing \union {"none", "pausing", "limiting", "finish"}
  /\ op \in Askers \union {None}
  /\ waiters \in Seq(Request)
  /\ due \in Nat
  /\ allowance \in [Holders -> Allowance]
  /\ status \in [Holders -> {"absent", "live", "dead"}]

\* What consume and refund loaded is still at least `used` when they store, and
\* still below the limit: only releases ran since.
UsedInv ==
  /\ Summable(lease, Lessees)
  /\ UsedCoversLeases
  /\ phase = "consuming" => /\ ledger.used <= grant.loaded
                            /\ grant.n <= ledger.growth /\ grant.n <= grant.token
                            /\ grant.loaded + ledger.growth <= ledger.limit
  /\ phase = "refunding" => ledger.used <= grant.loaded /\ grant.n <= lease[op]

\* A requester's reservation is what it was lent so far, and a lent byte is its
\* own, unassigned or transferred.
Lending ==
  /\ \A h \in Holders : h # op \/ phase \notin Lent => allowance[h].growth = 0
  /\ phase \in Lent =>
       /\ grant.left <= grant.bytes
       /\ grant.unassigned + grant.transferred <= grant.bytes - grant.left
       /\ phase # "reclaim" => allowance[op].growth = grant.bytes - grant.left
       /\ phase = "reclaim" => allowance[op].growth = grant.bytes - grant.left + grant.n
  /\ phase \in {"taking", "reclaim"} => grant.n <= grant.left
  /\ phase \in {"physical", "unassigned", "taking"} => grant.unassigned = 0
  /\ phase \in {"physical", "unassigned", "taking", "victim", "reclaim"} => grant.transferred = 0
  /\ phase \in Granted => grant.left = 0

\* Who is named by an operation is not dropped under it, and an allowance that
\* is not there has no limit.
Alive ==
  /\ phase \in Growing => op \in Growers
  /\ op \in Growers => status[op] # "absent"
  /\ \A i \in 1..Len(waiters) : waiters[i].who \in Growers => status[waiters[i].who] # "absent"
  /\ phase = "reclaim" \/ grant.transferred > 0 => status[Weights] # "absent"
  /\ status[Weights] # "dead" => due = 0
  /\ \A h \in Holders : status[h] = "absent" => allowance[h].limit = 0

Covered ==
  /\ Summable(Promised, Holders)
  /\ AllowancesCovered
  /\ phase = "taking" => ledger.allow <= grant.loaded

\* The victim of a transfer exceeds its limit by at most the target.
Mapped ==
  /\ MappedWithinAllowance
  /\ phase = "reclaim" => /\ allowance[Weights].mapped <= allowance[Weights].limit + grant.target
                          /\ grant.target <= grant.n

LedgerInv == LedgerType /\ UsedInv /\ Lending /\ Alive /\ Covered /\ Mapped

-----------------------------------------------------------------------------
(* What steps that leave a part of the invariant alone have in common. *)

LEMMA Fields ==
  ASSUME LedgerType
  PROVE  /\ ledger.limit \in Nat /\ ledger.used \in Nat /\ ledger.growth \in Nat
         /\ ledger.allow \in Nat
         /\ grant.bytes \in Nat /\ grant.token \in Nat /\ grant.left \in Nat
         /\ grant.unassigned \in Nat /\ grant.transferred \in Nat /\ grant.target \in Nat
         /\ grant.n \in Nat /\ grant.loaded \in Nat /\ due \in Nat
         /\ \A h \in Holders : /\ allowance[h].limit \in Nat /\ allowance[h].mapped \in Nat
                               /\ allowance[h].growth \in Nat
  BY DEF LedgerType, Allowance

LEMMA UsedKept ==
  ASSUME UsedInv, lease' = lease, ledger'.used = ledger.used,
         phase' \notin {"consuming", "refunding"}
  PROVE  UsedInv'
  BY DEF UsedInv, UsedCoversLeases, LeasedBytes

LEMMA UsedUntouched ==
  ASSUME UsedInv, UNCHANGED <<lease, phase, grant, op>>, ledger'.used = ledger.used,
         ledger'.growth = ledger.growth, ledger'.limit = ledger.limit
  PROVE  UsedInv'
  BY DEF UsedInv, UsedCoversLeases, LeasedBytes

LEMMA AllowancesUntouched ==
  ASSUME LedgerInv, UNCHANGED <<allowance, status, due, waiters, op, phase, grant>>,
         ledger'.allow = ledger.allow
  PROVE  Lending' /\ Alive' /\ Covered' /\ Mapped'
<1>1. Promised' = Promised
  BY DEF Promised
<1>2. Lending' /\ Alive'
  BY DEF LedgerInv, Lending, Alive
<1>3. Covered'
  BY <1>1 DEF LedgerInv, Covered, AllowancesCovered, Promised
<1>4. Mapped'
  BY DEF LedgerInv, Mapped, MappedWithinAllowance
<1>5. QED
  BY <1>2, <1>3, <1>4

\* The sum of the limits when that of one holder changes, or of two.
LEMMA PromisedOne ==
  ASSUME SumsAdd, LedgerInv, NEW h \in Holders, allowance' \in [Holders -> Allowance],
         \A x \in Holders \ {h} : allowance'[x].limit = allowance[x].limit
  PROVE  /\ Summable(Promised, Holders)'
         /\ Total(Promised)' = Total(Promised) - allowance[h].limit + allowance'[h].limit
         /\ Total(Promised) \in Nat /\ Total(Promised)' \in Nat
<1>1. Promised' \in [Holders -> Nat] /\ \A x \in Holders \ {h} : Promised'[x] = Promised[x]
  BY DEF Promised, Allowance
<1>2. Promised[h] = allowance[h].limit /\ Promised'[h] = allowance'[h].limit
  BY DEF Promised
<1>3. Summable(Promised, Holders)
  BY DEF LedgerInv, Covered
<1>4. /\ Summable(Promised', Holders)
      /\ Total(Promised') = Total(Promised) - Promised[h] + Promised'[h]
      /\ Total(Promised) \in Nat /\ Total(Promised') \in Nat
  BY <1>1, <1>3, TotalUpdate DEF SumsAdd
<1>5. Summable(Promised, Holders)' /\ Total(Promised)' = Total(Promised')
  BY <1>4 DEF Summable, Total, Slots, Holders
<1>6. QED
  BY <1>2, <1>4, <1>5

LEMMA PromisedTwo ==
  ASSUME SumsAdd, LedgerInv, NEW h \in Holders, NEW k \in Holders, h # k,
         allowance' \in [Holders -> Allowance],
         \A x \in Holders \ {h, k} : allowance'[x].limit = allowance[x].limit
  PROVE  /\ Summable(Promised, Holders)'
         /\ Total(Promised)' = Total(Promised) - allowance[h].limit + allowance'[h].limit
                                               - allowance[k].limit + allowance'[k].limit
         /\ Total(Promised) \in Nat /\ Total(Promised)' \in Nat
<1>1. Promised' \in [Holders -> Nat] /\ \A x \in Holders \ {h, k} : Promised'[x] = Promised[x]
  BY DEF Promised, Allowance
<1>2. /\ Promised[h] = allowance[h].limit /\ Promised'[h] = allowance'[h].limit
      /\ Promised[k] = allowance[k].limit /\ Promised'[k] = allowance'[k].limit
  BY DEF Promised
<1>3. Summable(Promised, Holders)
  BY DEF LedgerInv, Covered
<1>4. /\ Summable(Promised', Holders)
      /\ Total(Promised') = Total(Promised) - Promised[h] + Promised'[h]
                                            - Promised[k] + Promised'[k]
      /\ Total(Promised) \in Nat /\ Total(Promised') \in Nat
  BY <1>1, <1>3, TotalMove DEF SumsAdd
<1>5. Summable(Promised, Holders)' /\ Total(Promised)' = Total(Promised')
  BY <1>4 DEF Summable, Total, Slots, Holders
<1>6. QED
  BY <1>2, <1>4, <1>5

LEMMA CoveredBy ==
  ASSUME Summable(Promised, Holders)',
         phase' # "return" => ledger'.allow >= Total(Promised)' + due',
         phase' = "return" => ledger'.allow >= Total(Promised)' + due' + grant'.n,
         phase' = "taking" => ledger'.allow <= grant'.loaded,
         Total(Promised)' \in Nat, due' \in Nat
  PROVE  Covered'
  BY DEF Covered, AllowancesCovered, Promised

LEMMA CoveredHas ==
  ASSUME SumsAdd, LedgerInv
  PROVE  /\ phase # "return" => ledger.allow >= Total(Promised) + due
         /\ phase = "return" => ledger.allow >= Total(Promised) + due + grant.n
         /\ phase = "taking" => ledger.allow <= grant.loaded
         /\ Summable(Promised, Holders)
         /\ Total(Promised) \in Nat
<1>1. Summable(Promised, Holders)
  BY DEF LedgerInv, Covered
<1>2. Total(Promised) \in Nat
  BY <1>1 DEF SumsAdd
<1>3. QED
  BY <1>1, <1>2, Fields DEF LedgerInv, Covered, AllowancesCovered, Promised

-----------------------------------------------------------------------------
(* Leases. *)

LEMMA LeaseUpdate ==
  ASSUME SumsAdd, UsedInv, NEW g \in Lessees, lease' \in [Lessees -> Nat],
         \A x \in Lessees \ {g} : lease'[x] = lease[x]
  PROVE  /\ Summable(lease', Lessees) /\ lease[g] \in Nat /\ lease[g] <= LeasedBytes
         /\ LeasedBytes' = LeasedBytes - lease[g] + lease'[g] /\ LeasedBytes \in Nat
<1>1. Summable(lease, Lessees)
  BY DEF UsedInv
<1>2. /\ Summable(lease', Lessees) /\ Total(lease') = Total(lease) - lease[g] + lease'[g]
      /\ Total(lease) \in Nat /\ lease[g] \in Nat /\ lease[g] <= Total(lease)
  BY <1>1, TotalUpdate
<1>3. QED
  BY <1>2 DEF LeasedBytes

LEMMA LeasedNat ==
  ASSUME SumsAdd, LedgerInv
  PROVE  LeasedBytes \in Nat /\ LeasedBytes <= ledger.used /\ ledger.used \in Nat
<1>1. Total(lease) \in Nat
  BY DEF LedgerInv, UsedInv, SumsAdd
<1>2. QED
  BY <1>1, Fields DEF LedgerInv, UsedInv, UsedCoversLeases, LeasedBytes

LEMMA ClaimKeeps ==
  ASSUME SumsAdd, LedgerInv, NEW g \in Owners, NEW n \in Sizes,
         TryClaim(g, n) \/ RecordCommitted(g, n)
  PROVE  LedgerInv' /\ LeasedBytes' = LeasedBytes + n
<1>1. /\ GateFree /\ ledger' = [ledger EXCEPT !.used = @ + n]
      /\ lease' = [lease EXCEPT ![g] = @ + n]
      /\ UNCHANGED <<allowance, status, due, waiters, op, phase, grant>>
  BY DEF TryClaim, RecordCommitted
<1>2. n \in Nat /\ g \in Lessees
  BY BytesAssumption DEF Sizes, Lessees
<1>3. LedgerType /\ UsedInv /\ lease \in [Lessees -> Nat]
  BY DEF LedgerInv, UsedInv, Summable
<1>a. ledger.used \in Nat /\ ledger.used + n \in Nat
  BY <1>2, <1>3, Fields
<1>4. LedgerType' /\ ledger'.used = ledger.used + n /\ ledger'.allow = ledger.allow
  BY <1>1, <1>a, <1>3, Zenon DEF LedgerType
<1>5. /\ lease' \in [Lessees -> Nat] /\ lease'[g] = lease[g] + n
      /\ \A x \in Lessees \ {g} : lease'[x] = lease[x]
  BY <1>1, <1>2, <1>3
<1>6. /\ Summable(lease', Lessees) /\ LeasedBytes' = LeasedBytes - lease[g] + lease'[g]
      /\ LeasedBytes \in Nat /\ lease[g] \in Nat
  BY <1>2, <1>3, <1>5, LeaseUpdate
<1>7. LeasedBytes' = LeasedBytes + n
  BY <1>2, <1>5, <1>6
<1>8. UsedCoversLeases'
  BY <1>2, <1>3, <1>a, <1>4, <1>6, <1>7 DEF UsedInv, UsedCoversLeases
<1>9. UsedInv'
  BY <1>1, <1>6, <1>8 DEF GateFree, Lessees, UsedInv
<1>10. Lending' /\ Alive' /\ Covered' /\ Mapped'
  BY <1>1, <1>4, AllowancesUntouched
<1>11. QED
  BY <1>4, <1>7, <1>9, <1>10 DEF LedgerInv

LEMMA ReleaseKeeps ==
  ASSUME SumsAdd, LedgerInv, NEW g \in Lessees, NEW n \in Sizes, Release(g, n)
  PROVE  LedgerInv' /\ LeasedBytes' <= LeasedBytes
<1>1. /\ ledger' = [ledger EXCEPT !.used = Sat(@ - n)]
      /\ lease' = [lease EXCEPT ![g] = @ - n]
      /\ UNCHANGED <<allowance, status, due, waiters, op, phase, grant>>
  BY DEF Release
<1>2. n \in Nat
  BY BytesAssumption DEF Sizes
<1>3. LedgerType /\ UsedInv /\ lease \in [Lessees -> Nat]
  BY DEF LedgerInv, UsedInv, Summable
<1>4. /\ n <= lease[g]
      /\ g = op /\ phase = "refunding" => n <= lease[g] - grant.n
      /\ grant.n \in Nat /\ lease[g] \in Nat
  BY <1>2, <1>3, Fields DEF Release
<1>5. /\ lease' \in [Lessees -> Nat] /\ lease'[g] = lease[g] - n
      /\ \A x \in Lessees \ {g} : lease'[x] = lease[x]
  BY <1>1, <1>2, <1>3, <1>4
<1>6. /\ Summable(lease', Lessees) /\ LeasedBytes' = LeasedBytes - lease[g] + lease'[g]
      /\ LeasedBytes \in Nat /\ lease[g] \in Nat /\ lease[g] <= LeasedBytes
  BY <1>3, <1>5, LeaseUpdate
<1>7. ledger.used \in Nat /\ ledger.used >= LeasedBytes
  BY <1>3 DEF LedgerType, UsedInv, UsedCoversLeases
<1>8. Sat(ledger.used - n) = ledger.used - n /\ ledger.used - n \in Nat
  BY <1>2, <1>4, <1>6, <1>7 DEF Sat
<1>9. /\ LedgerType' /\ ledger'.used = ledger.used - n /\ ledger'.allow = ledger.allow
      /\ ledger'.growth = ledger.growth /\ ledger'.limit = ledger.limit
  BY <1>1, <1>3, <1>8, Zenon DEF LedgerType
<1>10. UsedCoversLeases' /\ LeasedBytes' <= LeasedBytes
  BY <1>2, <1>5, <1>6, <1>7, <1>9 DEF UsedCoversLeases
<1>11. UsedInv'
  <2>1. Summable(lease, Lessees)'
    BY <1>6 DEF Lessees
  <2>2. (phase = "consuming" => /\ ledger.used <= grant.loaded
                                /\ grant.n <= ledger.growth /\ grant.n <= grant.token
                                /\ grant.loaded + ledger.growth <= ledger.limit)'
    <3>1. ledger.used - n <= ledger.used
      BY <1>2, <1>7
    <3>2. grant.loaded \in Nat
      BY <1>3, Fields
    <3>3. QED
      BY <1>1, <1>2, <1>3, <1>7, <1>9, <3>1, <3>2 DEF UsedInv
  <2>3. ASSUME phase = "refunding" PROVE ledger'.used <= grant'.loaded /\ grant'.n <= lease'[op']
    <3>1. op \in Growers
      BY <2>3 DEF LedgerInv, Alive, Growing
    <3>2. op \in Lessees /\ grant.loaded \in Nat
      BY <1>3, <3>1, Fields DEF Lessees
    <3>3. ledger'.used <= grant'.loaded
      BY <1>1, <1>2, <1>3, <1>7, <1>9, <2>3, <3>2 DEF UsedInv
    <3>4. CASE g = op
      BY <1>1, <1>2, <1>4, <1>5, <2>3, <3>3, <3>4
    <3>5. CASE g # op
      BY <1>1, <1>3, <1>5, <2>3, <3>2, <3>3, <3>5 DEF UsedInv
    <3>6. QED
      BY <3>4, <3>5
  <2>4. QED
    BY <1>1, <1>10, <2>1, <2>2, <2>3 DEF UsedInv
<1>12. Lending' /\ Alive' /\ Covered' /\ Mapped'
  BY <1>1, <1>9, AllowancesUntouched
<1>13. QED
  BY <1>9, <1>10, <1>11, <1>12 DEF LedgerInv

-----------------------------------------------------------------------------
(* Mapped allowances. *)

LEMMA LendingKept ==
  ASSUME LedgerInv, UNCHANGED <<op, phase, grant>>,
         \A x \in Holders : \/ allowance'[x].growth = allowance[x].growth
                            \/ x # op /\ allowance'[x].growth = 0
  PROVE  Lending'
<1>1. phase \in Lent => op \in Holders
  BY DEF LedgerInv, Alive, Lent, Holders
<1>2. QED
  BY <1>1 DEF LedgerInv, Lending

LEMMA ReserveAllowanceKeeps ==
  ASSUME SumsAdd, LedgerInv, NEW h \in Holders, NEW n \in 0..MaxRequest, ReserveAllowance(h, n)
  PROVE  LedgerInv'
<1>1. /\ status[h] = "absent" /\ GateFree
      /\ ledger' = [ledger EXCEPT !.allow = @ + n]
      /\ allowance' = [allowance EXCEPT ![h].limit = n]
      /\ status' = [status EXCEPT ![h] = "live"]
      /\ UNCHANGED <<lease, due, waiters, op, phase, grant>>
  BY DEF ReserveAllowance
<1>2. LedgerType /\ n \in Nat
  BY BytesAssumption DEF LedgerInv
<1>3. ledger.allow \in Nat /\ ledger.allow + n \in Nat /\ due \in Nat /\ grant.n \in Nat
  BY <1>2, Fields
<1>4. /\ ledger' \in [limit : Nat, used : Nat, growth : Nat, allow : Nat]
      /\ ledger'.allow = ledger.allow + n /\ ledger'.used = ledger.used
      /\ ledger'.growth = ledger.growth /\ ledger'.limit = ledger.limit
  BY <1>1, <1>2, <1>3, Zenon DEF LedgerType
<1>5. /\ allowance' \in [Holders -> Allowance]
      /\ allowance'[h].limit = n
      /\ \A x \in Holders \ {h} : allowance'[x] = allowance[x]
      /\ \A x \in Holders : /\ allowance'[x].growth = allowance[x].growth
                            /\ allowance'[x].mapped = allowance[x].mapped
  BY <1>1, <1>2, ZenonT(30) DEF LedgerType, Allowance
<1>6. /\ status' \in [Holders -> {"absent", "live", "dead"}] /\ status'[h] = "live"
      /\ \A x \in Holders \ {h} : status'[x] = status[x]
  BY <1>1, <1>2 DEF LedgerType
<1>7. LedgerType'
  BY <1>1, <1>2, <1>4, <1>5, <1>6, Zenon DEF LedgerType
<1>8. UsedInv'
  BY <1>1, <1>4, UsedUntouched DEF LedgerInv
<1>9. Lending'
  BY <1>1, <1>5, LendingKept
<1>10. Alive'
  BY <1>1, <1>2, <1>5, <1>6 DEF LedgerInv, Alive, LedgerType, Holders
<1>11. allowance[h].limit = 0
  BY <1>1 DEF LedgerInv, Alive
<1>12. Covered'
  BY <1>5, <1>2, <1>11, <1>1, <1>3, <1>4, PromisedOne, CoveredBy, CoveredHas DEF GateFree
<1>13. Mapped'
  <2>1. h = Weights => phase # "reclaim"
    BY <1>1 DEF LedgerInv, Alive
  <2>2. allowance[h].mapped + allowance[h].growth <= n
    BY <1>2, <1>11, <2>1, Fields DEF LedgerInv, Mapped, MappedWithinAllowance
  <2>3. MappedWithinAllowance'
    BY <1>1, <1>5, <2>2 DEF LedgerInv, Mapped, MappedWithinAllowance
  <2>4. QED
    BY <1>1, <1>5, <2>1, <2>3 DEF LedgerInv, Mapped, Holders
<1>14. QED
  BY <1>7, <1>8, <1>9, <1>10, <1>12, <1>13 DEF LedgerInv

LEMMA DropAllowanceKeeps ==
  ASSUME SumsAdd, LedgerInv, NEW h \in Holders, DropAllowance(h)
  PROVE  LedgerInv'
<1>1. /\ ~Pinned(h) /\ ~(h = Weights /\ due > 0)
      /\ ledger' = [ledger EXCEPT !.allow = Sat(@ - allowance[h].limit)]
      /\ allowance' = [allowance EXCEPT ![h] = NoAllowance]
      /\ status' = [status EXCEPT ![h] = "absent"]
      /\ UNCHANGED <<lease, due, waiters, op, phase, grant>>
  BY DEF DropAllowance
<1>2. LedgerType
  BY DEF LedgerInv
<1>3. /\ ledger.allow \in Nat /\ due \in Nat /\ grant.n \in Nat /\ allowance[h].limit \in Nat
      /\ grant.transferred \in Nat
  BY <1>2, Fields
<1>a. /\ Sat(ledger.allow - allowance[h].limit) \in Nat
      /\ Sat(ledger.allow - allowance[h].limit) >= ledger.allow - allowance[h].limit
      /\ Sat(ledger.allow - allowance[h].limit) <= ledger.allow
  BY <1>3 DEF Sat
<1>4. /\ ledger' \in [limit : Nat, used : Nat, growth : Nat, allow : Nat]
      /\ ledger'.allow = Sat(ledger.allow - allowance[h].limit) /\ ledger'.used = ledger.used
      /\ ledger'.growth = ledger.growth /\ ledger'.limit = ledger.limit
  BY <1>1, <1>2, <1>a, Zenon DEF LedgerType
<1>5. /\ allowance' \in [Holders -> Allowance]
      /\ allowance'[h] = NoAllowance
      /\ \A x \in Holders \ {h} : allowance'[x] = allowance[x]
  BY <1>1, <1>2 DEF LedgerType, Allowance, NoAllowance
<1>6. /\ status' \in [Holders -> {"absent", "live", "dead"}] /\ status'[h] = "absent"
      /\ \A x \in Holders \ {h} : status'[x] = status[x]
  BY <1>1, <1>2 DEF LedgerType
<1>7. LedgerType'
  BY <1>1, <1>2, <1>4, <1>5, <1>6, Zenon DEF LedgerType
<1>8. UsedInv'
  BY <1>1, <1>4, UsedUntouched DEF LedgerInv
<1>9. h # op /\ ~InQueue(h) /\ (h = Weights => phase # "reclaim" /\ grant.transferred = 0)
  BY <1>1, <1>3 DEF Pinned
<1>10. Lending'
  BY <1>5, <1>9, <1>1, LendingKept DEF NoAllowance
<1>11. Alive'
  <2>1. \A i \in 1..Len(waiters) : waiters[i].who # h
    <3>1. DOMAIN waiters = 1..Len(waiters)
      BY <1>2, SMT DEF LedgerType
    <3>2. QED
      BY <1>9, <3>1, Zenon DEF InQueue
  <2>2. Growers \subseteq Holders /\ Weights \in Holders
    BY DEF Holders
  <2>3. (phase = "reclaim" \/ grant.transferred > 0 => status[Weights] # "absent")'
    BY <1>1, <1>3, <1>6, <1>9, <2>2 DEF LedgerInv, Alive
  <2>4. (status[Weights] # "dead" => due = 0)'
    BY <1>1, <1>3, <1>6, <2>2 DEF LedgerInv, Alive
  <2>5. (\A x \in Holders : status[x] = "absent" => allowance[x].limit = 0)'
    BY <1>5, <1>6 DEF LedgerInv, Alive, NoAllowance
  <2>6. QED
    BY <1>1, <1>6, <1>9, <2>1, <2>2, <2>3, <2>4, <2>5 DEF LedgerInv, Alive
<1>12. Covered'
  BY <1>5, <1>1, <1>2, <1>3, <1>a, <1>4, PromisedOne, CoveredBy, CoveredHas, Fields DEF NoAllowance
<1>13. Mapped'
  BY <1>1, <1>5, <1>9 DEF LedgerInv, Mapped, MappedWithinAllowance, NoAllowance, Holders
<1>14. QED
  BY <1>7, <1>8, <1>10, <1>11, <1>12, <1>13 DEF LedgerInv

LEMMA ConfirmTerminatedKeeps ==
  ASSUME SumsAdd, LedgerInv, ConfirmTerminated
  PROVE  LedgerInv'
<1>1. /\ status[Weights] = "live"
      /\ status' = [status EXCEPT ![Weights] = "dead"]
      /\ allowance' = [allowance EXCEPT ![Weights] = NoAllowance]
      /\ due' = allowance[Weights].limit
      /\ UNCHANGED <<ledger, lease, waiters, op, phase, grant>>
  BY DEF ConfirmTerminated
<1>2. LedgerType /\ Weights \in Holders
  BY DEF LedgerInv, Holders
<1>3. /\ ledger.allow \in Nat /\ due \in Nat /\ grant.n \in Nat /\ grant.target \in Nat
      /\ allowance[Weights].limit \in Nat
  BY <1>2, Fields
<1>4. due = 0
  BY <1>1 DEF LedgerInv, Alive
<1>5. /\ allowance' \in [Holders -> Allowance]
      /\ allowance'[Weights] = NoAllowance
      /\ \A x \in Holders \ {Weights} : allowance'[x] = allowance[x]
  BY <1>1, <1>2 DEF LedgerType, Allowance, NoAllowance
<1>6. /\ status' \in [Holders -> {"absent", "live", "dead"}] /\ status'[Weights] = "dead"
      /\ \A x \in Holders \ {Weights} : status'[x] = status[x]
  BY <1>1, <1>2 DEF LedgerType
<1>7. LedgerType'
  BY <1>1, <1>2, <1>3, <1>5, <1>6 DEF LedgerType
<1>8. UsedInv'
  BY <1>1, UsedUntouched DEF LedgerInv
<1>9. Lending'
  BY <1>5, <1>1, NamesAssumption DEF LedgerInv, Alive, Lent, NoAllowance, Holders, Lending
<1>10. Alive'
  BY <1>5, <1>6, <1>1, NamesAssumption DEF Holders, LedgerInv, Alive, NoAllowance
<1>11. Covered'
  BY <1>2, <1>5, <1>1, <1>3, <1>4, PromisedOne, CoveredBy, CoveredHas DEF NoAllowance
<1>12. Mapped'
  BY <1>1, <1>5, <1>3 DEF LedgerInv, Mapped, MappedWithinAllowance, NoAllowance
<1>13. QED
  BY <1>7, <1>8, <1>9, <1>10, <1>11, <1>12 DEF LedgerInv

LEMMA DischargeKeeps ==
  ASSUME SumsAdd, LedgerInv, Discharge
  PROVE  LedgerInv'
<1>1. /\ ledger' = [ledger EXCEPT !.allow = Sat(@ - due)]
      /\ due' = 0
      /\ UNCHANGED <<lease, allowance, status, waiters, op, phase, grant>>
  BY DEF Discharge
<1>2. LedgerType
  BY DEF LedgerInv
<1>3. ledger.allow \in Nat /\ due \in Nat /\ grant.n \in Nat /\ grant.loaded \in Nat
  BY <1>2, Fields
<1>4. /\ Sat(ledger.allow - due) \in Nat /\ Sat(ledger.allow - due) >= ledger.allow - due
      /\ Sat(ledger.allow - due) <= ledger.allow
  BY <1>3 DEF Sat
<1>5. /\ ledger' \in [limit : Nat, used : Nat, growth : Nat, allow : Nat]
      /\ ledger'.allow = Sat(ledger.allow - due) /\ ledger'.used = ledger.used
      /\ ledger'.growth = ledger.growth /\ ledger'.limit = ledger.limit
  BY <1>1, <1>2, <1>4, Zenon DEF LedgerType
<1>6. LedgerType'
  BY <1>1, <1>2, <1>5, Zenon DEF LedgerType
<1>7. UsedInv'
  BY <1>1, <1>5, UsedUntouched DEF LedgerInv
<1>8. Lending' /\ Alive' /\ Mapped'
  BY <1>1 DEF LedgerInv, Lending, Alive, Mapped, MappedWithinAllowance
<1>9. Covered'
  BY <1>1, <1>3, <1>4, <1>5, CoveredHas, CoveredBy DEF Promised
<1>10. QED
  BY <1>6, <1>7, <1>8, <1>9 DEF LedgerInv

\* Mapping and unmapping change one holder's mapped bytes only.
LEMMA MappingKeeps ==
  ASSUME SumsAdd, LedgerInv, NEW h \in Holders, NEW m \in Nat,
         allowance' = [allowance EXCEPT ![h].mapped = m],
         UNCHANGED <<ledger, lease, status, due, waiters, op, phase, grant>>,
         \/ m <= allowance[h].mapped
         \/ m + allowance[h].growth <= allowance[h].limit
  PROVE  LedgerInv'
<1>1. LedgerType
  BY DEF LedgerInv
<1>2. /\ allowance' \in [Holders -> Allowance]
      /\ \A x \in Holders : /\ allowance'[x].limit = allowance[x].limit
                            /\ allowance'[x].growth = allowance[x].growth
                            /\ x # h => allowance'[x].mapped = allowance[x].mapped
      /\ allowance'[h].mapped = m
  BY <1>1, Zenon DEF LedgerType, Allowance
<1>3. LedgerType'
  BY <1>1, <1>2, SMTT(30) DEF LedgerType
<1>4. UsedInv'
  BY UsedUntouched DEF LedgerInv
<1>5. Lending'
  BY <1>2, LendingKept
<1>6. Alive'
  BY <1>2 DEF LedgerInv, Alive
<1>7. Covered'
  BY <1>2, <1>1, CoveredHas, Fields, CoveredBy DEF Promised
<1>8. Mapped'
  BY <1>1, <1>2, Fields DEF LedgerInv, Mapped, MappedWithinAllowance, Holders
<1>9. QED
  BY <1>3, <1>4, <1>5, <1>6, <1>7, <1>8 DEF LedgerInv

LEMMA TryMapKeeps ==
  ASSUME SumsAdd, LedgerInv, NEW n \in Sizes, TryMap(n)
  PROVE  LedgerInv'
<1>1. /\ n \in Nat /\ n > 0 /\ Weights \in Holders /\ allowance[Weights].limit \in Nat
      /\ allowance[Weights].mapped \in Nat /\ allowance[Weights].growth \in Nat
  BY BytesAssumption, Fields DEF LedgerInv, Sizes, Holders
<1> DEFINE m == allowance[Weights].mapped + n
<1>2. m \in Nat /\ m + allowance[Weights].growth <= allowance[Weights].limit
  BY <1>1 DEF TryMap, Room, Sat
<1>3. allowance' = [allowance EXCEPT ![Weights].mapped = m]
  BY DEF TryMap
<1>4. UNCHANGED <<ledger, lease, status, due, waiters, op, phase, grant>>
  BY DEF TryMap
<1> HIDE DEF m
<1>5. QED
  BY <1>1, <1>2, <1>3, <1>4, MappingKeeps, Zenon

LEMMA UnmapKeeps ==
  ASSUME SumsAdd, LedgerInv, NEW h \in Holders, NEW n \in Sizes, Unmap(h, n)
  PROVE  LedgerInv'
<1>1. n \in Nat /\ allowance[h].mapped \in Nat
  BY BytesAssumption, Fields DEF LedgerInv, Sizes
<1> DEFINE m == Sat(allowance[h].mapped - n)
<1>2. m \in Nat /\ m <= allowance[h].mapped
  BY <1>1 DEF Sat
<1>3. allowance' = [allowance EXCEPT ![h].mapped = m]
  BY DEF Unmap
<1>4. UNCHANGED <<ledger, lease, status, due, waiters, op, phase, grant>>
  BY DEF Unmap
<1> HIDE DEF m
<1>5. QED
  BY <1>2, <1>3, <1>4, MappingKeeps, Zenon

-----------------------------------------------------------------------------
(* The operation queue and limit changes. *)

\* Steps that leave the allowances, or only their limits, alone.
LEMMA CoveredKept ==
  ASSUME SumsAdd, LedgerInv, \A x \in Holders : allowance'[x].limit = allowance[x].limit,
         due' = due, ledger'.allow = ledger.allow, phase' \notin {"return", "taking"}
  PROVE  Covered'
<1>1. Promised' = Promised
  BY DEF Promised
<1>2. Summable(Promised, Holders)' /\ Total(Promised)' = Total(Promised)
  BY <1>1, CoveredHas
<1>3. due \in Nat /\ ledger.allow \in Nat /\ grant.n \in Nat
  BY Fields DEF LedgerInv
<1>4. QED
  BY <1>2, <1>3, CoveredBy, CoveredHas

LEMMA MappedKept ==
  ASSUME LedgerInv, allowance' = allowance, phase # "reclaim", phase' # "reclaim"
  PROVE  Mapped'
  BY DEF LedgerInv, Mapped, MappedWithinAllowance

LEMMA NothingLent ==
  ASSUME SumsAdd, LedgerInv, phase \notin Growing, phase' \notin Growing, allowance' = allowance,
         UNCHANGED <<due, status>>, ledger'.allow = ledger.allow
  PROVE  Lending' /\ Covered' /\ Mapped'
<1>1. Lending'
  BY DEF LedgerInv, Lending, Lent, Growing, Granted
<1>2. Covered'
  BY CoveredKept DEF Growing
<1>3. Mapped'
  BY MappedKept DEF Growing
<1>4. QED
  BY <1>1, <1>2, <1>3

LEMMA EnqueueKeeps ==
  ASSUME LedgerInv, NEW a \in Askers, NEW n \in Nat, Enqueue(a, n)
  PROVE  LedgerInv'
<1> DEFINE w == [who |-> a, bytes |-> n]
<1>1. /\ a \in Growers => status[a] = "live"
      /\ waiters' = Append(waiters, w)
      /\ UNCHANGED <<ledger, lease, allowance, status, due, op, phase, grant>>
  BY DEF Enqueue
<1>2. w \in Request /\ w.who = a /\ LedgerType /\ waiters \in Seq(Request)
  BY DEF Request, LedgerInv, LedgerType
<1> HIDE DEF w
<1>3. /\ waiters' \in Seq(Request) /\ Len(waiters') = Len(waiters) + 1
      /\ \A i \in 1..Len(waiters) : waiters'[i] = waiters[i]
      /\ waiters'[Len(waiters) + 1] = w
  BY <1>1, <1>2
<1>4. Len(waiters) \in Nat
  BY <1>2
<1>5. LedgerType'
  BY <1>1, <1>2, <1>3 DEF LedgerType
<1>6. UsedInv' /\ Lending' /\ Mapped'
  BY <1>1 DEF LedgerInv, UsedInv, UsedCoversLeases, LeasedBytes, Lending, Mapped,
              MappedWithinAllowance
<1>7. Covered'
  BY <1>1 DEF LedgerInv, Covered, AllowancesCovered, Promised
<1>8. Alive'
  <2>1. \A i \in 1..Len(waiters') : waiters'[i].who \in Growers => status[waiters'[i].who] # "absent"
    <3> SUFFICES ASSUME NEW i \in 1..Len(waiters'), waiters'[i].who \in Growers
                 PROVE  status[waiters'[i].who] # "absent"
      OBVIOUS
    <3>1. i \in 1..Len(waiters) \/ i = Len(waiters) + 1
      BY <1>3, <1>4
    <3>2. CASE i \in 1..Len(waiters)
      BY <1>3, <3>2 DEF LedgerInv, Alive
    <3>3. CASE i = Len(waiters) + 1
      BY <1>1, <1>2, <1>3, <3>3
    <3>4. QED
      BY <3>1, <3>2, <3>3
  <2>2. QED
    BY <1>1, <2>1 DEF LedgerInv, Alive
<1>9. QED
  BY <1>5, <1>6, <1>7, <1>8 DEF LedgerInv

LEMMA AcquireKeeps ==
  ASSUME SumsAdd, LedgerInv, Acquire
  PROVE  LedgerInv'
<1> DEFINE w == Head(waiters)
<1>1. /\ op = None /\ waiters # <<>> /\ op' = w.who /\ waiters' = Tail(waiters)
      /\ phase' = IF w.who = Admin THEN "pausing" ELSE "physical"
      /\ grant' = [NoGrant EXCEPT !.bytes = w.bytes]
      /\ UNCHANGED <<ledger, lease, allowance, status, due>>
  BY DEF Acquire
<1>2. LedgerType /\ waiters \in Seq(Request)
  BY DEF LedgerInv, LedgerType
<1>3. /\ waiters' \in Seq(Request) /\ Len(waiters') = Len(waiters) - 1 /\ Len(waiters) \in Nat
      /\ Len(waiters) >= 1 /\ w = waiters[1] /\ w \in Request
      /\ \A i \in 1..Len(waiters') : waiters'[i] = waiters[i + 1]
  BY <1>1, <1>2
<1> HIDE DEF w
<1>4. w.who \in Askers /\ w.bytes \in Nat
  BY <1>3 DEF Request
<1>5. /\ grant' \in [bytes : Nat, token : Nat, left : Nat, unassigned : Nat,
                     transferred : Nat, target : Nat, n : Nat, loaded : Nat]
      /\ grant'.unassigned = 0 /\ grant'.transferred = 0
  BY <1>1, <1>4 DEF NoGrant
<1>6. phase' \in {"pausing", "physical"} /\ (phase' = "physical" => op' \in Growers)
  BY <1>1, <1>4 DEF Askers
<1>7. LedgerType'
  BY <1>1, <1>2, <1>3, <1>4, <1>5, <1>6, Zenon DEF LedgerType, Growing
<1>8. UsedInv'
  BY <1>1, <1>6, UsedKept DEF LedgerInv
<1>9. phase \notin Growing
  BY <1>1, NamesAssumption DEF LedgerInv, Alive
<1>10. Lending'
  BY <1>1, <1>5, <1>6, <1>9 DEF LedgerInv, Lending, Lent, Growing, Granted
<1>11. Alive'
  <2>1. \A i \in 1..Len(waiters) : waiters[i].who \in Growers => status[waiters[i].who] # "absent"
    BY DEF LedgerInv, Alive
  <2>2. op' \in Growers => status[op'] # "absent"
    BY <1>1, <1>3, <2>1
  <2>3. \A i \in 1..Len(waiters') : waiters'[i].who \in Growers => status[waiters'[i].who] # "absent"
    BY <1>3, <2>1
  <2>4. QED
    BY <1>1, <1>5, <1>6, <2>2, <2>3 DEF LedgerInv, Alive, Growing
<1>12. Covered'
  BY <1>1, <1>6, CoveredKept
<1>13. Mapped'
  BY <1>1, <1>6, <1>9, MappedKept DEF Growing
<1>14. QED
  BY <1>7, <1>8, <1>10, <1>11, <1>12, <1>13 DEF LedgerInv

LEMMA FinishKeeps ==
  ASSUME SumsAdd, LedgerInv, Finish
  PROVE  LedgerInv'
<1>1. /\ phase = "finish" /\ op' = None /\ phase' = "none" /\ grant' = NoGrant
      /\ ledger' = [ledger EXCEPT !.growth = Sat(@ - grant.token)]
      /\ UNCHANGED <<lease, allowance, status, due, waiters>>
  BY DEF Finish
<1>2. LedgerType /\ ledger.growth \in Nat /\ grant.token \in Nat
  BY Fields DEF LedgerInv
<1>3. Sat(ledger.growth - grant.token) \in Nat
  BY <1>2 DEF Sat
<1>4. /\ ledger' \in [limit : Nat, used : Nat, growth : Nat, allow : Nat]
      /\ ledger'.used = ledger.used /\ ledger'.allow = ledger.allow
  BY <1>1, <1>2, <1>3, Zenon DEF LedgerType
<1>5. LedgerType'
  BY <1>1, <1>2, <1>4, Zenon DEF LedgerType, NoGrant
<1>6. UsedInv'
  BY <1>1, <1>4, UsedKept DEF LedgerInv
<1>7. Lending' /\ Covered' /\ Mapped'
  BY <1>1, <1>4, NothingLent DEF Growing
<1>8. Alive'
  BY <1>1, NamesAssumption DEF LedgerInv, Alive, Growing, NoGrant
<1>9. QED
  BY <1>5, <1>6, <1>7, <1>8 DEF LedgerInv

LEMMA PauseClaimsKeeps ==
  ASSUME SumsAdd, LedgerInv, PauseClaims
  PROVE  LedgerInv'
<1>1. /\ phase = "pausing" /\ phase' = "limiting"
      /\ UNCHANGED <<ledger, lease, allowance, status, due, waiters, op, grant>>
  BY DEF PauseClaims
<1>2. LedgerType'
  BY <1>1 DEF LedgerInv, LedgerType
<1>3. UsedInv'
  BY <1>1, UsedKept DEF LedgerInv
<1>4. Lending' /\ Covered' /\ Mapped'
  BY <1>1, NothingLent DEF Growing
<1>5. Alive'
  BY <1>1 DEF LedgerInv, Alive, Growing
<1>6. QED
  BY <1>2, <1>3, <1>4, <1>5 DEF LedgerInv

LEMMA TrySetLimitKeeps ==
  ASSUME SumsAdd, LedgerInv, TrySetLimit
  PROVE  /\ LedgerInv' /\ LeasedBytes' = LeasedBytes
         /\ ledger'.limit = ledger.limit \/ LeasedBytes <= ledger'.limit
<1>1. /\ phase = "limiting" /\ phase' = "finish"
      /\ ledger' = IF ledger.used <= grant.bytes
                     THEN [ledger EXCEPT !.limit = grant.bytes] ELSE ledger
      /\ UNCHANGED <<lease, allowance, status, due, waiters, op, grant>>
  BY DEF TrySetLimit
<1>2. LedgerType /\ grant.bytes \in Nat
  BY Fields DEF LedgerInv
<1>3. /\ ledger' \in [limit : Nat, used : Nat, growth : Nat, allow : Nat]
      /\ ledger'.used = ledger.used /\ ledger'.allow = ledger.allow
      /\ ledger'.limit = ledger.limit \/ ledger.used <= ledger'.limit
  BY <1>1, <1>2, Zenon DEF LedgerType
<1>4. LedgerType'
  BY <1>1, <1>2, <1>3, SMTT(30) DEF LedgerType
<1>5. UsedInv'
  BY <1>1, <1>3, UsedKept DEF LedgerInv
<1>6. Lending' /\ Covered' /\ Mapped'
  BY <1>1, <1>3, NothingLent DEF Growing
<1>7. Alive'
  BY <1>1 DEF LedgerInv, Alive, Growing
<1>8. LeasedBytes \in Nat /\ LeasedBytes <= ledger.used /\ ledger.used \in Nat
  BY LeasedNat
<1>9. LeasedBytes' = LeasedBytes
  BY <1>1 DEF LeasedBytes
<1>10. ledger'.limit \in Nat
  BY <1>3
<1>11. QED
  BY <1>3, <1>4, <1>5, <1>6, <1>7, <1>8, <1>9, <1>10 DEF LedgerInv

\* set_limit keeps the invariant: no plain store is under way when it has the gate.
LEMMA SetLimitKeeps ==
  ASSUME SumsAdd, LedgerInv, NEW l \in Nat, SetLimit(l)
  PROVE  LedgerInv' /\ LeasedBytes' = LeasedBytes
<1>1. /\ phase \notin {"consuming", "refunding"}
      /\ ledger' = [ledger EXCEPT !.limit = l]
      /\ UNCHANGED <<lease, allowance, status, due, waiters, op, phase, grant>>
  BY DEF SetLimit, GateFree
<1>2. LedgerType
  BY DEF LedgerInv
<1>3. /\ ledger' \in [limit : Nat, used : Nat, growth : Nat, allow : Nat]
      /\ ledger'.used = ledger.used /\ ledger'.allow = ledger.allow
  BY <1>1, <1>2, Zenon DEF LedgerType
<1>4. LedgerType'
  BY <1>1, <1>2, <1>3, Zenon DEF LedgerType
<1>5. UsedInv'
  BY <1>1, <1>3, UsedKept, Zenon DEF LedgerInv
<1>6. Lending' /\ Alive' /\ Covered' /\ Mapped'
  BY <1>1, <1>3, AllowancesUntouched, Zenon
<1>7. LeasedBytes' = LeasedBytes
  BY <1>1 DEF LeasedBytes
<1>8. QED
  BY <1>4, <1>5, <1>6, <1>7 DEF LedgerInv

-----------------------------------------------------------------------------
(* Growth: reserving, and taking capacity for it. *)

LEMMA Bounds ==
  ASSUME NEW m \in Nat, NEW n \in Nat
  PROVE  AtMost(m, n) \in Nat /\ AtMost(m, n) <= m /\ AtMost(m, n) <= n
  BY DEF AtMost

\* Who has an operation in one of these phases.
LEMMA Requester ==
  ASSUME LedgerInv, phase \in Growing
  PROVE  op \in Growers /\ op \in Holders /\ op # Weights /\ Weights \in Holders
  BY NamesAssumption DEF LedgerInv, Alive, Holders

\* A step of the requester keeps whoever it names alive.
LEMMA AliveKept ==
  ASSUME LedgerInv, phase \in Growing, UNCHANGED <<status, due, waiters, op>>,
         \A h \in Holders : allowance'[h].limit = allowance[h].limit \/ status[h] # "absent",
         phase' = "reclaim" \/ grant'.transferred > 0 => status[Weights] # "absent"
  PROVE  Alive'
  BY DEF LedgerInv, Alive

LEMMA ReserveGrowthKeeps ==
  ASSUME SumsAdd, LedgerInv, ReserveGrowth
  PROVE  LedgerInv'
<1> DEFINE own == AtMost(grant.bytes, Room(op))
<1>1. /\ phase = "physical"
      /\ ledger' = [ledger EXCEPT !.growth = @ + grant.bytes]
      /\ allowance' = [allowance EXCEPT ![op].growth = @ + own]
      /\ grant' = [grant EXCEPT !.token = grant.bytes, !.left = grant.bytes - own]
      /\ phase' = IF own = grant.bytes THEN "granted" ELSE "unassigned"
      /\ UNCHANGED <<lease, status, due, waiters, op>>
  BY DEF ReserveGrowth
<1>2. LedgerType /\ op \in Growers /\ op \in Holders /\ op # Weights
  BY <1>1, Requester DEF LedgerInv, Growing
<1>3. /\ ledger.growth \in Nat /\ grant.bytes \in Nat /\ allowance[op].limit \in Nat
      /\ allowance[op].mapped \in Nat /\ allowance[op].growth \in Nat
  BY <1>2, Fields
<1>4. allowance[op].mapped + allowance[op].growth <= allowance[op].limit
  BY <1>2 DEF LedgerInv, Mapped, MappedWithinAllowance
<1>5. /\ Room(op) \in Nat
      /\ Room(op) = allowance[op].limit - allowance[op].mapped - allowance[op].growth
  BY <1>3, <1>4 DEF Room, Sat
<1>6. own \in Nat /\ own <= grant.bytes /\ own <= Room(op)
  BY <1>3, <1>5, Bounds, Zenon
<1> HIDE DEF own
<1>7. grant.bytes - own \in Nat /\ ledger.growth + grant.bytes \in Nat
      /\ allowance[op].growth + own \in Nat
  BY <1>3, <1>6
<1>8. /\ ledger' \in [limit : Nat, used : Nat, growth : Nat, allow : Nat]
      /\ ledger'.used = ledger.used /\ ledger'.allow = ledger.allow
  BY <1>1, <1>2, <1>7, Zenon DEF LedgerType
<1>9. /\ grant' \in [bytes : Nat, token : Nat, left : Nat, unassigned : Nat,
                     transferred : Nat, target : Nat, n : Nat, loaded : Nat]
      /\ grant'.left = grant.bytes - own /\ grant'.bytes = grant.bytes
      /\ grant'.unassigned = grant.unassigned /\ grant'.transferred = grant.transferred
  BY <1>1, <1>2, <1>3, <1>7, Zenon DEF LedgerType
<1>10. /\ allowance' \in [Holders -> Allowance]
       /\ allowance'[op].growth = allowance[op].growth + own
       /\ \A x \in Holders \ {op} : allowance'[x] = allowance[x]
       /\ \A x \in Holders : /\ allowance'[x].limit = allowance[x].limit
                             /\ allowance'[x].mapped = allowance[x].mapped
  BY <1>1, <1>2, <1>7, ZenonT(30) DEF LedgerType, Allowance
<1>11. phase' \in {"granted", "unassigned"} /\ (phase' = "granted" => own = grant.bytes)
  BY <1>1
<1>12. LedgerType'
  BY <1>1, <1>2, <1>8, <1>9, <1>10, <1>11, Zenon DEF LedgerType, Growing
<1>13. UsedInv'
  BY <1>1, <1>8, <1>11, UsedKept DEF LedgerInv
<1>14. Lending'
  BY <1>1, <1>2, <1>3, <1>6, <1>9, <1>10, <1>11 DEF LedgerInv, Lending, Lent, Growing, Granted
<1>15. Alive'
  BY <1>1, <1>9, <1>10, <1>11, AliveKept DEF LedgerInv, Lending, Growing
<1>16. Covered'
  BY <1>1, <1>8, <1>10, <1>11, CoveredKept
<1>17. Mapped'
  BY <1>2, <1>3, <1>5, <1>6, <1>10, <1>1, <1>11 DEF LedgerInv, Mapped, MappedWithinAllowance
<1>18. QED
  BY <1>12, <1>13, <1>14, <1>15, <1>16, <1>17 DEF LedgerInv

LEMMA LoadUnassignedKeeps ==
  ASSUME SumsAdd, LedgerInv, LoadUnassigned
  PROVE  LedgerInv'
<1> DEFINE n == AtMost(grant.left, Sat(ledger.limit - ledger.allow))
<1>1. /\ phase = "unassigned" /\ phase' = "taking"
      /\ grant' = [grant EXCEPT !.loaded = ledger.allow, !.n = n]
      /\ UNCHANGED <<ledger, lease, allowance, status, due, waiters, op>>
  BY DEF LoadUnassigned
<1>2. LedgerType /\ ledger.limit \in Nat /\ ledger.allow \in Nat /\ grant.left \in Nat /\ due \in Nat
  BY Fields DEF LedgerInv
<1>3. n \in Nat /\ n <= grant.left
  <2>1. Sat(ledger.limit - ledger.allow) \in Nat
    BY <1>2 DEF Sat
  <2>2. QED
    BY <1>2, <2>1, Bounds, Zenon
<1> HIDE DEF n
<1>4. /\ grant' \in [bytes : Nat, token : Nat, left : Nat, unassigned : Nat,
                     transferred : Nat, target : Nat, n : Nat, loaded : Nat]
      /\ grant'.left = grant.left /\ grant'.bytes = grant.bytes /\ grant'.n = n
      /\ grant'.unassigned = grant.unassigned /\ grant'.transferred = grant.transferred
      /\ grant'.loaded = ledger.allow
  BY <1>1, <1>2, <1>3, Zenon DEF LedgerType
<1>5. LedgerType'
  BY <1>1, <1>2, <1>4, Zenon DEF LedgerType, Growing
<1>6. UsedInv'
  BY <1>1, UsedKept DEF LedgerInv
<1>7. Lending'
  BY <1>1, <1>3, <1>4 DEF LedgerInv, Lending, Lent, Growing, Granted
<1>8. Alive'
  BY <1>1, <1>4, AliveKept DEF LedgerInv, Lending, Growing
<1>9. Covered'
  BY <1>1, <1>2, <1>4, CoveredHas, CoveredBy DEF Promised
<1>10. Mapped'
  BY <1>1, MappedKept
<1>11. QED
  BY <1>5, <1>6, <1>7, <1>8, <1>9, <1>10 DEF LedgerInv

LEMMA StoreUnassignedKeeps ==
  ASSUME SumsAdd, LedgerInv, StoreUnassigned
  PROVE  LedgerInv'
<1>1. /\ phase = "taking"
      /\ ledger' = [ledger EXCEPT !.allow = grant.loaded + grant.n]
      /\ allowance' = Lend(allowance, op, grant.n)
      /\ grant' = Local([grant EXCEPT !.unassigned = grant.n, !.left = @ - grant.n])
      /\ phase' = IF grant.left = grant.n THEN "granted" ELSE "victim"
      /\ UNCHANGED <<lease, status, due, waiters, op>>
  BY DEF StoreUnassigned
<1>2. LedgerType /\ op \in Growers /\ op \in Holders /\ op # Weights
  BY <1>1, Requester DEF LedgerInv, Growing
<1>3. /\ ledger.allow \in Nat /\ grant.bytes \in Nat /\ grant.left \in Nat /\ grant.n \in Nat
      /\ grant.loaded \in Nat /\ allowance[op].limit \in Nat /\ due \in Nat
      /\ allowance[op].mapped \in Nat /\ allowance[op].growth \in Nat
  BY <1>2, Fields
<1>4. /\ grant.n <= grant.left /\ grant.left <= grant.bytes
      /\ grant.unassigned = 0 /\ grant.transferred = 0
      /\ allowance[op].growth = grant.bytes - grant.left
      /\ \A x \in Holders : x # op => allowance[x].growth = 0
  BY <1>1 DEF LedgerInv, Lending, Lent, Growing
<1>5. /\ grant.loaded + grant.n \in Nat /\ grant.left - grant.n \in Nat
      /\ allowance[op].limit + grant.n \in Nat /\ allowance[op].growth + grant.n \in Nat
  BY <1>3, <1>4
<1>6. /\ ledger' \in [limit : Nat, used : Nat, growth : Nat, allow : Nat]
      /\ ledger'.used = ledger.used /\ ledger'.allow = grant.loaded + grant.n
  BY <1>1, <1>2, <1>5, Zenon DEF LedgerType
<1>7. /\ grant' \in [bytes : Nat, token : Nat, left : Nat, unassigned : Nat,
                     transferred : Nat, target : Nat, n : Nat, loaded : Nat]
      /\ grant'.left = grant.left - grant.n /\ grant'.bytes = grant.bytes
      /\ grant'.unassigned = grant.n /\ grant'.transferred = grant.transferred
  BY <1>1, <1>2, <1>3, <1>5, Zenon DEF LedgerType, Local
<1>8. /\ allowance' \in [Holders -> Allowance]
      /\ allowance'[op].growth = allowance[op].growth + grant.n
      /\ allowance'[op].limit = allowance[op].limit + grant.n
      /\ allowance'[op].mapped = allowance[op].mapped
      /\ \A x \in Holders \ {op} : allowance'[x] = allowance[x]
  BY <1>1, <1>2, <1>5, Zenon DEF LedgerType, Allowance, Lend
<1>9. phase' \in {"granted", "victim"} /\ (phase' = "granted" => grant.left = grant.n)
  BY <1>1
<1>10. LedgerType'
  BY <1>1, <1>2, <1>6, <1>7, <1>8, <1>9, Zenon DEF LedgerType, Growing
<1>11. UsedInv'
  BY <1>1, <1>6, <1>9, UsedKept DEF LedgerInv
<1>12. Lending'
  BY <1>3, <1>4, <1>7, <1>8, <1>9, <1>1 DEF Lending, Lent, Growing, Granted
<1>13. Alive'
  BY <1>2, <1>8, <1>1, <1>4, <1>7, <1>9, AliveKept DEF LedgerInv, Alive, Growing
<1>14. Covered'
  BY <1>2, <1>8, <1>3, <1>1, <1>6, <1>9, PromisedOne, CoveredHas, CoveredBy
<1>15. Mapped'
  BY <1>2, <1>3, <1>8, <1>1, <1>9 DEF LedgerInv, Mapped, MappedWithinAllowance
<1>16. QED
  BY <1>10, <1>11, <1>12, <1>13, <1>14, <1>15 DEF LedgerInv

\* Lending changes one holder, and so does moving a limit.
LEMMA Lends ==
  ASSUME NEW al \in [Holders -> Allowance], NEW g \in Holders, NEW n \in Int,
         al[g].limit + n \in Nat, al[g].growth + n \in Nat
  PROVE  /\ Lend(al, g, n) \in [Holders -> Allowance]
         /\ Lend(al, g, n)[g].limit = al[g].limit + n
         /\ Lend(al, g, n)[g].growth = al[g].growth + n
         /\ Lend(al, g, n)[g].mapped = al[g].mapped
         /\ \A x \in Holders \ {g} : Lend(al, g, n)[x] = al[x]
  BY Zenon DEF Lend, Allowance

LEMMA SetsLimit ==
  ASSUME NEW al \in [Holders -> Allowance], NEW g \in Holders, NEW m \in Nat,
         NEW new, new = [al EXCEPT ![g].limit = m]
  PROVE  /\ new \in [Holders -> Allowance]
         /\ new[g].limit = m /\ new[g].growth = al[g].growth /\ new[g].mapped = al[g].mapped
         /\ \A x \in Holders \ {g} : new[x] = al[x]
  BY DEF Allowance

LEMMA TakeFromVictimKeeps ==
  ASSUME SumsAdd, LedgerInv, TakeFromVictim
  PROVE  LedgerInv'
<1> DEFINE n == AtMost(grant.left, allowance[Weights].limit)
           t == Sat(allowance[Weights].mapped - (allowance[Weights].limit - n))
<1>1. /\ phase = "victim" /\ status[Weights] = "live" /\ phase' = "reclaim"
      /\ allowance' = [Lend(allowance, op, n) EXCEPT ![Weights].limit = @ - n]
      /\ grant' = [grant EXCEPT !.n = n, !.target = t]
      /\ UNCHANGED <<ledger, lease, status, due, waiters, op>>
  BY DEF TakeFromVictim
<1>2. LedgerType /\ op \in Growers /\ op \in Holders /\ op # Weights /\ Weights \in Holders
  BY <1>1, Requester DEF LedgerInv, Growing
<1>3. /\ grant.bytes \in Nat /\ grant.left \in Nat /\ due \in Nat
      /\ allowance[op].limit \in Nat /\ allowance[Weights].limit \in Nat
      /\ allowance[op].mapped \in Nat /\ allowance[Weights].mapped \in Nat
      /\ allowance[op].growth \in Nat
  BY <1>2, Fields
<1>4. /\ grant.left <= grant.bytes /\ grant.transferred = 0
      /\ grant.unassigned + grant.transferred <= grant.bytes - grant.left
      /\ allowance[op].growth = grant.bytes - grant.left
      /\ \A x \in Holders : x # op => allowance[x].growth = 0
  BY <1>1 DEF LedgerInv, Lending, Lent, Growing
<1>5. /\ allowance[op].mapped + allowance[op].growth <= allowance[op].limit
      /\ allowance[Weights].mapped <= allowance[Weights].limit
  BY <1>1, <1>2, <1>3, <1>4 DEF LedgerInv, Mapped, MappedWithinAllowance
<1>6. n \in Nat /\ n <= grant.left /\ n <= allowance[Weights].limit
  BY <1>3, Bounds, Zenon
<1> HIDE DEF n
<1>7. /\ t \in Nat /\ t <= n
      /\ allowance[Weights].mapped <= allowance[Weights].limit - n + t
  BY <1>3, <1>5, <1>6 DEF Sat
<1> HIDE DEF t
<1>8. /\ allowance[Weights].limit - n \in Nat
      /\ allowance[op].limit + n \in Nat /\ allowance[op].growth + n \in Nat
  BY <1>3, <1>6
<1>9. /\ grant' \in [bytes : Nat, token : Nat, left : Nat, unassigned : Nat,
                     transferred : Nat, target : Nat, n : Nat, loaded : Nat]
      /\ grant'.left = grant.left /\ grant'.bytes = grant.bytes
      /\ grant'.unassigned = grant.unassigned /\ grant'.transferred = grant.transferred
      /\ grant'.n = n /\ grant'.target = t
  BY <1>1, <1>2, <1>6, <1>7, Zenon DEF LedgerType
<1>10. /\ allowance' \in [Holders -> Allowance]
       /\ allowance'[op].growth = allowance[op].growth + n
       /\ allowance'[op].limit = allowance[op].limit + n
       /\ allowance'[op].mapped = allowance[op].mapped
       /\ allowance'[Weights].growth = allowance[Weights].growth
       /\ allowance'[Weights].limit = allowance[Weights].limit - n
       /\ allowance'[Weights].mapped = allowance[Weights].mapped
       /\ \A x \in Holders \ {op, Weights} : allowance'[x] = allowance[x]
  <2> DEFINE al == Lend(allowance, op, n)
  <2>1. allowance \in [Holders -> Allowance] /\ n \in Int
    BY <1>2, <1>6 DEF LedgerType
  <2>2. /\ al \in [Holders -> Allowance]
        /\ al[op].limit = allowance[op].limit + n /\ al[op].growth = allowance[op].growth + n
        /\ al[op].mapped = allowance[op].mapped
        /\ \A x \in Holders \ {op} : al[x] = allowance[x]
    BY <1>2, <1>8, <2>1, Lends
  <2> HIDE DEF al
  <2>3. allowance' = [al EXCEPT ![Weights].limit = allowance[Weights].limit - n]
    BY <1>1, <1>2, <2>2, Zenon DEF al
  <2>4. /\ allowance' \in [Holders -> Allowance]
        /\ allowance'[Weights].limit = allowance[Weights].limit - n
        /\ allowance'[Weights].growth = al[Weights].growth
        /\ allowance'[Weights].mapped = al[Weights].mapped
        /\ \A x \in Holders \ {Weights} : allowance'[x] = al[x]
    BY <1>2, <1>8, <2>2, <2>3, SetsLimit
  <2>5. QED
    BY <1>2, <2>2, <2>4
<1>11. LedgerType'
  BY <1>1, <1>2, <1>9, <1>10, Zenon DEF LedgerType, Growing
<1>12. UsedInv'
  BY <1>1, UsedKept DEF LedgerInv
<1>13. Lending'
  BY <1>3, <1>4, <1>6, <1>9, <1>10, <1>2, <1>1 DEF Lending, Lent, Growing, Granted
<1>14. Alive'
  BY <1>1, <1>2, <1>10, AliveKept DEF LedgerInv, Alive, Growing
<1>15. Covered'
  <2>1. /\ Summable(Promised, Holders)' /\ Total(Promised) \in Nat
        /\ Total(Promised)' = Total(Promised) - allowance[op].limit + allowance'[op].limit
                               - allowance[Weights].limit + allowance'[Weights].limit
    BY <1>2, <1>10, PromisedTwo, Zenon
  <2>2. Total(Promised)' = Total(Promised)
    BY <1>3, <1>6, <1>10, <2>1
  <2>3. ledger.allow >= Total(Promised) + due
    BY <1>1, CoveredHas
  <2>4. QED
    BY <1>1, <1>3, <2>1, <2>2, <2>3, CoveredBy
<1>16. Mapped'
  BY <1>3, <1>5, <1>6, <1>10, <1>1, <1>7, <1>9 DEF LedgerInv, Mapped, MappedWithinAllowance
<1>17. QED
  BY <1>11, <1>12, <1>13, <1>14, <1>15, <1>16 DEF LedgerInv

LEMMA NoVictimKeeps ==
  ASSUME SumsAdd, LedgerInv, NoVictim
  PROVE  LedgerInv'
<1>1. /\ phase = "victim" /\ phase' = "rollback"
      /\ UNCHANGED <<ledger, lease, allowance, status, due, waiters, op, grant>>
  BY DEF NoVictim
<1>2. LedgerType'
  BY <1>1 DEF LedgerInv, LedgerType, Growing
<1>3. UsedInv'
  BY <1>1, UsedKept DEF LedgerInv
<1>4. Lending'
  BY <1>1, SMTT(30) DEF LedgerInv, Lending, Lent, Growing, Granted
<1>5. Alive'
  BY <1>1 DEF LedgerInv, Alive, Growing
<1>6. Covered'
  BY <1>1, CoveredKept
<1>7. Mapped'
  BY <1>1, MappedKept, SMTT(30)
<1>8. QED
  BY <1>2, <1>3, <1>4, <1>5, <1>6, <1>7 DEF LedgerInv

\* What both outcomes of a reclaim start from.
LEMMA ReclaimStart ==
  ASSUME SumsAdd, LedgerInv, phase = "reclaim"
  PROVE  /\ op \in Growers /\ op \in Holders /\ op # Weights /\ Weights \in Holders
         /\ grant.n <= grant.left /\ grant.left <= grant.bytes /\ grant.transferred = 0
         /\ grant.unassigned <= grant.bytes - grant.left
         /\ allowance[op].growth = grant.bytes - grant.left + grant.n
         /\ \A x \in Holders : x # op => allowance[x].growth = 0
         /\ allowance[op].mapped + allowance[op].growth <= allowance[op].limit
         /\ allowance[Weights].mapped <= allowance[Weights].limit + grant.target
         /\ grant.target <= grant.n
         /\ status[Weights] # "absent" /\ status[op] # "absent"
         /\ ledger.allow >= Total(Promised) + due
<1>1. op \in Growers /\ op \in Holders /\ op # Weights /\ Weights \in Holders
  BY Requester DEF Growing
<1>2. /\ grant.n <= grant.left /\ grant.left <= grant.bytes /\ grant.transferred = 0
      /\ grant.unassigned + grant.transferred <= grant.bytes - grant.left
      /\ allowance[op].growth = grant.bytes - grant.left + grant.n
      /\ \A x \in Holders : x # op => allowance[x].growth = 0
  BY DEF LedgerInv, Lending, Lent, Growing
<1>3. grant.unassigned \in Nat
  BY Fields DEF LedgerInv
<1>4. /\ allowance[op].mapped + allowance[op].growth <= allowance[op].limit
      /\ allowance[Weights].mapped <= allowance[Weights].limit + grant.target
      /\ grant.target <= grant.n
  BY <1>1 DEF LedgerInv, Mapped, MappedWithinAllowance
<1>5. status[Weights] # "absent" /\ status[op] # "absent"
  BY <1>1 DEF LedgerInv, Alive
<1>6. QED
  BY <1>1, <1>2, <1>3, <1>4, <1>5, CoveredHas

LEMMA ReclaimedKeeps ==
  ASSUME SumsAdd, LedgerInv, NEW r \in Nat, Reclaim(r), r >= grant.target
  PROVE  LedgerInv'
<1>1. LedgerType /\ grant.target \in Nat
  BY Fields DEF LedgerInv
<1>a. /\ phase = "reclaim" /\ r <= allowance[Weights].mapped
      /\ allowance' = [allowance EXCEPT ![Weights].mapped = @ - r]
      /\ grant' = Local([grant EXCEPT !.transferred = grant.n, !.left = @ - grant.n])
      /\ phase' = IF grant.left = grant.n THEN "granted" ELSE "rollback"
      /\ UNCHANGED <<ledger, lease, status, due, waiters, op>>
  BY <1>1 DEF Reclaim
<1>2. /\ op \in Growers /\ op \in Holders /\ op # Weights /\ Weights \in Holders
      /\ grant.n <= grant.left /\ grant.left <= grant.bytes
      /\ grant.unassigned <= grant.bytes - grant.left
      /\ allowance[op].growth = grant.bytes - grant.left + grant.n
      /\ \A x \in Holders : x # op => allowance[x].growth = 0
      /\ allowance[Weights].mapped <= allowance[Weights].limit + grant.target
      /\ status[Weights] # "absent" /\ status[op] # "absent"
  BY <1>a, ReclaimStart
<1>3. /\ grant.bytes \in Nat /\ grant.left \in Nat /\ grant.n \in Nat /\ grant.target \in Nat
      /\ grant.unassigned \in Nat
      /\ allowance[Weights].limit \in Nat /\ allowance[Weights].mapped \in Nat
  BY <1>1, <1>2, Fields
<1>4. grant.left - grant.n \in Nat /\ allowance[Weights].mapped - r \in Nat
  BY <1>a, <1>2, <1>3
<1>5. /\ grant' \in [bytes : Nat, token : Nat, left : Nat, unassigned : Nat,
                     transferred : Nat, target : Nat, n : Nat, loaded : Nat]
      /\ grant'.left = grant.left - grant.n /\ grant'.bytes = grant.bytes
      /\ grant'.unassigned = grant.unassigned /\ grant'.transferred = grant.n
  BY <1>1, <1>a, <1>3, <1>4, Zenon DEF LedgerType, Local
<1>6. /\ allowance' \in [Holders -> Allowance]
      /\ allowance'[Weights].mapped = allowance[Weights].mapped - r
      /\ \A x \in Holders \ {Weights} : allowance'[x] = allowance[x]
      /\ \A x \in Holders : /\ allowance'[x].limit = allowance[x].limit
                            /\ allowance'[x].growth = allowance[x].growth
  BY <1>1, <1>a, <1>2, <1>4, Zenon DEF LedgerType, Allowance
<1>7. phase' \in {"granted", "rollback"} /\ (phase' = "granted" => grant.left = grant.n)
  BY <1>a
<1>8. LedgerType'
  BY <1>1, <1>a, <1>5, <1>6, <1>7, Zenon DEF LedgerType, Growing
<1>9. UsedInv'
  BY <1>a, <1>7, UsedKept DEF LedgerInv
<1>10. Lending'
  BY <1>a, <1>2, <1>3, <1>5, <1>6, <1>7 DEF Lending, Lent, Growing, Granted
<1>11. Alive'
  BY <1>a, <1>2, <1>6, AliveKept DEF Growing
<1>12. Covered'
  BY <1>a, <1>6, <1>7, CoveredKept
<1>13. Mapped'
  BY <1>2, <1>3, <1>6, <1>a, <1>7 DEF LedgerInv, Mapped, MappedWithinAllowance
<1>14. QED
  BY <1>8, <1>9, <1>10, <1>11, <1>12, <1>13 DEF LedgerInv

LEMMA UnreclaimedKeeps ==
  ASSUME SumsAdd, LedgerInv, NEW r \in Nat, Reclaim(r), r < grant.target
  PROVE  LedgerInv'
<1> DEFINE un == [allowance EXCEPT ![Weights].mapped = @ - r]
           d == -grant.n
<1>1. LedgerType /\ grant.target \in Nat
  BY Fields DEF LedgerInv
<1>a. allowance' = [Lend(un, op, d) EXCEPT ![Weights].limit = @ + grant.n]
  <2>1. ~(r >= grant.target)
    BY <1>1
  <2>2. QED
    BY <2>1, Zenon DEF Reclaim
<1>b. /\ phase = "reclaim" /\ r <= allowance[Weights].mapped
      /\ grant' = Local(grant) /\ phase' = "rollback"
      /\ UNCHANGED <<ledger, lease, status, due, waiters, op>>
  BY <1>1 DEF Reclaim
<1>2. /\ op \in Growers /\ op \in Holders /\ op # Weights /\ Weights \in Holders
      /\ grant.n <= grant.left /\ grant.left <= grant.bytes /\ grant.transferred = 0
      /\ grant.unassigned <= grant.bytes - grant.left
      /\ allowance[op].growth = grant.bytes - grant.left + grant.n
      /\ \A x \in Holders : x # op => allowance[x].growth = 0
      /\ allowance[op].mapped + allowance[op].growth <= allowance[op].limit
      /\ allowance[Weights].mapped <= allowance[Weights].limit + grant.target
      /\ grant.target <= grant.n
      /\ status[Weights] # "absent" /\ status[op] # "absent"
      /\ ledger.allow >= Total(Promised) + due
  BY <1>b, ReclaimStart, SMTT(30)
<1>3. /\ grant.bytes \in Nat /\ grant.left \in Nat /\ grant.n \in Nat /\ grant.target \in Nat
      /\ grant.unassigned \in Nat /\ due \in Nat
      /\ allowance[Weights].limit \in Nat /\ allowance[Weights].mapped \in Nat
      /\ allowance[op].limit \in Nat /\ allowance[op].mapped \in Nat /\ allowance[op].growth \in Nat
  BY <1>1, <1>2, Fields, SMTT(30)
<1>4. /\ allowance[Weights].mapped - r \in Nat /\ allowance[Weights].limit + grant.n \in Nat
      /\ allowance[op].limit + d \in Nat /\ allowance[op].growth + d \in Nat /\ d \in Int
      /\ allowance[op].limit + d = allowance[op].limit - grant.n
      /\ allowance[op].growth + d = allowance[op].growth - grant.n
  BY <1>b, <1>2, <1>3
<1> HIDE DEF d, un
<1>5. /\ grant' \in [bytes : Nat, token : Nat, left : Nat, unassigned : Nat,
                     transferred : Nat, target : Nat, n : Nat, loaded : Nat]
      /\ grant'.left = grant.left /\ grant'.bytes = grant.bytes
      /\ grant'.unassigned = grant.unassigned /\ grant'.transferred = grant.transferred
  BY <1>1, <1>b, <1>3, Zenon DEF LedgerType, Local
<1>6. /\ allowance' \in [Holders -> Allowance]
      /\ allowance'[op].growth = allowance[op].growth - grant.n
      /\ allowance'[op].limit = allowance[op].limit - grant.n
      /\ allowance'[op].mapped = allowance[op].mapped
      /\ allowance'[Weights].growth = allowance[Weights].growth
      /\ allowance'[Weights].limit = allowance[Weights].limit + grant.n
      /\ allowance'[Weights].mapped = allowance[Weights].mapped - r
      /\ \A x \in Holders \ {op, Weights} : allowance'[x] = allowance[x]
  <2> DEFINE al == Lend(un, op, d)
  <2>1. /\ un \in [Holders -> Allowance] /\ un[Weights].mapped = allowance[Weights].mapped - r
        /\ un[Weights].limit = allowance[Weights].limit
        /\ un[Weights].growth = allowance[Weights].growth
        /\ \A x \in Holders \ {Weights} : un[x] = allowance[x]
    BY <1>1, <1>2, <1>4, ZenonT(30) DEF LedgerType, Allowance, un
  <2>2. allowance' = [al EXCEPT ![Weights].limit = @ + grant.n]
    BY <1>a
  <2>3. /\ al \in [Holders -> Allowance]
        /\ al[op].limit = un[op].limit + d /\ al[op].growth = un[op].growth + d
        /\ al[op].mapped = un[op].mapped
        /\ \A x \in Holders \ {op} : al[x] = un[x]
    <3>1. un[op].limit + d \in Nat /\ un[op].growth + d \in Nat
      BY <1>2, <1>4, <2>1, SMTT(30)
    <3>2. QED
      BY <1>2, <1>4, <2>1, <3>1, Lends
  <2> HIDE DEF al
  <2>4. allowance' = [al EXCEPT ![Weights].limit = allowance[Weights].limit + grant.n]
    BY <1>2, <2>1, <2>2, <2>3, Zenon
  <2> DEFINE m == allowance[Weights].limit + grant.n
  <2>a. Weights \in Holders /\ m \in Nat
    BY <1>2, <1>4
  <2>b. al \in [Holders -> Allowance] /\ allowance' = [al EXCEPT ![Weights].limit = m]
    BY <2>3, <2>4
  <2> HIDE DEF m
  <2>5. /\ allowance' \in [Holders -> Allowance] /\ allowance'[Weights].limit = m
        /\ allowance'[Weights].growth = al[Weights].growth
        /\ allowance'[Weights].mapped = al[Weights].mapped
        /\ \A x \in Holders \ {Weights} : allowance'[x] = al[x]
    BY <2>a, <2>b, SetsLimit
  <2>6. QED
    BY <1>2, <1>4, <2>1, <2>3, <2>5, SMTT(30) DEF m
<1>7. LedgerType'
  BY <1>1, <1>b, <1>5, <1>6, SMTT(30) DEF LedgerType, Growing
<1>8. UsedInv'
  BY <1>b, UsedKept DEF LedgerInv
<1>9. Lending'
  BY <1>2, <1>5, <1>6, <1>3, <1>b, SMTT(30) DEF Lending, Lent, Growing, Granted
<1>10. Alive'
  <2>1. \A h \in Holders : allowance'[h].limit = allowance[h].limit \/ status[h] # "absent"
    BY <1>2, <1>6, Zenon
  <2>2. phase \in Growing
    BY <1>b, Zenon DEF Growing
  <2>3. QED
    BY <1>2, <1>b, <2>1, <2>2, AliveKept, ZenonT(30)
<1>11. Covered'
  <2>1. /\ Summable(Promised, Holders)' /\ Total(Promised) \in Nat
        /\ Total(Promised)' = Total(Promised) - allowance[op].limit + allowance'[op].limit
                               - allowance[Weights].limit + allowance'[Weights].limit
    BY <1>2, <1>6, PromisedTwo, Zenon
  <2>2. Total(Promised)' = Total(Promised)
    BY <1>3, <1>6, <2>1, SMTT(30)
  <2>3. QED
    BY <1>b, <1>2, <1>3, <2>1, <2>2, CoveredBy, SMTT(30)
<1>12. Mapped'
  BY <1>2, <1>3, <1>6, <1>b DEF LedgerInv, Mapped, MappedWithinAllowance
<1>13. QED
  BY <1>7, <1>8, <1>9, <1>10, <1>11, <1>12 DEF LedgerInv

LEMMA ReclaimKeeps ==
  ASSUME SumsAdd, LedgerInv, NEW r \in 0..MaxUsed, Reclaim(r)
  PROVE  LedgerInv'
<1>1. r \in Nat /\ grant.target \in Nat
  BY BytesAssumption, Fields DEF LedgerInv
<1>2. r >= grant.target \/ r < grant.target
  BY <1>1
<1>3. QED
  BY <1>1, <1>2, ReclaimedKeeps, UnreclaimedKeeps

-----------------------------------------------------------------------------
(* A live grant, and its settlement. *)

\* Consuming and refunding leave the allowances and what was lent alone.
LEMMA GrantKept ==
  ASSUME SumsAdd, LedgerInv, phase \in Granted, phase' \in Granted,
         UNCHANGED <<allowance, status, due, waiters, op>>,
         ledger'.allow = ledger.allow,
         grant'.bytes = grant.bytes, grant'.left = grant.left,
         grant'.unassigned = grant.unassigned, grant'.transferred = grant.transferred
  PROVE  Lending' /\ Alive' /\ Covered' /\ Mapped'
<1>1. Lending'
  BY SMTT(30) DEF LedgerInv, Lending, Lent, Growing, Granted
<1>2. Alive'
  BY DEF LedgerInv, Alive, Growing, Granted
<1>3. Covered'
  BY CoveredKept DEF Granted
<1>4. Mapped'
  BY MappedKept DEF Granted
<1>5. QED
  BY <1>1, <1>2, <1>3, <1>4, SMTT(30)

LEMMA LoadKeeps ==
  ASSUME SumsAdd, LedgerInv, NEW n \in Sizes, LoadConsume(n) \/ LoadRefund(n)
  PROVE  LedgerInv'
<1>1. /\ phase = "granted" /\ grant' = [grant EXCEPT !.n = n, !.loaded = ledger.used]
      /\ UNCHANGED <<ledger, lease, allowance, status, due, waiters, op>>
      /\ ledger.used + ledger.growth <= ledger.limit
      /\ \/ phase' = "consuming" /\ n <= ledger.growth /\ n <= grant.token
         \/ phase' = "refunding" /\ n <= lease[op]
  BY DEF LoadConsume, LoadRefund
<1>2. LedgerType /\ n \in Nat /\ ledger.used \in Nat
  BY BytesAssumption, Fields DEF LedgerInv, Sizes
<1>3. /\ grant' \in [bytes : Nat, token : Nat, left : Nat, unassigned : Nat,
                     transferred : Nat, target : Nat, n : Nat, loaded : Nat]
      /\ grant'.left = grant.left /\ grant'.bytes = grant.bytes /\ grant'.token = grant.token
      /\ grant'.unassigned = grant.unassigned /\ grant'.transferred = grant.transferred
      /\ grant'.n = n /\ grant'.loaded = ledger.used
  BY <1>1, <1>2, Zenon DEF LedgerType
<1>4. LedgerType'
  BY <1>1, <1>2, <1>3, Zenon DEF LedgerType, Growing
<1>5. UsedInv'
  BY <1>1, <1>2, <1>3 DEF LedgerInv, UsedInv, UsedCoversLeases, LeasedBytes
<1>6. Lending' /\ Alive' /\ Covered' /\ Mapped'
  BY <1>1, <1>3, GrantKept DEF Granted
<1>7. QED
  BY <1>4, <1>5, <1>6 DEF LedgerInv

\* A consumed grant stays within the limit it was checked against.
LEMMA StoreConsumeKeeps ==
  ASSUME SumsAdd, LedgerInv, StoreConsume
  PROVE  LedgerInv' /\ LeasedBytes' <= ledger'.limit
<1>1. /\ phase = "consuming" /\ phase' = "granted"
      /\ ledger' = [ledger EXCEPT !.growth = @ - grant.n, !.used = grant.loaded + grant.n]
      /\ lease' = [lease EXCEPT ![op] = @ + grant.n]
      /\ grant' = Local([grant EXCEPT !.token = @ - grant.n])
      /\ UNCHANGED <<allowance, status, due, waiters, op>>
  BY DEF StoreConsume
<1>2. LedgerType /\ UsedInv /\ lease \in [Lessees -> Nat] /\ op \in Lessees
  BY <1>1, Requester DEF LedgerInv, UsedInv, Summable, Growing, Lessees
<1>3. /\ ledger.used \in Nat /\ ledger.growth \in Nat /\ ledger.limit \in Nat
      /\ grant.n \in Nat /\ grant.loaded \in Nat /\ grant.token \in Nat
  BY <1>2, Fields
<1>4. /\ ledger.used <= grant.loaded /\ grant.n <= ledger.growth /\ grant.n <= grant.token
      /\ grant.loaded + ledger.growth <= ledger.limit /\ LeasedBytes <= ledger.used
  BY <1>1, <1>2 DEF UsedInv, UsedCoversLeases
<1>5. /\ ledger.growth - grant.n \in Nat /\ grant.loaded + grant.n \in Nat
      /\ grant.token - grant.n \in Nat
  BY <1>3, <1>4
<1>6. /\ ledger' \in [limit : Nat, used : Nat, growth : Nat, allow : Nat]
      /\ ledger'.used = grant.loaded + grant.n /\ ledger'.allow = ledger.allow
      /\ ledger'.limit = ledger.limit
  BY <1>1, <1>2, <1>5, Zenon DEF LedgerType
<1>7. /\ grant' \in [bytes : Nat, token : Nat, left : Nat, unassigned : Nat,
                     transferred : Nat, target : Nat, n : Nat, loaded : Nat]
      /\ grant'.left = grant.left /\ grant'.bytes = grant.bytes
      /\ grant'.unassigned = grant.unassigned /\ grant'.transferred = grant.transferred
  BY <1>1, <1>2, <1>5, Zenon DEF LedgerType, Local
<1>8. LedgerType'
  BY <1>1, <1>2, <1>6, <1>7, Zenon DEF LedgerType, Growing
<1>9. /\ lease' \in [Lessees -> Nat] /\ lease'[op] = lease[op] + grant.n
      /\ \A x \in Lessees \ {op} : lease'[x] = lease[x]
  BY <1>1, <1>2, <1>3
<1>10. /\ Summable(lease', Lessees) /\ lease[op] \in Nat /\ LeasedBytes \in Nat
       /\ LeasedBytes' = LeasedBytes - lease[op] + lease'[op]
  BY <1>2, <1>9, LeaseUpdate
<1>11. LeasedBytes' = LeasedBytes + grant.n
  BY <1>3, <1>9, <1>10
<1>12. UsedCoversLeases' /\ LeasedBytes' <= ledger'.limit
  BY <1>3, <1>4, <1>6, <1>10, <1>11 DEF UsedCoversLeases
<1>13. UsedInv'
  BY <1>1, <1>10, <1>12 DEF UsedInv, Lessees
<1>14. Lending' /\ Alive' /\ Covered' /\ Mapped'
  BY <1>1, <1>6, <1>7, GrantKept DEF Granted
<1>15. QED
  BY <1>8, <1>12, <1>13, <1>14 DEF LedgerInv

LEMMA StoreRefundKeeps ==
  ASSUME SumsAdd, LedgerInv, StoreRefund
  PROVE  LedgerInv' /\ LeasedBytes' <= LeasedBytes /\ ledger'.limit = ledger.limit
<1>1. /\ phase = "refunding" /\ phase' = "granted"
      /\ ledger' = [ledger EXCEPT !.growth = @ + grant.n, !.used = grant.loaded - grant.n]
      /\ lease' = [lease EXCEPT ![op] = @ - grant.n]
      /\ grant' = Local([grant EXCEPT !.token = @ + grant.n])
      /\ UNCHANGED <<allowance, status, due, waiters, op>>
  BY DEF StoreRefund
<1>2. LedgerType /\ UsedInv /\ lease \in [Lessees -> Nat] /\ op \in Lessees
  BY <1>1, Requester DEF LedgerInv, UsedInv, Summable, Growing, Lessees
<1>3. /\ ledger.used \in Nat /\ ledger.growth \in Nat /\ lease[op] \in Nat
      /\ grant.n \in Nat /\ grant.loaded \in Nat /\ grant.token \in Nat
  BY <1>2, Fields
<1>4. ledger.used <= grant.loaded /\ grant.n <= lease[op] /\ LeasedBytes <= ledger.used
  BY <1>1, <1>2 DEF UsedInv, UsedCoversLeases
<1>5. lease[op] - grant.n \in Nat
  BY <1>3, <1>4
<1>6. /\ lease' \in [Lessees -> Nat] /\ lease'[op] = lease[op] - grant.n
      /\ \A x \in Lessees \ {op} : lease'[x] = lease[x]
  BY <1>1, <1>2, <1>5
<1>7. /\ Summable(lease', Lessees) /\ LeasedBytes \in Nat /\ lease[op] <= LeasedBytes
      /\ LeasedBytes' = LeasedBytes - lease[op] + lease'[op]
  BY <1>2, <1>6, LeaseUpdate
<1>8. LeasedBytes' = LeasedBytes - grant.n
  BY <1>3, <1>6, <1>7
<1>9. /\ ledger.growth + grant.n \in Nat /\ grant.loaded - grant.n \in Nat
      /\ grant.token + grant.n \in Nat
  BY <1>3, <1>4, <1>7
<1>10. /\ ledger' \in [limit : Nat, used : Nat, growth : Nat, allow : Nat]
       /\ ledger'.used = grant.loaded - grant.n /\ ledger'.allow = ledger.allow
       /\ ledger'.limit = ledger.limit
  BY <1>1, <1>2, <1>9, Zenon DEF LedgerType
<1>11. /\ grant' \in [bytes : Nat, token : Nat, left : Nat, unassigned : Nat,
                      transferred : Nat, target : Nat, n : Nat, loaded : Nat]
       /\ grant'.left = grant.left /\ grant'.bytes = grant.bytes
       /\ grant'.unassigned = grant.unassigned /\ grant'.transferred = grant.transferred
  BY <1>1, <1>2, <1>9, Zenon DEF LedgerType, Local
<1>12. LedgerType'
  BY <1>1, <1>2, <1>10, <1>11, Zenon DEF LedgerType, Growing
<1>13. UsedCoversLeases' /\ LeasedBytes' <= LeasedBytes
  BY <1>3, <1>4, <1>7, <1>8, <1>10 DEF UsedCoversLeases
<1>14. UsedInv'
  BY <1>1, <1>7, <1>13 DEF UsedInv, Lessees
<1>15. Lending' /\ Alive' /\ Covered' /\ Mapped'
  BY <1>1, <1>10, <1>11, GrantKept DEF Granted
<1>16. QED
  BY <1>10, <1>12, <1>13, <1>14, <1>15 DEF LedgerInv

LEMMA SettleAsKeeps ==
  ASSUME SumsAdd, LedgerInv, phase \in {"granted", "rollback"}, NEW actual \in Nat,
         actual <= grant.bytes - grant.left, SettleAs(actual),
         phase = "rollback" => actual = 0
  PROVE  LedgerInv'
<1> DEFINE back == GivenBack(actual)
           rest == Unassigned(actual)
           new == [limit  |-> allowance[op].limit - back - rest,
                   mapped |-> allowance[op].mapped + actual,
                   growth |-> Sat(allowance[op].growth - grant.bytes)]
<1>1. /\ allowance' = [allowance EXCEPT ![op] = new, ![Weights].limit = @ + back]
      /\ grant' = [NoGrant EXCEPT !.token = grant.token, !.transferred = grant.transferred,
                                  !.n = rest]
      /\ phase' = "return"
      /\ UNCHANGED <<ledger, lease, status, due, waiters, op>>
  BY DEF SettleAs
<1>2. LedgerType /\ op \in Growers /\ op \in Holders /\ op # Weights /\ Weights \in Holders
  BY Requester DEF LedgerInv, Growing
<1>3. /\ grant.bytes \in Nat /\ grant.left \in Nat /\ grant.token \in Nat /\ due \in Nat
      /\ grant.unassigned \in Nat /\ grant.transferred \in Nat
      /\ allowance[op].limit \in Nat /\ allowance[Weights].limit \in Nat
      /\ allowance[op].mapped \in Nat /\ allowance[op].growth \in Nat
  BY <1>2, Fields
<1>4. /\ grant.left <= grant.bytes
      /\ grant.unassigned + grant.transferred <= grant.bytes - grant.left
      /\ allowance[op].growth = grant.bytes - grant.left
      /\ \A x \in Holders : x # op => allowance[x].growth = 0
      /\ phase = "granted" => grant.left = 0
  BY DEF LedgerInv, Lending, Lent, Growing, Granted
<1>5. allowance[op].mapped + allowance[op].growth <= allowance[op].limit
  BY <1>2 DEF LedgerInv, Mapped, MappedWithinAllowance
<1>6. back \in Nat /\ back <= grant.bytes - actual /\ back <= grant.transferred
  <2>1. grant.bytes - actual \in Nat
    BY <1>3, <1>4
  <2>2. QED
    BY <1>3, <2>1, Bounds, Zenon DEF GivenBack
<1>7. rest \in Nat /\ rest <= grant.bytes - actual - back /\ rest <= grant.unassigned
  <2>1. grant.bytes - actual - back \in Nat
    BY <1>3, <1>4, <1>6
  <2>2. QED
    BY <1>3, <2>1, Bounds, Zenon DEF Unassigned
<1> HIDE DEF back, rest
<1>8. Sat(allowance[op].growth - grant.bytes) = 0
  BY <1>3, <1>4 DEF Sat
<1>9. /\ allowance[op].limit - back - rest \in Nat
      /\ allowance[op].mapped + actual <= allowance[op].limit - back - rest
  BY <1>3, <1>4, <1>5, <1>6, <1>7, SMTT(30)
<1>10. new \in Allowance /\ new.limit = allowance[op].limit - back - rest
       /\ new.mapped = allowance[op].mapped + actual /\ new.growth = 0
  BY <1>3, <1>8, <1>9 DEF Allowance
<1> HIDE DEF new
<1>11. /\ allowance' \in [Holders -> Allowance] /\ allowance'[op] = new
       /\ allowance'[Weights].limit = allowance[Weights].limit + back
       /\ allowance'[Weights].growth = allowance[Weights].growth
       /\ allowance'[Weights].mapped = allowance[Weights].mapped
       /\ \A x \in Holders \ {op, Weights} : allowance'[x] = allowance[x]
  <2> DEFINE al == [allowance EXCEPT ![op] = new]
             m == allowance[Weights].limit + back
  <2>1. /\ al \in [Holders -> Allowance] /\ al[op] = new
        /\ \A x \in Holders \ {op} : al[x] = allowance[x]
    BY <1>2, <1>10, SMTT(30) DEF LedgerType
  <2>2. m \in Nat
    BY <1>3, <1>6
  <2>3. allowance' = [al EXCEPT ![Weights].limit = m]
    BY <1>1, <1>2, <2>1
  <2> HIDE DEF al, m
  <2>4. /\ allowance' \in [Holders -> Allowance] /\ allowance'[Weights].limit = m
        /\ allowance'[Weights].growth = al[Weights].growth
        /\ allowance'[Weights].mapped = al[Weights].mapped
        /\ \A x \in Holders \ {Weights} : allowance'[x] = al[x]
    BY <1>2, <2>1, <2>2, <2>3, SetsLimit, SMTT(30)
  <2>5. QED
    BY <1>2, <2>1, <2>4 DEF m
<1>12. /\ allowance'[op].limit = allowance[op].limit - back - rest
       /\ allowance'[op].mapped = allowance[op].mapped + actual
       /\ allowance'[op].growth = 0
       /\ allowance'[Weights].growth = 0
       /\ allowance'[Weights].mapped = allowance[Weights].mapped
       /\ \A x \in Holders \ {op, Weights} : allowance'[x] = allowance[x]
  BY <1>2, <1>4, <1>10, <1>11
<1>13. /\ grant' \in [bytes : Nat, token : Nat, left : Nat, unassigned : Nat,
                      transferred : Nat, target : Nat, n : Nat, loaded : Nat]
       /\ grant'.n = rest /\ grant'.transferred = grant.transferred
  BY <1>1, <1>3, <1>7, Zenon DEF NoGrant
<1>14. LedgerType'
  BY <1>1, <1>2, <1>11, <1>13, Zenon DEF LedgerType, Growing
<1>15. UsedInv'
  BY <1>1, UsedKept DEF LedgerInv
<1>16. Lending'
  BY <1>4, <1>12, <1>1, Zenon DEF Lending, Lent, Granted
<1>17. Alive'
  <2>a. grant.transferred > 0 => status[Weights] # "absent"
    BY Zenon DEF LedgerInv, Alive
  <2>b. back = 0 \/ grant.transferred > 0
    BY <1>3, <1>6
  <2>1. back = 0 \/ status[Weights] # "absent"
    BY <2>a, <2>b, Zenon
  <2>2. back = 0 => allowance'[Weights].limit = allowance[Weights].limit
    BY <1>3, <1>11, SMTT(30)
  <2>3. \A h \in Holders : allowance'[h].limit = allowance[h].limit \/ status[h] # "absent"
    BY <1>2, <1>12, <2>1, <2>2 DEF LedgerInv, Alive
  <2>4. grant'.transferred > 0 => status[Weights] # "absent"
    BY <1>13 DEF LedgerInv, Alive
  <2>5. QED
    BY <1>1, <2>3, <2>4, AliveKept, ZenonT(30) DEF Growing
<1>18. Covered'
  BY <1>2, <1>11, <1>12, <1>3, <1>6, <1>7, <1>1, <1>13, PromisedTwo, CoveredHas, CoveredBy
<1>19. Mapped'
  BY <1>3, <1>9, <1>12, <1>2, <1>4, <1>6, <1>11, <1>1, Fields DEF LedgerInv, Mapped, MappedWithinAllowance
<1>20. QED
  BY <1>14, <1>15, <1>16, <1>17, <1>18, <1>19 DEF LedgerInv

LEMMA SettleKeeps ==
  ASSUME SumsAdd, LedgerInv, NEW n \in 0..MaxRequest, Settle(n)
  PROVE  LedgerInv'
<1>1. n \in Nat /\ phase = "granted" /\ n <= grant.bytes /\ SettleAs(n)
  BY BytesAssumption DEF Settle
<1>2. grant.left = 0 /\ grant.bytes \in Nat
  BY <1>1, Fields DEF LedgerInv, Lending, Granted
<1>3. n <= grant.bytes - grant.left
  BY <1>1, <1>2
<1>4. QED
  BY <1>1, <1>3, SettleAsKeeps

LEMMA RollbackKeeps ==
  ASSUME SumsAdd, LedgerInv, Rollback
  PROVE  LedgerInv'
<1>1. phase = "rollback" /\ SettleAs(0)
  BY DEF Rollback
<1>2. grant.left <= grant.bytes /\ grant.left \in Nat /\ grant.bytes \in Nat
  BY <1>1, Fields DEF LedgerInv, Lending, Lent, Growing
<1>3. 0 \in Nat /\ 0 <= grant.bytes - grant.left
  BY <1>2
<1>4. QED
  BY <1>1, <1>3, SettleAsKeeps

LEMMA ReturnUnassignedKeeps ==
  ASSUME SumsAdd, LedgerInv, ReturnUnassigned
  PROVE  LedgerInv'
<1>1. /\ phase = "return" /\ phase' = "finish" /\ grant' = Local(grant)
      /\ ledger' = [ledger EXCEPT !.allow = Sat(@ - grant.n)]
      /\ UNCHANGED <<lease, allowance, status, due, waiters, op>>
  BY DEF ReturnUnassigned
<1>2. LedgerType /\ ledger.allow \in Nat /\ grant.n \in Nat /\ due \in Nat
  BY Fields DEF LedgerInv
<1>3. Sat(ledger.allow - grant.n) \in Nat /\ Sat(ledger.allow - grant.n) >= ledger.allow - grant.n
  BY <1>2 DEF Sat
<1>4. /\ ledger' \in [limit : Nat, used : Nat, growth : Nat, allow : Nat]
      /\ ledger'.used = ledger.used /\ ledger'.allow = Sat(ledger.allow - grant.n)
  BY <1>1, <1>2, <1>3, Zenon DEF LedgerType
<1>5. /\ grant' \in [bytes : Nat, token : Nat, left : Nat, unassigned : Nat,
                     transferred : Nat, target : Nat, n : Nat, loaded : Nat]
      /\ grant'.transferred = grant.transferred
  BY <1>1, <1>2, Zenon DEF LedgerType, Local
<1>6. LedgerType'
  BY <1>1, <1>2, <1>4, <1>5, Zenon DEF LedgerType
<1>7. UsedInv'
  BY <1>1, <1>4, UsedKept DEF LedgerInv
<1>8. Lending'
  BY <1>1 DEF LedgerInv, Lending, Lent, Growing, Granted
<1>9. Alive'
  BY <1>1, <1>5 DEF LedgerInv, Alive, Growing
<1>10. Covered'
  BY <1>1, <1>2, <1>3, <1>4, CoveredHas, CoveredBy DEF Promised
<1>11. Mapped'
  BY <1>1, MappedKept
<1>12. QED
  BY <1>6, <1>7, <1>8, <1>9, <1>10, <1>11 DEF LedgerInv

-----------------------------------------------------------------------------
(* The step, the initial states, and the theorems. *)

\* Every step but a recorded commitment and set_limit keeps the leases within
\* the limit.
Recording == \E g \in Owners, n \in Sizes : RecordCommitted(g, n)
Resetting == \E n \in Limits : SetLimit(n)
WithinLimit ==
  \/ LeasedBytes' <= LeasedBytes /\ ledger'.limit >= ledger.limit
  \/ LeasedBytes' <= ledger'.limit
  \/ Recording /\ ledger'.limit >= ledger.limit
  \/ Resetting /\ LeasedBytes' = LeasedBytes

LEMMA LeasesUntouched ==
  ASSUME SumsAdd, LedgerInv, lease' = lease, ledger'.limit = ledger.limit
  PROVE  WithinLimit
<1>1. LeasedBytes \in Nat /\ ledger.limit \in Nat
  BY LeasedNat, Fields DEF LedgerInv
<1>2. LeasedBytes' = LeasedBytes
  BY DEF LeasedBytes
<1>3. QED
  BY <1>1, <1>2 DEF WithinLimit

LEMMA TryClaimWithin ==
  ASSUME SumsAdd, LedgerInv, NEW g \in Owners, NEW n \in Sizes, TryClaim(g, n)
  PROVE  WithinLimit
<1>1. /\ ledger.used + n + ledger.growth <= ledger.limit
      /\ ledger' = [ledger EXCEPT !.used = @ + n]
  BY DEF TryClaim
<1>2. LeasedBytes' = LeasedBytes + n
  BY ClaimKeeps
<1>3. LedgerType /\ ledger.used \in Nat /\ ledger.growth \in Nat /\ ledger.limit \in Nat /\ n \in Nat
  BY BytesAssumption, Fields DEF LedgerInv, Sizes
<1>4. LeasedBytes \in Nat /\ LeasedBytes <= ledger.used
  BY LeasedNat
<1>5. ledger'.limit = ledger.limit
  BY <1>1, <1>3 DEF LedgerType
<1>6. LeasedBytes' <= ledger'.limit
  BY <1>1, <1>2, <1>3, <1>4, <1>5
<1>7. QED
  BY <1>6 DEF WithinLimit

LEMMA AdvanceKeeps ==
  ASSUME SumsAdd, LedgerInv, Advance
  PROVE  LedgerInv' /\ WithinLimit
<1>1. LedgerType
  BY DEF LedgerInv
<1>2. CASE Acquire
  BY <1>2, AcquireKeeps, LeasesUntouched DEF Acquire
<1>3. CASE Finish
  BY <1>1, <1>3, FinishKeeps, LeasesUntouched DEF Finish, LedgerType
<1>4. CASE PauseClaims
  BY <1>4, PauseClaimsKeeps, LeasesUntouched DEF PauseClaims
<1>5. CASE TrySetLimit
  BY <1>5, TrySetLimitKeeps, LeasesUntouched DEF TrySetLimit, WithinLimit
<1>6. CASE ReserveGrowth
  BY <1>1, <1>6, ReserveGrowthKeeps, LeasesUntouched DEF ReserveGrowth, LedgerType
<1>7. CASE LoadUnassigned
  BY <1>7, LoadUnassignedKeeps, LeasesUntouched DEF LoadUnassigned
<1>8. CASE StoreUnassigned
  BY <1>1, <1>8, StoreUnassignedKeeps, LeasesUntouched DEF StoreUnassigned, LedgerType
<1>9. CASE TakeFromVictim
  BY <1>9, TakeFromVictimKeeps, LeasesUntouched DEF TakeFromVictim
<1>10. CASE NoVictim
  BY <1>10, NoVictimKeeps, LeasesUntouched, Zenon DEF NoVictim
<1>11. ASSUME NEW r \in 0..MaxUsed, Reclaim(r) PROVE LedgerInv' /\ WithinLimit
  BY <1>11, ReclaimKeeps, LeasesUntouched, Zenon DEF Reclaim
<1>12. CASE StoreConsume
  BY <1>12, StoreConsumeKeeps DEF WithinLimit
<1>13. CASE StoreRefund
  BY <1>13, <1>1, StoreRefundKeeps, Fields DEF WithinLimit
<1>14. CASE Rollback
  BY <1>14, RollbackKeeps, LeasesUntouched DEF Rollback, SettleAs
<1>15. CASE ReturnUnassigned
  BY <1>1, <1>15, ReturnUnassignedKeeps, LeasesUntouched DEF ReturnUnassigned, LedgerType
<1>16. QED
  BY <1>2, <1>3, <1>4, <1>5, <1>6, <1>7, <1>8, <1>9, <1>10, <1>11, <1>12, <1>13, <1>14, <1>15
     DEF Advance

LEMMA StepKeeps ==
  ASSUME SumsAdd, LedgerInv, Next
  PROVE  LedgerInv' /\ WithinLimit
<1>1. LedgerType
  BY DEF LedgerInv
<1>2. CASE Advance
  BY <1>2, AdvanceKeeps
<1>3. ASSUME NEW n \in 0..MaxRequest, Settle(n) PROVE LedgerInv' /\ WithinLimit
  BY <1>3, SettleKeeps, LeasesUntouched, Zenon DEF Settle, SettleAs
<1>4. ASSUME NEW g \in Owners, NEW n \in Sizes, TryClaim(g, n) PROVE LedgerInv' /\ WithinLimit
  BY <1>4, ClaimKeeps, TryClaimWithin
<1>5. ASSUME NEW g \in Owners, NEW n \in Sizes, RecordCommitted(g, n)
      PROVE  LedgerInv' /\ WithinLimit
  <2>1. LedgerInv' /\ Recording
    BY <1>5, ClaimKeeps DEF Recording
  <2>2. ledger.limit \in Nat /\ ledger'.limit = ledger.limit
    BY <1>1, <1>5 DEF RecordCommitted, LedgerType
  <2>3. QED
    BY <2>1, <2>2 DEF WithinLimit
<1>6. ASSUME NEW g \in Lessees, NEW n \in Sizes, Release(g, n) PROVE LedgerInv' /\ WithinLimit
  <2>1. LedgerInv' /\ LeasedBytes' <= LeasedBytes
    BY <1>6, ReleaseKeeps
  <2>2. ledger.limit \in Nat /\ ledger'.limit = ledger.limit
    BY <1>1, <1>6 DEF Release, LedgerType
  <2>3. QED
    BY <2>1, <2>2 DEF WithinLimit
<1>7. ASSUME NEW h \in Holders, NEW n \in 0..MaxRequest, ReserveAllowance(h, n)
      PROVE  LedgerInv' /\ WithinLimit
  BY <1>1, <1>7, ReserveAllowanceKeeps, LeasesUntouched, Zenon DEF ReserveAllowance, LedgerType
<1>8. ASSUME NEW h \in Holders, DropAllowance(h) PROVE LedgerInv' /\ WithinLimit
  BY <1>1, <1>8, DropAllowanceKeeps, LeasesUntouched, Zenon DEF DropAllowance, LedgerType
<1>9. CASE ConfirmTerminated
  BY <1>9, ConfirmTerminatedKeeps, LeasesUntouched DEF ConfirmTerminated
<1>10. CASE Discharge
  BY <1>1, <1>10, DischargeKeeps, LeasesUntouched DEF Discharge, LedgerType
<1>11. ASSUME NEW n \in Sizes, TryMap(n) PROVE LedgerInv' /\ WithinLimit
  BY <1>11, TryMapKeeps, LeasesUntouched, Zenon DEF TryMap
<1>12. ASSUME NEW h \in Holders, NEW n \in Sizes, Unmap(h, n) PROVE LedgerInv' /\ WithinLimit
  BY <1>12, UnmapKeeps, LeasesUntouched, Zenon DEF Unmap
<1>13. ASSUME NEW a \in Askers, NEW n \in Nat, Enqueue(a, n) PROVE LedgerInv' /\ WithinLimit
  BY <1>13, EnqueueKeeps, LeasesUntouched DEF Enqueue
<1>14. /\ \A g \in Growers, n \in Sizes : g \in Askers /\ n \in Nat
       /\ \A n \in Limits : Admin \in Askers /\ n \in Nat
  BY BytesAssumption DEF Askers, Sizes
<1>15. ASSUME NEW n \in Sizes, LoadConsume(n) \/ LoadRefund(n) PROVE LedgerInv' /\ WithinLimit
  BY <1>15, LoadKeeps, LeasesUntouched, Zenon DEF LoadConsume, LoadRefund
<1>16. ASSUME NEW l \in Limits, SetLimit(l) PROVE LedgerInv' /\ WithinLimit
  <2>1. l \in Nat
    BY BytesAssumption
  <2>2. QED
    BY <1>16, <2>1, SetLimitKeeps, Zenon DEF WithinLimit, Resetting
<1>17. QED
  BY <1>2, <1>3, <1>4, <1>5, <1>6, <1>7, <1>8, <1>9, <1>10, <1>11, <1>12, <1>13, <1>14, <1>15,
     <1>16 DEF Next, SettleStep

-----------------------------------------------------------------------------
(* Sums do add up. *)

INSTANCE FiniteSetTheorems

LEMMA ColumnSize ==
  ASSUME NEW x, NEW n \in Nat
  PROVE  IsFiniteSet({x} \X (1..n)) /\ Cardinality({x} \X (1..n)) = n
<1>1. IsFiniteSet(1..n) /\ Cardinality(1..n) = n
  BY FS_Interval
<1>2. IsFiniteSet({x}) /\ Cardinality({x}) = 1
  BY FS_Singleton
<1>3. /\ IsFiniteSet({x} \X (1..n))
      /\ Cardinality({x} \X (1..n)) = Cardinality({x}) * Cardinality(1..n)
  BY <1>1, <1>2, FS_Product
<1>4. QED
  BY <1>1, <1>2, <1>3

\* A sum is a term and the rest.
Rest(f, S, x) == UNION {{y} \X (1..f[y]) : y \in S \ {x}}

LEMMA Split ==
  ASSUME NEW S, NEW f \in [S -> Nat], NEW x \in S
  PROVE  /\ Slots(f) = Rest(f, S, x) \cup ({x} \X (1..f[x]))
         /\ Rest(f, S, x) \cap ({x} \X (1..f[x])) = {}
  BY DEF Slots, Rest

LEMMA SplitTotal ==
  ASSUME NEW S, NEW f \in [S -> Nat], NEW x \in S
  PROVE  /\ IsFiniteSet(Slots(f)) <=> IsFiniteSet(Rest(f, S, x))
         /\ IsFiniteSet(Slots(f)) =>
              /\ Cardinality(Rest(f, S, x)) \in Nat
              /\ Total(f) = Cardinality(Rest(f, S, x)) + f[x]
<1> DEFINE C == {x} \X (1..f[x])
           R == Rest(f, S, x)
<1>1. f[x] \in Nat /\ IsFiniteSet(C) /\ Cardinality(C) = f[x]
  BY ColumnSize, Zenon
<1>2. Slots(f) = R \cup C /\ R \cap C = {}
  BY Split
<1> HIDE DEF C, R
<1>3. IsFiniteSet(Slots(f)) => IsFiniteSet(R)
  BY <1>2, FS_Subset
<1>4. ASSUME IsFiniteSet(R)
      PROVE  IsFiniteSet(Slots(f)) /\ Cardinality(R) \in Nat /\ Total(f) = Cardinality(R) + f[x]
  <2>1. /\ IsFiniteSet(R \cup C)
        /\ Cardinality(R \cup C) = Cardinality(R) + Cardinality(C) - Cardinality(R \cap C)
    BY <1>1, <1>4, FS_Union
  <2>2. Cardinality(R \cap C) = 0 /\ Cardinality(R) \in Nat
    BY <1>2, <1>4, FS_EmptySet, FS_CardinalityType, SMTT(30)
  <2>3. QED
    BY <1>1, <1>2, <2>1, <2>2 DEF Total
<1>5. QED
  BY <1>3, <1>4 DEF R

LEMMA OneTermChanges ==
  ASSUME NEW S, NEW f, Summable(f, S), NEW x \in S,
         NEW g \in [S -> Nat], \A y \in S \ {x} : g[y] = f[y]
  PROVE  /\ Summable(g, S)
         /\ Total(g) = Total(f) - f[x] + g[x]
         /\ Total(f) \in Nat /\ f[x] \in Nat /\ f[x] <= Total(f)
<1> DEFINE r == Cardinality(Rest(f, S, x))
<1>1. f \in [S -> Nat] /\ IsFiniteSet(Slots(f))
  BY DEF Summable
<1>2. r \in Nat /\ Total(f) = r + f[x] /\ IsFiniteSet(Rest(f, S, x))
  BY <1>1, SplitTotal
<1>3. Rest(g, S, x) = Rest(f, S, x)
  BY SMTT(30) DEF Rest
<1>4. IsFiniteSet(Slots(g)) /\ Total(g) = r + g[x]
  BY <1>2, <1>3, SplitTotal, SMTT(30)
<1> HIDE DEF r
<1>5. QED
  BY <1>1, <1>2, <1>3, <1>4 DEF Summable

LEMMA SumsDoAdd == SumsAdd
<1>1. \A S, f : Summable(f, S) => Total(f) \in Nat
  BY FS_CardinalityType DEF Summable, Total
<1>2. QED
  BY <1>1, OneTermChanges DEF SumsAdd

\* The sum of no units.
LEMMA TotalZero ==
  ASSUME NEW S, NEW f \in [S -> Nat], \A x \in S : f[x] = 0
  PROVE  Summable(f, S) /\ Total(f) = 0
<1>1. Slots(f) = {}
  BY DEF Slots
<1>2. QED
  BY <1>1, FS_EmptySet DEF Summable, Total

-----------------------------------------------------------------------------
(* The theorems. *)

LEMMA InitHolds ==
  ASSUME Init
  PROVE  LedgerInv
<1>1. PICK l \in Limits : ledger = [limit |-> l, used |-> 0, growth |-> 0, allow |-> 0]
  BY SMTT(30) DEF Init
<1>2. /\ lease = [g \in Lessees |-> 0] /\ allowance = [h \in Holders |-> NoAllowance]
      /\ status = [h \in Holders |-> "absent"] /\ due = 0 /\ waiters = <<>>
      /\ op = None /\ phase = "none" /\ grant = NoGrant
  BY DEF Init
<1>3. ledger \in [limit : Nat, used : Nat, growth : Nat, allow : Nat]
  BY <1>1, BytesAssumption
<1>4. /\ allowance \in [Holders -> Allowance]
      /\ \A h \in Holders : /\ allowance[h].limit = 0 /\ allowance[h].mapped = 0
                            /\ allowance[h].growth = 0
  BY <1>2, SMTT(30) DEF Allowance, NoAllowance
<1>5. LedgerType
  BY <1>2, <1>3, <1>4, SMTT(30) DEF LedgerType, NoGrant
<1>6. UsedInv
  BY <1>2, <1>1, TotalZero DEF UsedInv, UsedCoversLeases, LeasedBytes
<1>7. Lending
  BY <1>2, <1>4, SMTT(30) DEF Lending, Lent, Growing, Granted
<1>8. Alive
  BY <1>2, <1>4, NamesAssumption, SMTT(30) DEF Alive, Growing, NoGrant
<1>9. Covered
  BY <1>4, <1>1, <1>2, TotalZero DEF Promised, Covered, AllowancesCovered
<1>10. Mapped
  BY <1>2, <1>4 DEF Mapped, MappedWithinAllowance
<1>11. QED
  BY <1>5, <1>6, <1>7, <1>8, <1>9, <1>10 DEF LedgerInv

LEMMA LedgerAlways == Spec => []LedgerInv
<1>1. Init => LedgerInv
  BY InitHolds, SMTT(30)
<1>2. LedgerInv /\ [Next]_vars => LedgerInv'
  BY SumsDoAdd, UsedUntouched, AllowancesUntouched, StepKeeps, Zenon DEF LedgerInv, LedgerType, vars
<1>3. QED
  BY <1>1, <1>2, PTL DEF Spec

\* The ledger never under-reports, for any number of owners and growers:
\* whatever releases run between the load and the store of
\* consume_mapped_growth and refund_mapped_growth, `used` covers every live
\* lease.
THEOREM UsedAlwaysCovers == Spec => []UsedCoversLeases
<1>1. LedgerInv => UsedCoversLeases
  BY DEF LedgerInv, UsedInv
<1>2. QED
  BY <1>1, LedgerAlways, PTL

\* The reserved total covers all allowances, the discharge that is due and what
\* a settlement is returning, for any number of holders: transfers,
\* confirm_context_terminated, drops and the two-step reservation of
\* unassigned capacity never promise the same byte twice.
THEOREM AllowancesAlwaysCovered == Spec => []AllowancesCovered
<1>1. LedgerInv => AllowancesCovered
  BY DEF LedgerInv, Covered
<1>2. QED
  BY <1>1, LedgerAlways, PTL

\* A holder maps no more than its allowance but for the victim of a transfer
\* while reclaim_mapped runs, even when its context terminates meanwhile.
THEOREM MappingBounded == Spec => []MappedWithinAllowance
<1>1. LedgerInv => MappedWithinAllowance
  BY DEF LedgerInv, Mapped
<1>2. QED
  BY <1>1, LedgerAlways, PTL

\* Neither try_claim nor consume_mapped_growth lets the leases grow beyond the
\* limit in force, whatever set_limit does between the steps of a growth, and
\* try_set_limit never lowers it below them; record_committed may exceed it, and
\* set_limit may lower it below what is leased.
THEOREM LimitRespected == Spec => NoGrantBeyondLimit
<1> DEFINE P == /\ LeasedBytes' > LeasedBytes =>
                     \/ LeasedBytes' <= ledger'.limit
                     \/ \E g \in Owners, n \in Sizes : RecordCommitted(g, n)
                /\ ledger'.limit < ledger.limit =>
                     \/ LeasedBytes' <= ledger'.limit
                     \/ \E n \in Limits : SetLimit(n)
<1>1. LedgerInv /\ LedgerInv' /\ [Next]_vars => [P]_vars
  <2>1. ASSUME LedgerInv, LedgerInv', Next PROVE P
    <3>1. /\ LeasedBytes \in Nat /\ ledger.limit \in Nat
      BY <2>1, SumsDoAdd, LeasedNat, Fields, ZenonT(30) DEF LedgerInv
    <3>2. /\ LeasedBytes' \in Nat /\ ledger'.limit \in Nat
      BY <2>1, SumsDoAdd DEF LedgerInv, LedgerType, UsedInv, LeasedBytes, SumsAdd
    <3>3. WithinLimit
      BY <2>1, SumsDoAdd, StepKeeps
    <3>4. /\ LeasedBytes' > LeasedBytes => LeasedBytes' <= ledger'.limit \/ Recording
          /\ ledger'.limit < ledger.limit => LeasedBytes' <= ledger'.limit \/ Resetting
      BY <3>1, <3>2, <3>3, SMTT(30) DEF WithinLimit
    <3>5. QED
      BY <3>4, Zenon DEF Recording, Resetting
  <2>2. QED
    BY <2>1
<1>2. QED
  BY <1>1, LedgerAlways, PTL DEF Spec, NoGrantBeyondLimit

=============================================================================
