-------------------------- MODULE HostLeaseProofs --------------------------
(* Proofs about the host lease adapter, for any threads, sizes and capacity. *)
EXTENDS HostLease, FiniteSetTheorems, TLAPS

-----------------------------------------------------------------------------
(* How a sum changes when one of its terms does.                           *)

\* f is a sum of finitely many units.
Summable(f, S) == f \in [S -> Nat] /\ IsFiniteSet(Slots(f))

LEMMA ColumnSize ==
  ASSUME NEW x, NEW n \in Nat
  PROVE  IsFiniteSet({x} \X (1..n)) /\ Cardinality({x} \X (1..n)) = n
<1>1. IsFiniteSet(1..n) /\ Cardinality(1..n) = n
  BY FS_Interval
<1>2. IsFiniteSet({x}) /\ Cardinality({x}) = 1
  BY FS_Singleton
<1>3. /\ IsFiniteSet({x} \X (1..n))
      /\ Cardinality({x} \X (1..n)) = Cardinality({x}) * Cardinality(1..n)
  BY <1>1, <1>2, FS_Product
<1>4. QED
  BY <1>1, <1>2, <1>3

\* A sum is a term and the rest.
Rest(f, S, x) == UNION {{y} \X (1..f[y]) : y \in S \ {x}}

LEMMA Split ==
  ASSUME NEW S, NEW f \in [S -> Nat], NEW x \in S
  PROVE  /\ Slots(f) = Rest(f, S, x) \cup ({x} \X (1..f[x]))
         /\ Rest(f, S, x) \cap ({x} \X (1..f[x])) = {}
  BY DEF Slots, Rest

LEMMA SplitTotal ==
  ASSUME NEW S, NEW f \in [S -> Nat], NEW x \in S
  PROVE  /\ IsFiniteSet(Slots(f)) <=> IsFiniteSet(Rest(f, S, x))
         /\ IsFiniteSet(Slots(f)) =>
              /\ Cardinality(Rest(f, S, x)) \in Nat
              /\ Total(f) = Cardinality(Rest(f, S, x)) + f[x]
<1> DEFINE C == {x} \X (1..f[x])
           R == Rest(f, S, x)
<1>1. f[x] \in Nat /\ IsFiniteSet(C) /\ Cardinality(C) = f[x]
  BY ColumnSize, Zenon
<1>2. Slots(f) = R \cup C /\ R \cap C = {}
  BY Split
<1> HIDE DEF C, R
<1>3. IsFiniteSet(Slots(f)) => IsFiniteSet(R)
  BY <1>2, FS_Subset
<1>4. ASSUME IsFiniteSet(R)
      PROVE  IsFiniteSet(Slots(f)) /\ Cardinality(R) \in Nat /\ Total(f) = Cardinality(R) + f[x]
  <2>1. /\ IsFiniteSet(R \cup C)
        /\ Cardinality(R \cup C) = Cardinality(R) + Cardinality(C) - Cardinality(R \cap C)
    BY <1>1, <1>4, FS_Union
  <2>2. Cardinality(R \cap C) = 0 /\ Cardinality(R) \in Nat
    BY <1>2, <1>4, FS_EmptySet, FS_CardinalityType
  <2>3. QED
    BY <1>1, <1>2, <2>1, <2>2 DEF Total
<1>5. QED
  BY <1>3, <1>4 DEF R

\* Changing one term.
LEMMA TotalUpdate ==
  ASSUME NEW S, NEW f, Summable(f, S), NEW x \in S,
         NEW g \in [S -> Nat], \A y \in S \ {x} : g[y] = f[y]
  PROVE  /\ Summable(g, S)
         /\ Total(g) = Total(f) - f[x] + g[x]
         /\ Total(f) \in Nat /\ f[x] \in Nat /\ f[x] <= Total(f)
<1> DEFINE r == Cardinality(Rest(f, S, x))
<1>1. f \in [S -> Nat] /\ IsFiniteSet(Slots(f))
  BY DEF Summable
<1>2. r \in Nat /\ Total(f) = r + f[x] /\ IsFiniteSet(Rest(f, S, x))
  BY <1>1, SplitTotal
<1>3. Rest(g, S, x) = Rest(f, S, x)
  BY DEF Rest
<1>4. IsFiniteSet(Slots(g)) /\ Total(g) = r + g[x]
  <2>1. /\ IsFiniteSet(Rest(g, S, x)) => IsFiniteSet(Slots(g))
        /\ IsFiniteSet(Slots(g)) => Total(g) = Cardinality(Rest(g, S, x)) + g[x]
    BY SplitTotal
  <2>2. QED
    BY <1>2, <1>3, <2>1
<1> HIDE DEF r
<1>5. QED
  BY <1>1, <1>2, <1>3, <1>4 DEF Summable

\* The sum of no units, and a sum that is zero.
LEMMA TotalZero ==
  ASSUME NEW S, NEW f \in [S -> Nat], \A x \in S : f[x] = 0
  PROVE  Summable(f, S) /\ Total(f) = 0
<1>1. Slots(f) = {}
  BY DEF Slots
<1>2. QED
  BY <1>1, FS_EmptySet DEF Summable, Total

LEMMA ZeroTotal ==
  ASSUME NEW S, NEW f, Summable(f, S), Total(f) = 0
  PROVE  \A x \in S : f[x] = 0
<1> SUFFICES ASSUME NEW x \in S PROVE f[x] = 0
  OBVIOUS
<1>1. f \in [S -> Nat]
  BY DEF Summable
<1>2. f[x] \in Nat /\ f[x] <= Total(f)
  BY <1>1, TotalUpdate
<1>3. QED
  BY <1>2

-----------------------------------------------------------------------------
(* The inductive invariant. *)

Labels == {"idle", "ask", "push", "settle", "give"}

\* The terms of the three sums.
Weights(bag) == [s \in Sizes |-> s * bag[s]]
Granting == [t \in Threads |-> IF pc[t] = "push" THEN want[t] ELSE 0]
Handing == [t \in Threads |-> Bytes(giving[t])]

Bag(bag) == bag \in [Sizes -> Nat] /\ Summable(Weights(bag), Sizes)

BooksType ==
  /\ credit \in Nat /\ leased \in Nat /\ free \in Nat /\ others \in Nat
  /\ Bag(allocations)
  /\ pc \in [Threads -> Labels]
  /\ want \in [Threads -> Nat]
  /\ \A t \in Threads : pc[t] \in {"ask", "push"} => want[t] \in Sizes
  /\ giving = [t \in Threads |-> giving[t]] /\ \A t \in Threads : Bag(giving[t])
  /\ Summable(Granting, Threads) /\ Summable(Handing, Threads)

\* Nothing can be settled unless a thread is settling.
LockHeld == \A t \in Threads : pc[t] = "settle" => lock = t

BooksInv == BooksType /\ LockHeld /\ LeasesBacked /\ MachineConserved /\ NothingStranded

\* One allocation more or less in a bag.
LEMMA BagUpdate ==
  ASSUME NEW bag, Bag(bag), NEW s \in Sizes, NEW n \in Nat, NEW new, new = [bag EXCEPT ![s] = n]
  PROVE  /\ Bag(new) /\ Bytes(bag) \in Nat /\ bag[s] \in Nat
         /\ n = bag[s] + 1 => Bytes(new) = Bytes(bag) + s
         /\ n = bag[s] - 1 => Bytes(new) = Bytes(bag) - s
         /\ s * bag[s] <= Bytes(bag)
<1> DEFINE f == Weights(bag)
           g == Weights(new)
           v == s * n
<1>1. s \in Nat /\ bag \in [Sizes -> Nat]
  BY SizesAssumption DEF Bag
<1>b. Summable(f, Sizes)
  BY DEF Bag
<1>2. v \in Nat /\ s * bag[s] \in Nat /\ bag[s] \in Nat
  BY <1>1
<1>3. g \in [Sizes -> Nat] /\ \A x \in Sizes \ {s} : g[x] = f[x]
  BY <1>1, SizesAssumption DEF Weights
<1>a. f[s] = s * bag[s] /\ g[s] = v
  BY <1>1 DEF Weights
<1>4. Bytes(bag) = Total(f) /\ Bytes(new) = Total(g)
  BY DEF Bytes, Weights
<1> HIDE DEF f, g, v
<1>5. /\ Summable(g, Sizes) /\ Total(g) = Total(f) - f[s] + g[s]
      /\ Total(f) \in Nat /\ f[s] <= Total(f)
  BY <1>b, <1>3, TotalUpdate
<1>6. new \in [Sizes -> Nat]
  BY <1>1
<1>7. /\ n = bag[s] + 1 => v = s * bag[s] + s
      /\ n = bag[s] - 1 => v = s * bag[s] - s
  BY <1>1, <1>2 DEF v
<1>8. QED
  <2>1. Bag(new)
    BY <1>5, <1>6 DEF Bag, g
  <2>2. QED
    BY <1>1, <1>2, <1>a, <1>4, <1>5, <1>7, <2>1

LEMMA BagAdd ==
  ASSUME NEW bag, Bag(bag), NEW s \in Sizes
  PROVE  /\ Bag([bag EXCEPT ![s] = bag[s] + 1])
         /\ Bytes([bag EXCEPT ![s] = bag[s] + 1]) = Bytes(bag) + s
         /\ Bytes(bag) \in Nat
<1>1. bag[s] + 1 \in Nat
  BY DEF Bag
<1>2. QED
  BY <1>1, BagUpdate, ZenonT(30)

LEMMA BagRemove ==
  ASSUME NEW bag, Bag(bag), NEW s \in Sizes, bag[s] > 0
  PROVE  /\ Bag([bag EXCEPT ![s] = bag[s] - 1])
         /\ Bytes([bag EXCEPT ![s] = bag[s] - 1]) = Bytes(bag) - s
         /\ Bytes(bag) \in Nat
<1>1. bag[s] - 1 \in Nat
  BY DEF Bag
<1>2. QED
  BY <1>1, BagUpdate, Zenon

LEMMA BagBytes ==
  ASSUME NEW bag, Bag(bag)
  PROVE  Bytes(bag) \in Nat
<1>1. Summable(Weights(bag), Sizes) /\ Bytes(bag) = Total(Weights(bag))
  BY DEF Bag, Bytes, Weights
<1>2. QED
  BY <1>1, FS_CardinalityType DEF Summable, Total

LEMMA EmptyBag ==
  ASSUME NEW bag, bag \in [Sizes -> Nat], \A s \in Sizes : s * bag[s] = 0
  PROVE  Bag(bag) /\ Bytes(bag) = 0
<1> DEFINE f == Weights(bag)
<1>1. f \in [Sizes -> Nat] /\ \A s \in Sizes : f[s] = 0
  BY DEF Weights
<1> HIDE DEF f
<1>2. Summable(f, Sizes) /\ Total(f) = 0
  BY <1>1, TotalZero
<1>3. QED
  BY <1>2 DEF Bag, Bytes, f, Weights

-----------------------------------------------------------------------------
(* How the sums move.                                                       *)

LEMMA SumsKept ==
  /\ UNCHANGED allocations => Charged' = Charged
  /\ UNCHANGED <<pc, want>> => Unrecorded' = Unrecorded /\ Granting' = Granting
  /\ UNCHANGED giving => Returning' = Returning /\ Handing' = Handing
  BY DEF Charged, Unrecorded, Granting, Returning, Handing

\* A thread moves on, with a new size to ask for or the old one.
LEMMA GrantingStep ==
  ASSUME BooksType, NEW t \in Threads, NEW label \in Labels, Goto(t, label),
         NEW w \in Nat, want' = [want EXCEPT ![t] = w], label \in {"ask", "push"} => w \in Sizes
  PROVE  /\ Summable(Granting', Threads)
         /\ pc' \in [Threads -> Labels] /\ want' \in [Threads -> Nat]
         /\ \A u \in Threads : pc'[u] \in {"ask", "push"} => want'[u] \in Sizes
         /\ pc[t] # "push" /\ label # "push" => Unrecorded' = Unrecorded
         /\ pc[t] # "push" /\ label = "push" => Unrecorded' = Unrecorded + w
         /\ pc[t] = "push" /\ label # "push" => Unrecorded' = Unrecorded - want[t]
<1>1. /\ pc' \in [Threads -> Labels] /\ want' \in [Threads -> Nat]
      /\ \A u \in Threads : pc'[u] \in {"ask", "push"} => want'[u] \in Sizes
  BY DEF BooksType, Goto
<1>2. /\ Granting' \in [Threads -> Nat]
      /\ \A u \in Threads \ {t} : Granting'[u] = Granting[u]
      /\ Granting[t] = IF pc[t] = "push" THEN want[t] ELSE 0
      /\ Granting'[t] = IF label = "push" THEN w ELSE 0
  BY <1>1 DEF Granting, Goto, BooksType
<1>3. Summable(Granting, Threads)
  BY DEF BooksType
<1>4. /\ Summable(Granting', Threads)
      /\ Total(Granting') = Total(Granting) - Granting[t] + Granting'[t]
      /\ Total(Granting) \in Nat /\ Granting[t] \in Nat
  BY <1>2, <1>3, TotalUpdate
<1>5. Unrecorded = Total(Granting) /\ Unrecorded' = Total(Granting')
  BY DEF Unrecorded, Granting
<1>6. QED
  BY <1>1, <1>2, <1>4, <1>5

\* The allocations a thread hands back change.
LEMMA HandingStep ==
  ASSUME BooksType, NEW t \in Threads, NEW bag, Bag(bag), giving' = [giving EXCEPT ![t] = bag]
  PROVE  /\ Summable(Handing', Threads)
         /\ giving' = [u \in Threads |-> giving'[u]] /\ \A u \in Threads : Bag(giving'[u])
         /\ Returning \in Nat
         /\ Returning' = Returning - Bytes(giving[t]) + Bytes(bag)
<1>1. /\ giving' = [u \in Threads |-> giving'[u]] /\ giving'[t] = bag
      /\ \A u \in Threads \ {t} : giving'[u] = giving[u]
  BY DEF BooksType
<1>2. \A u \in Threads : Bag(giving'[u])
  BY <1>1 DEF BooksType
<1>3. \A b : Bag(b) => Bytes(b) \in Nat
  BY BagBytes
<1>4. /\ Handing' \in [Threads -> Nat]
      /\ \A u \in Threads \ {t} : Handing'[u] = Handing[u]
      /\ Handing[t] = Bytes(giving[t]) /\ Handing'[t] = Bytes(bag)
  BY <1>1, <1>2, <1>3 DEF Handing
<1>5. Summable(Handing, Threads)
  BY DEF BooksType
<1>6. /\ Summable(Handing', Threads)
      /\ Total(Handing') = Total(Handing) - Handing[t] + Handing'[t]
      /\ Total(Handing) \in Nat
  BY <1>4, <1>5, TotalUpdate
<1>7. Returning = Total(Handing) /\ Returning' = Total(Handing')
  BY DEF Returning, Handing
<1>8. QED
  BY <1>1, <1>2, <1>4, <1>6, <1>7

LEMMA Amounts ==
  ASSUME BooksInv
  PROVE  /\ Charged \in Nat /\ Unrecorded \in Nat /\ Returning \in Nat
         /\ credit \in Nat /\ leased \in Nat /\ free \in Nat /\ others \in Nat
         /\ leased + credit = Charged
         /\ free + others + Charged + Unrecorded + Returning = Capacity
<1>1. Charged \in Nat
  BY BagBytes DEF Charged, BooksInv, BooksType
<1>2. /\ Summable(Granting, Threads) /\ Unrecorded = Total(Granting)
      /\ Summable(Handing, Threads) /\ Returning = Total(Handing)
  BY DEF BooksInv, BooksType, Unrecorded, Granting, Returning, Handing
<1>3. Unrecorded \in Nat /\ Returning \in Nat
  BY <1>2, FS_CardinalityType DEF Summable, Total
<1>4. QED
  BY <1>1, <1>3 DEF BooksInv, BooksType, LeasesBacked, MachineConserved

-----------------------------------------------------------------------------
(* The steps of try_claim.                                                  *)

LEMMA SpendCreditKeeps ==
  ASSUME BooksInv, NEW t \in Threads, NEW b \in Sizes, SpendCredit(t, b)
  PROVE  BooksInv'
<1>1. b \in Nat /\ credit >= b /\ credit' = credit - b /\ leased' = leased + b /\ lock = NoThread
  BY SizesAssumption DEF SpendCredit
<1>2. UNCHANGED <<allocations, lock, pc, want, giving, free, others>>
  BY DEF SpendCredit
<1>3. Charged' = Charged /\ Unrecorded' = Unrecorded /\ Granting' = Granting
      /\ Returning' = Returning /\ Handing' = Handing
  BY <1>2, SumsKept
<1>4. BooksType' /\ LockHeld'
  BY <1>1, <1>2, <1>3, Amounts DEF BooksInv, BooksType, LockHeld
<1>5. LeasesBacked' /\ MachineConserved'
  BY <1>1, <1>2, <1>3, Amounts DEF LeasesBacked, MachineConserved
<1>6. NothingStranded'
  BY <1>1, <1>2, <1>3, Amounts DEF NothingStranded, BooksInv
<1>7. QED
  BY <1>4, <1>5, <1>6 DEF BooksInv

LEMMA AskKeeps ==
  ASSUME BooksInv, NEW t \in Threads, NEW b \in Sizes, Ask(t, b)
  PROVE  BooksInv'
<1>1. b \in Nat /\ Goto(t, "ask") /\ want' = [want EXCEPT ![t] = b] /\ pc[t] = "idle"
  BY SizesAssumption DEF Ask
<1>2. UNCHANGED <<credit, allocations, lock, leased, giving, free, others>>
  BY DEF Ask
<1>3. Charged' = Charged /\ Returning' = Returning /\ Handing' = Handing
  BY <1>2, SumsKept
<1>4. /\ Summable(Granting', Threads)
      /\ pc' \in [Threads -> Labels] /\ want' \in [Threads -> Nat]
      /\ \A u \in Threads : pc'[u] \in {"ask", "push"} => want'[u] \in Sizes
      /\ Unrecorded' = Unrecorded
  <2>1. BooksType /\ "ask" \in Labels
    BY DEF BooksInv, Labels
  <2>2. QED
    BY <1>1, <2>1, GrantingStep, Zenon
<1>5. BooksType'
  BY <1>2, <1>3, <1>4, Zenon DEF BooksInv, BooksType
<1>6. LockHeld'
  BY <1>1, <1>2 DEF BooksInv, BooksType, LockHeld, Goto
<1>7. LeasesBacked' /\ MachineConserved' /\ NothingStranded'
  BY <1>2, <1>3, <1>4 DEF BooksInv, LeasesBacked, MachineConserved, NothingStranded
<1>8. QED
  BY <1>5, <1>6, <1>7 DEF BooksInv

LEMMA GrantedKeeps ==
  ASSUME BooksInv, NEW t \in Threads, Granted(t)
  PROVE  BooksInv'
<1>1. /\ Goto(t, "push") /\ pc[t] = "ask" /\ free >= want[t] /\ free' = free - want[t]
      /\ want[t] \in Nat /\ want[t] \in Sizes /\ want' = [want EXCEPT ![t] = want[t]]
  BY DEF Granted, BooksInv, BooksType
<1>2. UNCHANGED <<credit, allocations, lock, leased, giving, others>>
  BY DEF Granted
<1>3. Charged' = Charged /\ Returning' = Returning /\ Handing' = Handing
  BY <1>2, SumsKept
<1>4. /\ Summable(Granting', Threads)
      /\ pc' \in [Threads -> Labels] /\ want' \in [Threads -> Nat]
      /\ \A u \in Threads : pc'[u] \in {"ask", "push"} => want'[u] \in Sizes
      /\ Unrecorded' = Unrecorded + want[t]
  <2>1. BooksType /\ "push" \in Labels
    BY DEF BooksInv, Labels
  <2>2. QED
    BY <1>1, <2>1, GrantingStep, Zenon
<1>5. BooksType'
  <2>1. free' \in Nat
    BY <1>1, Amounts
  <2>2. QED
    BY <1>2, <1>3, <1>4, <2>1, Zenon DEF BooksInv, BooksType
<1>6. LockHeld'
  BY <1>1, <1>2 DEF BooksInv, BooksType, LockHeld, Goto
<1>7. LeasesBacked' /\ MachineConserved' /\ NothingStranded'
  BY <1>1, <1>2, <1>3, <1>4, Amounts DEF BooksInv, LeasesBacked, MachineConserved, NothingStranded
<1>8. QED
  BY <1>5, <1>6, <1>7 DEF BooksInv

LEMMA RefusedKeeps ==
  ASSUME BooksInv, NEW t \in Threads, Refused(t)
  PROVE  BooksInv'
<1>1. /\ Goto(t, "idle") /\ pc[t] = "ask" /\ want[t] \in Nat
      /\ want' = [want EXCEPT ![t] = want[t]]
  BY DEF Refused, BooksInv, BooksType
<1>2. UNCHANGED <<credit, allocations, lock, leased, giving, free, others>>
  BY DEF Refused
<1>3. Charged' = Charged /\ Returning' = Returning /\ Handing' = Handing
  BY <1>2, SumsKept
<1>4. /\ Summable(Granting', Threads)
      /\ pc' \in [Threads -> Labels] /\ want' \in [Threads -> Nat]
      /\ \A u \in Threads : pc'[u] \in {"ask", "push"} => want'[u] \in Sizes
      /\ Unrecorded' = Unrecorded
  <2>1. BooksType /\ "idle" \in Labels
    BY DEF BooksInv, Labels
  <2>2. QED
    BY <1>1, <2>1, GrantingStep, Zenon
<1>5. BooksType'
  BY <1>2, <1>3, <1>4, Zenon DEF BooksInv, BooksType
<1>6. LockHeld'
  BY <1>1, <1>2 DEF BooksInv, BooksType, LockHeld, Goto
<1>7. LeasesBacked' /\ MachineConserved' /\ NothingStranded'
  BY <1>2, <1>3, <1>4 DEF BooksInv, LeasesBacked, MachineConserved, NothingStranded
<1>8. QED
  BY <1>5, <1>6, <1>7 DEF BooksInv

LEMMA RecordKeeps ==
  ASSUME BooksInv, NEW t \in Threads, Record(t)
  PROVE  BooksInv'
<1> DEFINE b == want[t]
<1>1. /\ Goto(t, "idle") /\ pc[t] = "push" /\ lock = NoThread /\ b \in Nat /\ b \in Sizes
      /\ want' = [want EXCEPT ![t] = b]
  BY DEF Record, BooksInv, BooksType
<1>2. /\ UNCHANGED <<credit, lock, giving, free, others>> /\ leased' = leased + b
      /\ allocations' = [allocations EXCEPT ![b] = allocations[b] + 1]
  BY DEF Record
<1> HIDE DEF b
<1>3. Returning' = Returning /\ Handing' = Handing
  BY <1>2, SumsKept
<1>4. /\ Summable(Granting', Threads)
      /\ pc' \in [Threads -> Labels] /\ want' \in [Threads -> Nat]
      /\ \A u \in Threads : pc'[u] \in {"ask", "push"} => want'[u] \in Sizes
      /\ Unrecorded' = Unrecorded - b
  <2>1. BooksType /\ "idle" \in Labels
    BY DEF BooksInv, Labels
  <2>2. QED
    BY <1>1, <2>1, GrantingStep, Zenon DEF b
<1>5. Bag(allocations') /\ Charged' = Charged + b
  <2>1. Bag(allocations) /\ b \in Sizes
    BY <1>1 DEF BooksInv, BooksType
  <2>2. QED
    BY <1>2, <2>1, BagAdd, Zenon DEF Charged
<1>6. BooksType'
  <2>1. leased' \in Nat
    BY <1>1, <1>2, Amounts
  <2>2. QED
    BY <1>2, <1>3, <1>4, <1>5, <2>1, Zenon DEF BooksInv, BooksType
<1>7. LockHeld'
  BY <1>1, <1>2 DEF BooksInv, BooksType, LockHeld, Goto
<1>8. LeasesBacked' /\ MachineConserved'
  BY <1>1, <1>2, <1>3, <1>4, <1>5, Amounts DEF LeasesBacked, MachineConserved
<1>9. NothingStranded'
  BY <1>1, <1>2, <1>5, Amounts DEF BooksInv, NothingStranded
<1>10. QED
  BY <1>6, <1>7, <1>8, <1>9 DEF BooksInv

-----------------------------------------------------------------------------
(* The steps of release.                                                    *)

LEMMA ReleaseKeeps ==
  ASSUME BooksInv, NEW t \in Threads, NEW b \in Sizes, Release(t, b)
  PROVE  BooksInv'
<1>1. /\ Goto(t, "settle") /\ pc[t] = "idle" /\ want[t] \in Nat /\ lock = NoThread
      /\ want' = [want EXCEPT ![t] = want[t]]
  BY DEF Release, BooksInv, BooksType
<1>2. /\ UNCHANGED <<allocations, giving, free, others>> /\ lock' = t
      /\ b \in Nat /\ b <= leased /\ leased' = leased - b /\ credit' = credit + b
  BY SizesAssumption DEF Release
<1>3. Charged' = Charged /\ Returning' = Returning /\ Handing' = Handing
  BY <1>2, SumsKept
<1>4. /\ Summable(Granting', Threads)
      /\ pc' \in [Threads -> Labels] /\ want' \in [Threads -> Nat]
      /\ \A u \in Threads : pc'[u] \in {"ask", "push"} => want'[u] \in Sizes
      /\ Unrecorded' = Unrecorded
  <2>1. BooksType /\ "settle" \in Labels
    BY DEF BooksInv, Labels
  <2>2. QED
    BY <1>1, <2>1, GrantingStep, Zenon
<1>5. BooksType'
  <2>1. leased' \in Nat /\ credit' \in Nat
    BY <1>2, Amounts
  <2>2. QED
    BY <1>2, <1>3, <1>4, <2>1, Zenon DEF BooksInv, BooksType
<1>6. LockHeld'
  BY <1>1, <1>2, NoThreadAssumption DEF BooksInv, BooksType, LockHeld, Goto
<1>7. LeasesBacked' /\ MachineConserved'
  BY <1>2, <1>3, <1>4, Amounts DEF LeasesBacked, MachineConserved
<1>8. NothingStranded'
  BY <1>2, NoThreadAssumption DEF NothingStranded
<1>9. QED
  BY <1>5, <1>6, <1>7, <1>8 DEF BooksInv

\* The loop takes an allocation off the books.
LEMMA SettleTakes ==
  ASSUME BooksInv, NEW t \in Threads, pc[t] = "settle",
         NEW s \in Sizes, allocations[s] > 0, s <= credit,
         allocations' = [allocations EXCEPT ![s] = allocations[s] - 1],
         credit' = credit - s,
         giving' = [giving EXCEPT ![t][s] = @ + 1],
         UNCHANGED <<lock, pc, leased, want, free, others>>
  PROVE  BooksInv'
<1> DEFINE bag == [giving[t] EXCEPT ![s] = giving[t][s] + 1]
<1>1. s \in Nat
  BY SizesAssumption
<1>2. Unrecorded' = Unrecorded /\ Granting' = Granting
  BY SumsKept
<1>3. Bag(allocations') /\ Charged' = Charged - s
  <2>1. Bag(allocations)
    BY DEF BooksInv, BooksType
  <2>2. QED
    BY <2>1, BagRemove, Zenon DEF Charged
<1>4. Bag(bag) /\ Bytes(bag) = Bytes(giving[t]) + s /\ Bytes(giving[t]) \in Nat
  <2>1. Bag(giving[t])
    BY DEF BooksInv, BooksType
  <2>2. QED
    BY <2>1, BagAdd, Zenon
<1>5. giving' = [giving EXCEPT ![t] = bag]
  OBVIOUS
<1> HIDE DEF bag
<1>6. /\ Summable(Handing', Threads)
      /\ giving' = [u \in Threads |-> giving'[u]] /\ \A u \in Threads : Bag(giving'[u])
      /\ Returning \in Nat /\ Returning' = Returning - Bytes(giving[t]) + Bytes(bag)
  BY <1>4, <1>5, HandingStep, Zenon DEF BooksInv
<1>7. Returning' = Returning + s
  BY <1>1, <1>4, <1>6
<1>8. BooksType'
  <2>1. credit' \in Nat
    BY <1>1, Amounts
  <2>2. QED
    BY <1>2, <1>3, <1>6, <2>1, Zenon DEF BooksInv, BooksType
<1>9. LockHeld' /\ lock # NoThread
  BY NoThreadAssumption DEF BooksInv, LockHeld
<1>10. LeasesBacked' /\ MachineConserved'
  BY <1>1, <1>2, <1>3, <1>7, Amounts DEF LeasesBacked, MachineConserved
<1>11. NothingStranded'
  BY <1>9 DEF NothingStranded
<1>12. QED
  BY <1>8, <1>9, <1>10, <1>11 DEF BooksInv

\* When the credit covers no allocation and nothing is leased, nothing is left.
LEMMA NothingCovered ==
  ASSUME BooksInv, Covered(credit) = {}, leased = 0
  PROVE  credit = 0 /\ Charged = 0
<1>1. Bag(allocations) /\ allocations \in [Sizes -> Nat]
  BY DEF BooksInv, BooksType, Bag
<1>2. ASSUME NEW s \in Sizes PROVE s * allocations[s] = 0
  <2>1. s \in Nat /\ allocations[s] \in Nat
    BY <1>1, SizesAssumption
  <2>2. s * allocations[s] <= Charged
    <3>1. allocations[s] + 1 \in Nat
      BY <2>1
    <3>2. QED
      BY <1>1, <3>1, BagUpdate, Zenon DEF Charged
  <2>3. Charged = credit
    BY Amounts
  <2>4. allocations[s] > 0 => s <= s * allocations[s]
    BY <2>1
  <2>5. allocations[s] > 0 => s > credit
    BY <2>1, Amounts DEF Covered
  <2>6. s * allocations[s] \in Nat /\ (allocations[s] = 0 => s * allocations[s] = 0)
    BY <2>1
  <2>7. QED
    BY <2>1, <2>2, <2>3, <2>4, <2>5, <2>6, Amounts
<1>3. Charged = 0
  BY <1>1, <1>2, EmptyBag, Zenon DEF Charged
<1>4. QED
  BY <1>3, Amounts

LEMMA SettleKeeps ==
  ASSUME BooksInv, NEW t \in Threads, Settle(t)
  PROVE  BooksInv'
<1>1. CASE Covered(credit) = {}
  <2>1. /\ Goto(t, "give") /\ pc[t] = "settle" /\ want[t] \in Nat /\ lock' = NoThread
        /\ want' = [want EXCEPT ![t] = want[t]]
        /\ UNCHANGED <<credit, allocations, giving, leased, free, others>>
    BY <1>1 DEF Settle, BooksInv, BooksType
  <2>2. Charged' = Charged /\ Returning' = Returning /\ Handing' = Handing
    BY <2>1, SumsKept
  <2>3. /\ Summable(Granting', Threads)
        /\ pc' \in [Threads -> Labels] /\ want' \in [Threads -> Nat]
        /\ \A u \in Threads : pc'[u] \in {"ask", "push"} => want'[u] \in Sizes
        /\ Unrecorded' = Unrecorded
    <3>1. BooksType /\ "give" \in Labels
      BY DEF BooksInv, Labels
    <3>2. QED
      BY <2>1, <3>1, GrantingStep, Zenon
  <2>4. BooksType'
    BY <2>1, <2>2, <2>3, Zenon DEF BooksInv, BooksType
  <2>5. LockHeld'
    BY <2>1 DEF BooksInv, BooksType, LockHeld, Goto
  <2>6. LeasesBacked' /\ MachineConserved'
    BY <2>1, <2>2, <2>3 DEF BooksInv, LeasesBacked, MachineConserved
  <2>7. NothingStranded'
    BY <1>1, <2>1, <2>2, NothingCovered DEF NothingStranded
  <2>8. QED
    BY <2>4, <2>5, <2>6, <2>7 DEF BooksInv
<1>2. CASE Covered(credit) # {}
  <2>1. PICK s \in Best(credit) :
          /\ allocations' = [allocations EXCEPT ![s] = allocations[s] - 1]
          /\ credit' = credit - s
          /\ giving' = [giving EXCEPT ![t][s] = @ + 1]
          /\ UNCHANGED <<lock, pc>>
    BY <1>2 DEF Settle
  <2>2. s \in Sizes /\ allocations[s] > 0 /\ s <= credit
    BY DEF Best, Covered
  <2>3. pc[t] = "settle" /\ UNCHANGED <<leased, want, free, others>>
    BY DEF Settle
  <2>4. QED
    BY <2>1, <2>2, <2>3, SettleTakes, Zenon
<1>3. QED
  BY <1>1, <1>2

LEMMA GiveBackKeeps ==
  ASSUME BooksInv, NEW t \in Threads, GiveBack(t)
  PROVE  BooksInv'
<1>1. UNCHANGED <<credit, allocations, lock, leased, want, others>> /\ pc[t] = "give"
  BY DEF GiveBack
<1>2. Charged' = Charged
  BY <1>1, SumsKept
<1>3. CASE \A s \in Sizes : giving[t][s] = 0
  <2>1. Goto(t, "idle") /\ UNCHANGED <<free, giving>>
    BY <1>3 DEF GiveBack
  <2>2. Returning' = Returning /\ Handing' = Handing
    BY <2>1, SumsKept
  <2>3. /\ Summable(Granting', Threads)
        /\ pc' \in [Threads -> Labels] /\ want' \in [Threads -> Nat]
        /\ \A u \in Threads : pc'[u] \in {"ask", "push"} => want'[u] \in Sizes
        /\ Unrecorded' = Unrecorded
    <3>1. BooksType /\ "idle" \in Labels
      BY DEF BooksInv, Labels
    <3>2. pc[t] = "give" /\ want[t] \in Nat /\ want' = [want EXCEPT ![t] = want[t]]
      BY <1>1 DEF BooksInv, BooksType
    <3>3. QED
      BY <2>1, <3>1, <3>2, GrantingStep, Zenon
  <2>4. BooksType'
    BY <1>1, <2>1, <2>2, <2>3, Zenon DEF BooksInv, BooksType
  <2>5. LockHeld'
    BY <1>1, <2>1 DEF BooksInv, BooksType, LockHeld, Goto
  <2>6. LeasesBacked' /\ MachineConserved' /\ NothingStranded'
    BY <1>1, <1>2, <2>1, <2>2, <2>3
       DEF BooksInv, LeasesBacked, MachineConserved, NothingStranded
  <2>7. QED
    BY <2>4, <2>5, <2>6 DEF BooksInv
<1>4. CASE ~\A s \in Sizes : giving[t][s] = 0
  <2>1. PICK s \in {x \in Sizes : giving[t][x] > 0} :
          /\ free' = free + s
          /\ giving' = [giving EXCEPT ![t][s] = @ - 1]
          /\ UNCHANGED pc
    BY <1>4 DEF GiveBack
  <2> DEFINE bag == [giving[t] EXCEPT ![s] = giving[t][s] - 1]
  <2>2. s \in Nat /\ s \in Sizes
    BY SizesAssumption
  <2>3. Unrecorded' = Unrecorded /\ Granting' = Granting
    BY <1>1, <2>1, SumsKept
  <2>4. Bag(bag) /\ Bytes(bag) = Bytes(giving[t]) - s /\ Bytes(giving[t]) \in Nat
    <3>1. Bag(giving[t])
      BY DEF BooksInv, BooksType
    <3>2. s \in Sizes /\ giving[t][s] > 0
      OBVIOUS
    <3>3. QED
      BY <3>1, <3>2, BagRemove, Zenon
  <2>5. giving' = [giving EXCEPT ![t] = bag]
    BY <2>1
  <2> HIDE DEF bag
  <2>6. /\ Summable(Handing', Threads)
        /\ giving' = [u \in Threads |-> giving'[u]] /\ \A u \in Threads : Bag(giving'[u])
        /\ Returning \in Nat /\ Returning' = Returning - Bytes(giving[t]) + Bytes(bag)
    BY <2>4, <2>5, HandingStep, Zenon DEF BooksInv
  <2>7. Returning' = Returning - s
    BY <2>2, <2>4, <2>6
  <2>8. BooksType'
    <3>1. free' \in Nat
      BY <2>1, <2>2, Amounts
    <3>2. QED
      BY <1>1, <2>1, <2>3, <2>6, <3>1, Zenon DEF BooksInv, BooksType
  <2>9. LockHeld'
    BY <1>1, <2>1 DEF BooksInv, LockHeld
  <2>10. LeasesBacked' /\ MachineConserved' /\ NothingStranded'
    BY <1>1, <1>2, <2>1, <2>2, <2>3, <2>7, Amounts
       DEF BooksInv, LeasesBacked, MachineConserved, NothingStranded
  <2>11. QED
    BY <2>8, <2>9, <2>10 DEF BooksInv
<1>5. QED
  BY <1>3, <1>4

-----------------------------------------------------------------------------
(* The other adapters, and the theorems.                                    *)

LEMMA OthersKeep ==
  ASSUME BooksInv, NEW b \in Sizes, OthersTake(b) \/ OthersGive(b)
  PROVE  BooksInv'
<1>1. /\ b \in Nat /\ UNCHANGED <<credit, allocations, lock, leased, pc, want, giving>>
      /\ \/ free >= b /\ free' = free - b /\ others' = others + b
         \/ others >= b /\ free' = free + b /\ others' = others - b
  BY SizesAssumption DEF OthersTake, OthersGive
<1>2. Charged' = Charged /\ Unrecorded' = Unrecorded /\ Granting' = Granting
      /\ Returning' = Returning /\ Handing' = Handing
  BY <1>1, SumsKept
<1>3. free' \in Nat /\ others' \in Nat /\ free' + others' = free + others
  BY <1>1, Amounts
<1>4. BooksType' /\ LockHeld'
  BY <1>1, <1>2, <1>3, Zenon DEF BooksInv, BooksType, LockHeld
<1>5. LeasesBacked' /\ MachineConserved' /\ NothingStranded'
  BY <1>1, <1>2, <1>3, Amounts DEF BooksInv, LeasesBacked, MachineConserved, NothingStranded
<1>6. QED
  BY <1>4, <1>5 DEF BooksInv

LEMMA StepBooks == BooksInv /\ [Next]_vars => BooksInv'
<1> SUFFICES ASSUME BooksInv, [Next]_vars PROVE BooksInv'
  OBVIOUS
<1>1. CASE UNCHANGED vars
  <2>1. Charged' = Charged /\ Unrecorded' = Unrecorded /\ Granting' = Granting
        /\ Returning' = Returning /\ Handing' = Handing
    BY <1>1, SumsKept DEF vars
  <2>2. QED
    BY <1>1, <2>1, Zenon DEF vars, BooksInv, BooksType, LockHeld, LeasesBacked,
                             MachineConserved, NothingStranded
<1>2. ASSUME NEW t \in Threads, NEW b \in Sizes, SpendCredit(t, b) \/ Ask(t, b) \/ Release(t, b)
      PROVE  BooksInv'
  BY <1>2, SpendCreditKeeps, AskKeeps, ReleaseKeeps
<1>3. ASSUME NEW t \in Threads,
             Granted(t) \/ Refused(t) \/ Record(t) \/ Settle(t) \/ GiveBack(t)
      PROVE  BooksInv'
  BY <1>3, GrantedKeeps, RefusedKeeps, RecordKeeps, SettleKeeps, GiveBackKeeps
<1>4. ASSUME NEW b \in Sizes, OthersTake(b) \/ OthersGive(b) PROVE BooksInv'
  BY <1>4, OthersKeep
<1>5. QED
  BY <1>1, <1>2, <1>3, <1>4, Zenon DEF Next

LEMMA InitBooks == Init => BooksInv
<1> SUFFICES ASSUME Init PROVE BooksInv
  OBVIOUS
<1> DEFINE none == [s \in Sizes |-> 0]
<1>1. Bag(none) /\ Bytes(none) = 0
  <2>1. none \in [Sizes -> Nat] /\ \A s \in Sizes : s * none[s] = 0
    BY SizesAssumption
  <2>2. QED
    BY <2>1, EmptyBag
<1>2. allocations = none /\ giving = [t \in Threads |-> none]
  BY DEF Init
<1> HIDE DEF none
<1>3. Summable(Granting, Threads) /\ Unrecorded = 0
  <2>1. Granting \in [Threads -> Nat] /\ \A t \in Threads : Granting[t] = 0
    BY DEF Init, Granting
  <2>2. Unrecorded = Total(Granting)
    BY DEF Unrecorded, Granting
  <2>3. QED
    BY <2>1, <2>2, TotalZero
<1>4. Summable(Handing, Threads) /\ Returning = 0
  <2>1. Handing \in [Threads -> Nat] /\ \A t \in Threads : Handing[t] = 0
    BY <1>1, <1>2 DEF Handing
  <2>2. Returning = Total(Handing)
    BY DEF Returning, Handing
  <2>3. QED
    BY <2>1, <2>2, TotalZero
<1>5. Charged = 0
  BY <1>1, <1>2 DEF Charged
<1>6. BooksType
  BY <1>1, <1>2, <1>3, <1>4, CapacityAssumption DEF Init, BooksType, Labels
<1>7. LockHeld /\ LeasesBacked /\ MachineConserved /\ NothingStranded
  BY <1>3, <1>4, <1>5, CapacityAssumption
     DEF Init, LockHeld, LeasesBacked, MachineConserved, NothingStranded
<1>8. QED
  BY <1>6, <1>7 DEF BooksInv

LEMMA BooksAlways == Spec => []BooksInv
<1>1. Init => BooksInv
  BY InitBooks
<1>2. BooksInv /\ [Next]_vars => BooksInv'
  BY StepBooks
<1>3. QED
  BY <1>1, <1>2, PTL DEF Spec

\* However reserve, grow, shrink and drop interleave, with the governor asked
\* outside the adapter's lock: the allocations on the books are exactly what
\* the live leases cover plus the credit.
THEOREM LeasesAreBacked == Spec => []LeasesBacked
<1>1. BooksInv => LeasesBacked
  BY DEF BooksInv
<1>2. QED
  BY <1>1, BooksAlways, PTL

\* No host byte is invented or lost between the governor, the adapter's books,
\* a grant that try_claim has not recorded and allocations that release is
\* handing back.
THEOREM MachineIsConserved == Spec => []MachineConserved
<1>1. BooksInv => MachineConserved
  BY DEF BooksInv
<1>2. QED
  BY <1>1, BooksAlways, PTL

\* With the last lease gone and no release in its loop, release has returned
\* every allocation: neither credit nor charge is left behind.
THEOREM NothingIsStranded == Spec => []NothingStranded
<1>1. BooksInv => NothingStranded
  BY DEF BooksInv
<1>2. QED
  BY <1>1, BooksAlways, PTL
=============================================================================
