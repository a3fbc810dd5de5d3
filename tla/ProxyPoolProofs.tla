--------------------------- MODULE ProxyPoolProofs ---------------------------
(***************************************************************************)
(* Proofs about ProxyPool for every set of clients, every number of        *)
(* proxies and every strategy: the accounting of the slots is exact,       *)
(* round_robin is fair, and least_connections finds the least loaded.      *)
(***************************************************************************)
EXTENDS ProxyPool, FiniteSetTheorems, TLAPS

USE ClientsAssumption, NumProxiesAssumption, StrategiesAssumption,
    MaxDialsAssumption

LEMMA SmallMod ==
  ASSUME NEW n \in Nat \ {0}, NEW a \in 0..(n - 1)
  PROVE  a % n = a
  OBVIOUS

LEMMA SuccessorType ==
  ASSUME NEW i \in Proxies
  PROVE  (i + 1) % NumProxies \in Proxies
  BY DEF Proxies

-----------------------------------------------------------------------------
(* Types. *)

LEMMA TypeInit == Init => TypeOK
  BY DEF Init, TypeOK, Proxies, PCs

LEMMA TypeStep ==
  ASSUME TypeOK, [Next]_vars
  PROVE  TypeOK'
<1> USE DEF TypeOK, Goto, PCs
<1>1. ASSUME NEW c \in Clients, ClientNext(c)
      PROVE  TypeOK'
  <2>1. CASE Acquire(c)
    <3>1. PICK i \in Proxies :
            /\ next' = IF strategy = "random" THEN next
                       ELSE (i + 1) % NumProxies
            /\ active' = [active EXCEPT ![i] = @ + 1]
            /\ proxy' = [proxy EXCEPT ![c] = i]
            /\ uses' = [uses EXCEPT ![i] = @ + 1]
      BY <2>1 DEF Acquire
    <3>2. next' \in Proxies
      BY <3>1, SuccessorType
    <3> QED
      BY <2>1, <3>1, <3>2 DEF Acquire
  <2>2. CASE DialFail(c) \/ DialOpen(c) \/ DialExpired(c) \/ DialReturn(c)
             \/ Close(c)
    BY <2>2 DEF DialFail, DialOpen, DialExpired, DialReturn, Close
  <2>3. CASE ReleaseFailed(c)
    BY <2>3 DEF ReleaseFailed, GiveBack
  <2>4. CASE ReleaseOnce(c)
    BY <2>4 DEF ReleaseOnce, GiveBack
  <2> QED
    BY <1>1, <2>1, <2>2, <2>3, <2>4 DEF ClientNext
<1>2. CASE UNCHANGED vars
  BY <1>2 DEF vars
<1> QED
  BY <1>1, <1>2 DEF Next

(* Every variable keeps its type; in particular next and the index of a    *)
(* dial always name a proxy of the pool.                                   *)
THEOREM PoolTypeCorrect == Spec => []TypeOK
<1>1. TypeOK /\ [Next]_vars => TypeOK'
  BY TypeStep
<1> QED
  BY TypeInit, <1>1, PTL DEF Spec

-----------------------------------------------------------------------------
(* Accounting. *)

LEMMA OccupantsFinite ==
  ASSUME NEW i
  PROVE  /\ IsFiniteSet(Occupants(i))
         /\ Cardinality(Occupants(i)) \in Nat
<1>1. Occupants(i) \subseteq Clients
  BY DEF Occupants
<1> QED
  BY <1>1, FS_Subset, FS_CardinalityType

(* A client that starts to occupy a slot of proxy i, the others staying    *)
(* as they are, adds one occupant there and none elsewhere.                *)
LEMMA OccupantEnters ==
  ASSUME NEW c \in Clients, NEW i \in Proxies, ~Occupies(c), Occupies(c)',
         proxy'[c] = i,
         \A d \in Clients \ {c} :
           (Occupies(d)' <=> Occupies(d)) /\ proxy'[d] = proxy[d]
  PROVE  /\ Cardinality(Occupants(i)') = Cardinality(Occupants(i)) + 1
         /\ \A j \in Proxies \ {i} : Occupants(j)' = Occupants(j)
<1>1. Occupants(i)' = Occupants(i) \cup {c} /\ c \notin Occupants(i)
  BY DEF Occupants
<1>2. \A j \in Proxies \ {i} : Occupants(j)' = Occupants(j)
  BY DEF Occupants
<1> QED
  BY <1>1, <1>2, OccupantsFinite, FS_AddElement

(* A client that stops occupying its slot takes one occupant away there.   *)
LEMMA OccupantLeaves ==
  ASSUME NEW c \in Clients, Occupies(c), ~Occupies(c)', proxy' = proxy,
         \A d \in Clients \ {c} : Occupies(d)' <=> Occupies(d)
  PROVE  /\ Cardinality(Occupants(proxy[c])') =
              Cardinality(Occupants(proxy[c])) - 1
         /\ Cardinality(Occupants(proxy[c])) > 0
         /\ \A j \in Proxies \ {proxy[c]} : Occupants(j)' = Occupants(j)
<1> DEFINE i == proxy[c]
<1>1. Occupants(i)' = Occupants(i) \ {c} /\ c \in Occupants(i)
  BY DEF Occupants
<1>2. \A j \in Proxies \ {i} : Occupants(j)' = Occupants(j)
  BY DEF Occupants
<1>3. Cardinality(Occupants(i)') = Cardinality(Occupants(i)) - 1
  BY <1>1, OccupantsFinite, FS_RemoveElement
<1>4. Cardinality(Occupants(i)) > 0
  BY <1>1, OccupantsFinite, FS_EmptySet
<1> QED
  BY <1>2, <1>3, <1>4

(* The release of the slot that client c occupies. *)
LEMMA ReleaseExact ==
  ASSUME TypeOK, ActiveExact, NEW c \in Clients, GiveBack(proxy[c]),
         Occupies(c), ~Occupies(c)', proxy' = proxy,
         \A d \in Clients \ {c} : Occupies(d)' <=> Occupies(d)
  PROVE  ActiveExact'
<1> DEFINE i == proxy[c]
<1>1. i \in Proxies /\ active \in [Proxies -> Nat]
  BY DEF TypeOK
<1>2. /\ Cardinality(Occupants(i)') = Cardinality(Occupants(i)) - 1
      /\ Cardinality(Occupants(i)) > 0
      /\ \A j \in Proxies \ {i} : Occupants(j)' = Occupants(j)
  BY OccupantLeaves
<1>3. active[i] = Cardinality(Occupants(i))
  BY <1>1 DEF ActiveExact
<1>4. active' = [active EXCEPT ![i] = @ - 1]
  BY <1>2, <1>3 DEF GiveBack
<1>5. active'[i] = Cardinality(Occupants(i)')
  BY <1>1, <1>2, <1>3, <1>4
<1>6. \A j \in Proxies \ {i} : active'[j] = Cardinality(Occupants(j)')
  BY <1>1, <1>2, <1>4 DEF ActiveExact
<1> QED
  BY <1>5, <1>6 DEF ActiveExact

LEMMA ExactStep ==
  ASSUME TypeOK, ConnInv, ActiveExact, [Next]_vars
  PROVE  ActiveExact'
<1>1. ASSUME NEW c \in Clients, ClientNext(c)
      PROVE  ActiveExact'
  <2>1. \A d \in Clients \ {c} :
          (Occupies(d)' <=> Occupies(d)) /\ proxy'[d] = proxy[d]
    <3> SUFFICES ASSUME NEW d \in Clients \ {c}
                 PROVE  UNCHANGED <<pc[d], once[d], proxy[d]>>
      BY DEF Occupies
    <3> QED
      BY <1>1 DEF ClientNext, Acquire, DialFail, DialOpen, DialExpired,
                  DialReturn, Close, ReleaseFailed, ReleaseOnce, Goto, TypeOK
  <2>2. CASE Acquire(c)
    <3>1. PICK i \in Proxies :
            /\ active' = [active EXCEPT ![i] = @ + 1]
            /\ proxy' = [proxy EXCEPT ![c] = i]
      BY <2>2 DEF Acquire
    <3>2. ~Occupies(c) /\ Occupies(c)' /\ proxy'[c] = i
      BY <2>2, <3>1 DEF Acquire, Occupies, TypeOK
    <3>3. /\ Cardinality(Occupants(i)') = Cardinality(Occupants(i)) + 1
          /\ \A j \in Proxies \ {i} : Occupants(j)' = Occupants(j)
      BY <2>1, <3>2, OccupantEnters
    <3>4. active'[i] = Cardinality(Occupants(i)')
      BY <3>1, <3>3 DEF ActiveExact, TypeOK
    <3>5. \A j \in Proxies \ {i} : active'[j] = Cardinality(Occupants(j)')
      BY <3>1, <3>3 DEF ActiveExact, TypeOK
    <3> QED
      BY <3>4, <3>5 DEF ActiveExact
  <2>3. CASE DialFail(c) \/ DialOpen(c) \/ DialExpired(c) \/ DialReturn(c)
             \/ Close(c)
    <3>1. /\ Occupies(c)' <=> Occupies(c)
          /\ UNCHANGED <<active, proxy>>
      BY <2>3 DEF DialFail, DialOpen, DialExpired, DialReturn, Close, Goto,
                  Occupies, ConnInv, TypeOK
    <3> QED
      BY <2>1, <3>1 DEF ActiveExact, Occupants
  <2>4. CASE ReleaseFailed(c)
    <3>1. /\ Occupies(c) /\ ~Occupies(c)' /\ proxy' = proxy
          /\ GiveBack(proxy[c])
      BY <2>4 DEF ReleaseFailed, Goto, Occupies, TypeOK
    <3> QED
      BY <2>1, <3>1, ReleaseExact
  <2>5. CASE ReleaseOnce(c)
    <3>1. CASE once[c]
      <4>1. /\ Occupies(c)' <=> Occupies(c)
            /\ UNCHANGED <<active, proxy>>
        BY <2>5, <3>1 DEF ReleaseOnce, Goto, Occupies, TypeOK
      <4> QED
        BY <2>1, <4>1 DEF ActiveExact, Occupants
    <3>2. CASE ~once[c]
      <4>1. /\ Occupies(c) /\ ~Occupies(c)' /\ proxy' = proxy
            /\ GiveBack(proxy[c])
        BY <2>5, <3>2 DEF ReleaseOnce, Goto, Occupies, TypeOK
      <4> QED
        BY <2>1, <4>1, ReleaseExact
    <3> QED
      BY <3>1, <3>2
  <2> QED
    BY <1>1, <2>2, <2>3, <2>4, <2>5 DEF ClientNext
<1>2. CASE UNCHANGED vars
  BY <1>2 DEF vars, ActiveExact, Occupants, Occupies
<1> QED
  BY <1>1, <1>2 DEF Next

LEMMA ConnStep ==
  ASSUME TypeOK, ConnInv, [Next]_vars
  PROVE  ConnInv'
<1> USE DEF TypeOK, ConnInv, Goto
<1>1. ASSUME NEW c \in Clients, ClientNext(c)
      PROVE  ConnInv'
  <2>1. CASE Acquire(c)
    BY <2>1 DEF Acquire
  <2>2. CASE DialFail(c) \/ DialOpen(c) \/ DialExpired(c) \/ DialReturn(c)
    BY <2>2 DEF DialFail, DialOpen, DialExpired, DialReturn
  <2>3. CASE Close(c)
    BY <2>3 DEF Close
  <2>4. CASE ReleaseFailed(c) \/ ReleaseOnce(c)
    BY <2>4 DEF ReleaseFailed, ReleaseOnce
  <2> QED
    BY <1>1, <2>1, <2>2, <2>3, <2>4 DEF ClientNext
<1>2. CASE UNCHANGED vars
  BY <1>2 DEF vars
<1> QED
  BY <1>1, <1>2 DEF Next

LEMMA RoundStep ==
  ASSUME TypeOK, RoundInv, [Next]_vars
  PROVE  RoundInv'
<1>0. UNCHANGED strategy
  BY DEF Next, vars, ClientNext, Acquire, DialFail, DialOpen, DialExpired,
         DialReturn, Close, ReleaseFailed, ReleaseOnce
<1> SUFFICES ASSUME strategy = "round_robin"
             PROVE  RoundInv'
  BY <1>0 DEF RoundInv
<1>1. ASSUME NEW c \in Clients, Acquire(c)
      PROVE  RoundInv'
  <2> DEFINE last == NumProxies - 1
  <2>1. /\ uses' = [uses EXCEPT ![next] = @ + 1]
        /\ next' = (next + 1) % NumProxies
    BY <1>1 DEF Acquire, Selects
  <2>2. \A i \in Proxies : uses[i] = uses[last] + (IF i < next THEN 1 ELSE 0)
    BY DEF RoundInv
  <2>3. next \in Proxies /\ uses \in [Proxies -> Nat] /\ last \in Proxies
    BY DEF TypeOK, Proxies
  <2>4. CASE next = last
    <3>1. next' = 0
      BY <2>1, <2>4
    <3>2. \A i \in Proxies : i < last \/ i = last
      BY DEF Proxies
    <3>3. \A i \in Proxies : uses'[i] = uses[last] + 1 /\ ~(i < next')
      BY <2>1, <2>2, <2>3, <2>4, <3>1, <3>2 DEF Proxies
    <3> QED
      BY <2>3, <3>3 DEF RoundInv
  <2>5. CASE next # last
    <3>1. next' = next + 1
      <4>1. next + 1 \in 0..(NumProxies - 1)
        BY <2>3, <2>5 DEF Proxies
      <4> HIDE DEF last
      <4> QED
        BY <2>1, <4>1, SmallMod
    <3>2. uses'[last] = uses[last]
      BY <2>1, <2>3, <2>5
    <3>3. \A i \in Proxies :
            uses'[i] = uses[last] + (IF i < next + 1 THEN 1 ELSE 0)
      BY <2>1, <2>2, <2>3 DEF Proxies
    <3> QED
      BY <3>1, <3>2, <3>3 DEF RoundInv
  <2> QED
    BY <2>4, <2>5
<1>2. ASSUME NEW c \in Clients, ClientNext(c), ~Acquire(c)
      PROVE  UNCHANGED <<next, uses>>
  BY <1>2 DEF ClientNext, DialFail, DialOpen, DialExpired, DialReturn, Close,
              ReleaseFailed, ReleaseOnce
<1>3. CASE UNCHANGED <<next, uses>>
  BY <1>0, <1>3 DEF RoundInv
<1> QED
  BY <1>1, <1>2, <1>3 DEF Next, vars

LEMMA PoolInit == Init => PoolInv
<1> SUFFICES ASSUME Init PROVE PoolInv
  OBVIOUS
<1>1. ConnInv
  BY DEF Init, ConnInv
<1>2. ActiveExact
  <2>1. \A i \in Proxies : Occupants(i) = {}
    BY DEF Init, Occupants, Occupies
  <2> QED
    BY <2>1, FS_EmptySet DEF Init, ActiveExact
<1>3. RoundInv
  BY DEF Init, RoundInv, Proxies
<1> QED
  BY <1>1, <1>2, <1>3 DEF PoolInv

(* The inductive invariant of the pool. *)
THEOREM PoolInvariance == Spec => []PoolInv
<1>1. TypeOK /\ PoolInv /\ [Next]_vars => PoolInv'
  BY ConnStep, ExactStep, RoundStep DEF PoolInv
<1> QED
  BY PoolInit, PoolTypeCorrect, <1>1, PTL DEF Spec

(* The active count of each proxy is exactly the number of its dials in    *)
(* progress and connections not yet given back.                            *)
THEOREM PoolActiveExact == Spec => []ActiveExact
<1>1. PoolInv => ActiveExact
  BY DEF PoolInv
<1> QED
  BY PoolInvariance, <1>1, PTL

(* No connection is open without being counted against its proxy. *)
THEOREM PoolWireCounted == Spec => []WireCounted
<1>1. PoolInv => WireCounted
  BY DEF PoolInv, ConnInv, WireCounted, Occupies
<1> QED
  BY PoolInvariance, <1>1, PTL

(* round_robin never favours a proxy by more than one selection. *)
THEOREM PoolRoundRobinFair == Spec => []RoundRobinFair
<1>1. TypeOK /\ PoolInv => RoundRobinFair
  <2> SUFFICES ASSUME TypeOK, PoolInv, strategy = "round_robin",
                      NEW i \in Proxies, NEW j \in Proxies
               PROVE  uses[i] - uses[j] <= 1
    BY DEF RoundRobinFair
  <2>1. uses[NumProxies - 1] \in Nat
    BY DEF TypeOK, Proxies
  <2> QED
    BY <2>1 DEF PoolInv, RoundInv
<1> QED
  BY PoolTypeCorrect, PoolInvariance, <1>1, PTL

(***************************************************************************)
(* The loop of least_connections.  Its index after offset k is the first   *)
(* of the least loaded among the candidates 0 to k.  This needs no         *)
(* induction but a least number twice: once to see that the recursion of   *)
(* BestUpTo has a solution at all (there is always a first of the least    *)
(* loaded, and it obeys the loop), and once to see that no solution leaves *)
(* it, as there would be a first offset at which it does.                  *)
(***************************************************************************)

(* A set of numbers that is not empty has a least one: the intervals from  *)
(* 0 to its members are well-founded.                                      *)
LEMMA LeastNumber ==
  ASSUME NEW T, T \subseteq Nat, NEW t \in T
  PROVE  \E m \in T : \A n \in T : m <= n
<1> DEFINE S == 0..t
           F == {0..m : m \in {n \in T : n <= t}}
<1>1. IsFiniteSet(S)
  BY FS_Interval
<1>2. F \subseteq SUBSET S /\ F # {}
  OBVIOUS
<1>3. IsWellFoundedOn(StrictSubsetOrdering(S), SUBSET S)
  BY <1>1, FS_StrictSubsetOrderingWellFounded, FS_FiniteSubsetsOfFinite
<1>4. PICK I \in F : \A J \in F : <<J, I>> \notin StrictSubsetOrdering(S)
  BY <1>2, <1>3, WFMin, Zenon
<1>5. PICK m \in T : m <= t /\ I = 0..m
  BY <1>4
<1>6. ASSUME NEW n \in T, n < m
      PROVE  FALSE
  <2>1. 0..n \in F /\ 0..n \subseteq I /\ 0..n # I
    BY <1>5, <1>6
  <2> QED
    BY <1>2, <1>4, <2>1 DEF StrictSubsetOrdering
<1> QED
  BY <1>5, <1>6

(* The load of the candidate at an offset. *)
Load(k) == active[Candidate(k)]

(* i is the first of the least loaded candidates up to offset k. *)
FirstUpTo(i, k) ==
  \E m \in 0..k : /\ i = Candidate(m)
                  /\ \A j \in 0..k : Load(m) <= Load(j)
                  /\ \A j \in 0..(m - 1) : Load(m) < Load(j)

(* Offsets lead to proxies, and the loop begins with next.                 *)
LEMMA Candidates ==
  ASSUME TypeOK
  PROVE  /\ \A k \in Nat : Candidate(k) \in Proxies /\ Load(k) \in Nat
         /\ Candidate(0) = next
<1>1. next \in 0..(NumProxies - 1) /\ next + 0 = next
  BY DEF TypeOK, Proxies
<1>2. \A k \in Nat : Candidate(k) \in Proxies
  BY <1>1 DEF Candidate, Proxies
<1>3. Candidate(0) = next
  BY <1>1, SmallMod DEF Candidate
<1> QED
  BY <1>2, <1>3 DEF Load, TypeOK

(* There is such a candidate.                                              *)
LEMMA FirstExists ==
  ASSUME TypeOK, NEW k \in Nat
  PROVE  \E i : FirstUpTo(i, k)
<1> DEFINE T == {Load(j) : j \in 0..k}
<1>1. T \subseteq Nat /\ Load(0) \in T
  BY Candidates
<1>2. PICK l \in T : \A n \in T : l <= n
  <2> HIDE DEF T
  <2> QED
    BY <1>1, LeastNumber, Zenon
<1> DEFINE M == {m \in 0..k : Load(m) = l}
<1>3. M \subseteq Nat /\ \E m \in M : TRUE
  BY <1>2
<1>4. PICK m \in M : \A n \in M : m <= n
  <2> HIDE DEF M
  <2> QED
    BY <1>3, LeastNumber, Zenon
<1>5. \A j \in 0..k : Load(m) <= Load(j)
  BY <1>2, <1>4
<1>6. ASSUME NEW j \in 0..(m - 1) PROVE Load(m) < Load(j)
  <2>1. j \in 0..k /\ j \notin M
    BY <1>4
  <2>2. Load(j) # l /\ Load(m) = l /\ l <= Load(j) /\ l \in Nat /\ Load(j) \in Nat
    BY <1>1, <1>2, <1>4, <2>1
  <2> QED
    BY <2>2
<1> QED
  BY <1>4, <1>5, <1>6, Zenon DEF FirstUpTo

(* It is the only one.                                                     *)
LEMMA FirstUnique ==
  ASSUME TypeOK, NEW k \in Nat, NEW i, NEW j, FirstUpTo(i, k), FirstUpTo(j, k)
  PROVE  i = j
<1>1. PICK m \in 0..k : /\ i = Candidate(m)
                        /\ \A n \in 0..k : Load(m) <= Load(n)
                        /\ \A n \in 0..(m - 1) : Load(m) < Load(n)
  BY Zenon DEF FirstUpTo
<1>2. PICK p \in 0..k : /\ j = Candidate(p)
                        /\ \A n \in 0..k : Load(p) <= Load(n)
                        /\ \A n \in 0..(p - 1) : Load(p) < Load(n)
  BY Zenon DEF FirstUpTo
<1>3. /\ Load(m) \in Nat /\ Load(p) \in Nat
      /\ Load(m) <= Load(p) /\ Load(p) <= Load(m)
  BY <1>1, <1>2, Candidates
<1>4. ~(m < p) /\ ~(p < m)
  BY <1>1, <1>2, <1>3
<1> QED
  BY <1>1, <1>2, <1>4

(* One iteration of the loop. *)
LEMMA FirstStep ==
  ASSUME TypeOK, NEW k \in Nat \ {0}, NEW i, FirstUpTo(i, k - 1)
  PROVE  FirstUpTo(IF Better(Candidate(k), i) THEN Candidate(k) ELSE i, k)
<1>1. PICK m \in 0..(k - 1) : /\ i = Candidate(m)
                              /\ \A n \in 0..(k - 1) : Load(m) <= Load(n)
                              /\ \A n \in 0..(m - 1) : Load(m) < Load(n)
  BY Zenon DEF FirstUpTo
<1>2. \A n \in 0..k : n = k \/ n \in 0..(k - 1)
  OBVIOUS
<1>3. \A n \in 0..k : Load(n) \in Nat
  BY Candidates
<1>4. Better(Candidate(k), i) <=> Load(k) < Load(m)
  BY <1>1 DEF Better, Load
<1>5. CASE Load(k) < Load(m)
  <2>1. \A n \in 0..(k - 1) : Load(k) < Load(n)
    BY <1>1, <1>3, <1>5
  <2>2. \A n \in 0..k : Load(k) <= Load(n)
    BY <1>2, <1>3, <2>1
  <2>3. FirstUpTo(Candidate(k), k)
    BY <2>1, <2>2 DEF FirstUpTo
  <2> QED
    BY <1>4, <1>5, <2>3
<1>6. CASE ~(Load(k) < Load(m))
  <2>1. \A n \in 0..k : Load(m) <= Load(n)
    BY <1>1, <1>2, <1>3, <1>6
  <2>2. FirstUpTo(i, k)
    BY <1>1, <2>1 DEF FirstUpTo
  <2> QED
    BY <1>4, <1>6, <2>2
<1> QED
  BY <1>5, <1>6

(* The recursion has a solution. *)
LEMMA LoopRuns ==
  ASSUME TypeOK
  PROVE  BestUpTo = [k \in Proxies |->
                       IF k = 0 THEN next
                       ELSE IF Better(Candidate(k), BestUpTo[k - 1])
                            THEN Candidate(k)
                            ELSE BestUpTo[k - 1]]
<1> DEFINE first == [k \in Proxies |-> CHOOSE i : FirstUpTo(i, k)]
<1>1. ASSUME NEW k \in Proxies PROVE k \in Nat /\ FirstUpTo(first[k], k)
  <2>1. k \in Nat
    BY DEF Proxies
  <2>2. \E i : FirstUpTo(i, k)
    BY <2>1, FirstExists
  <2> QED
    BY <2>1, <2>2
<1> HIDE DEF first
<1>2. ASSUME NEW k \in Proxies
      PROVE  first[k] = IF k = 0 THEN next
                        ELSE IF Better(Candidate(k), first[k - 1])
                             THEN Candidate(k)
                             ELSE first[k - 1]
  <2>1. CASE k = 0
    <3>1. FirstUpTo(next, 0)
      <4>1. Load(0) \in Nat /\ next = Candidate(0)
        BY Candidates
      <4> QED
        BY <4>1 DEF FirstUpTo
    <3> QED
      BY <1>1, <2>1, <3>1, FirstUnique
  <2>2. CASE k # 0
    <3>1. k - 1 \in Proxies /\ k \in Nat \ {0}
      BY <2>2 DEF Proxies
    <3>2. FirstUpTo(IF Better(Candidate(k), first[k - 1]) THEN Candidate(k)
                    ELSE first[k - 1], k)
      BY <1>1, <3>1, FirstStep
    <3> QED
      BY <1>1, <2>2, <3>1, <3>2, FirstUnique
  <2> QED
    BY <2>1, <2>2
<1>3. first = [k \in Proxies |->
                 IF k = 0 THEN next
                 ELSE IF Better(Candidate(k), first[k - 1])
                      THEN Candidate(k)
                      ELSE first[k - 1]]
  <2>1. first = [k \in Proxies |-> first[k]]
    BY DEF first
  <2> QED
    BY <1>2, <2>1, Zenon
<1> QED
  BY <1>3, Zenon DEF BestUpTo

(* The index after each iteration. *)
LEMMA LoopFinds ==
  ASSUME TypeOK, NEW k \in Proxies
  PROVE  FirstUpTo(BestUpTo[k], k)
<1> DEFINE T == {n \in Proxies : ~FirstUpTo(BestUpTo[n], n)}
<1>1. SUFFICES ASSUME k \in T PROVE FALSE
  OBVIOUS
<1>2. T \subseteq Nat
  BY DEF Proxies
<1>3. PICK m \in T : \A n \in T : m <= n
  <2> HIDE DEF T
  <2> QED
    BY <1>1, <1>2, LeastNumber, Zenon
<1>4. m \in Proxies /\ ~FirstUpTo(BestUpTo[m], m)
  OBVIOUS
<1>5. BestUpTo[m] = IF m = 0 THEN next
                    ELSE IF Better(Candidate(m), BestUpTo[m - 1])
                         THEN Candidate(m)
                         ELSE BestUpTo[m - 1]
  BY <1>4, LoopRuns, Zenon
<1>6. CASE m = 0
  <2>1. Load(0) \in Nat /\ next = Candidate(0)
    BY Candidates
  <2>2. FirstUpTo(next, 0)
    BY <2>1 DEF FirstUpTo
  <2> QED
    BY <1>4, <1>5, <1>6, <2>2
<1>7. CASE m # 0
  <2>1. m - 1 \in Proxies /\ m \in Nat \ {0} /\ ~(m <= m - 1)
    BY <1>4, <1>7 DEF Proxies
  <2>2. m - 1 \notin T
    <3> HIDE DEF T
    <3> QED
      BY <1>3, <2>1
  <2>3. FirstUpTo(BestUpTo[m - 1], m - 1)
    BY <2>1, <2>2
  <2> QED
    BY <1>4, <1>5, <1>7, <2>1, <2>3, FirstStep
<1> QED
  BY <1>6, <1>7

(* The loop has looked at every proxy. *)
LEMMA AllCandidates ==
  ASSUME TypeOK, NEW i \in Proxies
  PROVE  \E k \in Proxies : i = Candidate(k)
<1>1. /\ next \in 0..(NumProxies - 1) /\ i \in 0..(NumProxies - 1)
      /\ NumProxies \in Nat
  BY DEF TypeOK, Proxies
<1>2. CASE i >= next
  <2>1. i - next \in Proxies /\ next + (i - next) = i
    BY <1>1, <1>2 DEF Proxies
  <2>2. i % NumProxies = i
    BY <1>1, SmallMod
  <2> QED
    BY <2>1, <2>2 DEF Candidate
<1>3. CASE i < next
  <2> DEFINE k == (i - next) + NumProxies
  <2>1. k \in Proxies /\ next + k = i + NumProxies
    BY <1>1, <1>3 DEF Proxies
  <2>2. (i + NumProxies) % NumProxies = i
    BY <1>1
  <2> QED
    BY <2>1, <2>2 DEF Candidate
<1> QED
  BY <1>1, <1>2, <1>3

(* What the loop ends with.                                                *)
LEMMA BestIsFirst ==
  ASSUME TypeOK
  PROVE  FirstLeastLoaded(BestUpTo[NumProxies - 1])
<1> DEFINE best == BestUpTo[NumProxies - 1]
           last == NumProxies - 1
<1>1. last \in Proxies /\ Proxies = 0..last
  BY DEF Proxies
<1>2. FirstUpTo(best, last)
  BY <1>1, LoopFinds
<1> HIDE DEF last, best
<1>3. PICK m \in Proxies : /\ best = Candidate(m)
                           /\ \A j \in Proxies : Load(m) <= Load(j)
                           /\ \A j \in 0..(m - 1) : Load(m) < Load(j)
  BY <1>1, <1>2, Zenon DEF FirstUpTo
<1>4. ASSUME NEW i \in Proxies PROVE active[best] <= active[i]
  BY <1>3, AllCandidates, Zenon DEF Load
<1>5. FirstLeastLoaded(best)
  BY <1>3, <1>4, Zenon DEF FirstLeastLoaded, Load
<1> QED
  BY <1>5 DEF best, last

(* least_connections gives every dial to a proxy with the fewest dials and *)
(* connections, the first one from next on: however many proxies there     *)
(* are, the loop of acquire misses none and prefers no later equal.        *)
THEOREM PoolDialsGoToLeast == Spec => DialsGoToLeast
<1>1. ASSUME TypeOK, [Next]_vars, NEW i \in Proxies,
             strategy = "least_connections", active'[i] > active[i]
      PROVE  FirstLeastLoaded(i)
  <2>1. \A n \in Nat : ~(n > n) /\ ~(n - 1 > n)
    OBVIOUS
  <2>2. active[i] \in Nat
    BY <1>1 DEF TypeOK
  <2>3. PICK c \in Clients : ClientNext(c)
    <3>1. ~UNCHANGED active
      BY <1>1, <2>1, <2>2
    <3> QED
      BY <1>1, <3>1 DEF Next, vars
  <2>4. ASSUME NEW p \in Proxies, GiveBack(p) PROVE FALSE
    <3>1. active' \in {active, [active EXCEPT ![p] = @ - 1]}
      BY <2>4 DEF GiveBack
    <3>2. active'[i] \in {active[i], active[i] - 1}
      BY <1>1, <3>1 DEF TypeOK
    <3> QED
      BY <1>1, <2>1, <2>2, <3>2
  <2>5. Acquire(c)
    <3>1. ~UNCHANGED active
      BY <1>1, <2>1, <2>2
    <3>2. proxy[c] \in Proxies
      BY <1>1 DEF TypeOK
    <3> QED
      BY <2>3, <2>4, <3>1, <3>2, Zenon DEF ClientNext, DialFail, DialOpen,
         DialExpired, DialReturn, Close, ReleaseFailed, ReleaseOnce
  <2>6. PICK j \in Proxies : /\ j = BestUpTo[NumProxies - 1]
                             /\ active' = [active EXCEPT ![j] = @ + 1]
    BY <1>1, <2>5 DEF Acquire, Selects
  <2>7. i = j
    BY <1>1, <2>1, <2>2, <2>6 DEF TypeOK
  <2> QED
    BY <1>1, <2>6, <2>7, BestIsFirst
<1>2. TypeOK /\ [Next]_vars =>
        [\A i \in Proxies :
           strategy = "least_connections" /\ active'[i] > active[i] =>
             FirstLeastLoaded(i)]_vars
  BY <1>1
<1> QED
  BY <1>2, PoolTypeCorrect, PTL DEF Spec, DialsGoToLeast
=============================================================================
