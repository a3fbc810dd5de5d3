--------------------------- MODULE ReverseDNSProofs ---------------------------
(***************************************************************************)
(* Resolve of internal/reversedns for any targets, workers and answers:    *)
(* types, the results in the order of the targets, each address its own    *)
(* name, and the safety part of the contract of IndexedPool.               *)
(***************************************************************************)
EXTENDS ReverseDNS, FiniteSetTheorems, TLAPS

-----------------------------------------------------------------------------
(* The jobs: the loop over the targets numbers the addresses 1, 2, ...     *)

(* A set of numbers that is not empty has a least one: the intervals from  *)
(* 0 to its members are well-founded.                                      *)
LEMMA LeastNumber ==
  ASSUME NEW T, T \subseteq Nat, NEW t \in T
  PROVE  \E m \in T : \A n \in T : m <= n
<1> DEFINE S == 0..t
           F == {0..m : m \in {n \in T : n <= t}}
<1>1. IsFiniteSet(S)
  BY FS_Interval
<1>2. F \subseteq SUBSET S /\ F # {}
  OBVIOUS
<1>3. IsWellFoundedOn(StrictSubsetOrdering(S), SUBSET S)
  BY <1>1, FS_StrictSubsetOrderingWellFounded, FS_FiniteSubsetsOfFinite
<1>4. PICK I \in F : \A J \in F : <<J, I>> \notin StrictSubsetOrdering(S)
  BY <1>2, <1>3, WFMin, Zenon
<1>5. PICK m \in T : m <= t /\ I = 0..m
  BY <1>4
<1>6. ASSUME NEW n \in T, n < m
      PROVE  FALSE
  <2>1. 0..n \in F /\ 0..n \subseteq I /\ 0..n # I
    BY <1>5, <1>6
  <2> QED
    BY <1>2, <1>4, <2>1 DEF StrictSubsetOrdering
<1> QED
  BY <1>5, <1>6

LEMMA AddressesFinite ==
  /\ IsFiniteSet(Addresses)
  /\ NumJobs \in Nat
  /\ \A n : IsFiniteSet({a \in Addresses : a <= n})
<1>1. IsFiniteSet(1..NumTargets)
  BY FS_Interval, NumTargetsAssumption
<1>2. IsFiniteSet(Addresses)
  BY <1>1, AddressesAssumption, FS_Subset
<1>3. \A n : {a \in Addresses : a <= n} \in SUBSET Addresses
  OBVIOUS
<1> QED
  BY <1>2, <1>3, FS_Subset, FS_CardinalityType DEF NumJobs

(* How the number of addresses grows from one target to the next. *)
LEMMA UpToGrows ==
  /\ UpTo(0) = 0
  /\ UpTo(NumTargets) = NumJobs
  /\ \A n \in Nat : /\ UpTo(n) \in Nat
                    /\ UpTo(n + 1) = IF n + 1 \in Addresses THEN UpTo(n) + 1
                                     ELSE UpTo(n)
<1>0. Addresses \subseteq 1..NumTargets /\ NumTargets \in Nat
  BY NumTargetsAssumption, AddressesAssumption
<1> \A a \in Addresses : a \in Nat /\ ~(a <= 0) /\ a <= NumTargets
  BY <1>0
<1>1. {a \in Addresses : a <= 0} = {}
  BY Zenon
<1>2. {a \in Addresses : a <= NumTargets} = Addresses
  BY Zenon
<1>3. ASSUME NEW n \in Nat
      PROVE  /\ UpTo(n) \in Nat
             /\ UpTo(n + 1) = IF n + 1 \in Addresses THEN UpTo(n) + 1
                              ELSE UpTo(n)
  <2> DEFINE A == {a \in Addresses : a <= n}
  <2>1. {a \in Addresses : a <= n + 1} = IF n + 1 \in Addresses THEN A \cup {n + 1}
                                         ELSE A
    <3>1. \A a \in Addresses : a <= n + 1 <=> a <= n \/ a = n + 1
      BY <1>0
    <3>2. {a \in Addresses : a <= n + 1} = {a \in Addresses : a <= n \/ a = n + 1}
      BY <3>1, Zenon
    <3> QED
      BY <3>2
  <2>2. IsFiniteSet(A)
    BY AddressesFinite, Zenon
  <2>3. n + 1 \notin A
    BY <1>0
  <2>4. UpTo(n) = Cardinality(A)
    BY DEF UpTo
  <2>5. UpTo(n + 1) = IF n + 1 \in Addresses THEN Cardinality(A \cup {n + 1})
                      ELSE Cardinality(A)
    BY <2>1 DEF UpTo
  <2> HIDE DEF A
  <2>6. Cardinality(A \cup {n + 1}) = Cardinality(A) + 1
    BY <2>2, <2>3, FS_AddElement
  <2>7. Cardinality(A) \in Nat
    BY <2>2, FS_CardinalityType
  <2> QED
    BY <2>4, <2>5, <2>6, <2>7
<1>4. UpTo(0) = 0
  BY <1>1, FS_EmptySet DEF UpTo
<1>5. UpTo(NumTargets) = NumJobs
  BY <1>2 DEF UpTo, NumJobs
<1> QED
  BY <1>3, <1>4, <1>5

(* Every job is an address, and no two jobs are the same one. *)
LEMMA JobsEnumerate ==
  /\ \A k \in JobIds : Jobs[k] \in Addresses /\ UpTo(Jobs[k]) = k
  /\ \A i, j \in JobIds : Jobs[i] = Jobs[j] => i = j
<1>1. ASSUME NEW k \in JobIds
      PROVE  \E t \in Addresses : UpTo(t) = k
  <2> DEFINE T == {n \in Nat : UpTo(n) >= k}
  <2>0. k \in Nat /\ 1 <= k /\ k <= NumJobs
    BY <1>1, AddressesFinite DEF JobIds
  <2>1. NumTargets \in T
    BY <2>0, UpToGrows, NumTargetsAssumption
  <2>2. PICK m \in T : \A n \in T : m <= n
    BY <2>1, LeastNumber
  <2>3. m # 0
    BY <2>0, UpToGrows
  <2>4. m - 1 \in Nat /\ m - 1 \notin T
    BY <2>2, <2>3
  <2>5. UpTo(m - 1) < k /\ UpTo(m - 1) \in Nat
    BY <2>0, <2>4, UpToGrows
  <2>6. UpTo((m - 1) + 1) = IF (m - 1) + 1 \in Addresses THEN UpTo(m - 1) + 1
                            ELSE UpTo(m - 1)
    BY <2>4, UpToGrows
  <2>7. (m - 1) + 1 = m /\ UpTo(m) >= k
    BY <2>2
  <2> QED
    BY <2>0, <2>5, <2>6, <2>7
<1>2. \A k \in JobIds : Jobs[k] \in Addresses /\ UpTo(Jobs[k]) = k
  BY <1>1 DEF Jobs, JobIds
<1> QED
  BY <1>2
-----------------------------------------------------------------------------
(* The first name that is not blank. *)
LEMMA FirstHostIs ==
  ASSUME NEW names \in Seq(STRING)
  PROVE  /\ FirstHost(names) # Blank <=> \E k \in DOMAIN names : names[k] # Blank
         /\ FirstHost(names) # Blank => \E k \in DOMAIN names :
              /\ FirstHost(names) = names[k]
              /\ \A n \in 1..(k - 1) : names[n] = Blank
<1> DEFINE hosts == {k \in DOMAIN names : names[k] # Blank}
<1>1. /\ DOMAIN names = 1..Len(names) /\ Len(names) \in Nat
      /\ \A k \in DOMAIN names : k \in Nat
  OBVIOUS
<1>2. CASE hosts = {}
  <2>1. FirstHost(names) = Blank
    BY <1>2 DEF FirstHost
  <2>2. \A k \in DOMAIN names : names[k] = Blank
    BY <1>2
  <2> QED
    BY <2>1, <2>2, Zenon
<1>3. CASE hosts # {}
  <2>1. hosts \subseteq Nat
    BY <1>1, Zenon
  <2>2. \E k \in hosts : \A n \in hosts : k <= n
    BY <1>3, <2>1, LeastNumber
  <2>3. PICK k \in hosts : /\ \A n \in hosts : k <= n
                          /\ FirstHost(names) = names[k]
    <3> DEFINE first == CHOOSE k \in hosts : \A n \in hosts : k <= n
    <3>1. first \in hosts /\ \A n \in hosts : first <= n
      BY <2>2
    <3>2. FirstHost(names) = names[first]
      BY <1>3 DEF FirstHost
    <3> HIDE DEF first
    <3> QED
      BY <3>1, <3>2
  <2>4. ASSUME NEW n \in 1..(k - 1)
        PROVE  names[n] = Blank
    <3>1. k \in 1..Len(names)
      BY <1>1, <2>3, Zenon
    <3>2. n \in 1..Len(names) /\ ~(k <= n)
      BY <1>1, <3>1
    <3>3. n \in DOMAIN names
      BY <1>1, <3>2, Zenon
    <3> QED
      BY <2>3, <3>2, <3>3
  <2>5. names[k] # Blank /\ k \in DOMAIN names
    BY Zenon
  <2> QED
    BY <1>1, <2>3, <2>4, <2>5, Zenon
<1> QED
  BY <1>2, <1>3

LEMMA ResolveOneType ==
  ASSUME NEW i \in JobIds, NEW answer \in Answers
  PROVE  ResolveOne(Jobs[i], answer) \in Results
<1>1. /\ answer.names \in Seq(STRING)
      /\ answer.names \in Names \/ answer.names = <<>>
  <2>1. answer = [err |-> TRUE, names |-> <<>>]
        \/ \E names \in Names : answer = [err |-> FALSE, names |-> names]
    BY DEF Answers
  <2>2. CASE answer = [err |-> TRUE, names |-> <<>>]
    BY <2>2
  <2>3. CASE \E names \in Names : answer = [err |-> FALSE, names |-> names]
    BY <2>3, NamesAssumption
  <2> QED
    BY <2>1, <2>2, <2>3
<1>2. FirstHost(answer.names) \in Hosts
  <2>1. CASE FirstHost(answer.names) = Blank
    BY <2>1 DEF Hosts
  <2>2. CASE FirstHost(answer.names) # Blank
    <3>1. PICK k \in DOMAIN answer.names : FirstHost(answer.names) = answer.names[k]
      BY <1>1, <2>2, FirstHostIs
    <3>2. answer.names \in Names
      BY <1>1, <3>1
    <3> QED
      BY <3>1, <3>2 DEF Hosts
  <2> QED
    BY <2>1, <2>2
<1>3. Jobs[i] \in 0..NumTargets
  <2>1. Jobs[i] \in 1..NumTargets
    BY JobsEnumerate, AddressesAssumption, Zenon
  <2> QED
    BY <2>1, NumTargetsAssumption
<1> QED
  BY <1>2, <1>3 DEF ResolveOne, Results

-----------------------------------------------------------------------------
(* The inductive invariant: where each job is, what is in the queue of the *)
(* results, and what has been returned.                                    *)

(* Each worker that looks something up has a job of its own, and neither   *)
(* it nor one that nobody has taken has a result yet.                      *)
OwnerInv ==
  /\ \A w \in WorkerIds : pc[w] = "lookup" => job[w] <= taken /\ job[w] \notin Decided
  /\ \A v, w \in WorkerIds :
       pc[v] = "lookup" /\ pc[w] = "lookup" /\ job[v] = job[w] => v = w
  /\ \A i \in Decided : i <= taken

(* The queue holds one result of each job that is decided, the one that    *)
(* its answer gives; and no answer is lost.                                *)
QueueInv ==
  /\ \A k, n \in DOMAIN queue : queue[k].index = queue[n].index => k = n
  /\ \A k \in DOMAIN queue :
       /\ queue[k].result.target = Jobs[queue[k].index]
       /\ \E a \in answers : a.job = queue[k].index
  /\ \A a \in answers : \E k \in DOMAIN queue :
       /\ queue[k].index = a.job
       /\ queue[k].result = ResolveOne(Jobs[a.job], a.answer)

(* Without a cancellation a job that was taken is with a worker or has its *)
(* result, and nobody leaves before the last job was taken.                *)
CoverInv ==
  ~cancelled =>
    /\ \A i \in JobIds : i <= taken =>
         i \in Decided \/ \E w \in WorkerIds : pc[w] = "lookup" /\ job[w] = i
    /\ \A w \in WorkerIds : pc[w] = "done" => taken = NumJobs

(* After the return nobody works any more, and the results are those of    *)
(* the queue, all of them.                                                 *)
ReturnInv ==
  /\ stage # "running" => \A w \in WorkerIds : pc[w] = "done"
  /\ stage = "returned" =>
       /\ DOMAIN results = JobIds
       /\ \A i \in JobIds : \E k \in DOMAIN queue :
            queue[k].index = i /\ results[i] = queue[k].result

ResolveInv == TypeOK /\ OwnerInv /\ QueueInv /\ CoverInv /\ ReturnInv

LEMMA Sizes ==
  /\ NumJobs \in Nat
  /\ Cap \in Nat /\ Cap <= NumJobs
  /\ NumJobs > 0 => Cap > 0
  BY AddressesFinite, NumWorkersAssumption DEF Cap

LEMMA TypeInit == Init => TypeOK
<1> SUFFICES ASSUME Init PROVE TypeOK
  OBVIOUS
<1>1. job \in [WorkerIds -> JobIds]
  BY Sizes DEF Init, WorkerIds, JobIds
<1>2. queue \in Seq([index : JobIds, result : Results]) /\ results \in Seq(Results)
  BY DEF Init
<1>3. answers \subseteq [job : JobIds, answer : Answers]
  BY DEF Init
<1>4. taken \in 0..NumJobs
  BY Sizes DEF Init
<1>5. pc \in [WorkerIds -> {"select", "lookup", "done"}]
  BY DEF Init
<1>6. cancelled \in BOOLEAN /\ stage \in {"running", "returned", "failed"}
  BY DEF Init
<1> QED
  BY <1>1, <1>2, <1>3, <1>4, <1>5, <1>6 DEF TypeOK

(* What a lookup appends to the queue. *)
LEMMA LookupSends ==
  ASSUME TypeOK, NEW w \in WorkerIds, Lookup(w)
  PROVE  \E answer \in Answers :
           LET item == [index |-> job[w], result |-> ResolveOne(Jobs[job[w]], answer)]
           IN  /\ answers' = answers \cup {[job |-> job[w], answer |-> answer]}
               /\ item \in [index : JobIds, result : Results]
               /\ queue' = Append(queue, item)
               /\ Len(queue) \in Nat
               /\ Len(queue') = Len(queue) + 1
               /\ DOMAIN queue = 1..Len(queue)
               /\ DOMAIN queue' = DOMAIN queue \cup {Len(queue) + 1}
               /\ \A k \in DOMAIN queue : queue'[k] = queue[k]
               /\ queue'[Len(queue) + 1] = item
<1>1. PICK answer \in Answers :
        /\ Deliver(w, answer)
        /\ answers' = answers \cup {[job |-> job[w], answer |-> answer]}
  BY DEF Lookup
<1> DEFINE item == [index |-> job[w], result |-> ResolveOne(Jobs[job[w]], answer)]
<1>2. job[w] \in JobIds
  BY DEF TypeOK
<1>3. item \in [index : JobIds, result : Results]
  BY <1>2, ResolveOneType
<1>4. queue' = Append(queue, item)
  BY <1>1 DEF Deliver
<1>5. queue \in Seq([index : JobIds, result : Results])
  BY DEF TypeOK
<1> HIDE DEF item
<1>6. /\ Len(queue) \in Nat
      /\ Len(queue') = Len(queue) + 1
      /\ DOMAIN queue = 1..Len(queue)
      /\ DOMAIN queue' = DOMAIN queue \cup {Len(queue) + 1}
      /\ \A k \in DOMAIN queue : queue'[k] = queue[k]
      /\ queue'[Len(queue) + 1] = item
  BY <1>3, <1>4, <1>5
<1> QED
  BY <1>1, <1>3, <1>4, <1>6 DEF item

(* What a call that succeeds returns: the one result of each job that is   *)
(* decided.                                                                *)
LEMMA ReturnedResults ==
  ASSUME TypeOK, QueueInv, Return, ~cancelled
  PROVE  /\ results' \in [JobIds -> Results]
         /\ \A k \in DOMAIN queue : results'[queue[k].index] = queue[k].result
<1> DEFINE Sent(i) == {k \in DOMAIN queue : queue[k].index = i}
           Last(i) == CHOOSE k \in Sent(i) : \A n \in Sent(i) : n <= k
<1>1. results' = [i \in JobIds |-> IF Sent(i) = {} THEN NoResult
                                   ELSE queue[Last(i)].result]
  BY DEF Return
<1>2. /\ DOMAIN queue \subseteq Nat
      /\ \A k \in DOMAIN queue : queue[k] \in [index : JobIds, result : Results]
  <2> DEFINE Item == [index : JobIds, result : Results]
  <2>1. queue \in Seq(Item)
    BY DEF TypeOK
  <2> HIDE DEF Item
  <2>2. DOMAIN queue = 1..Len(queue) /\ Len(queue) \in Nat
    BY <2>1
  <2>3. \A k \in 1..Len(queue) : queue[k] \in Item
    BY <2>1
  <2> QED
    BY <2>2, <2>3 DEF Item
<1>3. ASSUME NEW k \in DOMAIN queue
      PROVE  /\ queue[k].index \in JobIds
             /\ Sent(queue[k].index) = {k}
             /\ Last(queue[k].index) = k
  <2>1. queue[k].index \in JobIds
    BY <1>2
  <2>2. Sent(queue[k].index) = {k}
    BY DEF QueueInv
  <2>3. k <= k
    BY <1>2
  <2> HIDE DEF Sent
  <2>4. Last(queue[k].index) \in Sent(queue[k].index)
    BY <2>2, <2>3
  <2> QED
    BY <2>1, <2>2, <2>4
<1>4. NoResult \in Results
  BY NumTargetsAssumption DEF NoResult, Results, Hosts
<1>5. ASSUME NEW i \in JobIds
      PROVE  results'[i] \in Results
  <2>1. CASE Sent(i) = {}
    BY <1>1, <1>4, <2>1
  <2>2. CASE Sent(i) # {}
    <3>1. PICK k \in Sent(i) : TRUE
      BY <2>2
    <3>2. k \in DOMAIN queue /\ queue[k].index = i
      BY <3>1
    <3> HIDE DEF Sent, Last
    <3>3. Last(i) = k
      BY <1>3, <3>2
    <3>4. results'[i] = queue[k].result
      BY <1>1, <2>2, <3>3
    <3> QED
      BY <1>2, <3>2, <3>4
  <2> QED
    BY <2>1, <2>2
<1>6. ASSUME NEW k \in DOMAIN queue
      PROVE  results'[queue[k].index] = queue[k].result
  <2>1. Sent(queue[k].index) # {} /\ queue[k].index \in JobIds
    BY <1>3
  <2> QED
    BY <1>1, <1>3, <2>1
<1> HIDE DEF Sent, Last
<1> QED
  BY <1>1, <1>5, <1>6

-----------------------------------------------------------------------------
(* Each kind of step keeps the invariant. *)

LEMMA DecidedIs ==
  \A i : i \in Decided <=> \E k \in DOMAIN queue : queue[k].index = i
  BY DEF Decided

LEMMA DecidedTyped == TypeOK => Decided \subseteq JobIds
<1> SUFFICES ASSUME TypeOK PROVE Decided \subseteq JobIds
  OBVIOUS
<1> DEFINE Item == [index : JobIds, result : Results]
<1>1. queue \in Seq(Item) /\ \A item \in Item : item.index \in JobIds
  BY DEF TypeOK
<1> HIDE DEF Item
<1>2. \A k \in DOMAIN queue : queue[k] \in Item
  BY <1>1
<1> QED
  BY <1>1, <1>2 DEF Decided

LEMMA TakeKeeps ==
  ASSUME ResolveInv, NEW w \in WorkerIds, Take(w)
  PROVE  ResolveInv'
<1> USE DEF ResolveInv
<1>1. /\ pc[w] = "select" /\ taken < NumJobs /\ taken' = taken + 1
      /\ job' = [job EXCEPT ![w] = taken + 1]
      /\ pc' = [pc EXCEPT ![w] = "lookup"]
      /\ UNCHANGED <<cancelled, stage, queue, results, answers>>
  BY DEF Take, Goto
<1>2. /\ taken \in Nat /\ taken' \in 0..NumJobs /\ taken + 1 \in JobIds
      /\ pc \in [WorkerIds -> {"select", "lookup", "done"}]
      /\ job \in [WorkerIds -> JobIds]
  BY <1>1, Sizes DEF TypeOK, JobIds
<1>3. TypeOK'
  <2>1. pc' \in [WorkerIds -> {"select", "lookup", "done"}]
        /\ job' \in [WorkerIds -> JobIds]
    BY <1>1, <1>2
  <2> QED
    BY <1>1, <1>2, <2>1 DEF TypeOK
<1>4. Decided' = Decided
  BY <1>1 DEF Decided
<1>5. \A v \in WorkerIds : /\ job'[v] = IF v = w THEN taken + 1 ELSE job[v]
                           /\ pc'[v] = IF v = w THEN "lookup" ELSE pc[v]
                           /\ job[v] \in Nat
  BY <1>1, <1>2 DEF JobIds
<1>6. \A i \in Decided : i \in Nat
  BY DecidedTyped DEF JobIds
<1>7. OwnerInv'
  BY <1>1, <1>2, <1>4, <1>5, <1>6 DEF OwnerInv
<1>8. QueueInv'
  BY <1>1 DEF QueueInv
<1>9. CoverInv'
  <2> SUFFICES ASSUME ~cancelled
               PROVE  /\ \A i \in JobIds : i <= taken + 1 =>
                           i \in Decided
                           \/ \E v \in WorkerIds : pc'[v] = "lookup" /\ job'[v] = i
                      /\ \A v \in WorkerIds : pc'[v] # "done"
    BY <1>1, <1>4 DEF CoverInv
  <2>1. \A v \in WorkerIds : pc'[v] # "done"
    BY <1>1, <1>2, <1>5 DEF CoverInv
  <2>2. ASSUME NEW i \in JobIds, i <= taken + 1
        PROVE  i \in Decided
               \/ \E v \in WorkerIds : pc'[v] = "lookup" /\ job'[v] = i
    <3>1. CASE i = taken + 1
      BY <1>5, <3>1
    <3>2. CASE i <= taken
      BY <1>1, <1>5, <3>2 DEF CoverInv
    <3> QED
      BY <1>2, <2>2, <3>1, <3>2 DEF JobIds
  <2> QED
    BY <2>1, <2>2
<1>10. ReturnInv'
  BY <1>1, <1>5 DEF ReturnInv
<1> QED
  BY <1>3, <1>7, <1>8, <1>9, <1>10

LEMMA LeaveKeeps ==
  ASSUME ResolveInv, NEW w \in WorkerIds, Leave(w)
  PROVE  ResolveInv'
<1> USE DEF ResolveInv
<1>1. /\ pc[w] = "select" /\ (taken = NumJobs \/ cancelled)
      /\ pc' = [pc EXCEPT ![w] = "done"]
      /\ UNCHANGED <<cancelled, stage, taken, job, queue, results, answers>>
  BY DEF Leave, Goto
<1>2. pc \in [WorkerIds -> {"select", "lookup", "done"}]
  BY DEF TypeOK
<1>3. \A v \in WorkerIds : pc'[v] = IF v = w THEN "done" ELSE pc[v]
  BY <1>1, <1>2
<1>4. TypeOK'
  <2>1. pc' \in [WorkerIds -> {"select", "lookup", "done"}]
    BY <1>1, <1>2
  <2> QED
    BY <1>1, <2>1 DEF TypeOK
<1>5. Decided' = Decided
  BY <1>1 DEF Decided
<1>6. OwnerInv' /\ QueueInv'
  BY <1>1, <1>3, <1>5 DEF OwnerInv, QueueInv
<1>7. CoverInv'
  BY <1>1, <1>3, <1>5 DEF CoverInv
<1>8. ReturnInv'
  BY <1>1, <1>3 DEF ReturnInv
<1> QED
  BY <1>4, <1>6, <1>7, <1>8

LEMMA LookupKeeps ==
  ASSUME ResolveInv, NEW w \in WorkerIds, Lookup(w)
  PROVE  ResolveInv'
<1> USE DEF ResolveInv
<1>1. /\ pc[w] = "lookup"
      /\ pc' = [pc EXCEPT ![w] = "select"]
      /\ UNCHANGED <<cancelled, stage, taken, job, results>>
  BY DEF Lookup, Goto
<1>2. /\ pc \in [WorkerIds -> {"select", "lookup", "done"}]
      /\ job[w] \in JobIds
      /\ pc' \in [WorkerIds -> {"select", "lookup", "done"}]
  BY <1>1 DEF TypeOK
<1>3. \A v \in WorkerIds : pc'[v] = IF v = w THEN "select" ELSE pc[v]
  BY <1>1, <1>2
<1>4. PICK answer \in Answers :
        LET item == [index |-> job[w], result |-> ResolveOne(Jobs[job[w]], answer)]
        IN  /\ answers' = answers \cup {[job |-> job[w], answer |-> answer]}
            /\ item \in [index : JobIds, result : Results]
            /\ queue' = Append(queue, item)
            /\ Len(queue) \in Nat
            /\ Len(queue') = Len(queue) + 1
            /\ DOMAIN queue = 1..Len(queue)
            /\ DOMAIN queue' = DOMAIN queue \cup {Len(queue) + 1}
            /\ \A k \in DOMAIN queue : queue'[k] = queue[k]
            /\ queue'[Len(queue) + 1] = item
  BY LookupSends
<1> DEFINE item == [index |-> job[w], result |-> ResolveOne(Jobs[job[w]], answer)]
           a == [job |-> job[w], answer |-> answer]
           new == Len(queue) + 1
<1>5. /\ DOMAIN queue' = DOMAIN queue \cup {new} /\ new \notin DOMAIN queue
      /\ \A k \in DOMAIN queue : queue'[k] = queue[k]
      /\ queue'[new] = item
      /\ answers' = answers \cup {a}
  BY <1>4
<1>6. TypeOK'
  <2>1. queue' \in Seq([index : JobIds, result : Results])
    <3> DEFINE Item == [index : JobIds, result : Results]
    <3>1. queue \in Seq(Item) /\ item \in Item /\ queue' = Append(queue, item)
      BY <1>4 DEF TypeOK
    <3> HIDE DEF Item, item
    <3>2. queue' \in Seq(Item)
      BY <3>1
    <3> QED
      BY <3>2 DEF Item
  <2>2. answers' \subseteq [job : JobIds, answer : Answers]
    BY <1>2, <1>5 DEF TypeOK
  <2> QED
    BY <1>1, <1>2, <2>1, <2>2 DEF TypeOK
<1>7. /\ item.index = job[w] /\ a.job = job[w] /\ a.answer = answer
      /\ item.result = ResolveOne(Jobs[job[w]], answer)
      /\ item.result.target = Jobs[job[w]]
  BY DEF ResolveOne
<1> HIDE DEF item, a, new
<1>8. \A i : i \in Decided' <=> i \in Decided \/ i = job[w]
  <2>1. \A i : i \in Decided' <=> \E k \in DOMAIN queue' : queue'[k].index = i
    BY DEF Decided
  <2> QED
    BY <1>5, <1>7, <2>1, DecidedIs
<1>9. OwnerInv'
  <2>1. job[w] <= taken
    BY <1>1 DEF OwnerInv
  <2>2. \A v \in WorkerIds : pc'[v] = "lookup" =>
          v # w /\ pc[v] = "lookup" /\ job'[v] = job[v] /\ job[v] # job[w]
    BY <1>1, <1>3 DEF OwnerInv
  <2> QED
    BY <1>1, <1>8, <2>1, <2>2 DEF OwnerInv
<1>10. QueueInv'
  <2>1. \A k \in DOMAIN queue : queue[k].index # job[w]
    BY <1>1, DecidedIs DEF OwnerInv
  <2>2. ASSUME NEW k \in DOMAIN queue', NEW n \in DOMAIN queue',
               queue'[k].index = queue'[n].index
        PROVE  k = n
    BY <1>5, <1>7, <2>1, <2>2 DEF QueueInv
  <2>3. ASSUME NEW k \in DOMAIN queue'
        PROVE  /\ queue'[k].result.target = Jobs[queue'[k].index]
               /\ \E b \in answers' : b.job = queue'[k].index
    BY <1>5, <1>7 DEF QueueInv
  <2>4. ASSUME NEW b \in answers'
        PROVE  \E k \in DOMAIN queue' :
                 /\ queue'[k].index = b.job
                 /\ queue'[k].result = ResolveOne(Jobs[b.job], b.answer)
    <3>1. CASE b = a
      BY <1>5, <1>7, <3>1
    <3>2. CASE b \in answers
      BY <1>5, <3>2 DEF QueueInv
    <3> QED
      BY <1>5, <2>4, <3>1, <3>2
  <2> QED
    BY <2>2, <2>3, <2>4 DEF QueueInv
<1>11. CoverInv'
  <2> SUFFICES ASSUME ~cancelled
               PROVE  /\ \A i \in JobIds : i <= taken =>
                           i \in Decided'
                           \/ \E v \in WorkerIds : pc'[v] = "lookup" /\ job'[v] = i
                      /\ \A v \in WorkerIds : pc'[v] = "done" => taken = NumJobs
    BY <1>1 DEF CoverInv
  <2>1. \A v \in WorkerIds : pc'[v] = "done" => taken = NumJobs
    BY <1>3 DEF CoverInv
  <2>2. ASSUME NEW i \in JobIds, i <= taken, i \notin Decided'
        PROVE  \E v \in WorkerIds : pc'[v] = "lookup" /\ job'[v] = i
    <3>1. i \notin Decided /\ i # job[w]
      BY <1>8, <2>2
    <3>2. PICK v \in WorkerIds : pc[v] = "lookup" /\ job[v] = i
      BY <2>2, <3>1 DEF CoverInv
    <3> QED
      BY <1>1, <1>3, <3>1, <3>2
  <2> QED
    BY <2>1, <2>2
<1>12. ReturnInv'
  <2>1. stage = "running"
    BY <1>1 DEF ReturnInv, TypeOK
  <2> QED
    BY <1>1, <2>1 DEF ReturnInv
<1> QED
  BY <1>6, <1>9, <1>10, <1>11, <1>12

(* If the context is alive when the last worker has left, every job has    *)
(* its result.                                                             *)
LEMMA AllDecided ==
  ASSUME ResolveInv, ~cancelled, \A w \in WorkerIds : pc[w] = "done"
  PROVE  Decided = JobIds
<1>1. Decided \subseteq JobIds
  BY DecidedTyped DEF ResolveInv
<1>2. ASSUME NEW i \in JobIds
      PROVE  i \in Decided
  <2>1. NumJobs > 0 /\ i <= NumJobs
    BY Sizes DEF JobIds
  <2>2. 1 \in WorkerIds
    BY <2>1, Sizes DEF WorkerIds
  <2>3. taken = NumJobs
    BY <2>2 DEF ResolveInv, CoverInv
  <2> QED
    BY <2>1, <2>3 DEF ResolveInv, CoverInv
<1> QED
  BY <1>1, <1>2

LEMMA ReturnKeeps ==
  ASSUME ResolveInv, Return
  PROVE  ResolveInv'
<1> USE DEF ResolveInv
<1>1. /\ stage = "running" /\ \A w \in WorkerIds : pc[w] = "done"
      /\ UNCHANGED <<cancelled, taken, pc, job, queue, answers>>
  BY DEF Return
<1>2. OwnerInv' /\ QueueInv' /\ CoverInv'
  <2>1. Decided' = Decided
    BY <1>1 DEF Decided
  <2> QED
    BY <1>1, <2>1 DEF OwnerInv, QueueInv, CoverInv
<1>3. CASE cancelled
  <2>1. stage' = "failed" /\ results' = results
    BY <1>3 DEF Return
  <2> QED
    BY <1>1, <1>2, <2>1 DEF TypeOK, ReturnInv
<1>4. CASE ~cancelled
  <2>1. stage' = "returned"
    BY <1>4 DEF Return
  <2>2. /\ results' \in [JobIds -> Results]
        /\ \A k \in DOMAIN queue : results'[queue[k].index] = queue[k].result
    BY <1>4, ReturnedResults
  <2>3. results' \in Seq(Results)
    BY <2>2, Sizes DEF JobIds
  <2>4. \A i \in JobIds : \E k \in DOMAIN queue : queue[k].index = i
    BY <1>1, <1>4, AllDecided, DecidedIs
  <2>5. TypeOK'
    BY <1>1, <2>1, <2>3 DEF TypeOK
  <2>6. ReturnInv'
    BY <1>1, <2>1, <2>2, <2>4 DEF ReturnInv
  <2> QED
    BY <1>2, <2>5, <2>6
<1> QED
  BY <1>3, <1>4

LEMMA OthersKeep ==
  ASSUME ResolveInv, Cancel \/ UNCHANGED vars
  PROVE  ResolveInv'
<1>1. UNCHANGED <<stage, taken, pc, job, queue, results, answers>>
      /\ (cancelled' = cancelled \/ cancelled' = TRUE)
  BY DEF Cancel, vars
<1>2. TypeOK'
  BY <1>1 DEF ResolveInv, TypeOK
<1>3. Decided' = Decided
  BY <1>1 DEF Decided
<1> QED
  BY <1>1, <1>2, <1>3
     DEF ResolveInv, OwnerInv, QueueInv, CoverInv, ReturnInv

LEMMA ResolveInvInit == Init => ResolveInv
<1> SUFFICES ASSUME Init PROVE ResolveInv
  OBVIOUS
<1>1. /\ stage = "running" /\ taken = 0 /\ queue = <<>> /\ answers = {}
      /\ \A w \in WorkerIds : pc[w] = "select"
  BY DEF Init
<1>2. Decided = {}
  BY <1>1 DEF Decided
<1>3. CoverInv
  BY <1>1 DEF CoverInv, JobIds
<1> QED
  BY <1>1, <1>2, <1>3, TypeInit
     DEF ResolveInv, OwnerInv, QueueInv, ReturnInv

LEMMA ResolveInvStep ==
  ASSUME ResolveInv, [Next]_vars
  PROVE  ResolveInv'
BY TakeKeeps, LeaveKeeps, LookupKeeps, ReturnKeeps, OthersKeep
   DEF Next, WorkerNext

(* ResolveInv holds throughout every call of Resolve, whatever its targets,*)
(* the number of workers, the answers and the moment of a cancellation.    *)
THEOREM ResolveInvariant == Spec => []ResolveInv
<1>1. ResolveInv /\ [Next]_vars => ResolveInv'
  BY ResolveInvStep
<1> QED
  BY ResolveInvInit, <1>1, PTL DEF Spec

(* Every variable keeps its type; in particular a result has an address of *)
(* the list and a name that a lookup has answered.                         *)
THEOREM TypeCorrect == Spec => []TypeOK
<1>1. ResolveInv => TypeOK
  BY DEF ResolveInv
<1> QED
  BY ResolveInvariant, <1>1, PTL

-----------------------------------------------------------------------------
(* What a call that succeeds gives: for each address what its own lookup   *)
(* answered.                                                               *)

LEMMA ResultsAreOwn ==
  ASSUME ResolveInv, stage = "returned"
  PROVE  /\ DOMAIN results = JobIds
         /\ \A i \in JobIds : /\ results[i].target = Jobs[i]
                              /\ \E a \in answers : a.job = i
         /\ \A a \in answers : /\ a.job \in JobIds
                               /\ a.answer \in Answers
                               /\ results[a.job] = ResolveOne(Jobs[a.job], a.answer)
<1> USE DEF ResolveInv
<1>1. /\ DOMAIN results = JobIds
      /\ \A i \in JobIds : \E k \in DOMAIN queue :
           queue[k].index = i /\ results[i] = queue[k].result
  BY DEF ReturnInv
<1>2. ASSUME NEW i \in JobIds
      PROVE  results[i].target = Jobs[i] /\ \E a \in answers : a.job = i
  BY <1>1 DEF QueueInv
<1>3. ASSUME NEW a \in answers
      PROVE  /\ a.job \in JobIds
             /\ a.answer \in Answers
             /\ results[a.job] = ResolveOne(Jobs[a.job], a.answer)
  <2>1. a.job \in JobIds /\ a.answer \in Answers
    BY DEF TypeOK
  <2>2. PICK k \in DOMAIN queue : /\ queue[k].index = a.job
                                  /\ queue[k].result = ResolveOne(Jobs[a.job], a.answer)
    BY DEF QueueInv
  <2>3. PICK n \in DOMAIN queue : /\ queue[n].index = a.job
                                  /\ results[a.job] = queue[n].result
    BY <1>1, <2>1
  <2>4. k = n
    BY <2>2, <2>3 DEF QueueInv
  <2> QED
    BY <2>1, <2>2, <2>3, <2>4
<1> QED
  BY <1>1, <1>2, <1>3

(* The map has an entry for each job that was resolved, and no other. *)
LEMMA HostnamesOf ==
  ASSUME DOMAIN results = JobIds, \A i \in JobIds : results[i].target = Jobs[i]
  PROVE  /\ Resolved \subseteq JobIds
         /\ DOMAIN Hostnames = {Jobs[i] : i \in Resolved}
         /\ \A i \in Resolved : Hostnames[Jobs[i]] = results[i].host
         /\ \A i \in JobIds : Jobs[i] \in DOMAIN Hostnames <=> i \in Resolved
<1>1. Resolved \subseteq JobIds
  BY DEF Resolved
<1>2. DOMAIN Hostnames = {Jobs[i] : i \in Resolved}
  <2>1. \A i \in Resolved : results[i].target = Jobs[i]
    BY <1>1
  <2>2. {results[i].target : i \in Resolved} = {Jobs[i] : i \in Resolved}
    BY <2>1, Zenon
  <2> QED
    BY <2>2 DEF Hostnames
<1>3. ASSUME NEW i \in Resolved
      PROVE  Hostnames[Jobs[i]] = results[i].host
  <2> DEFINE j == CHOOSE n \in Resolved : results[n].target = Jobs[i]
  <2>1. j \in Resolved /\ results[j].target = Jobs[i]
    BY <1>1
  <2>2. Hostnames[Jobs[i]] = results[j].host
    <3>1. Jobs[i] \in {results[n].target : n \in Resolved}
      BY <1>1
    <3> QED
      BY <3>1 DEF Hostnames
  <2> HIDE DEF j
  <2>3. j = i
    BY <1>1, <2>1, JobsEnumerate
  <2> QED
    BY <2>2, <2>3
<1>4. \A i \in JobIds : Jobs[i] \in DOMAIN Hostnames <=> i \in Resolved
  BY <1>1, <1>2, JobsEnumerate
<1> QED
  BY <1>1, <1>2, <1>3, <1>4

(* A result is a hostname exactly if the lookup named one: the first name  *)
(* of the answer that is not blank.                                        *)
LEMMA ResolveOneIs ==
  ASSUME NEW t, NEW answer \in Answers
  PROVE  LET found == ~answer.err
                      /\ \E k \in DOMAIN answer.names : answer.names[k] # Blank
             host  == ResolveOne(t, answer).host
         IN  /\ ResolveOne(t, answer).err = "none" <=> found
             /\ found => \E k \in DOMAIN answer.names :
                  /\ host = answer.names[k] /\ host # Blank
                  /\ \A n \in 1..(k - 1) : answer.names[n] = Blank
<1>1. answer.names \in Seq(STRING)
  <2>1. answer = [err |-> TRUE, names |-> <<>>]
        \/ \E names \in Names : answer = [err |-> FALSE, names |-> names]
    BY DEF Answers
  <2>2. CASE answer = [err |-> TRUE, names |-> <<>>]
    BY <2>2
  <2>3. CASE \E names \in Names : answer = [err |-> FALSE, names |-> names]
    BY <2>3, NamesAssumption
  <2> QED
    BY <2>1, <2>2, <2>3
<1> DEFINE found == ~answer.err
                    /\ \E k \in DOMAIN answer.names : answer.names[k] # Blank
<1>2. ResolveOne(t, answer).host = FirstHost(answer.names)
  BY DEF ResolveOne
<1>3. ResolveOne(t, answer).err = IF answer.err THEN "lookup"
                                  ELSE IF FirstHost(answer.names) = Blank
                                       THEN "no_hostname" ELSE "none"
  BY DEF ResolveOne
<1>4. ResolveOne(t, answer).err = "none" <=> found
  BY <1>1, <1>3, FirstHostIs
<1>5. ASSUME found
      PROVE  \E k \in DOMAIN answer.names :
               /\ FirstHost(answer.names) = answer.names[k]
               /\ FirstHost(answer.names) # Blank
               /\ \A n \in 1..(k - 1) : answer.names[n] = Blank
  BY <1>1, <1>5, FirstHostIs
<1> QED
  BY <1>2, <1>4, <1>5

LEMMA HostnamesFromInv ==
  ASSUME ResolveInv
  PROVE  HostnamesAreOwn
<1> SUFFICES ASSUME stage = "returned" PROVE HostnamesAreOwn
  BY DEF HostnamesAreOwn
<1>1. /\ DOMAIN results = JobIds
      /\ \A i \in JobIds : results[i].target = Jobs[i]
  BY ResultsAreOwn
<1>2. Len(results) = NumJobs
  <2>1. results \in Seq(Results) /\ NumJobs \in Nat
    BY Sizes DEF ResolveInv, TypeOK
  <2>2. 1..Len(results) = 1..NumJobs /\ Len(results) \in Nat
    BY <1>1, <2>1 DEF JobIds
  <2> QED
    BY <2>1, <2>2
<1>3. ASSUME NEW a \in answers
      PROVE  LET t == Jobs[a.job]
                 found == ~a.answer.err
                          /\ \E k \in DOMAIN a.answer.names : a.answer.names[k] # Blank
             IN  /\ t \in Addresses
                 /\ (t \in DOMAIN Hostnames) <=> found
                 /\ found => \E k \in DOMAIN a.answer.names :
                      /\ Hostnames[t] = a.answer.names[k] /\ Hostnames[t] # Blank
                      /\ \A n \in 1..(k - 1) : a.answer.names[n] = Blank
  <2>1. /\ a.job \in JobIds
        /\ a.answer \in Answers
        /\ results[a.job] = ResolveOne(Jobs[a.job], a.answer)
    BY ResultsAreOwn
  <2>2. Jobs[a.job] \in Addresses
    BY <2>1, JobsEnumerate
  <2> DEFINE found == ~a.answer.err
                      /\ \E k \in DOMAIN a.answer.names : a.answer.names[k] # Blank
             r    == ResolveOne(Jobs[a.job], a.answer)
             host == r.host
  <2>3. /\ r.err = "none" <=> found
        /\ found => \E k \in DOMAIN a.answer.names :
             /\ host = a.answer.names[k] /\ host # Blank
             /\ \A n \in 1..(k - 1) : a.answer.names[n] = Blank
    BY <2>1, ResolveOneIs
  <2>4. a.job \in Resolved <=> found
    BY <1>1, <2>1, <2>3 DEF Resolved
  <2>5. Jobs[a.job] \in DOMAIN Hostnames <=> found
    BY <1>1, <2>1, <2>4, HostnamesOf
  <2>6. found => Hostnames[Jobs[a.job]] = host
    BY <1>1, <2>1, <2>4, HostnamesOf
  <2> HIDE DEF found, host, r
  <2>7. found => \E k \in DOMAIN a.answer.names :
             /\ Hostnames[Jobs[a.job]] = a.answer.names[k]
             /\ Hostnames[Jobs[a.job]] # Blank
             /\ \A n \in 1..(k - 1) : a.answer.names[n] = Blank
    BY <2>3, <2>6
  <2> QED
    BY <2>2, <2>5, <2>7 DEF found
<1>4. DOMAIN Hostnames \subseteq {Jobs[a.job] : a \in answers}
  <2>1. /\ Resolved \subseteq JobIds
        /\ DOMAIN Hostnames = {Jobs[i] : i \in Resolved}
    BY <1>1, HostnamesOf
  <2>2. \A i \in JobIds : \E a \in answers : a.job = i
    BY ResultsAreOwn
  <2> QED
    BY <2>1, <2>2
<1> QED
  BY <1>1, <1>2, <1>3, <1>4 DEF HostnamesAreOwn

(* Whatever the order of the lookups: after a call that succeeds the       *)
(* results are in the order of the targets, and the map that               *)
(* resolveHostnames builds holds exactly the addresses whose own lookup    *)
(* found a name, with the first of its names that is not blank.            *)
THEOREM OwnHostnames == Spec => []HostnamesAreOwn
<1>1. ResolveInv => HostnamesAreOwn
  BY HostnamesFromInv
<1> QED
  BY ResolveInvariant, <1>1, PTL

-----------------------------------------------------------------------------
(* Resolve does what IndexedPool promises of an ordered concurrent map. *)

LEMMA PoolStep ==
  ASSUME ResolveInv, [Next]_vars
  PROVE  [Pool!Next]_(Pool!vars)
<1>1. ASSUME NEW w \in WorkerIds, Take(w) \/ Leave(w)
      PROVE  UNCHANGED (Pool!vars)
  <2>1. UNCHANGED <<cancelled, stage, queue>>
    BY <1>1 DEF Take, Leave
  <2> QED
    BY <2>1 DEF Pool!vars, Decided
<1>2. ASSUME NEW w \in WorkerIds, Lookup(w)
      PROVE  Pool!Progress
  <2>1. /\ pc[w] = "lookup" /\ job[w] \in JobIds
        /\ UNCHANGED <<cancelled, stage>>
    BY <1>2 DEF Lookup, ResolveInv, TypeOK
  <2>2. stage = "running" /\ job[w] \notin Decided
    BY <2>1 DEF ResolveInv, OwnerInv, ReturnInv
  <2>3. \A i : i \in Decided' <=> i \in Decided \/ i = job[w]
    <3>1. \A i : i \in Decided' <=> \E k \in DOMAIN queue' : queue'[k].index = i
      BY DEF Decided
    <3>2. PICK item : /\ item.index = job[w]
                      /\ DOMAIN queue' = DOMAIN queue \cup {Len(queue) + 1}
                      /\ Len(queue) + 1 \notin DOMAIN queue
                      /\ \A k \in DOMAIN queue : queue'[k] = queue[k]
                      /\ queue'[Len(queue) + 1] = item
      <4>1. TypeOK
        BY DEF ResolveInv
      <4>2. PICK answer \in Answers :
              LET item == [index |-> job[w],
                           result |-> ResolveOne(Jobs[job[w]], answer)]
              IN  /\ Len(queue) \in Nat
                  /\ DOMAIN queue = 1..Len(queue)
                  /\ DOMAIN queue' = DOMAIN queue \cup {Len(queue) + 1}
                  /\ \A k \in DOMAIN queue : queue'[k] = queue[k]
                  /\ queue'[Len(queue) + 1] = item
        BY <1>2, <4>1, LookupSends
      <4> QED
        BY <4>2
    <3> QED
      BY <3>1, <3>2, DecidedIs
  <2>4. Decided' = Decided \cup {job[w]}
    BY <2>3
  <2>5. Pool!Decide(job[w])
    BY <2>1, <2>2, <2>4 DEF Pool!Decide
  <2> QED
    BY <2>1, <2>5 DEF Pool!Progress
<1>3. ASSUME Return
      PROVE  Pool!Progress
  <2>1. /\ stage = "running" /\ \A w \in WorkerIds : pc[w] = "done"
        /\ UNCHANGED <<cancelled, queue>>
    BY <1>3 DEF Return
  <2>2. Decided' = Decided
    BY <2>1 DEF Decided
  <2>3. CASE cancelled
    BY <1>3, <2>1, <2>2, <2>3 DEF Return, Pool!Fail, Pool!Progress
  <2>4. CASE ~cancelled
    <3>1. Decided = JobIds /\ stage' = "returned"
      BY <1>3, <2>1, <2>4, AllDecided DEF Return
    <3> QED
      BY <2>1, <2>2, <2>4, <3>1 DEF Pool!Succeed, Pool!Progress
  <2> QED
    BY <2>3, <2>4
<1>4. ASSUME Cancel
      PROVE  Pool!Cancel
  BY <1>4 DEF Cancel, Pool!Cancel, Decided
<1>5. ASSUME UNCHANGED vars
      PROVE  UNCHANGED (Pool!vars)
  BY <1>5 DEF vars, Pool!vars, Decided
<1> QED
  BY <1>1, <1>2, <1>3, <1>4, <1>5 DEF Next, WorkerNext, Pool!Next

(* Every address is decided once, a call that succeeds has decided all of  *)
(* them under a context that is alive, and one that fails does so because  *)
(* of the context: the safety part of PoolContract.                        *)
THEOREM ImplementsPool == Spec => Pool!Spec
<1>1. Init => Pool!Init
  BY DEF Init, Pool!Init, Decided
<1>2. ResolveInv /\ [Next]_vars => [Pool!Next]_(Pool!vars)
  BY PoolStep
<1> QED
  BY <1>1, <1>2, ResolveInvariant, PTL DEF Spec, Pool!Spec
=============================================================================
