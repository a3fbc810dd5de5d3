--------------------------- MODULE DiscoveryProofs ---------------------------
(***************************************************************************)
(* Theorems about Discovery, for any number of targets, workers and ports: *)
(* its types, the slots of the shared slice, and that it implements the    *)
(* steps of IndexedPool.  SlotInv says where each target is: not yet       *)
(* taken, with exactly one worker, or written.                             *)
(***************************************************************************)
EXTENDS Discovery, TLAPS

ResultSet == [alive : BOOLEAN, method : {"", "none", "icmp", "tcp"},
              err : {"none", "failed", "canceled"}]

SlotInv ==
  /\ taken <= sent
  /\ \A t \in Targets : writes[t] \in 0..1
  /\ \A t \in Targets : t > taken => writes[t] = 0
  /\ \A w \in WorkerIds : Busy(w) => target[w] <= taken /\ writes[target[w]] = 0
  /\ \A v, w \in WorkerIds :
       v # w /\ Busy(v) /\ Busy(w) => target[v] # target[w]
  /\ \A t \in Targets :
       t <= taken => writes[t] = 1 \/ \E w \in WorkerIds : Busy(w) /\ target[w] = t

CallerInv ==
  /\ \A w \in WorkerIds : pc[w] = "done" => caller # "sending" /\ taken = sent
  /\ caller # "sending" => sent = NumTargets \/ cancelled
  /\ Ended => \A w \in WorkerIds : pc[w] = "done"
  /\ caller = "returned" => sent = NumTargets

ResultInv ==
  /\ \A t \in Targets : results[t].err = "canceled" => cancelled
  /\ caller = "returned" => \A t \in Targets : results[t].err # "canceled"

IInv == TypeOK /\ SlotInv /\ CallerInv /\ ResultInv

-----------------------------------------------------------------------------
(* There is a worker, and a worker's number is one of 1..Cap. *)
LEMMA Workers == Cap \in Nat /\ Cap >= 1 /\ WorkerIds = 1..Cap /\ 1 \in WorkerIds
  BY NumTargetsAssumption, NumWorkersAssumption DEF Cap, WorkerIds

(* What the steps of a worker do to the slots.  A worker that writes its   *)
(* result, or goes on to its next attempt, is the only one concerned.      *)
Writes(w) ==
  /\ Busy(w)
  /\ \E r \in ResultSet :
       /\ results' = [results EXCEPT ![target[w]] = r]
       /\ r.err = "canceled" => cancelled
  /\ writes' = [writes EXCEPT ![target[w]] = @ + 1]
  /\ pc' = [pc EXCEPT ![w] = "range"]
  /\ UNCHANGED <<strategy, cancelled, jobVars, taken, target, port, failed>>

Continues(w) ==
  /\ Busy(w)
  /\ pc' \in {pc, [pc EXCEPT ![w] = "tcp"]}
  /\ port' = port \/ (port[w] # NumPorts /\ port' = [port EXCEPT ![w] = @ + 1])
  /\ \E b \in BOOLEAN : failed' = [failed EXCEPT ![w] = b]
  /\ UNCHANGED <<strategy, cancelled, jobVars, taken, target, results, writes>>

(* Every step of a busy worker is one of the two. *)
LEMMA BusyMoves ==
  ASSUME TypeOK, NEW w \in WorkerIds,
         CheckNone(w) \/ CheckICMP(w) \/ CheckTCP(w)
  PROVE  Writes(w) \/ Continues(w)
<1>1. CASE CheckNone(w)
  <2>1. Result(TRUE, "none", "none") \in ResultSet
    BY DEF Result, ResultSet
  <2>2. Result(TRUE, "none", "none").err = "none"
    BY DEF Result
  <2>3. QED
    BY <1>1, <2>1, <2>2 DEF CheckNone, Write, Writes, Goto, Busy
<1>2. CASE CheckICMP(w)
  <2> PICK answer \in {"reply", "silence", "error"} :
        IF answer = "reply" THEN Write(w, Result(TRUE, "icmp", "none"))
        ELSE IF cancelled THEN Write(w, Canceled)
        ELSE IF strategy = "icmp" THEN Write(w, Dead(answer = "error"))
        ELSE /\ failed' = [failed EXCEPT ![w] = answer = "error"]
             /\ Goto(w, "tcp")
             /\ UNCHANGED <<port, results, writes>>
    BY <1>2 DEF CheckICMP
  <2>1. Busy(w) /\ UNCHANGED <<strategy, cancelled, jobVars, taken, target>>
    BY <1>2 DEF CheckICMP, Busy
  <2>2. CASE Write(w, Result(TRUE, "icmp", "none"))
    <3>1. Result(TRUE, "icmp", "none") \in ResultSet
          /\ Result(TRUE, "icmp", "none").err # "canceled"
      BY DEF Result, ResultSet
    <3>2. QED
      BY <2>1, <2>2, <3>1 DEF Write, Writes, Goto
  <2>3. CASE cancelled /\ Write(w, Canceled)
    <3>1. Canceled \in ResultSet
      BY DEF Canceled, Result, ResultSet
    <3>2. QED
      BY <2>1, <2>3, <3>1 DEF Write, Writes, Goto
  <2>4. CASE Write(w, Dead(answer = "error"))
    <3>1. Dead(answer = "error") \in ResultSet
          /\ Dead(answer = "error").err # "canceled"
      BY DEF Dead, Result, ResultSet
    <3>2. QED
      BY <2>1, <2>4, <3>1 DEF Write, Writes, Goto
  <2>5. CASE /\ failed' = [failed EXCEPT ![w] = answer = "error"]
             /\ Goto(w, "tcp")
             /\ UNCHANGED <<port, results, writes>>
    <3>1. (answer = "error") \in BOOLEAN
      OBVIOUS
    <3>2. QED
      BY <2>1, <2>5, <3>1 DEF Continues, Goto
  <2>6. QED
    BY <2>2, <2>3, <2>4, <2>5
<1>3. CASE CheckTCP(w)
  <2> DEFINE Fail(outcome) ==
        failed[w] \/ outcome \in {"unreachable", "reported_refused"}
  <2> PICK outcome \in Outcomes :
        IF outcome = "connected" THEN Write(w, Result(TRUE, "tcp", "none"))
        ELSE IF cancelled THEN Write(w, Canceled)
        ELSE IF IsRefusal(outcome) THEN Write(w, Result(TRUE, "tcp", "none"))
        ELSE IF LastPort(w) THEN Write(w, Dead(Fail(outcome)))
        ELSE /\ failed' = [failed EXCEPT ![w] = Fail(outcome)]
             /\ port' = [port EXCEPT ![w] = @ + 1]
             /\ UNCHANGED <<pc, results, writes>>
    BY <1>3 DEF CheckTCP
  <2>1. Busy(w) /\ UNCHANGED <<strategy, cancelled, jobVars, taken, target>>
    BY <1>3 DEF CheckTCP, Busy
  <2>2. CASE Write(w, Result(TRUE, "tcp", "none"))
    <3>1. Result(TRUE, "tcp", "none") \in ResultSet
          /\ Result(TRUE, "tcp", "none").err # "canceled"
      BY DEF Result, ResultSet
    <3>2. QED
      BY <2>1, <2>2, <3>1 DEF Write, Writes, Goto
  <2>3. CASE cancelled /\ Write(w, Canceled)
    <3>1. Canceled \in ResultSet
      BY DEF Canceled, Result, ResultSet
    <3>2. QED
      BY <2>1, <2>3, <3>1 DEF Write, Writes, Goto
  <2>4. CASE Write(w, Dead(Fail(outcome)))
    <3>1. Dead(Fail(outcome)) \in ResultSet
          /\ Dead(Fail(outcome)).err # "canceled"
      BY DEF Dead, Result, ResultSet
    <3>2. QED
      BY <2>1, <2>4, <3>1 DEF Write, Writes, Goto
  <2>5. CASE /\ ~LastPort(w)
             /\ failed' = [failed EXCEPT ![w] = Fail(outcome)]
             /\ port' = [port EXCEPT ![w] = @ + 1]
             /\ UNCHANGED <<pc, results, writes>>
    <3>1. Fail(outcome) \in BOOLEAN
      BY DEF TypeOK
    <3>2. QED
      BY <2>1, <2>5, <3>1 DEF Continues, LastPort
  <2>6. QED
    BY <2>2, <2>3, <2>4, <2>5
<1>4. QED
  BY <1>1, <1>2, <1>3

-----------------------------------------------------------------------------
(* What an attempt adds to the history has its type. *)
LEMMA HistoryTyped ==
  ASSUME TypeOK, NEW w \in WorkerIds,
         CheckNone(w) \/ CheckICMP(w) \/ CheckTCP(w)
  PROVE  heard' \subseteq Targets /\ tried' \in [Targets -> SUBSET (0..NumPorts)]
<1>1. target[w] \in Targets /\ port[w] \in 0..NumPorts /\ 0 \in 0..NumPorts
  <2>1. target \in [WorkerIds -> Targets] /\ port \in [WorkerIds -> 1..NumPorts]
    BY DEF TypeOK, Ports
  <2>2. QED
    BY <2>1, NumPortsAssumption
<1>2. ASSUME NEW attempt \in 0..NumPorts, NEW answered, Record(w, attempt, answered)
      PROVE  heard' \subseteq Targets /\ tried' \in [Targets -> SUBSET (0..NumPorts)]
  <2>1. tried \in [Targets -> SUBSET (0..NumPorts)] /\ heard \subseteq Targets
    BY DEF TypeOK
  <2>2. tried[target[w]] \cup {attempt} \in SUBSET (0..NumPorts)
    BY <1>1, <2>1
  <2>3. tried' \in [Targets -> SUBSET (0..NumPorts)]
    BY <1>2, <2>1, <2>2 DEF Record
  <2>4. heard' \subseteq Targets
    BY <1>1, <1>2, <2>1 DEF Record
  <2>5. QED
    BY <2>3, <2>4
<1>3. CASE CheckNone(w)
  BY <1>3 DEF CheckNone, historyVars, TypeOK
<1>4. CASE CheckICMP(w)
  <2>1. PICK answer : Record(w, 0, answer = "reply")
    BY <1>4 DEF CheckICMP
  <2>2. QED
    BY <1>1, <1>2, <2>1
<1>5. CASE CheckTCP(w)
  <2>1. PICK outcome : Record(w, port[w], TargetAnswered(outcome))
    BY <1>5 DEF CheckTCP
  <2>2. QED
    BY <1>1, <1>2, <2>1
<1>6. QED
  BY <1>3, <1>4, <1>5

(* The initial state has the types. *)
LEMMA TypeInit == Init => TypeOK
<1> SUFFICES ASSUME Init
             PROVE  TypeOK
  OBVIOUS
<1> USE DEF Init
<1>1. /\ sent \in 0..NumTargets /\ taken \in 0..NumTargets
      /\ 1 \in Targets /\ 1 \in Ports
  BY NumTargetsAssumption, NumPortsAssumption, SMT DEF Targets, Ports
<1>2. /\ pc \in [WorkerIds -> {"range", "assume", "icmp", "tcp", "done"}]
      /\ target \in [WorkerIds -> Targets]
      /\ port \in [WorkerIds -> Ports]
      /\ failed \in [WorkerIds -> BOOLEAN]
  BY <1>1, Zenon
<1>3. NoResult \in ResultSet
  BY DEF NoResult, Result, ResultSet
<1>4. results \in [Targets -> ResultSet]
  BY <1>3, Zenon
<1>5. writes \in [Targets -> Nat]
  BY SMT
<1>6. tried \in [Targets -> SUBSET (0..NumPorts)] /\ heard \subseteq Targets
  BY Zenon
<1>7. strategy \in Strategies /\ cancelled \in BOOLEAN
      /\ caller \in {"sending", "waiting", "returned", "failed"}
  BY Zenon
<1>8. QED
  BY <1>1, <1>2, <1>4, <1>5, <1>6, <1>7, Zenon DEF TypeOK, ResultSet

(* Every step keeps the types. *)
LEMMA TypeStep == TypeOK /\ [Next]_vars => TypeOK'
<1> SUFFICES ASSUME TypeOK, [Next]_vars
             PROVE  TypeOK'
  OBVIOUS
<1>1. CASE CallerNext
  <2> USE DEF TypeOK, historyVars
  <2>1. CASE SendJob
    <3>1. sent' \in 0..NumTargets
      <4>1. sent \in 0..NumTargets /\ sent < NumTargets /\ sent' = sent + 1
        BY <2>1 DEF SendJob
      <4> HIDE DEF TypeOK
      <4>2. QED
        BY <4>1, NumTargetsAssumption, SMT
    <3>2. QED
      BY <2>1, <3>1 DEF SendJob
  <2>2. CASE CloseJobs
    BY <2>2 DEF CloseJobs
  <2>3. CASE Return
    BY <2>3 DEF Return
  <2>4. QED
    BY <1>1, <2>1, <2>2, <2>3 DEF CallerNext
<1>2. CASE Cancel
  BY <1>2 DEF Cancel, TypeOK, historyVars, jobVars
<1>3. ASSUME NEW w \in WorkerIds, TakeJob(w)
      PROVE  TypeOK'
  <2>1. taken + 1 \in 0..NumTargets /\ taken + 1 \in Targets /\ 1 \in Ports
    <3>1. taken \in 0..NumTargets /\ sent \in 0..NumTargets /\ taken < sent
      BY <1>3 DEF TakeJob, TypeOK
    <3>2. QED
      BY <3>1, NumTargetsAssumption, NumPortsAssumption DEF Targets, Ports
  <2>2. FirstStep \in {"assume", "icmp", "tcp"}
    BY StrategiesAssumption DEF FirstStep, TypeOK
  <2>3. pc' \in [WorkerIds -> {"range", "assume", "icmp", "tcp", "done"}]
    BY <1>3, <2>2 DEF TakeJob, Goto, TypeOK
  <2>4. /\ target' \in [WorkerIds -> Targets] /\ port' \in [WorkerIds -> Ports]
        /\ taken' \in 0..NumTargets
    BY <1>3, <2>1 DEF TakeJob, TypeOK
  <2>5. failed' \in [WorkerIds -> BOOLEAN]
    BY <1>3 DEF TakeJob, TypeOK
  <2>6. QED
    BY <1>3, <2>3, <2>4, <2>5 DEF TakeJob, TypeOK, jobVars, historyVars
<1>4. ASSUME NEW w \in WorkerIds, JobsClosed(w)
      PROVE  TypeOK'
  BY <1>4 DEF JobsClosed, Goto, TypeOK, jobVars, historyVars
<1>5. ASSUME NEW w \in WorkerIds, CheckNone(w) \/ CheckICMP(w) \/ CheckTCP(w)
      PROVE  TypeOK'
  <2>1. heard' \subseteq Targets /\ tried' \in [Targets -> SUBSET (0..NumPorts)]
    BY <1>5, HistoryTyped
  <2>2. CASE Writes(w)
    <3>1. PICK r \in ResultSet : results' = [results EXCEPT ![target[w]] = r]
      BY <2>2 DEF Writes
    <3>2. results' \in [Targets -> ResultSet]
      BY <3>1 DEF TypeOK, ResultSet
    <3>3. writes' \in [Targets -> Nat]
      <4>1. writes \in [Targets -> Nat] /\ target[w] \in Targets
        BY DEF TypeOK
      <4>2. QED
        BY <2>2, <4>1 DEF Writes
    <3>4. pc' \in [WorkerIds -> {"range", "assume", "icmp", "tcp", "done"}]
      BY <2>2 DEF Writes, TypeOK
    <3>5. QED
      BY <2>1, <2>2, <3>2, <3>3, <3>4 DEF Writes, TypeOK, jobVars, ResultSet
  <2>3. CASE Continues(w)
    <3>1. pc' \in [WorkerIds -> {"range", "assume", "icmp", "tcp", "done"}]
      BY <2>3 DEF Continues, TypeOK
    <3>2. port' \in [WorkerIds -> Ports]
      <4>1. port \in [WorkerIds -> 1..NumPorts]
        BY DEF TypeOK, Ports
      <4>2. port[w] # NumPorts => port[w] + 1 \in 1..NumPorts
        BY <4>1, NumPortsAssumption, SMT
      <4>3. QED
        BY <2>3, <4>1, <4>2 DEF Continues, Ports
    <3>3. failed' \in [WorkerIds -> BOOLEAN]
      BY <2>3 DEF Continues, TypeOK
    <3>4. QED
      BY <2>1, <2>3, <3>1, <3>2, <3>3 DEF Continues, TypeOK, jobVars
  <2>4. QED
    BY <1>5, <2>2, <2>3, BusyMoves
<1>6. CASE UNCHANGED vars
  BY <1>6 DEF vars, TypeOK, jobVars, historyVars
<1>7. QED
  BY <1>1, <1>2, <1>3, <1>4, <1>5, <1>6 DEF Next, WorkerNext

-----------------------------------------------------------------------------
(* The types the slots depend on, without the others. *)
SlotTypes ==
  /\ sent \in 0..NumTargets /\ taken \in 0..NumTargets
  /\ pc \in [WorkerIds -> {"range", "assume", "icmp", "tcp", "done"}]
  /\ target \in [WorkerIds -> Targets]
  /\ writes \in [Targets -> Nat]

LEMMA SlotTypesHold == TypeOK => SlotTypes
  BY DEF TypeOK, SlotTypes

(* At first no target is taken. *)
LEMMA SlotInit == Init => SlotInv /\ CallerInv /\ ResultInv
<1> SUFFICES ASSUME Init
             PROVE  SlotInv /\ CallerInv /\ ResultInv
  OBVIOUS
<1>1. SlotInv
  BY NumTargetsAssumption DEF Init, SlotInv, Busy, Targets
<1>2. CallerInv
  BY DEF Init, CallerInv, Ended
<1>3. ResultInv
  BY DEF Init, ResultInv, NoResult, Result
<1>4. QED
  BY <1>1, <1>2, <1>3

(* A worker that takes a job takes one nobody has had. *)
LEMMA TakeKeepsSlots ==
  ASSUME SlotTypes, SlotInv, StrategiesAssumption, strategy \in Strategies,
         NEW w \in WorkerIds, TakeJob(w)
  PROVE  SlotInv'
<1>1. /\ taken' = taken + 1 /\ taken < sent /\ taken \in Nat
      /\ target' = [target EXCEPT ![w] = taken + 1] /\ pc[w] = "range"
      /\ UNCHANGED <<sent, writes>>
  BY DEF TakeJob, SlotTypes, jobVars
<1>2. PICK label \in {"assume", "icmp", "tcp"} : pc' = [pc EXCEPT ![w] = label]
  BY DEF TakeJob, Goto, FirstStep
<1>3. /\ Busy(w)' /\ ~Busy(w) /\ target'[w] = taken + 1
      /\ taken + 1 \in Targets /\ writes[taken + 1] = 0
  <2>1. taken + 1 \in Targets
    BY <1>1, NumTargetsAssumption DEF SlotTypes, Targets
  <2>2. writes[taken + 1] = 0
    BY <1>1, <2>1 DEF SlotInv
  <2>3. Busy(w)' /\ ~Busy(w) /\ target'[w] = taken + 1
    BY <1>1, <1>2 DEF SlotTypes, Busy
  <2>4. QED
    BY <2>1, <2>2, <2>3
<1>4. \A v \in WorkerIds : v # w =>
        (Busy(v)' <=> Busy(v)) /\ target'[v] = target[v]
  BY <1>1, <1>2 DEF SlotTypes, Busy
<1>5. \A v \in WorkerIds : Busy(v) => target[v] <= taken /\ target[v] # taken + 1
  BY <1>1 DEF SlotInv, SlotTypes, Targets
<1>6. taken' <= sent'
  BY <1>1 DEF SlotTypes
<1>7. \A t \in Targets : writes'[t] \in 0..1 /\ (t > taken' => writes'[t] = 0)
  BY <1>1 DEF SlotInv, SlotTypes, Targets
<1>8. \A v \in WorkerIds : Busy(v)' => target'[v] <= taken' /\ writes'[target'[v]] = 0
  <2> TAKE v \in WorkerIds
  <2>1. CASE v = w
    BY <1>1, <1>3, <2>1
  <2>2. CASE v # w
    <3>1. Busy(v) => target[v] <= taken /\ writes[target[v]] = 0
      BY DEF SlotInv
    <3>2. target[v] \in Nat
      BY DEF SlotTypes, Targets
    <3>3. QED
      BY <1>1, <1>4, <2>2, <3>1, <3>2
  <2>3. QED
    BY <2>1, <2>2
<1>9. \A v, u \in WorkerIds :
        v # u /\ Busy(v)' /\ Busy(u)' => target'[v] # target'[u]
  BY <1>3, <1>4, <1>5 DEF SlotInv
<1>10. \A t \in Targets : t <= taken' =>
         writes'[t] = 1 \/ \E v \in WorkerIds : Busy(v)' /\ target'[v] = t
  <2> SUFFICES ASSUME NEW t \in Targets, t <= taken'
               PROVE  writes'[t] = 1 \/ \E v \in WorkerIds : Busy(v)' /\ target'[v] = t
    OBVIOUS
  <2>1. CASE t = taken + 1
    BY <1>3, <2>1
  <2>2. CASE t # taken + 1
    <3>1. t <= taken
      BY <1>1, <2>2 DEF Targets
    <3>2. writes[t] = 1 \/ \E v \in WorkerIds : Busy(v) /\ target[v] = t
      BY <3>1 DEF SlotInv
    <3>3. CASE writes[t] = 1
      BY <1>1, <3>3
    <3>4. ASSUME NEW v \in WorkerIds, Busy(v), target[v] = t
          PROVE  Busy(v)' /\ target'[v] = t
      BY <1>3, <1>4, <3>4
    <3>5. QED
      BY <3>2, <3>3, <3>4
  <2>3. QED
    BY <2>1, <2>2
<1>11. QED
  BY <1>6, <1>7, <1>8, <1>9, <1>10 DEF SlotInv

(* A worker writes the slot of its own target, for the first time. *)
LEMMA WriteKeepsSlots ==
  ASSUME SlotTypes, SlotInv, NEW w \in WorkerIds, Writes(w)
  PROVE  SlotInv'
<1>1. /\ writes' = [writes EXCEPT ![target[w]] = @ + 1]
      /\ pc' = [pc EXCEPT ![w] = "range"]
      /\ UNCHANGED <<sent, taken, target>> /\ Busy(w)
  BY DEF Writes, jobVars
<1>2. /\ target[w] \in Targets /\ writes[target[w]] = 0
      /\ target[w] <= taken /\ writes'[target[w]] = 1
  BY <1>1 DEF SlotInv, SlotTypes
<1>3. \A t \in Targets : t # target[w] => writes'[t] = writes[t]
  BY <1>1 DEF SlotTypes
<1>4. ~Busy(w)' /\ \A v \in WorkerIds : v # w => (Busy(v)' <=> Busy(v))
  BY <1>1 DEF SlotTypes, Busy
<1>5. \A v \in WorkerIds : v # w /\ Busy(v) => target[v] # target[w]
  BY <1>1 DEF SlotInv
<1>6. taken' <= sent' /\ \A t \in Targets : writes'[t] \in 0..1
  BY <1>1, <1>2, <1>3 DEF SlotInv
<1>7. \A t \in Targets : t > taken' => writes'[t] = 0
  <2>1. \A t \in Targets : t > taken => t # target[w]
    BY <1>2 DEF SlotTypes, Targets
  <2>2. QED
    BY <1>1, <1>3, <2>1 DEF SlotInv
<1>8. \A v \in WorkerIds : Busy(v)' => target'[v] <= taken' /\ writes'[target'[v]] = 0
  <2>1. \A v \in WorkerIds : target[v] \in Targets
    BY DEF SlotTypes
  <2>2. QED
    BY <1>1, <1>3, <1>4, <1>5, <2>1 DEF SlotInv
<1>9. \A v, u \in WorkerIds :
        v # u /\ Busy(v)' /\ Busy(u)' => target'[v] # target'[u]
  BY <1>1, <1>4 DEF SlotInv
<1>10. \A t \in Targets : t <= taken' =>
         writes'[t] = 1 \/ \E v \in WorkerIds : Busy(v)' /\ target'[v] = t
  <2> SUFFICES ASSUME NEW t \in Targets, t <= taken, t # target[w]
               PROVE  writes'[t] = 1 \/ \E v \in WorkerIds : Busy(v)' /\ target'[v] = t
    BY <1>1, <1>2
  <2>1. writes[t] = 1 \/ \E v \in WorkerIds : Busy(v) /\ target[v] = t
    BY DEF SlotInv
  <2>2. QED
    BY <1>1, <1>3, <1>4, <2>1
<1>11. QED
  BY <1>6, <1>7, <1>8, <1>9, <1>10 DEF SlotInv

(* A step that leaves the jobs alone and no worker's job open or close. *)
LEMMA QuietKeepsSlots ==
  ASSUME SlotTypes, SlotInv, UNCHANGED <<taken, target, writes>>,
         sent' = sent \/ sent' = sent + 1,
         \A v \in WorkerIds : Busy(v)' <=> Busy(v)
  PROVE  SlotInv'
<1>1. taken' <= sent'
  BY DEF SlotInv, SlotTypes
<1>2. QED
  BY <1>1 DEF SlotInv

(* Slots, end of the workers and cancelled results, for a worker's step.   *)
LEMMA WorkerKeeps ==
  ASSUME IInv, NEW w \in WorkerIds, WorkerNext(w)
  PROVE  SlotInv' /\ CallerInv' /\ ResultInv'
<1>0. SlotTypes /\ SlotInv /\ CallerInv /\ ResultInv /\ TypeOK
  BY SlotTypesHold DEF IInv
<1>1. CASE TakeJob(w)
  <2>1. SlotInv'
    BY <1>0, <1>1, TakeKeepsSlots, StrategiesAssumption DEF TypeOK
  <2>2. pc[w] = "range" /\ taken < sent /\ UNCHANGED <<caller, sent, cancelled>>
        /\ UNCHANGED results
    BY <1>1 DEF TakeJob, jobVars
  <2>3. \A v \in WorkerIds : pc'[v] # "done"
    <3>1. \A v \in WorkerIds : pc[v] # "done"
      BY <1>0, <2>2 DEF CallerInv, SlotTypes
    <3>2. PICK label \in {"assume", "icmp", "tcp"} : pc' = [pc EXCEPT ![w] = label]
      BY <1>0, <1>1, StrategiesAssumption DEF TakeJob, Goto, FirstStep, TypeOK
    <3>3. QED
      BY <1>0, <3>1, <3>2 DEF SlotTypes
  <2>4. ~Ended
    BY <1>0, <2>2 DEF CallerInv
  <2>5. CallerInv'
    BY <1>0, <2>2, <2>3, <2>4 DEF CallerInv, Ended
  <2>6. ResultInv'
    BY <1>0, <2>2 DEF ResultInv
  <2>7. QED
    BY <2>1, <2>5, <2>6
<1>2. CASE JobsClosed(w)
  <2>1. /\ pc[w] = "range" /\ caller # "sending" /\ taken = sent
        /\ pc' = [pc EXCEPT ![w] = "done"]
        /\ UNCHANGED <<cancelled, caller, sent, taken, target, results, writes>>
    BY <1>2 DEF JobsClosed, Goto, jobVars
  <2>2. \A v \in WorkerIds : Busy(v)' <=> Busy(v)
    BY <1>0, <2>1 DEF SlotTypes, Busy
  <2>3. SlotInv'
    BY <1>0, <2>1, <2>2, QuietKeepsSlots
  <2>4. CallerInv'
    BY <1>0, <2>1 DEF CallerInv, Ended, SlotTypes
  <2>5. ResultInv'
    BY <1>0, <2>1 DEF ResultInv
  <2>6. QED
    BY <2>3, <2>4, <2>5
<1>3. CASE Writes(w)
  <2>1. SlotInv'
    BY <1>0, <1>3, WriteKeepsSlots
  <2>2. /\ Busy(w) /\ pc' = [pc EXCEPT ![w] = "range"]
        /\ UNCHANGED <<cancelled, caller, sent, taken>>
    BY <1>3 DEF Writes, jobVars
  <2>3. ~Ended
    BY <1>0, <2>2 DEF CallerInv, Busy
  <2>4. CallerInv'
    BY <1>0, <2>2, <2>3 DEF CallerInv, Ended, SlotTypes
  <2>5. PICK r \in ResultSet :
          /\ results' = [results EXCEPT ![target[w]] = r]
          /\ r.err = "canceled" => cancelled
    BY <1>3 DEF Writes
  <2>6. ResultInv'
    <3>1. \A t \in Targets : results'[t] = results[t] \/ results'[t] = r
      BY <1>0, <2>5 DEF TypeOK
    <3>2. QED
      BY <1>0, <2>2, <2>3, <2>5, <3>1 DEF ResultInv, Ended
  <2>7. QED
    BY <2>1, <2>4, <2>6
<1>4. CASE Continues(w)
  <2>1. /\ Busy(w) /\ pc' \in {pc, [pc EXCEPT ![w] = "tcp"]}
        /\ UNCHANGED <<cancelled, caller, sent, taken, target, results, writes>>
    BY <1>4 DEF Continues, jobVars
  <2>2. \A v \in WorkerIds : (Busy(v)' <=> Busy(v)) /\ (pc'[v] = "done" <=> pc[v] = "done")
    BY <1>0, <2>1 DEF SlotTypes, Busy
  <2>3. SlotInv'
    BY <1>0, <2>1, <2>2, QuietKeepsSlots
  <2>4. CallerInv'
    BY <1>0, <2>1, <2>2 DEF CallerInv, Ended
  <2>5. ResultInv'
    BY <1>0, <2>1 DEF ResultInv
  <2>6. QED
    BY <2>3, <2>4, <2>5
<1>5. QED
  BY <1>0, <1>1, <1>2, <1>3, <1>4, BusyMoves DEF WorkerNext

(* ... and for the other steps. *)
LEMMA OthersKeep ==
  ASSUME IInv, CallerNext \/ Cancel \/ UNCHANGED vars
  PROVE  SlotInv' /\ CallerInv' /\ ResultInv'
<1>0. SlotTypes /\ SlotInv /\ CallerInv /\ ResultInv
  BY SlotTypesHold DEF IInv
<1>1. CASE SendJob
  <2>1. /\ caller = "sending" /\ sent < NumTargets /\ sent' = sent + 1
        /\ UNCHANGED <<cancelled, caller, taken, pc, target, results, writes>>
    BY <1>1 DEF SendJob
  <2>2. \A v \in WorkerIds : Busy(v)' <=> Busy(v)
    BY <2>1 DEF Busy
  <2>3. SlotInv'
    BY <1>0, <2>1, <2>2, QuietKeepsSlots
  <2>4. CallerInv' /\ ResultInv'
    BY <1>0, <2>1 DEF CallerInv, ResultInv, Ended
  <2>5. QED
    BY <2>3, <2>4
<1>2. CASE CloseJobs \/ Cancel \/ UNCHANGED vars
  <2>1. /\ UNCHANGED <<sent, taken, pc, target, results, writes>>
        /\ cancelled => cancelled'
        /\ \/ UNCHANGED caller
           \/ /\ caller = "sending" /\ caller' = "waiting"
              /\ sent = NumTargets \/ cancelled
    BY <1>2 DEF CloseJobs, Cancel, vars, jobVars, historyVars
  <2>2. SlotInv'
    BY <1>0, <2>1, QuietKeepsSlots DEF Busy
  <2>3. CallerInv' /\ ResultInv'
    BY <1>0, <2>1 DEF CallerInv, ResultInv, Ended
  <2>4. QED
    BY <2>2, <2>3
<1>3. CASE Return
  <2>1. /\ caller = "waiting" /\ \A w \in WorkerIds : pc[w] = "done"
        /\ caller' = (IF cancelled THEN "failed" ELSE "returned")
        /\ UNCHANGED <<cancelled, sent, taken, pc, target, results, writes>>
    BY <1>3 DEF Return
  <2>2. SlotInv'
    BY <1>0, <2>1, QuietKeepsSlots DEF Busy
  <2>3. CallerInv' /\ ResultInv'
    BY <1>0, <2>1 DEF CallerInv, ResultInv, Ended
  <2>4. QED
    BY <2>2, <2>3
<1>4. QED
  BY <1>1, <1>2, <1>3 DEF CallerNext

(* The invariant is inductive. *)
LEMMA InvStep == IInv /\ [Next]_vars => IInv'
<1> SUFFICES ASSUME IInv, [Next]_vars
             PROVE  IInv'
  OBVIOUS
<1>1. TypeOK'
  BY TypeStep DEF IInv
<1>2. SlotInv' /\ CallerInv' /\ ResultInv'
  BY WorkerKeeps, OthersKeep DEF Next
<1>3. QED
  BY <1>1, <1>2 DEF IInv

(* Every target is either not yet taken, with one worker, or written. *)
THEOREM DiscoveryInvariant == Spec => []IInv
<1>1. Init => IInv
  BY TypeInit, SlotInit DEF IInv
<1>2. QED
  BY <1>1, InvStep, PTL DEF Spec

-----------------------------------------------------------------------------
(* Type correctness. *)
THEOREM TypeCorrect == Spec => []TypeOK
<1>1. IInv => TypeOK
  BY DEF IInv
<1>2. QED
  BY <1>1, DiscoveryInvariant, PTL

(* The workers share a slice without a lock and never a slot of it. *)
THEOREM SlotsExclusive == Spec => []SlotsNotShared
<1>1. IInv => SlotsNotShared
  BY DEF IInv, SlotInv, SlotsNotShared
<1>2. QED
  BY <1>1, DiscoveryInvariant, PTL

(* When every worker has left and everything was sent, every slot is       *)
(* written.                                                                *)
LEMMA AllWritten ==
  ASSUME IInv, \A w \in WorkerIds : pc[w] = "done", sent = NumTargets
  PROVE  \A t \in Targets : writes[t] = 1
<1>1. taken = NumTargets
  BY Workers DEF IInv, CallerInv
<1>2. \A w \in WorkerIds : ~Busy(w)
  BY DEF Busy
<1>3. \A t \in Targets : t <= taken
  BY <1>1, NumTargetsAssumption DEF Targets
<1>4. QED
  BY <1>2, <1>3 DEF IInv, SlotInv

(* Results that are returned are whole and none is an artefact of the      *)
(* cancellation.                                                           *)
THEOREM ReturnedComplete == Spec => []ResultsComplete
<1>1. IInv => ResultsComplete
  <2> SUFFICES ASSUME IInv, caller = "returned"
               PROVE  \A t \in Targets : writes[t] = 1 /\ results[t].err # "canceled"
    BY DEF ResultsComplete
  <2>1. sent = NumTargets /\ \A w \in WorkerIds : pc[w] = "done"
    BY DEF IInv, CallerInv, Ended
  <2>2. \A t \in Targets : writes[t] = 1
    BY <2>1, AllWritten
  <2>3. QED
    BY <2>2 DEF IInv, ResultInv
<1>2. QED
  BY <1>1, DiscoveryInvariant, PTL

-----------------------------------------------------------------------------
(* Discover implements IndexedPool. *)

(* Its initial state is an initial state of the contract. *)
LEMMA PoolInit == Init => Pool!Init
  BY NumTargetsAssumption DEF Init, Pool!Init, Ended, Targets

(* To write a result is to decide a target; nothing else a worker does     *)
(* shows.                                                                  *)
LEMMA WorkerImplements ==
  ASSUME IInv, NEW w \in WorkerIds, WorkerNext(w)
  PROVE  [Pool!Next]_(Pool!vars)
<1>0. TypeOK /\ SlotTypes /\ SlotInv /\ CallerInv
  BY SlotTypesHold DEF IInv
<1>1. CASE Writes(w)
  <2>1. /\ Busy(w) /\ UNCHANGED <<cancelled, caller>>
        /\ writes' = [writes EXCEPT ![target[w]] = @ + 1]
    BY <1>1 DEF Writes, jobVars
  <2>2. ~Ended /\ ~Ended'
    BY <1>0, <2>1 DEF CallerInv, Busy, Ended
  <2>3. /\ target[w] \in Targets /\ writes[target[w]] = 0
        /\ \A t \in Targets : writes'[t] = IF t = target[w] THEN 1 ELSE writes[t]
    BY <1>0, <2>1 DEF SlotTypes, SlotInv
  <2>4. {t \in Targets : writes'[t] > 0}
          = {t \in Targets : writes[t] > 0} \cup {target[w]}
    BY <2>3
  <2>5. Pool!Progress
    BY <2>1, <2>2, <2>3, <2>4 DEF Pool!Decide, Pool!Progress
  <2>6. QED
    BY <2>5 DEF Pool!Next
<1>2. CASE TakeJob(w) \/ JobsClosed(w) \/ Continues(w)
  BY <1>2 DEF TakeJob, JobsClosed, Continues, jobVars, Pool!vars, Ended
<1>3. QED
  BY <1>0, <1>1, <1>2, BusyMoves DEF WorkerNext

(* To return is to succeed or to fail. *)
LEMMA CallerImplements ==
  ASSUME IInv, CallerNext
  PROVE  [Pool!Next]_(Pool!vars)
<1>1. CASE SendJob \/ CloseJobs
  BY <1>1 DEF SendJob, CloseJobs, Pool!vars, Ended
<1>2. CASE Return
  <2>1. /\ caller = "waiting" /\ \A w \in WorkerIds : pc[w] = "done"
        /\ caller' = (IF cancelled THEN "failed" ELSE "returned")
        /\ UNCHANGED <<cancelled, writes>>
    BY <1>2 DEF Return
  <2>2. CASE cancelled
    BY <2>1, <2>2 DEF Pool!Fail, Pool!Progress, Pool!Next, Ended
  <2>3. CASE ~cancelled
    <3>1. sent = NumTargets
      BY <2>1, <2>3 DEF IInv, CallerInv
    <3>2. {t \in Targets : writes[t] > 0} = Targets
      BY <2>1, <3>1, AllWritten
    <3>3. QED
      BY <2>1, <2>3, <3>2 DEF Pool!Succeed, Pool!Progress, Pool!Next, Ended
  <2>4. QED
    BY <2>2, <2>3
<1>3. QED
  BY <1>1, <1>2 DEF CallerNext

(* Discover is an ordered concurrent map: each step is one of the contract *)
(* or does not show.  (That it returns is left to TLC.)                    *)
THEOREM ImplementsPool == Spec => Pool!Spec
<1>1. IInv /\ [Next]_vars => [Pool!Next]_(Pool!vars)
  <2> SUFFICES ASSUME IInv, [Next]_vars
               PROVE  [Pool!Next]_(Pool!vars)
    OBVIOUS
  <2>1. CASE Cancel
    BY <2>1 DEF Cancel, jobVars, Pool!Cancel, Pool!Next, Ended
  <2>2. CASE UNCHANGED vars
    BY <2>2 DEF vars, jobVars, Pool!vars, Ended
  <2>3. QED
    BY <2>1, <2>2, WorkerImplements, CallerImplements DEF Next
<1>2. QED
  BY <1>1, PoolInit, DiscoveryInvariant, PTL DEF Spec, Pool!Spec
-----------------------------------------------------------------------------
(* What the results say of the targets, for a direct dialer. *)

(* The attempts that the check of a busy worker has behind it. *)
Before(w) ==
  IF pc[w] = "tcp"
  THEN (IF strategy = "icmp_then_tcp" THEN {0} ELSE {}) \cup 1..(port[w] - 1)
  ELSE {}

(* A result that is not an artefact of a cancelled context has its reason. *)
Justified(t) ==
  results[t].err # "canceled" /\ ~results[t].alive =>
    tried[t] = AllAttempts /\ t \notin heard

(* A check goes on only while its target has not answered, and has made    *)
(* every attempt up to the one that comes next.                            *)
WorkerEvidence(w) ==
  /\ Busy(w) => target[w] \notin heard /\ tried[target[w]] = Before(w)
  /\ pc[w] = "icmp" => strategy \in {"icmp", "icmp_then_tcp"} /\ port[w] = 1
  /\ pc[w] = "tcp"  => strategy \in {"tcp", "icmp_then_tcp"}

EvidenceInv ==
  /\ AliveAnswered
  /\ \A t \in Targets : t > taken => tried[t] = {} /\ t \notin heard
  /\ \A w \in WorkerIds : WorkerEvidence(w)
  /\ \A t \in Targets : writes[t] = 1 => Justified(t)

(* The initial state has no evidence and needs none. *)
LEMMA EvidenceInit == Init => EvidenceInv
<1> SUFFICES ASSUME Init
             PROVE  EvidenceInv
  OBVIOUS
<1>1. \A t \in Targets : tried[t] = {} /\ t \notin heard /\ writes[t] = 0
  BY DEF Init
<1>2. \A w \in WorkerIds : pc[w] = "range"
  BY DEF Init
<1>3. \A w \in WorkerIds : WorkerEvidence(w)
  BY <1>2 DEF WorkerEvidence, Busy
<1>4. AliveAnswered
  BY DEF AliveAnswered, Init, NoResult, Result
<1> QED
  BY <1>1, <1>3, <1>4 DEF EvidenceInv

(* A step of worker w that concerns target t alone keeps the evidence, if  *)
(* it does so for t and w.                                                 *)
LEMMA OneTargetKeeps ==
  ASSUME TypeOK, SlotInv, EvidenceInv, NEW w \in WorkerIds, NEW t \in Targets,
         strategy' = strategy, taken' = taken \/ taken' = taken + 1,
         \A u \in Targets \ {t} :
           /\ results'[u] = results[u] /\ writes'[u] = writes[u]
           /\ tried'[u] = tried[u] /\ (u \in heard' <=> u \in heard),
         \A v \in WorkerIds \ {w} :
           /\ pc'[v] = pc[v] /\ port'[v] = port[v] /\ target'[v] = target[v]
           /\ Busy(v) => target[v] # t,
         results'[t].method \in {"icmp", "tcp"} => results'[t].alive /\ t \in heard',
         t <= taken', WorkerEvidence(w)', writes'[t] = 1 => Justified(t)'
  PROVE  EvidenceInv'
<1>1. AliveAnswered'
  BY DEF EvidenceInv, AliveAnswered
<1>2. \A u \in Targets : u > taken' => tried'[u] = {} /\ u \notin heard'
  <2>1. taken \in Nat /\ t \in Nat /\ \A u \in Targets : u \in Nat
    BY SlotTypesHold DEF SlotTypes, Targets
  <2>2. taken' \in Nat /\ taken <= taken'
    BY <2>1
  <2>3. \A u \in Targets : u > taken' => u > taken /\ u # t
    BY <2>1, <2>2
  <2> QED
    BY <2>3 DEF EvidenceInv
<1>3. \A v \in WorkerIds : WorkerEvidence(v)'
  <2> SUFFICES ASSUME NEW v \in WorkerIds \ {w}
               PROVE  WorkerEvidence(v)'
    OBVIOUS
  <2>1. WorkerEvidence(v) /\ target[v] \in Targets
    BY DEF EvidenceInv, TypeOK
  <2>2. (Busy(v)' <=> Busy(v)) /\ Before(v)' = Before(v)
    BY DEF Busy, Before
  <2>3. Busy(v) => tried'[target'[v]] = tried[target[v]]
                   /\ (target'[v] \in heard' <=> target[v] \in heard)
    BY <2>1
  <2> QED
    BY <2>1, <2>2, <2>3 DEF WorkerEvidence
<1>4. \A u \in Targets : writes'[u] = 1 => Justified(u)'
  <2> SUFFICES ASSUME NEW u \in Targets \ {t}, writes[u] = 1
               PROVE  Justified(u)'
    OBVIOUS
  <2>1. Justified(u) /\ AllAttempts' = AllAttempts
    BY DEF EvidenceInv, AllAttempts
  <2> QED
    BY <2>1 DEF Justified
<1> QED
  BY <1>1, <1>2, <1>3, <1>4 DEF EvidenceInv

(* A worker that takes a job has not attempted anything yet. *)
LEMMA TakeKeepsEvidence ==
  ASSUME IInv, EvidenceInv, NEW w \in WorkerIds, TakeJob(w)
  PROVE  EvidenceInv'
<1>0. TypeOK /\ SlotInv /\ SlotTypes
  BY SlotTypesHold DEF IInv
<1>1. /\ taken' = taken + 1 /\ taken < sent /\ taken \in Nat
      /\ target' = [target EXCEPT ![w] = taken + 1]
      /\ port' = [port EXCEPT ![w] = 1]
      /\ pc' = [pc EXCEPT ![w] = FirstStep]
      /\ UNCHANGED <<strategy, results, writes, heard, tried>>
  BY <1>0 DEF TakeJob, Goto, SlotTypes, historyVars
<1> DEFINE t == taken + 1
<1>2. t \in Targets /\ t > taken /\ t <= taken'
  BY <1>0, <1>1, NumTargetsAssumption DEF SlotTypes, Targets
<1>3. writes[t] = 0 /\ tried[t] = {} /\ t \notin heard
  BY <1>0, <1>2 DEF SlotInv, EvidenceInv
<1>4. /\ pc'[w] = FirstStep /\ target'[w] = t /\ port'[w] = 1
      /\ target'[w] \notin heard' /\ tried'[target'[w]] = {}
      /\ strategy' = strategy
  BY <1>0, <1>1, <1>3 DEF TypeOK
<1>5. WorkerEvidence(w)'
  <2>1. CASE strategy \in {"icmp", "icmp_then_tcp"}
    <3>1. pc'[w] = "icmp"
      BY <1>4, <2>1 DEF FirstStep
    <3> QED
      BY <1>4, <2>1, <3>1 DEF WorkerEvidence, Before, Busy
  <2>2. CASE strategy = "none"
    <3>1. pc'[w] = "assume"
      BY <1>4, <2>2 DEF FirstStep
    <3> QED
      BY <1>4, <2>2, <3>1 DEF WorkerEvidence, Before, Busy
  <2>3. CASE strategy = "tcp"
    <3>1. pc'[w] = "tcp"
      BY <1>4, <2>3 DEF FirstStep
    <3>2. Before(w)' = {}
      <4>1. 1..(1 - 1) = {}
        OBVIOUS
      <4> QED
        BY <1>4, <2>3, <3>1, <4>1 DEF Before
    <3> QED
      BY <1>4, <2>3, <3>1, <3>2 DEF WorkerEvidence, Busy
  <2> QED
    BY <1>0, <2>1, <2>2, <2>3, StrategiesAssumption DEF TypeOK
<1>6. \A v \in WorkerIds \ {w} :
        /\ pc'[v] = pc[v] /\ port'[v] = port[v] /\ target'[v] = target[v]
        /\ Busy(v) => target[v] # t
  <2>1. \A v \in WorkerIds : Busy(v) => target[v] <= taken /\ target[v] \in Nat
    BY <1>0 DEF SlotInv, SlotTypes, Targets
  <2>2. \A v \in WorkerIds : target[v] # t \/ ~Busy(v)
    BY <1>1, <2>1
  <2> QED
    BY <1>0, <1>1, <2>2 DEF TypeOK
<1>7. results'[t].method \in {"icmp", "tcp"} => results'[t].alive /\ t \in heard'
  BY <1>1, <1>2 DEF EvidenceInv, AliveAnswered
<1> HIDE DEF t
<1> QED
  BY <1>0, <1>1, <1>2, <1>3, <1>5, <1>6, <1>7, OneTargetKeeps

(* What an attempt does to the evidence of its worker and of its target    *)
(* when it settles the check: t has answered, or was tried in every way.   *)
LEMMA SettledKeeps ==
  ASSUME IInv, EvidenceInv, NEW w \in WorkerIds, NEW r \in ResultSet, Busy(w),
         Write(w, r), UNCHANGED <<strategy, taken, target>>,
         \A u \in Targets \ {target[w]} :
           tried'[u] = tried[u] /\ (u \in heard' <=> u \in heard),
         r.method \in {"icmp", "tcp"} => r.alive /\ target[w] \in heard',
         r.err # "canceled" /\ ~r.alive =>
           tried'[target[w]] = AllAttempts /\ target[w] \notin heard'
  PROVE  EvidenceInv'
<1>0. TypeOK /\ SlotInv /\ target[w] \in Targets /\ target[w] <= taken
  BY DEF IInv, TypeOK, SlotInv
<1>1. /\ pc' = [pc EXCEPT ![w] = "range"] /\ port' = port
      /\ results' = [results EXCEPT ![target[w]] = r]
      /\ writes' = [writes EXCEPT ![target[w]] = @ + 1]
  BY DEF Write, Goto
<1>2. WorkerEvidence(w)'
  BY <1>0, <1>1 DEF TypeOK, WorkerEvidence, Busy
<1>3. results'[target[w]] = r
  BY <1>0, <1>1 DEF TypeOK
<1>4. AllAttempts' = AllAttempts
  BY DEF AllAttempts
<1>5. Justified(target[w])'
  BY <1>3, <1>4 DEF Justified
<1>6. \A u \in Targets \ {target[w]} : results'[u] = results[u] /\ writes'[u] = writes[u]
  BY <1>0, <1>1 DEF TypeOK
<1>7. \A v \in WorkerIds \ {w} :
        /\ pc'[v] = pc[v] /\ port'[v] = port[v] /\ target'[v] = target[v]
        /\ Busy(v) => target[v] # target[w]
  BY <1>0, <1>1 DEF TypeOK, SlotInv
<1> QED
  BY <1>0, <1>1, <1>2, <1>3, <1>5, <1>6, <1>7, OneTargetKeeps

(* ... and when the check goes on. *)
LEMMA OnwardKeeps ==
  ASSUME IInv, EvidenceInv, NEW w \in WorkerIds, Busy(w),
         UNCHANGED <<strategy, taken, target, results, writes, heard>>,
         pc' = [pc EXCEPT ![w] = "tcp"],
         \A v \in WorkerIds \ {w} : port'[v] = port[v],
         \A u \in Targets \ {target[w]} : tried'[u] = tried[u],
         strategy \in {"tcp", "icmp_then_tcp"},
         tried'[target[w]] = Before(w)'
  PROVE  EvidenceInv'
<1>0. TypeOK /\ SlotInv /\ target[w] \in Targets /\ target[w] <= taken
      /\ writes[target[w]] = 0
  BY DEF IInv, TypeOK, SlotInv
<1>1. pc'[w] = "tcp"
  BY <1>0 DEF TypeOK
<1>2. WorkerEvidence(w)'
  BY <1>1 DEF EvidenceInv, WorkerEvidence, Busy
<1>3. \A v \in WorkerIds \ {w} :
        /\ pc'[v] = pc[v] /\ port'[v] = port[v] /\ target'[v] = target[v]
        /\ Busy(v) => target[v] # target[w]
  BY <1>0 DEF TypeOK, SlotInv
<1>4. results'[target[w]].method \in {"icmp", "tcp"} =>
        results'[target[w]].alive /\ target[w] \in heard'
  BY <1>0 DEF EvidenceInv, AliveAnswered
<1> QED
  BY <1>0, <1>2, <1>3, <1>4, OneTargetKeeps

(* The history after an attempt. *)
LEMMA Recorded ==
  ASSUME TypeOK, NEW w \in WorkerIds, NEW attempt, NEW answered \in BOOLEAN,
         Record(w, attempt, answered)
  PROVE  /\ tried'[target[w]] = tried[target[w]] \cup {attempt}
         /\ \A u \in Targets \ {target[w]} :
              tried'[u] = tried[u] /\ (u \in heard' <=> u \in heard)
         /\ target[w] \in heard' <=> answered \/ target[w] \in heard
         /\ ~answered => heard' = heard
BY DEF TypeOK, Record

(* Every result that checkNone, checkICMP and checkTCP write. *)
LEMMA ResultsWritten ==
  /\ \A method \in {"none", "icmp", "tcp"} :
       /\ Result(TRUE, method, "none") \in ResultSet
       /\ Result(TRUE, method, "none").alive
       /\ Result(TRUE, method, "none").method = method
  /\ \A fail \in BOOLEAN :
       /\ Dead(fail) \in ResultSet
       /\ Dead(fail).method = "" /\ ~Dead(fail).alive
  /\ Canceled \in ResultSet /\ Canceled.method = "" /\ Canceled.err = "canceled"
BY DEF Result, Dead, Canceled, ResultSet

LEMMA CheckICMPKeepsEvidence ==
  ASSUME IInv, EvidenceInv, NEW w \in WorkerIds, CheckICMP(w)
  PROVE  EvidenceInv'
<1>0. /\ TypeOK /\ pc[w] = "icmp" /\ Busy(w) /\ target[w] \in Targets
      /\ strategy \in {"icmp", "icmp_then_tcp"} /\ port[w] = 1
      /\ target[w] \notin heard /\ tried[target[w]] = {}
      /\ UNCHANGED <<strategy, taken, target>>
  BY DEF CheckICMP, IInv, TypeOK, EvidenceInv, WorkerEvidence, Busy, Before
<1> PICK answer \in {"reply", "silence", "error"} :
      /\ Record(w, 0, answer = "reply")
      /\ IF answer = "reply" THEN Write(w, Result(TRUE, "icmp", "none"))
         ELSE IF cancelled THEN Write(w, Canceled)
         ELSE IF strategy = "icmp" THEN Write(w, Dead(answer = "error"))
         ELSE /\ failed' = [failed EXCEPT ![w] = answer = "error"]
              /\ Goto(w, "tcp")
              /\ UNCHANGED <<port, results, writes>>
  BY DEF CheckICMP
<1>1. (answer = "reply") \in BOOLEAN /\ (answer = "error") \in BOOLEAN
  OBVIOUS
<1>2. /\ tried'[target[w]] = {0}
      /\ \A u \in Targets \ {target[w]} :
           tried'[u] = tried[u] /\ (u \in heard' <=> u \in heard)
      /\ target[w] \in heard' <=> answer = "reply"
      /\ answer # "reply" => heard' = heard
  <2>1. Record(w, 0, answer = "reply")
    OBVIOUS
  <2>2. tried'[target[w]] = tried[target[w]] \cup {0}
    BY <1>0, <1>1, <2>1, Recorded
  <2>3. tried[target[w]] \cup {0} = {0}
    BY <1>0
  <2> QED
    BY <1>0, <1>1, <2>1, <2>2, <2>3, Recorded
<1>3. CASE answer = "reply"
  BY <1>0, <1>2, <1>3, SettledKeeps, ResultsWritten
<1>4. CASE answer # "reply" /\ cancelled
  BY <1>0, <1>2, <1>4, SettledKeeps, ResultsWritten
<1>5. CASE answer # "reply" /\ ~cancelled /\ strategy = "icmp"
  <2>1. AllAttempts = {0}
    BY <1>5 DEF AllAttempts
  <2> QED
    BY <1>0, <1>1, <1>2, <1>5, <2>1, SettledKeeps, ResultsWritten
<1>6. CASE answer # "reply" /\ ~cancelled /\ strategy # "icmp"
  <2>1. strategy = "icmp_then_tcp" /\ UNCHANGED <<port, results, writes>>
        /\ pc' = [pc EXCEPT ![w] = "tcp"]
    BY <1>0, <1>6 DEF Goto
  <2>2. Before(w)' = {0} \cup 1..(1 - 1)
    BY <1>0, <2>1 DEF Before, TypeOK
  <2>3. Before(w)' = {0}
    BY <2>2
  <2> QED
    BY <1>0, <1>2, <1>6, <2>1, <2>3, OnwardKeeps
<1> QED
  BY <1>3, <1>4, <1>5, <1>6

(* A direct dialer's errors come from the target itself. *)
LEMMA CheckTCPKeepsEvidence ==
  ASSUME ~Proxied, IInv, EvidenceInv, NEW w \in WorkerIds, CheckTCP(w)
  PROVE  EvidenceInv'
<1>0. /\ TypeOK /\ pc[w] = "tcp" /\ Busy(w) /\ target[w] \in Targets
      /\ strategy \in {"tcp", "icmp_then_tcp"} /\ port[w] \in Ports
      /\ target[w] \notin heard /\ tried[target[w]] = Before(w)
      /\ UNCHANGED <<strategy, taken, target>>
  BY DEF CheckTCP, IInv, TypeOK, EvidenceInv, WorkerEvidence, Busy
<1> DEFINE Ping == IF strategy = "icmp_then_tcp" THEN {0} ELSE {}
           Fail(outcome) ==
             failed[w] \/ outcome \in {"unreachable", "reported_refused"}
<1> PICK outcome \in Outcomes :
      /\ Record(w, port[w], TargetAnswered(outcome))
      /\ IF outcome = "connected" THEN Write(w, Result(TRUE, "tcp", "none"))
         ELSE IF cancelled THEN Write(w, Canceled)
         ELSE IF IsRefusal(outcome) THEN Write(w, Result(TRUE, "tcp", "none"))
         ELSE IF LastPort(w) THEN Write(w, Dead(Fail(outcome)))
         ELSE /\ failed' = [failed EXCEPT ![w] = Fail(outcome)]
              /\ port' = [port EXCEPT ![w] = @ + 1]
              /\ UNCHANGED <<pc, results, writes>>
  BY DEF CheckTCP
<1>1. /\ TargetAnswered(outcome) <=> outcome = "connected" \/ IsRefusal(outcome)
      /\ TargetAnswered(outcome) \in BOOLEAN /\ Fail(outcome) \in BOOLEAN
  <2>1. outcome \in {"connected", "timeout", "unreachable", "refused"}
    BY DEF Outcomes
  <2>2. failed[w] \in BOOLEAN
    BY <1>0 DEF TypeOK
  <2>3. Fail(outcome) \in BOOLEAN
    BY <2>2
  <2> HIDE DEF Fail
  <2> QED
    BY <2>1, <2>3 DEF TargetAnswered, IsRefusal
<1>2. /\ tried'[target[w]] = Before(w) \cup {port[w]}
      /\ \A u \in Targets \ {target[w]} :
           tried'[u] = tried[u] /\ (u \in heard' <=> u \in heard)
      /\ target[w] \in heard' <=> TargetAnswered(outcome)
      /\ ~TargetAnswered(outcome) => heard' = heard
  <2>1. Record(w, port[w], TargetAnswered(outcome))
    OBVIOUS
  <2> QED
    BY <1>0, <1>1, <2>1, Recorded
<1>3. Before(w) \cup {port[w]} = Ping \cup 1..port[w]
  <2>1. 1..(port[w] - 1) \cup {port[w]} = 1..port[w]
    BY <1>0, NumPortsAssumption DEF Ports
  <2> QED
    BY <1>0, <2>1 DEF Before
<1>4. CASE outcome = "connected" \/ (~cancelled /\ IsRefusal(outcome))
  <2>1. Write(w, Result(TRUE, "tcp", "none"))
    BY <1>4
  <2> QED
    BY <1>0, <1>1, <1>2, <1>4, <2>1, SettledKeeps, ResultsWritten
<1>5. CASE outcome # "connected" /\ cancelled
  <2>1. Write(w, Canceled)
    BY <1>5
  <2> QED
    BY <1>0, <1>2, <2>1, SettledKeeps, ResultsWritten
<1>6. CASE ~TargetAnswered(outcome) /\ ~cancelled /\ LastPort(w)
  <2>1. Write(w, Dead(Fail(outcome)))
    BY <1>1, <1>6
  <2>2. AllAttempts = Ping \cup 1..port[w]
    BY <1>0, <1>6 DEF AllAttempts, LastPort, Ports
  <2>3. tried'[target[w]] = AllAttempts
    BY <1>2, <1>3, <2>2
  <2> HIDE DEF Fail
  <2> QED
    BY <1>0, <1>1, <1>2, <1>6, <2>1, <2>3, SettledKeeps, ResultsWritten
<1>7. CASE ~TargetAnswered(outcome) /\ ~cancelled /\ ~LastPort(w)
  <2>1. port' = [port EXCEPT ![w] = @ + 1] /\ UNCHANGED <<pc, results, writes>>
    BY <1>1, <1>7
  <2>2. pc' = [pc EXCEPT ![w] = "tcp"]
    BY <1>0, <2>1 DEF TypeOK
  <2>3. port'[w] = port[w] + 1 /\ \A v \in WorkerIds \ {w} : port'[v] = port[v]
    BY <1>0, <2>1 DEF TypeOK
  <2>4. Before(w)' = Ping \cup 1..(port'[w] - 1)
    <3>1. pc'[w] = "tcp" /\ strategy' = strategy
      BY <1>0, <2>1
    <3> QED
      BY <3>1 DEF Before
  <2>5. port'[w] - 1 = port[w]
    BY <1>0, <2>3, NumPortsAssumption DEF Ports
  <2>6. tried'[target[w]] = Before(w)'
    BY <1>2, <1>3, <2>4, <2>5
  <2> QED
    BY <1>0, <1>2, <1>7, <2>1, <2>2, <2>3, <2>6, OnwardKeeps
<1> QED
  BY <1>1, <1>4, <1>5, <1>6, <1>7

(* A step that attempts and writes nothing. *)
LEMMA QuietKeepsEvidence ==
  ASSUME EvidenceInv,
         UNCHANGED <<strategy, taken, target, port, results, writes, heard, tried>>,
         \A w \in WorkerIds : pc'[w] = pc[w] \/ pc'[w] = "done"
  PROVE  EvidenceInv'
<1>1. \A w \in WorkerIds : WorkerEvidence(w)'
  BY DEF EvidenceInv, WorkerEvidence, Before, Busy
<1>2. AliveAnswered'
  BY DEF EvidenceInv, AliveAnswered
<1>3. \A t \in Targets : Justified(t) => Justified(t)'
  BY DEF Justified, AllAttempts
<1> QED
  BY <1>1, <1>2, <1>3 DEF EvidenceInv

LEMMA EvidenceStep ==
  ASSUME ~Proxied, IInv, EvidenceInv, [Next]_vars
  PROVE  EvidenceInv'
<1>0. TypeOK
  BY DEF IInv
<1>1. ASSUME NEW w \in WorkerIds, CheckNone(w)
      PROVE  EvidenceInv'
  <2>1. /\ Busy(w) /\ Write(w, Result(TRUE, "none", "none"))
        /\ UNCHANGED <<strategy, taken, target, heard, tried>>
    BY <1>1 DEF CheckNone, Busy, historyVars
  <2> QED
    BY <2>1, SettledKeeps, ResultsWritten
<1>2. ASSUME NEW w \in WorkerIds, JobsClosed(w)
      PROVE  EvidenceInv'
  <2>1. \A v \in WorkerIds : pc'[v] = pc[v] \/ pc'[v] = "done"
    BY <1>0, <1>2 DEF JobsClosed, Goto, TypeOK
  <2> QED
    BY <1>2, <2>1, QuietKeepsEvidence DEF JobsClosed, historyVars
<1>3. CASE CallerNext \/ Cancel \/ UNCHANGED vars
  <2>1. UNCHANGED <<strategy, taken, pc, target, port, results, writes, heard, tried>>
    BY <1>3 DEF CallerNext, SendJob, CloseJobs, Return, Cancel, vars, historyVars
  <2> QED
    BY <2>1, QuietKeepsEvidence
<1> QED
  BY <1>1, <1>2, <1>3, TakeKeepsEvidence, CheckICMPKeepsEvidence,
     CheckTCPKeepsEvidence DEF Next, WorkerNext

(* EvidenceInv holds throughout, for any number of targets, workers and    *)
(* ports, when targets are dialled directly.                               *)
THEOREM Evidence ==
  ASSUME ~Proxied
  PROVE  Spec => []EvidenceInv
<1>1. IInv /\ EvidenceInv /\ [Next]_vars => EvidenceInv'
  BY EvidenceStep
<1> QED
  BY EvidenceInit, <1>1, DiscoveryInvariant, PTL DEF Spec

(* With a direct dialer a target is found alive only by an answer of its   *)
(* own, in whatever order the workers attempt and write.  (The run         *)
(* discovery_proxy_refuses shows that this is false behind a proxy.)       *)
THEOREM FoundAliveAnswered ==
  ASSUME ~Proxied
  PROVE  Spec => []AliveAnswered
<1>1. EvidenceInv => AliveAnswered
  BY DEF EvidenceInv
<1> QED
  BY Evidence, <1>1, PTL

(* ... and a target that Discover gives up, so that the scan will skip it, *)
(* was pinged and dialled on every port as the strategy demands, and never *)
(* answered.                                                               *)
THEOREM FoundDeadWasSilent ==
  ASSUME ~Proxied
  PROVE  Spec => []DeadWasSilent
<1>1. IInv /\ EvidenceInv => DeadWasSilent
  <2> SUFFICES ASSUME IInv, EvidenceInv, caller = "returned", NEW t \in Targets,
                      ~results[t].alive
               PROVE  tried[t] = AllAttempts /\ t \notin heard
    BY DEF DeadWasSilent
  <2>1. sent = NumTargets /\ \A w \in WorkerIds : pc[w] = "done"
    BY DEF IInv, CallerInv, Ended
  <2>2. writes[t] = 1 /\ results[t].err # "canceled"
    BY <2>1, AllWritten DEF IInv, ResultInv
  <2> QED
    BY <2>2 DEF EvidenceInv, Justified
<1> QED
  BY Evidence, DiscoveryInvariant, <1>1, PTL

=============================================================================
