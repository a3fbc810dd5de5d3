---------------------------- MODULE ScanRunProofs ----------------------------
(***************************************************************************)
(* Proofs about Scanner, for every number of checks, workers and protocols *)
(* (type correctness, the inductive invariant ScanInv, and the safety      *)
(* properties that follow from it), and about ScanRun: the scan stage of   *)
(* run is a behaviour of Scanner with one consumer, so what is shown of a  *)
(* scan holds of it, and its statistics add up.                            *)
(***************************************************************************)
EXTENDS ScanRun, FiniteSetTheorems, TLAPS

(***************************************************************************)
(* The counters of the statistics: a closed port is counted with one kind  *)
(* of error, and the sums stay right.                                      *)
(***************************************************************************)

ErrorCounters == {"timeouts", "refused", "unreachable", "otherErrors"}

LEMMA OneMoreError ==
  ASSUME NEW old, NEW new, NEW counter \in ErrorCounters,
         \A k \in Counters : old[k] \in Nat,
         \A k \in Counters : new[k] = IF k \in {"completed", "closed", counter}
                                      THEN old[k] + 1 ELSE old[k],
         old["completed"] = old["open"] + old["closed"],
         old["closed"] = old["timeouts"] + old["refused"]
                         + old["unreachable"] + old["otherErrors"]
  PROVE  /\ new["completed"] = new["open"] + new["closed"]
         /\ new["closed"] = new["timeouts"] + new["refused"]
                            + new["unreachable"] + new["otherErrors"]
<1>1. /\ old["open"] \in Nat /\ new["open"] = old["open"]
      /\ old["closed"] \in Nat /\ new["closed"] = old["closed"] + 1
      /\ new["completed"] = old["completed"] + 1
  BY DEF Counters, ErrorCounters
<1>2. /\ old["timeouts"] \in Nat /\ old["refused"] \in Nat
      /\ old["unreachable"] \in Nat /\ old["otherErrors"] \in Nat
  BY DEF Counters
<1>3. \A k \in ErrorCounters : new[k] = IF k = counter THEN old[k] + 1 ELSE old[k]
  BY DEF Counters, ErrorCounters
<1>4. new["completed"] = new["open"] + new["closed"]
  BY <1>1
<1>5. new["timeouts"] + new["refused"] + new["unreachable"] + new["otherErrors"]
      = old["timeouts"] + old["refused"] + old["unreachable"] + old["otherErrors"] + 1
  BY <1>2, <1>3 DEF ErrorCounters
<1> QED
  BY <1>1, <1>4, <1>5

(***************************************************************************)
(* The scan.                                                               *)
(***************************************************************************)

USE NumChecksAssumption, ProtocolsAssumption, DialErrorsAssumption
    DEF contextVars

(* The effective number of workers is positive and at most the number of   *)
(* checks (New).                                                           *)
LEMMA CapType ==
  ASSUME TypeOK
  PROVE  Cap \in Nat /\ 1 <= Cap /\ Cap <= NumChecks
  BY ConfigsAssumption DEF TypeOK, Cap, NumWorkers

(* No step changes the configuration, so the workers stay the same.        *)
LEMMA ConfigKept ==
  ASSUME Next \/ UNCHANGED vars
  PROVE  config' = config
<1>1. CASE FeederNext
  BY <1>1 DEF FeederNext, FeederSend, FeederReturn, CloseEvents
<1>2. ASSUME NEW w \in WorkerIds, WorkerNext(w)
      PROVE  config' = config
  BY <1>2 DEF WorkerNext, Take, Drained, Abandon, EmitChecking, EmitVerdict,
              DialOpen, DialFail, DialCancelled, Probe, RedialOpen, RedialFail,
              RedialCancelled, Inspect
<1>3. CASE Receive \/ Expire \/ Cancel \/ Terminated \/ UNCHANGED vars
  BY <1>3 DEF Receive, Expire, Cancel, Terminated, vars
<1> QED
  BY <1>1, <1>2, <1>3 DEF Next, ScanNext

LEMMA WorkersKept ==
  ASSUME [Next]_vars
  PROVE  WorkerIds' = WorkerIds /\ Cap' = Cap
  BY ConfigKept DEF WorkerIds, Cap, NumWorkers

(* The events that a worker sends are events. *)
LEMMA EventTypes ==
  ASSUME TypeOK, NEW w \in WorkerIds
  PROVE  /\ [kind |-> "checking", check |-> check[w], err |-> "none",
             probes |-> <<>>] \in Events
         /\ Verdict(w) \in Events
<1>1. check[w] \in Checks /\ err[w] \in VerdictErrors
      /\ probes[w] \in Seq(ProbeResults)
  BY DEF TypeOK
<1>2. <<>> \in Seq(ProbeResults)
  OBVIOUS
<1>3. "none" \in VerdictErrors /\ "checking" \in Kinds /\ "open" \in Kinds
      /\ "closed" \in Kinds
  BY DEF VerdictErrors, Kinds
<1>4. (IF err[w] = "none" THEN "open" ELSE "closed") \in Kinds
  BY <1>3
<1> QED
  BY <1>1, <1>2, <1>3, <1>4 DEF Events, Verdict

(* The dials and handshakes of the environment stay in their types. *)
LEMMA OutcomeTypes ==
  /\ DialOutcomes \subseteq VerdictErrors
  /\ RunOutcomes \subseteq ProbeResults
  BY DEF DialOutcomes, RunOutcomes, VerdictErrors, ProbeResults

LEMMA AddResultType ==
  ASSUME TypeOK, NEW w \in WorkerIds, NEW result \in ProbeResults,
         AddResult(w, result)
  PROVE  /\ probes' \in [WorkerIds -> Seq(ProbeResults)]
         /\ pc' \in [WorkerIds -> PCs]
<1>1. probes[w] \in Seq(ProbeResults)
  BY DEF TypeOK
<1>2. Append(probes[w], result) \in Seq(ProbeResults)
  BY <1>1
<1> QED
  BY <1>2 DEF AddResult, NextProbe, Goto, TypeOK, PCs

-----------------------------------------------------------------------------

LEMMA TypeInit == Init => TypeOK
<1>1. 1 \in Checks
  BY DEF Checks
<1>2. <<>> \in Seq(ProbeResults) /\ <<>> \in Seq(Events)
  OBVIOUS
<1>3. SUFFICES ASSUME Init PROVE TypeOK
  OBVIOUS
<1>4. probes \in [WorkerIds -> Seq(ProbeResults)] /\ log \in Seq(Events)
  BY <1>2, <1>3, Zenon DEF Init
<1>5. /\ pc \in [WorkerIds -> PCs]
      /\ check \in [WorkerIds -> Checks]
      /\ conn \in [WorkerIds -> BOOLEAN]
      /\ err \in [WorkerIds -> VerdictErrors]
  BY <1>1, <1>3 DEF Init, PCs, VerdictErrors
<1>6. /\ config \in Configs /\ cancelled = FALSE /\ expired = FALSE /\ feeder = "sending"
      /\ sent = 0 /\ taken = 0 /\ read = 0
  BY <1>3, Zenon DEF Init
<1>7. sent \in 0..NumChecks /\ taken \in 0..NumChecks /\ read \in Nat
  BY <1>6
<1>8. /\ cancelled \in BOOLEAN /\ expired \in BOOLEAN
      /\ feeder \in {"sending", "waiting", "closed"}
  BY <1>6
<1> QED
  BY <1>4, <1>5, <1>6, <1>7, <1>8, Zenon DEF TypeOK

LEMMA TypeStep ==
  ASSUME TypeOK, Next
  PROVE  TypeOK'
<1> USE DEF TypeOK
<1>k. WorkerIds' = WorkerIds /\ Cap' = Cap
  BY WorkersKept
<1> USE <1>k
<1>1. CASE FeederNext
  BY <1>1 DEF FeederNext, FeederSend, FeederReturn, CloseEvents, workerVars
<1>2. ASSUME NEW w \in WorkerIds, WorkerNext(w)
      PROVE  TypeOK'
  <2> USE <1>2 DEF feederVars
  <2>1. CASE Take(w)
    <3>1. taken + 1 \in Checks /\ taken + 1 \in 0..NumChecks
      BY <2>1 DEF Take, Checks
    <3> QED
      BY <2>1, <3>1 DEF Take, Goto, PCs, VerdictErrors
  <2>2. CASE Drained(w) \/ Abandon(w) \/ DialCancelled(w)
             \/ RedialCancelled(w) \/ Inspect(w)
    BY <2>2 DEF Drained, Abandon, DialCancelled, RedialCancelled, Inspect,
                Goto, PCs
  <2>3. CASE EmitChecking(w)
    <3> DEFINE event == [kind |-> "checking", check |-> check[w],
                         err |-> "none", probes |-> <<>>]
    <3>1. event \in Events
      BY EventTypes
    <3>2. log' = Append(log, event) /\ log \in Seq(Events)
      BY <2>3 DEF EmitChecking
    <3> HIDE DEF event
    <3>3. log' \in Seq(Events)
      BY <3>1, <3>2
    <3> QED
      BY <2>3, <3>3 DEF EmitChecking, Goto, PCs
  <2>4. CASE EmitVerdict(w)
    <3>1. Verdict(w) \in Events
      BY EventTypes
    <3>2. log' \in Seq(Events)
      BY <2>4, <3>1 DEF EmitVerdict
    <3> QED
      BY <2>4, <3>2 DEF EmitVerdict, Goto, PCs
  <2>5. CASE DialOpen(w)
    BY <2>5 DEF DialOpen, Goto, PCs
  <2>6. CASE DialFail(w)
    BY <2>6, OutcomeTypes DEF DialFail, Goto, PCs
  <2>7. CASE Probe(w)
    BY <2>7, OutcomeTypes, AddResultType DEF Probe
  <2>8. CASE RedialOpen(w)
    BY <2>8 DEF RedialOpen, Goto, PCs
  <2>9. CASE RedialFail(w)
    BY <2>9, AddResultType DEF RedialFail, ProbeResults
  <2> QED
    BY <1>2, <2>1, <2>2, <2>3, <2>4, <2>5, <2>6, <2>7, <2>8, <2>9
       DEF WorkerNext
<1>3. CASE Receive
  BY <1>3 DEF Receive, feederVars, workerVars
<1>4. CASE Expire \/ Cancel
  BY <1>4 DEF Expire, Cancel, feederVars, workerVars
<1>5. CASE Terminated
  BY <1>5 DEF Terminated, vars, feederVars, workerVars
<1> QED
  BY <1>1, <1>2, <1>3, <1>4, <1>5 DEF Next, ScanNext

LEMMA TypeStutter ==
  ASSUME TypeOK, UNCHANGED vars
  PROVE  TypeOK'
  BY WorkersKept DEF TypeOK, vars, feederVars, workerVars

(* Every variable keeps its type. *)
THEOREM TypeCorrect == Spec => []TypeOK
<1>1. TypeOK /\ [Next]_vars => TypeOK'
  BY TypeStep, TypeStutter
<1> QED
  BY TypeInit, <1>1, PTL DEF Spec

-----------------------------------------------------------------------------
(* What a step of a worker can do to the shared state: it takes a target,  *)
(* sends an event, leaves, or moves on inside its check.                   *)

Leaves(w) ==
  /\ pc'[w] = "done"
  /\ cancelled \/ (pc[w] = "select" /\ feeder # "sending" /\ taken = sent)
  /\ UNCHANGED <<taken, log>>

MovesOn(w) ==
  /\ pc[w] \in {"dial", "probe", "redial", "inspect"}
  /\ pc'[w] \in {"probe", "redial", "inspect", "report"}
  /\ UNCHANGED <<taken, log>>

LEMMA WorkerMoves ==
  ASSUME TypeOK, NEW w \in WorkerIds, WorkerNext(w)
  PROVE  /\ UNCHANGED <<cancelled, feeder, sent, read>>
         /\ \A v \in WorkerIds \ {w} : pc'[v] = pc[v] /\ check'[v] = check[v]
         /\ Take(w) \/ check' = check
         /\ Take(w) \/ EmitChecking(w) \/ EmitVerdict(w) \/ Leaves(w)
              \/ MovesOn(w)
<1> USE DEF TypeOK, feederVars, Goto
<1>1. CASE Take(w)
  BY <1>1 DEF Take
<1>2. CASE Drained(w) \/ Abandon(w) \/ DialCancelled(w)
  BY <1>2 DEF Drained, Abandon, DialCancelled, Leaves
<1>3. CASE EmitChecking(w)
  BY <1>3 DEF EmitChecking
<1>4. CASE EmitVerdict(w)
  BY <1>4 DEF EmitVerdict
<1>5. CASE DialOpen(w) \/ DialFail(w)
  BY <1>5 DEF DialOpen, DialFail, MovesOn
<1>6. CASE Probe(w)
  BY <1>6 DEF Probe, AddResult, NextProbe, MovesOn
<1>7. CASE RedialFail(w)
  BY <1>7 DEF RedialFail, AddResult, NextProbe, MovesOn
<1>8. CASE RedialOpen(w) \/ RedialCancelled(w)
  BY <1>8 DEF RedialOpen, RedialCancelled, MovesOn
<1>9. CASE Inspect(w)
  BY <1>9 DEF Inspect, MovesOn, Leaves
<1> QED
  BY <1>1, <1>2, <1>3, <1>4, <1>5, <1>6, <1>7, <1>8, <1>9 DEF WorkerNext

(* Sending an event lengthens the log by that event. *)
LEMMA LogGrows ==
  ASSUME TypeOK, NEW e \in Events, log' = Append(log, e)
  PROVE  /\ Len(log) \in Nat
         /\ Len(log') = Len(log) + 1
         /\ \A i \in 1..Len(log) : log'[i] = log[i]
         /\ log'[Len(log) + 1] = e
  BY DEF TypeOK

(* The steps that are not a worker's, as far as the invariant can tell. *)
OtherNext == FeederNext \/ Receive \/ Expire \/ Cancel \/ UNCHANGED vars

LEMMA Steps ==
  ASSUME [Next]_vars
  PROVE  OtherNext \/ \E w \in WorkerIds : WorkerNext(w)
  BY DEF Next, ScanNext, OtherNext, Terminated

LEMMA OtherFrame ==
  ASSUME TypeOK, OtherNext
  PROVE  /\ UNCHANGED <<workerVars, log>>
         /\ cancelled => cancelled'
  BY DEF OtherNext, FeederNext, FeederSend, FeederReturn, CloseEvents,
         Receive, Expire, Cancel, vars, feederVars, workerVars, TypeOK

-----------------------------------------------------------------------------
(* ChannelInv. *)

LEMMA ChannelStep ==
  ASSUME TypeOK, ChannelInv, [Next]_vars
  PROVE  ChannelInv'
<1> USE CapType DEF TypeOK, ChannelInv, workerVars, feederVars
<1>k. WorkerIds' = WorkerIds /\ Cap' = Cap
  BY WorkersKept
<1> USE <1>k
<1>1. CASE FeederSend
  BY <1>1 DEF FeederSend
<1>2. CASE FeederReturn
  BY <1>2 DEF FeederReturn
<1>3. CASE CloseEvents
  BY <1>3 DEF CloseEvents
<1>4. CASE Receive
  BY <1>4 DEF Receive
<1>5. CASE Expire \/ Cancel \/ UNCHANGED vars
  BY <1>5 DEF Expire, Cancel, vars
<1>6. ASSUME NEW w \in WorkerIds, WorkerNext(w)
      PROVE  ChannelInv'
  <2>1. /\ UNCHANGED <<cancelled, feeder, sent, read>>
        /\ \A v \in WorkerIds \ {w} : pc'[v] = pc[v]
    BY <1>6, WorkerMoves
  <2>2. CASE Take(w)
    BY <1>6, <2>1, <2>2 DEF Take, Goto
  <2>3. CASE EmitChecking(w) \/ EmitVerdict(w)
    <3>1. PICK e \in Events : log' = Append(log, e)
      BY <1>6, <2>3, EventTypes DEF EmitChecking, EmitVerdict
    <3>2. Len(log') = Len(log) + 1 /\ Len(log) \in Nat
      BY <3>1, LogGrows
    <3>3. /\ HasRoom
          /\ pc[w] # "done" /\ pc'[w] # "done"
          /\ taken' = taken
      BY <1>6, <2>3 DEF EmitChecking, EmitVerdict, Goto
    <3> QED
      BY <1>6, <2>1, <3>2, <3>3 DEF HasRoom
  <2>4. CASE Leaves(w)
    BY <1>6, <2>1, <2>4 DEF Leaves
  <2>5. CASE MovesOn(w)
    BY <1>6, <2>1, <2>5 DEF MovesOn
  <2> QED
    BY <1>6, <2>2, <2>3, <2>4, <2>5, WorkerMoves
<1> QED
  BY <1>1, <1>2, <1>3, <1>4, <1>5, <1>6, Steps DEF OtherNext, FeederNext

-----------------------------------------------------------------------------
(* OwnerInv. *)

LEMMA OwnerStep ==
  ASSUME TypeOK, OwnerInv, [Next]_vars
  PROVE  OwnerInv'
<1> USE DEF TypeOK, OwnerInv, Active
<1>k. WorkerIds' = WorkerIds /\ Cap' = Cap
  BY WorkersKept
<1> USE <1>k
<1>1. CASE OtherNext
  BY <1>1, OtherFrame DEF workerVars
<1>2. ASSUME NEW w \in WorkerIds, WorkerNext(w)
      PROVE  OwnerInv'
  <2>1. /\ \A v \in WorkerIds \ {w} : pc'[v] = pc[v] /\ check'[v] = check[v]
        /\ Take(w) \/ check' = check
    BY <1>2, WorkerMoves
  <2>2. CASE Take(w)
    <3>1. /\ taken \in Int /\ taken' = taken + 1
          /\ check'[w] = taken + 1
      BY <2>2 DEF Take
    <3>2. ASSUME NEW v \in WorkerIds \ {w}, Active(v)'
          PROVE  check'[v] = check[v] /\ check[v] <= taken /\ Active(v)
      BY <2>1, <3>2
    <3>3. \A v \in WorkerIds \ {w} : check[v] \in Int
      BY DEF Checks
    <3>4. ASSUME NEW v \in WorkerIds, Active(v)'
          PROVE  check'[v] <= taken'
      <4>1. CASE v = w
        BY <3>1, <4>1
      <4>2. CASE v # w
        <5>1. check'[v] = check[v] /\ check[v] <= taken /\ check[v] \in Int
          BY <3>2, <3>3, <3>4, <4>2
        <5> QED
          BY <3>1, <5>1
      <4> QED
        BY <4>1, <4>2
    <3>5. ASSUME NEW v \in WorkerIds, NEW u \in WorkerIds, u # v,
                 Active(v)', Active(u)'
          PROVE  check'[v] # check'[u]
      <4>1. CASE v # w /\ u # w
        BY <3>2, <3>5, <4>1
      <4>2. CASE v = w \/ u = w
        BY <3>1, <3>2, <3>3, <3>5, <4>2
      <4> QED
        BY <4>1, <4>2
    <3> QED
      BY <3>4, <3>5
  <2>3. CASE EmitChecking(w)
    BY <1>2, <2>1, <2>3 DEF EmitChecking, Goto
  <2>4. CASE EmitVerdict(w)
    BY <1>2, <2>1, <2>4 DEF EmitVerdict, Goto
  <2>5. CASE Leaves(w) /\ check' = check
    BY <1>2, <2>1, <2>5 DEF Leaves
  <2>6. CASE MovesOn(w) /\ check' = check
    <3>1. \A v \in WorkerIds : Active(v)' => Active(v)
      BY <2>1, <2>6 DEF MovesOn
    <3> QED
      BY <2>6, <3>1 DEF MovesOn
  <2> QED
    BY <1>2, <2>1, <2>2, <2>3, <2>4, <2>5, <2>6, WorkerMoves
<1> QED
  BY <1>1, <1>2, Steps

-----------------------------------------------------------------------------
(* HandInv. *)

LEMMA HandFrame ==
  ASSUME TypeOK, NEW w \in WorkerIds, WorkerNext(w),
         NEW v \in WorkerIds \ {w}
  PROVE  UNCHANGED <<cancelled, pc[v], check[v], conn[v], err[v], probes[v]>>
<1> USE DEF TypeOK, Goto
<1>1. CASE Take(w)
  BY <1>1 DEF Take
<1>2. CASE Drained(w) \/ Abandon(w) \/ DialCancelled(w) \/ EmitChecking(w)
           \/ EmitVerdict(w) \/ DialOpen(w) \/ DialFail(w)
           \/ RedialOpen(w) \/ RedialCancelled(w) \/ Inspect(w)
  BY <1>2 DEF Drained, Abandon, DialCancelled, EmitChecking, EmitVerdict,
              DialOpen, DialFail, RedialOpen, RedialCancelled, Inspect
<1>3. CASE Probe(w) \/ RedialFail(w)
  BY <1>3 DEF Probe, RedialFail, AddResult, NextProbe
<1> QED
  BY <1>1, <1>2, <1>3 DEF WorkerNext

(* One more result is appended, and it is not "interrupted" unless the     *)
(* context is cancelled.                                                   *)
LEMMA ResultStep ==
  ASSUME TypeOK, NEW w \in WorkerIds, Hand(w),
         pc[w] \in {"probe", "redial"}, UNCHANGED <<cancelled, check, err>>,
         ~conn'[w],
         NEW result \in ProbeResults, AddResult(w, result),
         result = "interrupted" => cancelled
  PROVE  Hand(w)'
<1> DEFINE s == probes[w]
           t == probes'[w]
           n == Protocols[check[w]]
<1>1. s \in Seq(ProbeResults) /\ n \in Nat
  BY DEF TypeOK, Checks
<1>2. t = Append(s, result)
  BY DEF AddResult, TypeOK
<1>3. /\ Len(t) = Len(s) + 1 /\ Len(s) \in Nat
      /\ \A k \in 1..Len(s) : t[k] = s[k]
      /\ t[Len(s) + 1] = result
  BY <1>1, <1>2
<1>4. Len(s) < n /\ err[w] = "none"
  BY DEF Hand
<1>5. pc'[w] = IF Len(s) + 1 < n THEN "redial" ELSE "inspect"
  BY DEF AddResult, NextProbe, Goto, TypeOK
<1>6. ~cancelled => \A k \in 1..Len(s) : s[k] # "interrupted"
  BY DEF Hand
<1> HIDE DEF s, t, n
<1>7. ~cancelled => \A k \in 1..Len(t) : t[k] # "interrupted"
  BY <1>3, <1>6
<1>8. CASE Len(s) + 1 < n
  <2>1. pc'[w] = "redial" /\ Len(t) < n
    BY <1>3, <1>5, <1>8
  <2> QED
    BY <2>1, <1>4, <1>7 DEF Hand, t, n
<1>9. CASE ~(Len(s) + 1 < n)
  <2>1. pc'[w] = "inspect" /\ Len(t) = n
    BY <1>1, <1>3, <1>4, <1>5, <1>9
  <2> QED
    BY <2>1, <1>4, <1>7 DEF Hand, t, n
<1> QED
  BY <1>8, <1>9

LEMMA HandStep ==
  ASSUME TypeOK, HandInv, [Next]_vars
  PROVE  HandInv'
<1>k. WorkerIds' = WorkerIds /\ Cap' = Cap
  BY WorkersKept
<1> USE <1>k
<1>1. CASE OtherNext
  <2>1. UNCHANGED workerVars /\ (cancelled => cancelled')
    BY <1>1, OtherFrame
  <2> QED
    BY <2>1 DEF HandInv, Hand, workerVars
<1>2. ASSUME NEW w \in WorkerIds, WorkerNext(w)
      PROVE  HandInv'
  <2>1. ASSUME NEW v \in WorkerIds \ {w}
        PROVE  Hand(v)'
    <3>1. UNCHANGED <<cancelled, pc[v], check[v], conn[v], err[v], probes[v]>>
      BY <1>2, HandFrame
    <3>2. Hand(v)
      BY DEF HandInv
    <3> QED
      BY <3>1, <3>2 DEF Hand
  <2>2. Hand(w)'
    <3>1. Hand(w)
      BY DEF HandInv
    <3> USE <3>1 DEF TypeOK, Goto
    <3>2. CASE Take(w)
      BY <3>2 DEF Take, Hand
    <3>3. CASE Drained(w) \/ Abandon(w) \/ DialCancelled(w)
      BY <3>3 DEF Drained, Abandon, DialCancelled, Hand
    <3>4. CASE EmitChecking(w) \/ EmitVerdict(w)
      BY <3>4 DEF EmitChecking, EmitVerdict, Hand
    <3>5. CASE DialOpen(w)
      <4>1. /\ Protocols[check[w]] \in Nat
            /\ probes'[w] = <<>> /\ Len(probes'[w]) = 0 /\ err'[w] = "none"
            /\ check' = check
        BY <3>5 DEF DialOpen, Hand, Checks
      <4>2. CASE Protocols[check[w]] = 0
        BY <3>5, <4>1, <4>2 DEF DialOpen, Hand
      <4>3. CASE Protocols[check[w]] # 0
        BY <3>5, <4>1, <4>3 DEF DialOpen, Hand
      <4> QED
        BY <4>2, <4>3
    <3>6. CASE DialFail(w)
      <4>1. "none" \notin DialOutcomes
        BY DEF DialOutcomes
      <4> QED
        BY <3>6, <4>1 DEF DialFail, Hand
    <3>7. CASE Probe(w)
      <4>1. PICK result \in RunOutcomes : AddResult(w, result)
        BY <3>7 DEF Probe
      <4>2. result \in ProbeResults /\ (result = "interrupted" => cancelled)
        BY OutcomeTypes DEF RunOutcomes
      <4>3. /\ pc[w] = "probe" /\ ~conn'[w]
            /\ UNCHANGED <<cancelled, check, err>>
        BY <3>7 DEF Probe
      <4> QED
        BY <4>1, <4>2, <4>3, ResultStep
    <3>8. CASE RedialFail(w)
      <4>1. PICK result \in {"failed", "cut"} : AddResult(w, result)
        BY <3>8 DEF RedialFail
      <4>2. /\ pc[w] = "redial" /\ ~conn'[w]
            /\ UNCHANGED <<cancelled, check, err>>
        BY <3>8 DEF RedialFail, Hand
      <4>3. result \in ProbeResults /\ result # "interrupted"
        BY DEF ProbeResults
      <4> QED
        BY <4>1, <4>2, <4>3, ResultStep
    <3>9. CASE RedialOpen(w)
      BY <3>9 DEF RedialOpen, Hand
    <3>10. CASE RedialCancelled(w) \/ Inspect(w)
      BY <3>10 DEF RedialCancelled, Inspect, Hand
    <3> QED
      BY <1>2, <3>2, <3>3, <3>4, <3>5, <3>6, <3>7, <3>8, <3>9, <3>10
         DEF WorkerNext
  <2> QED
    BY <2>1, <2>2 DEF HandInv
<1> QED
  BY <1>1, <1>2, Steps

-----------------------------------------------------------------------------
(* LogInv, CoverInv and the properties of the log.  An event that is       *)
(* appended is the only one that the log gains.                            *)

LEMMA LogChange ==
  ASSUME TypeOK, NEW e \in Events, log' = Append(log, e)
  PROVE  /\ \A c \in Checks : Announced(c)' <=>
              Announced(c) \/ (e.kind = "checking" /\ e.check = c)
         /\ \A c \in Checks : HasVerdict(c)' <=>
              HasVerdict(c) \/ (e.kind \in {"open", "closed"} /\ e.check = c)
<1> DEFINE n == Len(log)
<1>1. /\ n \in Nat /\ Len(log') = n + 1
      /\ \A i \in 1..n : log'[i] = log[i]
      /\ log'[n + 1] = e
  BY LogGrows
<1> HIDE DEF n
<1>2. ASSUME NEW c \in Checks
      PROVE  Announced(c)' <=>
               Announced(c) \/ (e.kind = "checking" /\ e.check = c)
  <2>1. Announced(c)' <=> \E i \in 1..(n + 1) : log'[i].kind = "checking"
                                                /\ log'[i].check = c
    BY <1>1 DEF Announced
  <2>2. Announced(c) <=> \E i \in 1..n : log[i].kind = "checking"
                                         /\ log[i].check = c
    BY DEF Announced, n
  <2> QED
    BY <1>1, <2>1, <2>2
<1>3. ASSUME NEW c \in Checks
      PROVE  HasVerdict(c)' <=>
               HasVerdict(c) \/ (e.kind \in {"open", "closed"} /\ e.check = c)
  <2>1. HasVerdict(c)' <=> \E i \in 1..(n + 1) :
          log'[i].kind \in {"open", "closed"} /\ log'[i].check = c
    BY <1>1 DEF HasVerdict, IsVerdict
  <2>2. HasVerdict(c) <=> \E i \in 1..n :
          log[i].kind \in {"open", "closed"} /\ log[i].check = c
    BY DEF HasVerdict, IsVerdict, n
  <2> QED
    BY <1>1, <2>1, <2>2
<1> QED
  BY <1>2, <1>3

LEMMA LogSame ==
  ASSUME log' = log
  PROVE  \A c \in Checks : /\ Announced(c)' <=> Announced(c)
                           /\ HasVerdict(c)' <=> HasVerdict(c)
  BY DEF Announced, HasVerdict, IsVerdict

(* The two kinds of events a worker appends, and what it does besides. *)
LEMMA Emission ==
  ASSUME TypeOK, NEW w \in WorkerIds, EmitChecking(w) \/ EmitVerdict(w)
  PROVE  \E e \in Events :
           /\ log' = Append(log, e)
           /\ e.check = check[w]
           /\ UNCHANGED <<taken, check>>
           /\ \/ /\ EmitChecking(w)
                 /\ e.kind = "checking"
                 /\ pc[w] = "announce" /\ pc'[w] = "dial"
              \/ /\ EmitVerdict(w)
                 /\ e = Verdict(w)
                 /\ e.kind \in {"open", "closed"}
                 /\ pc[w] = "report" /\ pc'[w] = "select"
<1>1. CASE EmitChecking(w)
  <2> DEFINE e == [kind |-> "checking", check |-> check[w], err |-> "none",
                   probes |-> <<>>]
  <2>1. e \in Events
    BY EventTypes
  <2>2. e.kind = "checking" /\ e.check = check[w]
    OBVIOUS
  <2>3. log' = Append(log, e) /\ UNCHANGED <<taken, check>>
        /\ pc[w] = "announce" /\ pc'[w] = "dial"
    BY <1>1 DEF EmitChecking, Goto, TypeOK
  <2> HIDE DEF e
  <2> QED
    BY <1>1, <2>1, <2>2, <2>3
<1>2. CASE EmitVerdict(w)
  <2>1. Verdict(w) \in Events
    BY EventTypes
  <2>2. Verdict(w).kind \in {"open", "closed"} /\ Verdict(w).check = check[w]
    BY DEF Verdict
  <2>3. log' = Append(log, Verdict(w)) /\ UNCHANGED <<taken, check>>
        /\ pc[w] = "report" /\ pc'[w] = "select"
    BY <1>2 DEF EmitVerdict, Goto, TypeOK
  <2> QED
    BY <1>2, <2>1, <2>2, <2>3
<1> QED
  BY <1>1, <1>2

LEMMA LogTypes ==
  ASSUME TypeOK
  PROVE  \A i \in 1..Len(log) : log[i] \in Events /\ log[i].check \in Checks
<1>1. \A i \in 1..Len(log) : log[i] \in Events
  BY DEF TypeOK
<1> QED
  BY <1>1 DEF Events

(* An event about a target that was taken keeps the log within them.       *)
LEMMA LogBound ==
  ASSUME TypeOK, NEW e \in Events, log' = Append(log, e), e.check <= taken,
         \A i \in 1..Len(log) : log[i].check <= taken
  PROVE  \A i \in 1..Len(log') : log'[i].check <= taken
  BY LogGrows

LEMMA LogStep ==
  ASSUME TypeOK, OwnerInv, LogInv, [Next]_vars
  PROVE  LogInv'
<1> USE DEF LogInv
<1>k. WorkerIds' = WorkerIds /\ Cap' = Cap
  BY WorkersKept
<1> USE <1>k
<1>1. CASE OtherNext
  BY <1>1, OtherFrame
     DEF workerVars, Active, Announced, HasVerdict, IsVerdict
<1>2. ASSUME NEW w \in WorkerIds, WorkerNext(w)
      PROVE  LogInv'
  <2> USE DEF Active
  <2>0. /\ \A v \in WorkerIds : check[v] \in Checks
        /\ taken \in Nat
    BY DEF TypeOK
  <2>1. /\ \A v \in WorkerIds \ {w} : pc'[v] = pc[v] /\ check'[v] = check[v]
        /\ Take(w) \/ check' = check
    BY <1>2, WorkerMoves
  <2>2. CASE Take(w)
    <3>1. /\ taken' = taken + 1 /\ check'[w] = taken + 1 /\ log' = log
          /\ pc'[w] = "announce" /\ taken + 1 \in Checks
      BY <1>2, <2>2 DEF Take, Goto, TypeOK, Checks
    <3>2. ~Announced(taken + 1) /\ ~HasVerdict(taken + 1)
      BY <2>0 DEF Announced, HasVerdict
    <3>3. \A c \in Checks : /\ Announced(c)' <=> Announced(c)
                            /\ HasVerdict(c)' <=> HasVerdict(c)
      BY <3>1, LogSame
    <3>4. \A i \in 1..Len(log') : log'[i].check <= taken'
      <4>1. \A i \in 1..Len(log) : log[i].check \in Nat
        BY LogTypes DEF Checks
      <4> QED
        BY <2>0, <3>1, <4>1
    <3> QED
      BY <2>0, <2>1, <3>1, <3>2, <3>3, <3>4 DEF TypeOK
  <2>3. CASE EmitChecking(w) \/ EmitVerdict(w)
    <3>1. PICK e \in Events :
           /\ log' = Append(log, e)
           /\ e.check = check[w]
           /\ UNCHANGED <<taken, check>>
           /\ \/ /\ e.kind = "checking"
                 /\ pc[w] = "announce" /\ pc'[w] = "dial"
              \/ /\ e.kind \in {"open", "closed"}
                 /\ pc[w] = "report" /\ pc'[w] = "select"
      BY <1>2, <2>3, Emission
    <3>2. \A i \in 1..Len(log') : log'[i].check <= taken'
      BY <1>2, <2>0, <3>1, LogBound DEF OwnerInv
    <3>3. \A v \in WorkerIds \ {w} : Active(v) => check[v] # check[w]
      BY <3>1 DEF OwnerInv
    <3>4. \A c \in Checks :
            /\ Announced(c)' <=>
                 Announced(c) \/ (e.kind = "checking" /\ e.check = c)
            /\ HasVerdict(c)' <=>
                 HasVerdict(c) \/ (e.kind \in {"open", "closed"} /\ e.check = c)
      BY <3>1, LogChange
    <3>5. ASSUME NEW v \in WorkerIds \ {w}
          PROVE  /\ pc'[v] = "announce" => ~Announced(check[v])'
                 /\ Active(v)' => ~HasVerdict(check[v])'
                 /\ Active(v)' /\ pc'[v] # "announce" => Announced(check[v])'
      BY <2>0, <2>1, <3>1, <3>3, <3>4
    <3>6. /\ pc'[w] = "announce" => ~Announced(check[w])'
          /\ Active(w)' => ~HasVerdict(check[w])'
          /\ Active(w)' /\ pc'[w] # "announce" => Announced(check[w])'
      BY <2>0, <3>1, <3>4
    <3>7. \A v \in WorkerIds :
            /\ pc'[v] = "announce" => ~Announced(check[v])'
            /\ Active(v)' => ~HasVerdict(check[v])'
            /\ Active(v)' /\ pc'[v] # "announce" => Announced(check[v])'
      BY <3>5, <3>6
    <3> QED
      BY <3>2, <3>1, <3>7
  <2>4. CASE Leaves(w) /\ check' = check
    BY <1>2, <2>0, <2>1, <2>4, LogSame DEF Leaves
  <2>5. CASE MovesOn(w) /\ check' = check
    BY <1>2, <2>0, <2>1, <2>5, LogSame DEF MovesOn
  <2> QED
    BY <1>2, <2>1, <2>2, <2>3, <2>4, <2>5, WorkerMoves
<1> QED
  BY <1>1, <1>2, Steps

LEMMA CoverStep ==
  ASSUME TypeOK, ChannelInv, CoverInv, [Next]_vars
  PROVE  CoverInv'
<1> USE DEF CoverInv, Active
<1>k. WorkerIds' = WorkerIds /\ Cap' = Cap
  BY WorkersKept
<1> USE <1>k
<1>0. taken \in Nat /\ 1..taken \subseteq Checks
  BY DEF TypeOK, Checks
<1>1. CASE OtherNext
  BY <1>1, OtherFrame
     DEF workerVars, HasVerdict, IsVerdict, TypeOK
<1>2. ASSUME NEW w \in WorkerIds, WorkerNext(w), ~cancelled'
      PROVE  \A c \in 1..taken' :
               HasVerdict(c)' \/ \E v \in WorkerIds : Active(v)' /\ check'[v] = c
  <2>1. /\ UNCHANGED cancelled
        /\ \A v \in WorkerIds \ {w} : pc'[v] = pc[v] /\ check'[v] = check[v]
        /\ Take(w) \/ check' = check
    BY <1>2, WorkerMoves
  <2>2. \A c \in 1..taken :
          HasVerdict(c) \/ \E v \in WorkerIds : Active(v) /\ check[v] = c
    BY <1>2, <2>1
  <2>3. CASE Take(w)
    <3>1. /\ taken' = taken + 1 /\ check'[w] = taken + 1 /\ log' = log
          /\ pc[w] = "select" /\ pc'[w] = "announce"
      BY <1>2, <2>3 DEF Take, Goto, TypeOK
    <3> QED
      BY <1>0, <1>2, <2>1, <2>2, <3>1, LogSame
  <2>4. CASE EmitChecking(w) \/ EmitVerdict(w)
    <3>1. PICK e \in Events :
           /\ log' = Append(log, e)
           /\ e.check = check[w]
           /\ UNCHANGED <<taken, check>>
           /\ \/ /\ e.kind = "checking"
                 /\ pc[w] = "announce" /\ pc'[w] = "dial"
              \/ /\ e.kind \in {"open", "closed"}
                 /\ pc[w] = "report" /\ pc'[w] = "select"
      BY <1>2, <2>4, Emission
    <3>2. \A c \in Checks : HasVerdict(c)' <=>
            HasVerdict(c) \/ (e.kind \in {"open", "closed"} /\ e.check = c)
      BY <3>1, LogChange
    <3> QED
      BY <1>0, <1>2, <2>1, <2>2, <3>1, <3>2
  <2>5. CASE Leaves(w) /\ check' = check
    BY <1>0, <1>2, <2>1, <2>2, <2>5, LogSame DEF Leaves
  <2>6. CASE MovesOn(w) /\ check' = check
    BY <1>0, <1>2, <2>1, <2>2, <2>6, LogSame DEF MovesOn
  <2> QED
    BY <1>2, <2>1, <2>3, <2>4, <2>5, <2>6, WorkerMoves
<1> QED
  BY <1>1, <1>2, Steps

(* A step either leaves the log alone or appends one event, which fits     *)
(* what the worker knows of its check.                                     *)
LEMMA LogSteps ==
  ASSUME TypeOK, HandInv, LogInv, [Next]_vars
  PROVE  \/ log' = log
         \/ \E e \in Events :
              /\ log' = Append(log, e)
              /\ \/ e.kind = "checking" /\ ~Announced(e.check)
                 \/ /\ e.kind \in {"open", "closed"}
                    /\ Announced(e.check)
                    /\ ~HasVerdict(e.check)
              /\ e.kind = "open" =>
                   /\ Len(e.probes) = Protocols[e.check]
                   /\ \A k \in 1..Len(e.probes) : e.probes[k] # "interrupted"
<1>1. CASE OtherNext
  BY <1>1, OtherFrame
<1>2. ASSUME NEW w \in WorkerIds, WorkerNext(w),
             EmitChecking(w) \/ EmitVerdict(w)
      PROVE  \E e \in Events :
              /\ log' = Append(log, e)
              /\ \/ e.kind = "checking" /\ ~Announced(e.check)
                 \/ /\ e.kind \in {"open", "closed"}
                    /\ Announced(e.check)
                    /\ ~HasVerdict(e.check)
              /\ e.kind = "open" =>
                   /\ Len(e.probes) = Protocols[e.check]
                   /\ \A k \in 1..Len(e.probes) : e.probes[k] # "interrupted"
  <2>1. PICK e \in Events :
           /\ log' = Append(log, e)
           /\ e.check = check[w]
           /\ \/ /\ e.kind = "checking"
                 /\ pc[w] = "announce"
              \/ /\ e = Verdict(w)
                 /\ e.kind \in {"open", "closed"}
                 /\ pc[w] = "report"
    BY <1>2, Emission
  <2>2. /\ pc[w] = "announce" => ~Announced(e.check)
        /\ pc[w] = "report" => Announced(e.check) /\ ~HasVerdict(e.check)
    BY <2>1 DEF LogInv, Active
  <2>3. ASSUME e.kind = "open"
        PROVE  /\ Len(e.probes) = Protocols[e.check]
               /\ \A k \in 1..Len(e.probes) : e.probes[k] # "interrupted"
    <3>1. e = Verdict(w) /\ pc[w] = "report"
      BY <2>1, <2>3
    <3>2. e.probes = probes[w] /\ e.check = check[w]
      BY <3>1 DEF Verdict
    <3>3. err[w] = "none"
      BY <2>3, <3>1 DEF Verdict
    <3>4. Hand(w)
      BY DEF HandInv
    <3> QED
      BY <3>1, <3>2, <3>3, <3>4 DEF Hand
  <2> QED
    BY <2>1, <2>2, <2>3
<1>3. ASSUME NEW w \in WorkerIds, WorkerNext(w),
             ~(EmitChecking(w) \/ EmitVerdict(w))
      PROVE  log' = log
  BY <1>3, WorkerMoves DEF Take, Leaves, MovesOn
<1> QED
  BY <1>1, <1>2, <1>3, Steps

LEMMA LogPropertiesStep ==
  ASSUME TypeOK, HandInv, LogInv, OncePerCheck, VerdictAfterChecking,
         OpenIsWhole, [Next]_vars
  PROVE  OncePerCheck' /\ VerdictAfterChecking' /\ OpenIsWhole'
<1>1. CASE log' = log
  BY <1>1 DEF OncePerCheck, VerdictAfterChecking, OpenIsWhole, IsVerdict
<1>2. ASSUME NEW e \in Events,
             log' = Append(log, e),
             \/ e.kind = "checking" /\ ~Announced(e.check)
             \/ /\ e.kind \in {"open", "closed"}
                /\ Announced(e.check)
                /\ ~HasVerdict(e.check),
             e.kind = "open" =>
               /\ Len(e.probes) = Protocols[e.check]
               /\ \A k \in 1..Len(e.probes) : e.probes[k] # "interrupted"
      PROVE  OncePerCheck' /\ VerdictAfterChecking' /\ OpenIsWhole'
  <2> DEFINE n == Len(log)
  <2>1. /\ n \in Nat /\ Len(log') = n + 1
        /\ \A i \in 1..n : log'[i] = log[i]
        /\ log'[n + 1] = e
    BY <1>2, LogGrows
  <2>2. \A i \in 1..n : log[i].kind \in {"checking", "open", "closed"}
    BY LogTypes DEF Events, Kinds
  <2> HIDE DEF n
  <2>3. OncePerCheck'
    <3>1. \A i \in 1..n :
            log[i].check = e.check =>
              ~(log[i].kind \in {"open", "closed"}
                  <=> e.kind \in {"open", "closed"})
      BY <1>2, <2>2 DEF Announced, HasVerdict, IsVerdict, n
    <3>2. \A i, j \in 1..n :
            log[i].check = log[j].check
              /\ (log[i].kind \in {"open", "closed"}
                    <=> log[j].kind \in {"open", "closed"}) => i = j
      BY DEF OncePerCheck, IsVerdict, n
    <3>3. \A i, j \in 1..(n + 1) :
            log'[i].check = log'[j].check
              /\ (log'[i].kind \in {"open", "closed"}
                    <=> log'[j].kind \in {"open", "closed"}) => i = j
      BY <2>1, <3>1, <3>2
    <3> QED
      BY <2>1, <3>3 DEF OncePerCheck, IsVerdict
  <2>4. VerdictAfterChecking'
    <3>1. e.kind \in {"open", "closed"} =>
            \E j \in 1..n : log[j].kind = "checking" /\ log[j].check = e.check
      BY <1>2 DEF Announced, n
    <3>2. \A i \in 1..n : log[i].kind \in {"open", "closed"} =>
            \E j \in 1..(i - 1) : log[j].kind = "checking"
                                  /\ log[j].check = log[i].check
      BY DEF VerdictAfterChecking, IsVerdict, n
    <3>3. ASSUME NEW i \in 1..(n + 1), log'[i].kind \in {"open", "closed"}
          PROVE  \E j \in 1..(i - 1) : log'[j].kind = "checking"
                                       /\ log'[j].check = log'[i].check
      <4>1. CASE i = n + 1
        BY <2>1, <3>1, <3>3, <4>1
      <4>2. CASE i \in 1..n
        BY <2>1, <3>2, <3>3, <4>2
      <4> QED
        BY <2>1, <4>1, <4>2
    <3> QED
      BY <2>1, <3>3 DEF VerdictAfterChecking, IsVerdict
  <2>5. OpenIsWhole'
    <3>1. ASSUME NEW i \in 1..(n + 1), log'[i].kind = "open"
          PROVE  /\ Len(log'[i].probes) = Protocols[log'[i].check]
                 /\ \A k \in 1..Len(log'[i].probes) :
                      log'[i].probes[k] # "interrupted"
      <4>1. CASE i = n + 1
        BY <1>2, <2>1, <3>1, <4>1
      <4>2. CASE i \in 1..n
        BY <2>1, <3>1, <4>2 DEF OpenIsWhole, n
      <4> QED
        BY <2>1, <4>1, <4>2
    <3> QED
      BY <2>1, <3>1 DEF OpenIsWhole
  <2> QED
    BY <2>3, <2>4, <2>5
<1> QED
  BY <1>1, <1>2, LogSteps

-----------------------------------------------------------------------------

LEMMA InvInit == Init => ScanInv
<1> SUFFICES ASSUME Init PROVE ScanInv
  OBVIOUS
<1>1. /\ cancelled = FALSE /\ feeder = "sending"
      /\ sent = 0 /\ taken = 0 /\ read = 0 /\ log = <<>>
      /\ \A w \in WorkerIds : pc[w] = "select" /\ conn[w] = FALSE
  BY DEF Init
<1>2. Len(log) = 0
  BY <1>1
<1>3. ChannelInv
  BY <1>1, <1>2, TypeInit, CapType DEF ChannelInv
<1>4. OwnerInv /\ CoverInv
  BY <1>1 DEF OwnerInv, CoverInv, Active
<1>5. HandInv
  BY <1>1 DEF HandInv, Hand
<1>6. LogInv /\ OncePerCheck /\ VerdictAfterChecking /\ OpenIsWhole
  BY <1>1, <1>2 DEF LogInv, OncePerCheck, VerdictAfterChecking, OpenIsWhole,
                    Active, Announced, HasVerdict
<1> QED
  BY <1>3, <1>4, <1>5, <1>6 DEF ScanInv

LEMMA InvStep ==
  ASSUME TypeOK, ScanInv, [Next]_vars
  PROVE  ScanInv'
  BY ChannelStep, OwnerStep, HandStep, LogStep, CoverStep, LogPropertiesStep
     DEF ScanInv

(* ScanInv holds throughout every scan. *)
THEOREM Invariance == Spec => []ScanInv
<1>1. TypeOK /\ ScanInv /\ [Next]_vars => ScanInv'
  BY InvStep
<1> QED
  BY InvInit, TypeCorrect, <1>1, PTL DEF Spec

(* No check is announced twice and none gets two verdicts, however many    *)
(* workers share the targets.                                              *)
THEOREM ScannerOncePerCheck == Spec => []OncePerCheck
<1>1. ScanInv => OncePerCheck
  BY DEF ScanInv
<1> QED
  BY Invariance, <1>1, PTL

(* Every verdict in the stream is preceded by its announcement. *)
THEOREM ScannerVerdictAfterChecking == Spec => []VerdictAfterChecking
<1>1. ScanInv => VerdictAfterChecking
  BY DEF ScanInv
<1> QED
  BY Invariance, <1>1, PTL

(* Everybody has left and nobody had to: all checks were concluded. *)
LEMMA NothingLostHolds == TypeOK /\ ScanInv => NothingLost
<1> SUFFICES ASSUME TypeOK, ScanInv, feeder = "closed", ~cancelled,
                    NEW c \in Checks
             PROVE  HasVerdict(c)
  BY DEF NothingLost
<1>1. \A w \in WorkerIds : pc[w] = "done"
  BY DEF ScanInv, ChannelInv
<1>2. 1 \in WorkerIds
  BY CapType DEF WorkerIds
<1>3. sent = NumChecks /\ taken = sent
  BY <1>1, <1>2 DEF ScanInv, ChannelInv
<1>4. c \in 1..taken
  BY <1>3 DEF Checks
<1> QED
  BY <1>1, <1>4 DEF ScanInv, CoverInv, Active

(* If the stream ends without a cancellation, every check has a verdict.   *)
THEOREM ScannerNothingLost == Spec => []NothingLost
  BY TypeCorrect, Invariance, NothingLostHolds, PTL

(* An Open event carries the whole, untruncated list of probe results.     *)
THEOREM ScannerOpenIsWhole == Spec => []OpenIsWhole
<1>1. ScanInv => OpenIsWhole
  BY DEF ScanInv
<1> QED
  BY Invariance, <1>1, PTL

(* Connections are held only inside a probe. *)
THEOREM ScannerNoConnectionHeld == Spec => []NoConnectionHeld
<1>1. ScanInv => NoConnectionHeld
  BY DEF ScanInv, HandInv, Hand, NoConnectionHeld
<1> QED
  BY Invariance, <1>1, PTL

(* The two channels stay within their buffers, and the stream is closed    *)
(* only after every worker is gone.                                        *)
THEOREM ScannerChannelsSafe == Spec => []ChannelsSafe
<1>1. TypeOK /\ ScanInv => ChannelsSafe
  <2> SUFFICES ASSUME TypeOK, ScanInv PROVE ChannelsSafe
    OBVIOUS
  <2>1. sent \in Nat /\ taken \in Nat /\ read \in Nat /\ Len(log) \in Nat
    BY DEF TypeOK
  <2> QED
    BY <2>1, CapType DEF ScanInv, ChannelInv, ChannelsSafe
<1> QED
  BY TypeCorrect, Invariance, <1>1, PTL

(***************************************************************************)
(* The event loop of run.                                                  *)
(***************************************************************************)

LEMMA RunStep ==
  ASSUME [RunNext]_runVars
  PROVE  [Next]_vars
<1>1. CASE (ScanNext \/ Expire \/ Cancel) /\ UNCHANGED <<phase, stats, openEvents>>
  BY <1>1 DEF Next
<1>2. CASE Observe
  BY <1>2 DEF Observe, Next
<1>3. CASE StreamClosed \/ ReadStatus \/ UNCHANGED runVars
  BY <1>3 DEF StreamClosed, ReadStatus, runVars
<1> QED
  BY <1>1, <1>2, <1>3 DEF RunNext

(* Whatever the event loop does, it is a consumer that Scanner allows. *)
THEOREM RunIsScan == RunSpec => Spec
<1>1. RunInit => Init
  BY DEF RunInit
<1>2. [RunNext]_runVars => [Next]_vars
  BY RunStep
<1> QED
  BY <1>1, <1>2, PTL DEF RunSpec, Spec

LEMMA ObserveTypes ==
  ASSUME RunTypeOK, Observe
  PROVE  /\ stats' \in [Counters -> Nat]
         /\ openEvents' \in Seq(Events)
<1>1. read + 1 \in 1..Len(log) /\ log \in Seq(Events)
  <2>1. read \in Nat /\ Len(log) \in Nat /\ read < Len(log)
    BY DEF Observe, Receive, RunTypeOK, TypeOK
  <2> QED
    BY <2>1 DEF RunTypeOK, TypeOK
<1>2. log[read + 1] \in Events
  BY <1>1
<1>3. stats' = [k \in Counters |->
                  IF k \in Counted(log[read + 1]) THEN stats[k] + 1
                  ELSE stats[k]]
  BY DEF Observe
<1>4. \A k \in Counters : stats[k] \in Nat
  BY DEF RunTypeOK
<1>5. stats' \in [Counters -> Nat]
  BY <1>3, <1>4
<1>6. openEvents' \in Seq(Events)
  BY <1>2 DEF Observe, RunTypeOK
<1> QED
  BY <1>5, <1>6

LEMMA RunTypeInit == RunInit => RunTypeOK
<1> SUFFICES ASSUME RunInit PROVE RunTypeOK
  OBVIOUS
<1>1. TypeOK
  BY TypeInit DEF RunInit
<1>2. stats \in [Counters -> Nat]
  BY DEF RunInit
<1>3. openEvents \in Seq(Events)
  BY DEF RunInit
<1> QED
  BY <1>1, <1>2, <1>3 DEF RunInit, RunTypeOK

LEMMA RunTypeStep ==
  ASSUME RunTypeOK, [RunNext]_runVars
  PROVE  RunTypeOK'
<1>1. TypeOK'
  BY RunStep, TypeStep, TypeStutter DEF RunTypeOK
<1>2. CASE (ScanNext \/ Expire \/ Cancel) /\ UNCHANGED <<phase, stats, openEvents>>
  BY <1>1, <1>2 DEF RunTypeOK
<1>3. CASE Observe
  BY <1>1, <1>3, ObserveTypes DEF RunTypeOK, Observe
<1>4. CASE StreamClosed \/ ReadStatus \/ UNCHANGED runVars
  BY <1>1, <1>4 DEF RunTypeOK, StreamClosed, ReadStatus, runVars
<1> QED
  BY <1>2, <1>3, <1>4 DEF RunNext

(* The state of the run, the statistics and the open events have the types *)
(* the code gives them, whatever the number of checks and workers.         *)
THEOREM RunTypeCorrect == RunSpec => []RunTypeOK
<1>1. RunTypeOK /\ [RunNext]_runVars => RunTypeOK'
  BY RunTypeStep
<1> QED
  BY RunTypeInit, <1>1, PTL DEF RunSpec

-----------------------------------------------------------------------------
(* The run implements ScanStream.  Its inductive invariant adds to that of *)
(* Scanner that nothing is on its way once the loop has ended.             *)

StreamInv ==
  /\ RunTypeOK
  /\ ScanInv
  /\ phase # "scanning" => Finished

LEMMA LogKept ==
  ASSUME TypeOK, [Next]_vars
  PROVE  \A i \in 1..Len(log) : log'[i] = log[i]
<1>1. CASE OtherNext
  BY <1>1, OtherFrame
<1>2. ASSUME NEW w \in WorkerIds, WorkerNext(w)
      PROVE  \A i \in 1..Len(log) : log'[i] = log[i]
  <2>1. CASE EmitChecking(w) \/ EmitVerdict(w)
    BY <2>1, Emission, LogGrows
  <2>2. CASE Take(w)
    BY <2>2 DEF Take
  <2>3. CASE Leaves(w) \/ MovesOn(w)
    BY <2>3 DEF Leaves, MovesOn
  <2> QED
    BY <1>2, <2>1, <2>2, <2>3, WorkerMoves
<1> QED
  BY <1>1, <1>2, Steps

(* After the end of the stream nothing is sent any more. *)
LEMMA FinishedStays ==
  ASSUME TypeOK, ScanInv, Finished, [Next]_vars, read' = read
  PROVE  Finished'
<1>1. feeder = "closed" /\ \A w \in WorkerIds : pc[w] = "done"
  BY DEF Finished, ScanInv, ChannelInv
<1>2. CASE OtherNext
  <2>1. log' = log
    BY <1>2, OtherFrame
  <2>2. feeder' = "closed"
    BY <1>1, <1>2 DEF OtherNext, FeederNext, FeederSend, FeederReturn,
                      CloseEvents, Receive, Expire, Cancel, vars, feederVars
  <2> QED
    BY <2>1, <2>2 DEF Finished
<1>3. ASSUME NEW w \in WorkerIds, WorkerNext(w)
      PROVE  FALSE
  BY <1>1, <1>3 DEF WorkerNext, Take, Drained, Abandon, EmitChecking,
                    EmitVerdict, DialOpen, DialFail, DialCancelled, Probe,
                    RedialOpen, RedialFail, RedialCancelled, Inspect
<1> QED
  BY <1>2, <1>3, Steps

LEMMA StreamInvInit == RunInit => StreamInv
<1> SUFFICES ASSUME RunInit PROVE StreamInv
  OBVIOUS
<1>1. RunTypeOK
  BY RunTypeInit
<1>2. ScanInv
  BY InvInit DEF RunInit
<1> QED
  BY <1>1, <1>2 DEF StreamInv, RunInit

LEMMA StreamInvStep ==
  ASSUME StreamInv, [RunNext]_runVars
  PROVE  StreamInv'
<1>1. RunTypeOK'
  BY RunTypeStep DEF StreamInv
<1>2. TypeOK /\ ScanInv /\ [Next]_vars
  BY RunStep DEF StreamInv, RunTypeOK
<1>3. ScanInv'
  BY <1>2, InvStep
<1>4. (phase # "scanning" => Finished)'
  <2>1. CASE (ScanNext \/ Expire \/ Cancel) /\ UNCHANGED <<phase, stats, openEvents>>
    <3>1. read' = read
      <4>1. ASSUME NEW w \in WorkerIds, WorkerNext(w)
            PROVE  read' = read
        BY <1>2, <4>1, WorkerMoves
      <4>2. CASE FeederNext \/ Expire \/ Cancel
        BY <4>2 DEF FeederNext, FeederSend, FeederReturn, CloseEvents, Expire,
                    Cancel
      <4> QED
        BY <2>1, <4>1, <4>2 DEF ScanNext
    <3> QED
      BY <1>2, <2>1, <3>1, FinishedStays DEF StreamInv
  <2>2. CASE Observe
    BY <2>2 DEF Observe
  <2>3. CASE StreamClosed
    BY <2>3 DEF StreamClosed, Finished, vars, feederVars
  <2>4. CASE ReadStatus \/ UNCHANGED runVars
    BY <2>4 DEF ReadStatus, runVars, StreamInv, Finished, vars, feederVars
  <2> QED
    BY <2>1, <2>2, <2>3, <2>4 DEF RunNext
<1> QED
  BY <1>1, <1>3, <1>4 DEF StreamInv

-----------------------------------------------------------------------------
(* What the consumer has seen of a check. *)

LEMMA SeenIff ==
  ASSUME NEW c, NEW kind
  PROVE  kind \in Seen(c) <=>
           \E i \in 1..read : log[i].check = c /\ log[i].kind = kind
  BY DEF Seen

LEMMA SeenSame ==
  ASSUME TypeOK, read <= Len(log), read' = read,
         \A i \in 1..Len(log) : log'[i] = log[i]
  PROVE  SeenState' = SeenState
<1>1. \A i \in 1..read : log'[i] = log[i]
  BY DEF TypeOK
<1>2. \A c \in Checks : Seen(c)' = Seen(c)
  BY <1>1 DEF Seen
<1> QED
  BY <1>2 DEF SeenState

(* An event that is received adds its kind to what was seen of its check. *)
LEMMA SeenGrows ==
  ASSUME TypeOK, Observe, NEW c \in Checks
  PROVE  Seen(c)' = IF log[read + 1].check = c
                    THEN Seen(c) \cup {log[read + 1].kind} ELSE Seen(c)
<1>1. read \in Nat /\ read' = read + 1 /\ log' = log
  BY DEF Observe, Receive, TypeOK
<1>2. 1..(read + 1) = 1..read \cup {read + 1}
  BY <1>1
<1> QED
  BY <1>1, <1>2 DEF Seen

(* The order of the log: when an event is received, its check was          *)
(* announced before exactly if it is a verdict, and had no verdict.        *)
LEMMA ReceivedInOrder ==
  ASSUME StreamInv, Observe, NEW c \in Checks, log[read + 1].check = c
  PROVE  /\ "open" \notin Seen(c) /\ "closed" \notin Seen(c)
         /\ log[read + 1].kind \in Kinds
         /\ log[read + 1].kind = "checking" <=> "checking" \notin Seen(c)
<1>1. /\ read \in Nat /\ Len(log) \in Nat /\ read < Len(log)
      /\ \A i \in 1..Len(log) : log[i] \in Events
  BY LogTypes DEF Observe, Receive, StreamInv, RunTypeOK, TypeOK
<1>2. read + 1 \in 1..Len(log) /\ 1..read \subseteq 1..Len(log)
  BY <1>1
<1>3. log[read + 1].kind \in Kinds
  BY <1>1, <1>2 DEF Events
<1>4. \A i \in 1..Len(log) :
        log[i].check = c /\ (IsVerdict(i) <=> IsVerdict(read + 1))
          => i = read + 1
  BY <1>2 DEF StreamInv, ScanInv, OncePerCheck
<1>5. \A i \in 1..Len(log) : IsVerdict(i) =>
        \E j \in 1..(i - 1) : log[j].kind = "checking"
                              /\ log[j].check = log[i].check
  BY DEF StreamInv, ScanInv, VerdictAfterChecking
<1>6. CASE log[read + 1].kind = "checking"
  <2>1. ~IsVerdict(read + 1)
    BY <1>6 DEF IsVerdict
  <2>2. \A i \in 1..read : log[i].check = c => IsVerdict(i)
    BY <1>1, <1>2, <1>4, <2>1
  <2>3. \A i \in 1..read : log[i].check # c
    <3> SUFFICES ASSUME NEW i \in 1..read, log[i].check = c PROVE FALSE
      OBVIOUS
    <3>1. IsVerdict(i)
      BY <2>2
    <3>2. PICK j \in 1..(i - 1) : log[j].kind = "checking" /\ log[j].check = c
      BY <1>2, <1>5, <3>1
    <3>3. j \in 1..read
      BY <1>1
    <3>4. IsVerdict(j)
      BY <2>2, <3>2, <3>3
    <3> QED
      BY <3>2, <3>4 DEF IsVerdict
  <2> QED
    BY <1>3, <1>6, <2>3, SeenIff
<1>7. CASE log[read + 1].kind # "checking"
  <2>1. IsVerdict(read + 1)
    BY <1>3, <1>7 DEF IsVerdict, Kinds
  <2>2. \A i \in 1..read : log[i].check = c => ~IsVerdict(i)
    BY <1>1, <1>2, <1>4, <2>1
  <2>3. PICK j \in 1..read : log[j].kind = "checking" /\ log[j].check = c
    <3>1. (read + 1) - 1 = read
      BY <1>1
    <3>2. \E j \in 1..((read + 1) - 1) : log[j].kind = "checking"
                                       /\ log[j].check = log[read + 1].check
      BY <1>2, <1>5, <2>1, Zenon
    <3> QED
      BY <3>1, <3>2, Zenon
  <2>4. "checking" \in Seen(c)
    BY <2>3, SeenIff
  <2>5. "open" \notin Seen(c) /\ "closed" \notin Seen(c)
    BY <2>2, SeenIff DEF IsVerdict
  <2> QED
    BY <1>3, <1>7, <2>4, <2>5
<1> QED
  BY <1>6, <1>7

LEMMA ObserveMapped ==
  ASSUME StreamInv, Observe
  PROVE  \E c \in Checks : Stream!Announce(c) \/ Stream!Conclude(c)
<1> DEFINE c == log[read + 1].check
           kind == log[read + 1].kind
<1>1. TypeOK /\ phase = "scanning" /\ phase' = phase /\ cancelled' = cancelled
  BY DEF StreamInv, RunTypeOK, Observe, Receive
<1>2. c \in Checks
  <2>1. read + 1 \in 1..Len(log)
    BY <1>1 DEF Observe, Receive, TypeOK
  <2> QED
    BY <1>1, <2>1, LogTypes
<1>3. /\ "open" \notin Seen(c) /\ "closed" \notin Seen(c)
      /\ kind \in Kinds
      /\ kind = "checking" <=> "checking" \notin Seen(c)
  BY <1>2, ReceivedInOrder
<1>4. \A d \in Checks : Seen(d)' = IF d = c THEN Seen(d) \cup {kind} ELSE Seen(d)
  BY <1>1, SeenGrows
<1> HIDE DEF c, kind
<1>5. SeenState[c] = IF kind = "checking" THEN "pending" ELSE "checking"
  BY <1>2, <1>3 DEF SeenState
<1>6. SeenState' = [SeenState EXCEPT ![c] = kind]
  BY <1>2, <1>3, <1>4 DEF SeenState, Kinds
<1>7. kind \in {"open", "closed"} \/ kind = "checking"
  BY <1>3 DEF Kinds
<1>8. ~Reported /\ ~Reported'
  BY <1>1 DEF Reported
<1> QED
  BY <1>1, <1>2, <1>5, <1>6, <1>7, <1>8 DEF Stream!Announce, Stream!Conclude

LEMMA StatusMapped ==
  ASSUME StreamInv, ReadStatus
  PROVE  Stream!Complete \/ Stream!Interrupt
<1>1. TypeOK /\ ScanInv /\ Finished
  BY DEF StreamInv, RunTypeOK, ReadStatus
<1>2. SeenState' = SeenState /\ cancelled' = cancelled
  BY DEF ReadStatus, vars, SeenState, Seen
<1>3. ~Reported /\ Reported' /\ phase' = IF cancelled THEN "interrupted" ELSE "completed"
  BY DEF ReadStatus, Reported
<1>4. CASE cancelled
  BY <1>2, <1>3, <1>4 DEF Stream!Interrupt
<1>5. CASE ~cancelled
  <2>1. ASSUME NEW c \in Checks
        PROVE  SeenState[c] \in {"open", "closed"}
    <3>1. HasVerdict(c)
      BY <1>1, <1>5, NothingLostHolds DEF NothingLost, Finished
    <3>2. "open" \in Seen(c) \/ "closed" \in Seen(c)
      BY <1>1, <3>1, SeenIff DEF HasVerdict, IsVerdict, Finished
    <3> QED
      BY <3>2 DEF SeenState
  <2> QED
    BY <1>2, <1>3, <1>5, <2>1 DEF Stream!Complete, Stream!Concluded
<1> QED
  BY <1>4, <1>5

LEMMA StepMapped ==
  ASSUME StreamInv, [RunNext]_runVars
  PROVE  [Stream!Next]_(Stream!vars)
<1>1. TypeOK /\ [Next]_vars /\ read <= Len(log)
  BY RunStep DEF StreamInv, RunTypeOK, ScanInv, ChannelInv
<1>2. ASSUME read' = read
      PROVE  SeenState' = SeenState
  BY <1>1, <1>2, LogKept, SeenSame
<1>3. CASE (ScanNext \/ Expire) /\ UNCHANGED <<phase, stats, openEvents>>
  <2>1. read' = read /\ cancelled' = cancelled
    <3>1. ASSUME NEW w \in WorkerIds, WorkerNext(w)
          PROVE  read' = read /\ cancelled' = cancelled
      BY <1>1, <3>1, WorkerMoves
    <3>2. CASE FeederNext \/ Expire
      BY <3>2 DEF FeederNext, FeederSend, FeederReturn, CloseEvents, Expire
    <3> QED
      BY <1>3, <3>1, <3>2 DEF ScanNext
  <2> QED
    BY <1>2, <1>3, <2>1 DEF Stream!vars, Reported
<1>4. CASE Cancel /\ UNCHANGED <<phase, stats, openEvents>>
  <2>1. read' = read /\ ~cancelled /\ cancelled' = TRUE
    BY <1>4 DEF Cancel
  <2> QED
    BY <1>2, <1>4, <2>1 DEF Stream!Next, Stream!Cancel, Reported
<1>5. CASE Observe
  BY <1>5, ObserveMapped DEF Stream!Next
<1>6. CASE StreamClosed
  <2>1. read' = read /\ cancelled' = cancelled /\ ~Reported /\ ~Reported'
    BY <1>6 DEF StreamClosed, vars, Reported
  <2> QED
    BY <1>2, <2>1 DEF Stream!vars
<1>7. CASE ReadStatus
  BY <1>7, StatusMapped DEF Stream!Next
<1>8. CASE UNCHANGED runVars
  BY <1>8 DEF runVars, vars, Stream!vars, SeenState, Seen, Reported
<1> QED
  BY <1>3, <1>4, <1>5, <1>6, <1>7, <1>8 DEF RunNext

(* Whatever the number of checks, workers and protocols: the consumer sees *)
(* every check announced before it is concluded and both at most once, and *)
(* the status "completed" only with every check concluded and the context  *)
(* alive.                                                                  *)
THEOREM RunImplementsStream == RunSpec => StreamContract
<1>1. RunInit => Stream!Init
  <2> SUFFICES ASSUME RunInit PROVE Stream!Init
    OBVIOUS
  <2>1. read = 0 /\ cancelled = FALSE /\ phase = "scanning"
    BY DEF RunInit, Init
  <2>2. \A c \in Checks : Seen(c) = {}
    BY <2>1 DEF Seen
  <2>3. SeenState = [c \in Checks |-> "pending"]
    BY <2>2 DEF SeenState
  <2> QED
    BY <2>1, <2>3 DEF Stream!Init, Reported
<1>2. StreamInv /\ [RunNext]_runVars => [Stream!Next]_(Stream!vars)
  BY StepMapped
<1>3. RunInit => StreamInv
  BY StreamInvInit
<1>4. StreamInv /\ [RunNext]_runVars => StreamInv'
  BY StreamInvStep
<1> QED
  BY <1>1, <1>2, <1>3, <1>4, PTL DEF RunSpec, StreamContract, Stream!Spec
-----------------------------------------------------------------------------
(* The summary.  Its inductive invariant says how the counters follow from *)
(* the events received; that they do not exceed the number of checks is a  *)
(* consequence of OncePerCheck.                                            *)

CountersInv ==
  /\ stats["open"] = Cardinality(Received({"open"}))
  /\ stats["open"] = Len(openEvents)
  /\ stats["closed"] = Cardinality(Received({"closed"}))
  /\ stats["completed"] = stats["open"] + stats["closed"]
  /\ stats["closed"] = stats["timeouts"] + stats["refused"]
                         + stats["unreachable"] + stats["otherErrors"]

ErrorInv == \A i \in 1..Len(log) : log[i].kind = "closed" => log[i].err # "none"

EndInv == phase = "completed" => Finished /\ \A c \in Checks : HasVerdict(c)

LEMMA ErrorInvStep ==
  ASSUME TypeOK, ErrorInv, [Next]_vars
  PROVE  ErrorInv'
<1>1. CASE log' = log
  BY <1>1 DEF ErrorInv
<1>2. ASSUME NEW w \in WorkerIds, EmitChecking(w) \/ EmitVerdict(w)
      PROVE  ErrorInv'
  <2>1. PICK e \in Events :
          /\ log' = Append(log, e)
          /\ e.kind = "checking" \/ e = Verdict(w)
    BY <1>2, Emission
  <2>2. e.kind = "closed" => e.err # "none"
    BY <2>1 DEF Verdict
  <2>3. /\ Len(log) \in Nat
        /\ Len(log') = Len(log) + 1
        /\ \A i \in 1..Len(log) : log'[i] = log[i]
        /\ log'[Len(log) + 1] = e
    BY <2>1, LogGrows
  <2>4. \A i \in 1..Len(log') : i \in 1..Len(log) \/ i = Len(log) + 1
    BY <2>3
  <2> QED
    BY <2>2, <2>3, <2>4 DEF ErrorInv
<1>3. CASE OtherNext
  BY <1>1, <1>3, OtherFrame
<1>4. ASSUME NEW w \in WorkerIds, WorkerNext(w)
      PROVE  ErrorInv'
  BY <1>1, <1>2, <1>4, WorkerMoves DEF Take, Leaves, MovesOn
<1> QED
  BY <1>3, <1>4, Steps

LEMMA ReceivedFinite ==
  ASSUME TypeOK, NEW kinds
  PROVE  IsFiniteSet(Received(kinds)) /\ Cardinality(Received(kinds)) \in Nat
<1>1. IsFiniteSet(1..read)
  BY FS_Interval DEF TypeOK
<1>2. Received(kinds) \in SUBSET (1..read)
  BY DEF Received
<1>3. IsFiniteSet(Received(kinds))
  BY <1>1, <1>2, FS_Subset
<1> QED
  BY <1>3, FS_CardinalityType

(* The events received of some kinds are one more after an event of such a *)
(* kind, and as many as before after another one.                          *)
LEMMA ReceivedGrows ==
  ASSUME TypeOK, Observe, NEW kinds
  PROVE  Cardinality(Received(kinds))' =
           IF log[read + 1].kind \in kinds
           THEN Cardinality(Received(kinds)) + 1
           ELSE Cardinality(Received(kinds))
<1>1. read \in Nat /\ read' = read + 1 /\ log' = log
  BY DEF Observe, Receive, TypeOK
<1>2. 1..(read + 1) = 1..read \cup {read + 1} /\ read + 1 \notin 1..read
  BY <1>1
<1>3. IsFiniteSet(Received(kinds)) /\ read + 1 \notin Received(kinds)
  BY <1>2, ReceivedFinite DEF Received
<1>4. CASE log[read + 1].kind \in kinds
  <2>1. Received(kinds)' = Received(kinds) \cup {read + 1}
    BY <1>1, <1>2, <1>4 DEF Received
  <2> QED
    BY <1>3, <1>4, <2>1, FS_AddElement
<1>5. CASE log[read + 1].kind \notin kinds
  <2>1. Received(kinds)' = Received(kinds)
    BY <1>1, <1>2, <1>5 DEF Received
  <2> QED
    BY <1>5, <2>1
<1> QED
  BY <1>4, <1>5

LEMMA ReceivedSame ==
  ASSUME TypeOK, read <= Len(log), read' = read,
         \A i \in 1..Len(log) : log'[i] = log[i], NEW kinds
  PROVE  Received(kinds)' = Received(kinds)
<1>1. \A i \in 1..read : log'[i] = log[i]
  BY DEF TypeOK
<1> QED
  BY <1>1 DEF Received

(* What observe does to the counters, for each kind of event. *)
LEMMA ObserveCounts ==
  ASSUME StreamInv, ErrorInv, CountersInv, Observe
  PROVE  CountersInv'
<1> DEFINE event == log[read + 1]
<1>1. TypeOK /\ read + 1 \in 1..Len(log)
  BY DEF StreamInv, RunTypeOK, TypeOK, Observe, Receive
<1>2. event.kind \in Kinds /\ event.err \in VerdictErrors
      /\ (event.kind = "closed" => event.err # "none")
  BY <1>1, LogTypes DEF Events, ErrorInv
<1>3. /\ stats' = [k \in Counters |-> IF k \in Counted(event) THEN stats[k] + 1
                                      ELSE stats[k]]
      /\ openEvents' = IF event.kind = "open" THEN Append(openEvents, event)
                       ELSE openEvents
  BY DEF Observe
<1>4. \A kind : Cardinality(Received({kind}))' =
                  IF event.kind = kind THEN Cardinality(Received({kind})) + 1
                  ELSE Cardinality(Received({kind}))
  <2> TAKE kind
  <2> QED
    BY <1>1, ReceivedGrows
<1>5. openEvents \in Seq(Events) /\ \A k \in Counters : stats[k] \in Nat
  BY DEF StreamInv, RunTypeOK
<1>6. Len(openEvents') = IF event.kind = "open" THEN Len(openEvents) + 1
                         ELSE Len(openEvents)
  BY <1>3, <1>5
<1> HIDE DEF event
<1>7. CASE event.kind = "checking"
  <2>1. \A k \in Counters : stats'[k] = stats[k]
    BY <1>3, <1>7 DEF Counted
  <2>2. UNCHANGED <<stats["open"], stats["closed"], stats["completed"],
                    stats["timeouts"], stats["refused"],
                    stats["unreachable"], stats["otherErrors"]>>
    BY <2>1 DEF Counters
  <2>3. UNCHANGED <<Cardinality(Received({"open"})),
                    Cardinality(Received({"closed"})), Len(openEvents)>>
    BY <1>4, <1>6, <1>7
  <2> QED
    BY <2>2, <2>3 DEF CountersInv
<1>8. CASE event.kind = "open"
  <2>1. \A k \in Counters : stats'[k] = IF k \in {"completed", "open"}
                                        THEN stats[k] + 1 ELSE stats[k]
    BY <1>3, <1>8 DEF Counted
  <2>2. /\ stats'["open"] = stats["open"] + 1
        /\ stats'["completed"] = stats["completed"] + 1
        /\ UNCHANGED <<stats["closed"], stats["timeouts"], stats["refused"],
                       stats["unreachable"], stats["otherErrors"]>>
    BY <2>1 DEF Counters
  <2>3. /\ Cardinality(Received({"open"}))'
             = Cardinality(Received({"open"})) + 1
        /\ Len(openEvents') = Len(openEvents) + 1
        /\ UNCHANGED Cardinality(Received({"closed"}))
    BY <1>4, <1>6, <1>8
  <2>4. stats["open"] \in Nat /\ stats["closed"] \in Nat
    BY <1>5 DEF Counters
  <2>5. /\ stats'["open"] = Cardinality(Received({"open"}))'
        /\ stats'["open"] = Len(openEvents')
        /\ stats'["closed"] = Cardinality(Received({"closed"}))'
    BY <2>2, <2>3 DEF CountersInv
  <2>6. stats'["completed"] = stats'["open"] + stats'["closed"]
    <3>1. stats["completed"] = stats["open"] + stats["closed"]
      BY DEF CountersInv
    <3> QED
      BY <2>2, <2>4, <3>1
  <2>7. stats'["closed"] = stats'["timeouts"] + stats'["refused"]
                            + stats'["unreachable"] + stats'["otherErrors"]
    <3>1. stats["closed"] = stats["timeouts"] + stats["refused"]
                             + stats["unreachable"] + stats["otherErrors"]
      BY DEF CountersInv
    <3> QED
      BY <2>2, <3>1
  <2> QED
    BY <2>5, <2>6, <2>7, Zenon DEF CountersInv
<1>9. CASE event.kind = "closed"
  <2>1. PICK counter \in ErrorCounters : ErrorCounter(event.err) = counter
    BY <1>2, <1>9, DialErrorsAssumption
       DEF ErrorCounter, ErrorCounters, VerdictErrors
  <2>2. \A k \in Counters : stats'[k] = IF k \in {"completed", "closed", counter}
                                        THEN stats[k] + 1 ELSE stats[k]
    BY <1>3, <1>9, <2>1 DEF Counted
  <2>3. /\ stats'["open"] = stats["open"]
        /\ stats'["closed"] = stats["closed"] + 1
        /\ stats'["completed"] = stats["completed"] + 1
    BY <2>1, <2>2 DEF ErrorCounters, Counters
  <2>4. /\ stats'["completed"] = stats'["open"] + stats'["closed"]
        /\ stats'["closed"] = stats'["timeouts"] + stats'["refused"]
                               + stats'["unreachable"] + stats'["otherErrors"]
    BY <1>5, <2>1, <2>2, OneMoreError DEF CountersInv
  <2>5. /\ UNCHANGED <<Cardinality(Received({"open"})), Len(openEvents)>>
        /\ Cardinality(Received({"closed"}))'
             = Cardinality(Received({"closed"})) + 1
    BY <1>4, <1>6, <1>9
  <2>6. /\ stats'["open"] = Cardinality(Received({"open"}))'
        /\ stats'["open"] = Len(openEvents')
        /\ stats'["closed"] = Cardinality(Received({"closed"}))'
    BY <2>3, <2>5 DEF CountersInv
  <2> QED
    BY <2>4, <2>6, Zenon DEF CountersInv
<1> QED
  BY <1>2, <1>7, <1>8, <1>9 DEF Kinds

SummaryInv == StreamInv /\ ErrorInv /\ CountersInv /\ EndInv

LEMMA SummaryInit == RunInit => SummaryInv
<1> SUFFICES ASSUME RunInit PROVE SummaryInv
  OBVIOUS
<1>1. read = 0 /\ log = <<>> /\ phase = "scanning" /\ openEvents = <<>>
      /\ \A k \in Counters : stats[k] = 0
  BY DEF RunInit, Init
<1>2. \A kinds : Received(kinds) = {}
  BY <1>1 DEF Received
<1>3. CountersInv
  <2>1. /\ stats["open"] = 0 /\ stats["closed"] = 0 /\ stats["completed"] = 0
        /\ stats["timeouts"] = 0 /\ stats["refused"] = 0
        /\ stats["unreachable"] = 0 /\ stats["otherErrors"] = 0
    BY <1>1 DEF Counters
  <2>2. \A kinds : Cardinality(Received(kinds)) = 0
    BY <1>2, FS_EmptySet
  <2> QED
    BY <1>1, <2>1, <2>2 DEF CountersInv
<1> QED
  BY <1>1, <1>3, StreamInvInit DEF SummaryInv, ErrorInv, EndInv

LEMMA SummaryStep ==
  ASSUME SummaryInv, [RunNext]_runVars
  PROVE  SummaryInv'
<1>1. TypeOK /\ ScanInv /\ [Next]_vars /\ read <= Len(log)
  BY RunStep DEF SummaryInv, StreamInv, RunTypeOK, ScanInv, ChannelInv
<1>2. StreamInv' /\ ErrorInv'
  BY <1>1, StreamInvStep, ErrorInvStep DEF SummaryInv
<1>3. ASSUME read' = read, UNCHANGED <<stats, openEvents>>
      PROVE  CountersInv'
  <2>1. \A i \in 1..Len(log) : log'[i] = log[i]
    BY <1>1, LogKept
  <2>2. \A kinds : Received(kinds)' = Received(kinds)
    BY <1>1, <1>3, <2>1, ReceivedSame
  <2> QED
    BY <1>3, <2>2 DEF SummaryInv, CountersInv
<1>4. ASSUME Finished, Finished', UNCHANGED log
      PROVE  \A c \in Checks : HasVerdict(c)' <=> HasVerdict(c)
  BY <1>4, LogSame
<1>5. CASE (ScanNext \/ Expire \/ Cancel) /\ UNCHANGED <<phase, stats, openEvents>>
  <2>1. read' = read
    <3>1. ASSUME NEW w \in WorkerIds, WorkerNext(w)
          PROVE  read' = read
      BY <1>1, <3>1, WorkerMoves
    <3> QED
      BY <1>5, <3>1 DEF ScanNext, FeederNext, FeederSend, FeederReturn,
                        CloseEvents, Expire, Cancel
  <2>2. EndInv'
    <3> SUFFICES ASSUME phase = "completed" PROVE EndInv'
      BY <1>5 DEF EndInv
    <3>1. Finished /\ Finished' /\ \A c \in Checks : HasVerdict(c)
      BY <1>1, <2>1, FinishedStays DEF SummaryInv, EndInv
    <3>2. Len(log') = Len(log) /\ Len(log) \in Nat
      BY <1>1, <2>1, <3>1 DEF Finished, TypeOK
    <3>3. \A c \in Checks : HasVerdict(c)'
      BY <1>1, <3>1, <3>2, LogKept DEF HasVerdict, IsVerdict
    <3> QED
      BY <3>1, <3>3 DEF EndInv
  <2> QED
    BY <1>2, <1>3, <1>5, <2>1, <2>2 DEF SummaryInv
<1>6. CASE Observe
  <2>1. CountersInv'
    BY <1>6, ObserveCounts DEF SummaryInv
  <2> QED
    BY <1>2, <1>6, <2>1 DEF SummaryInv, EndInv, Observe
<1>7. CASE StreamClosed
  BY <1>2, <1>3, <1>7 DEF SummaryInv, EndInv, StreamClosed, vars
<1>8. CASE ReadStatus
  <2>1. Finished /\ Finished' /\ UNCHANGED <<log, read, stats, openEvents>>
    BY <1>2, <1>8 DEF SummaryInv, StreamInv, ReadStatus, vars
  <2>2. ~cancelled => \A c \in Checks : HasVerdict(c)
    BY <1>1, <2>1, NothingLostHolds DEF NothingLost, Finished
  <2>3. EndInv'
    BY <1>4, <1>8, <2>1, <2>2 DEF EndInv, ReadStatus
  <2> QED
    BY <1>2, <1>3, <2>1, <2>3 DEF SummaryInv
<1>9. CASE UNCHANGED runVars
  <2>1. UNCHANGED <<log, read, stats, openEvents, phase>>
    BY <1>9 DEF runVars, vars
  <2>2. EndInv'
    <3> SUFFICES ASSUME phase = "completed" PROVE EndInv'
      BY <2>1 DEF EndInv
    <3>1. Finished /\ Finished' /\ \A c \in Checks : HasVerdict(c)
      BY <1>1, <2>1, FinishedStays DEF SummaryInv, EndInv
    <3> QED
      BY <1>4, <2>1, <3>1 DEF EndInv
  <2> QED
    BY <1>2, <1>3, <2>1, <2>2 DEF SummaryInv
<1> QED
  BY <1>5, <1>6, <1>7, <1>8, <1>9 DEF RunNext

(* The check of each verdict received is another one, so there are no more *)
(* of them than checks.                                                    *)
LEMMA VerdictsBounded ==
  ASSUME SummaryInv
  PROVE  /\ Cardinality(Received({"open", "closed"})) <= NumChecks
         /\ (\A c \in Checks : HasVerdict(c)) /\ read = Len(log) =>
              Cardinality(Received({"open", "closed"})) = NumChecks
         /\ stats["completed"] = Cardinality(Received({"open", "closed"}))
<1> DEFINE V == Received({"open", "closed"})
           f == [i \in V |-> log[i].check]
<1>1. /\ TypeOK /\ OncePerCheck /\ read <= Len(log)
      /\ read \in Nat /\ Len(log) \in Nat
  BY DEF SummaryInv, StreamInv, RunTypeOK, TypeOK, ScanInv, ChannelInv
<1>2. V \subseteq 1..Len(log) /\ \A i \in V : IsVerdict(i)
  BY <1>1 DEF Received, IsVerdict
<1>3. IsFiniteSet(Checks) /\ Cardinality(Checks) = NumChecks
  BY FS_Interval, NumChecksAssumption DEF Checks
<1>4. f \in Injection(V, Checks)
  <2>1. f \in [V -> Checks]
    BY <1>1, <1>2, LogTypes
  <2>2. \A i, j \in V : f[i] = f[j] => i = j
    BY <1>1, <1>2 DEF OncePerCheck
  <2> QED
    BY <2>1, <2>2 DEF Injection, IsInjective
<1>5. Cardinality(V) <= NumChecks
  BY <1>3, <1>4, FS_Injection
<1>6. ASSUME \A c \in Checks : HasVerdict(c), read = Len(log)
      PROVE  Cardinality(V) = NumChecks
  <2>1. \A c \in Checks : \E i \in V : f[i] = c
    BY <1>1, <1>6 DEF HasVerdict, Received, IsVerdict
  <2>2. f \in Surjection(V, Checks)
    BY <1>4, <2>1 DEF Injection, Surjection
  <2> QED
    BY <1>3, <1>4, <2>2, FS_Injection
<1>7. V = Received({"open"}) \cup Received({"closed"})
      /\ Received({"open"}) \cap Received({"closed"}) = {}
  BY DEF Received
<1>8. Cardinality(V) = Cardinality(Received({"open"}))
                       + Cardinality(Received({"closed"}))
  <2>1. /\ IsFiniteSet(Received({"open"})) /\ IsFiniteSet(Received({"closed"}))
        /\ Cardinality(Received({"open"})) \in Nat
        /\ Cardinality(Received({"closed"})) \in Nat
    BY <1>1, ReceivedFinite
  <2> HIDE DEF V
  <2>2. Cardinality(V) = Cardinality(Received({"open"}))
                         + Cardinality(Received({"closed"})) - Cardinality({})
    BY <1>7, <2>1, FS_Union
  <2> QED
    BY <2>1, <2>2, FS_EmptySet
<1> QED
  BY <1>5, <1>6, <1>8 DEF SummaryInv, CountersInv

(* SummaryInv holds throughout every run. *)
THEOREM RunSummary == RunSpec => []SummaryInv
<1>1. SummaryInv /\ [RunNext]_runVars => SummaryInv'
  BY SummaryStep
<1> QED
  BY SummaryInit, <1>1, PTL DEF RunSpec

(* For any number of checks and workers and in whatever order the events   *)
(* come, scanStats and the list of open ports add up at every moment: each *)
(* verdict counts once, each closed one in one error class, and never more *)
(* than there are checks.                                                  *)
THEOREM RunSummaryAddsUp == RunSpec => []SummaryAddsUp
<1>1. SummaryInv => SummaryAddsUp
  BY VerdictsBounded DEF SummaryInv, CountersInv, SummaryAddsUp
<1> QED
  BY RunSummary, <1>1, PTL

(* A report whose status is completed accounts for every check, although   *)
(* the status is read only after the loop and a cancellation may come at   *)
(* any moment: no check is missing from the counters or from the stream.   *)
THEOREM RunCompletedIsComplete == RunSpec => []CompletedIsComplete
<1>1. SummaryInv => CompletedIsComplete
  BY VerdictsBounded DEF SummaryInv, EndInv, Finished, CompletedIsComplete
<1> QED
  BY RunSummary, <1>1, PTL
=============================================================================
