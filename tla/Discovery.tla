------------------------------ MODULE Discovery ------------------------------
(***************************************************************************)
(* internal/discovery: Discover checks every target with a pool of workers *)
(* that range over a channel of jobs and write their result at the index   *)
(* of the target.  Targets are numbered in input order.  The answers of    *)
(* the network are chosen by the environment; the history variable heard   *)
(* remembers whether a target itself answered anything, which the program  *)
(* must infer from the error its dialer returns.                           *)
(***************************************************************************)
EXTENDS Integers

CONSTANTS
  NumTargets,  \* len(targets)
  NumWorkers,  \* config.Workers
  NumPorts,    \* len(config.Ports)
  Strategies,  \* the strategies of config.Strategy to consider
  Proxied      \* whether the dialer is a proxy pool

ASSUME NumTargetsAssumption == NumTargets \in Nat \ {0}
ASSUME NumWorkersAssumption == NumWorkers \in Nat \ {0}
ASSUME NumPortsAssumption   == NumPorts \in Nat \ {0}
ASSUME StrategiesAssumption ==
         Strategies \subseteq {"none", "tcp", "icmp", "icmp_then_tcp"}
ASSUME ProxiedAssumption    == Proxied \in BOOLEAN

VARIABLES
  strategy,   \* Discoverer.strategy
  cancelled,  \* ctx.Err() # nil
  caller,     \* Discover: "sending" jobs, "waiting" for the workers, then
              \* "returned" results or "failed"
  sent,       \* jobs put into the channel
  taken,      \* jobs received from it
  pc,         \* each worker: "range" over jobs, inside a check, or "done"
  target,     \* the job of the worker
  port,       \* the index of the port that checkTCP dials
  failed,     \* whether an attempt of the check failed with a real error
  results,    \* the slice of results
  writes,     \* history: how often each result was written
  heard,      \* history: targets that answered an attempt
  tried       \* history: the attempts made on each target (0 for ICMP)

jobVars == <<caller, sent>>
historyVars == <<heard, tried>>
vars == <<strategy, cancelled, jobVars, taken, pc, target, port, failed,
          results, writes, historyVars>>

Targets   == 1..NumTargets
Ports     == 1..NumPorts
Cap       == IF NumWorkers > NumTargets THEN NumTargets ELSE NumWorkers
WorkerIds == 1..Cap

Result(alive, method, err) == [alive |-> alive, method |-> method, err |-> err]

(* The zero value of a slot nobody wrote. *)
NoResult == Result(FALSE, "", "none")

Init ==
  /\ strategy \in Strategies
  /\ cancelled = FALSE
  /\ caller = "sending"
  /\ sent = 0
  /\ taken = 0
  /\ pc = [w \in WorkerIds |-> "range"]
  /\ target = [w \in WorkerIds |-> 1]
  /\ port = [w \in WorkerIds |-> 1]
  /\ failed = [w \in WorkerIds |-> FALSE]
  /\ results = [t \in Targets |-> NoResult]
  /\ writes = [t \in Targets |-> 0]
  /\ heard = {}
  /\ tried = [t \in Targets |-> {}]

Cancel ==
  /\ ~cancelled
  /\ cancelled' = TRUE
  /\ UNCHANGED <<strategy, jobVars, taken, pc, target, port, failed, results,
                 writes, historyVars>>

-----------------------------------------------------------------------------
(* The caller of the workers: Discover itself. *)

SendJob ==
  /\ caller = "sending"
  /\ sent < NumTargets
  /\ sent - taken < Cap
  /\ sent' = sent + 1
  /\ UNCHANGED <<strategy, cancelled, caller, taken, pc, target, port, failed,
                 results, writes, historyVars>>

(* Mutant of CloseJobs: only the cancelled path closes the channel. *)
CloseJobsOnCancel ==
  /\ caller = "sending"
  /\ cancelled
  /\ caller' = "waiting"
  /\ UNCHANGED <<strategy, cancelled, sent, taken, pc, target, port, failed,
                 results, writes, historyVars>>

(* close(jobs), at the end of the loop or after break sendJobs *)
CloseJobs ==
  /\ caller = "sending"
  /\ sent = NumTargets \/ cancelled
  /\ caller' = "waiting"
  /\ UNCHANGED <<strategy, cancelled, sent, taken, pc, target, port, failed,
                 results, writes, historyVars>>

(* workers.Wait() is over: the results, or the error of the context *)
Return ==
  /\ caller = "waiting"
  /\ \A w \in WorkerIds : pc[w] = "done"
  /\ caller' = IF cancelled THEN "failed" ELSE "returned"
  /\ UNCHANGED <<strategy, cancelled, sent, taken, pc, target, port, failed,
                 results, writes, historyVars>>

CallerNext == SendJob \/ CloseJobs \/ Return

-----------------------------------------------------------------------------
(* A worker.  It never looks at the context between two jobs. *)

Goto(w, label) == pc' = [pc EXCEPT ![w] = label]

FirstStep ==
  CASE strategy = "none"                      -> "assume"
    [] strategy = "tcp"                       -> "tcp"
    [] strategy \in {"icmp", "icmp_then_tcp"} -> "icmp"

(* Mutant of TakeJob: the job is the loop variable of the sender, not a    *)
(* copy of it.                                                             *)
TakeJobShared(w) ==
  /\ pc[w] = "range"
  /\ taken < sent
  /\ taken' = taken + 1
  /\ target' = [target EXCEPT ![w] = sent]
  /\ port' = [port EXCEPT ![w] = 1]
  /\ failed' = [failed EXCEPT ![w] = FALSE]
  /\ Goto(w, FirstStep)
  /\ UNCHANGED <<strategy, cancelled, jobVars, results, writes, historyVars>>

TakeJob(w) ==
  /\ pc[w] = "range"
  /\ taken < sent
  /\ taken' = taken + 1
  /\ target' = [target EXCEPT ![w] = taken + 1]
  /\ port' = [port EXCEPT ![w] = 1]
  /\ failed' = [failed EXCEPT ![w] = FALSE]
  /\ Goto(w, FirstStep)
  /\ UNCHANGED <<strategy, cancelled, jobVars, results, writes, historyVars>>

JobsClosed(w) ==
  /\ pc[w] = "range"
  /\ caller # "sending"
  /\ taken = sent
  /\ Goto(w, "done")
  /\ UNCHANGED <<strategy, cancelled, jobVars, taken, target, port, failed,
                 results, writes, historyVars>>

(* results[current.index] = d.check(...), and back to the channel *)
Write(w, result) ==
  /\ results' = [results EXCEPT ![target[w]] = result]
  /\ writes' = [writes EXCEPT ![target[w]] = @ + 1]
  /\ Goto(w, "range")
  /\ UNCHANGED <<port, failed>>

(* The error of a target that is not alive: the joined errors of its       *)
(* attempts; timeouts leave none.                                          *)
Dead(fail) == Result(FALSE, "", IF fail THEN "failed" ELSE "none")
Canceled == Result(FALSE, "", "canceled")

CheckNone(w) ==
  /\ pc[w] = "assume"
  /\ Write(w, Result(TRUE, "none", "none"))
  /\ UNCHANGED <<strategy, cancelled, jobVars, taken, target, historyVars>>

Record(w, attempt, answered) ==
  /\ tried' = [tried EXCEPT ![target[w]] = @ \cup {attempt}]
  /\ heard' = IF answered THEN heard \cup {target[w]} ELSE heard

(* checkICMP: an echo reply, no reply in time, or an error. *)
CheckICMP(w) ==
  /\ pc[w] = "icmp"
  /\ \E answer \in {"reply", "silence", "error"} :
       /\ Record(w, 0, answer = "reply")
       /\ IF answer = "reply" THEN Write(w, Result(TRUE, "icmp", "none"))
          ELSE IF cancelled THEN Write(w, Canceled)
          ELSE IF strategy = "icmp" THEN Write(w, Dead(answer = "error"))
          ELSE /\ failed' = [failed EXCEPT ![w] = answer = "error"]
               /\ Goto(w, "tcp")
               /\ UNCHANGED <<port, results, writes>>
  /\ UNCHANGED <<strategy, cancelled, jobVars, taken, target>>

(* What a dial comes to.  Through a proxy the error of a target that       *)
(* refuses is the proxy's word for it, and the proxy itself can refuse.    *)
Outcomes ==
  {"connected", "timeout", "unreachable"} \cup
  (IF Proxied THEN {"refused_by_proxy", "reported_refused"} ELSE {"refused"})

TargetAnswered(outcome) ==
  outcome \in {"connected", "refused", "reported_refused"}

(* Mutants of IsRefusal: a timeout counts as an answer; a refusal does not. *)
IsRefusalOrTimeout(outcome) == outcome \in {"refused", "timeout"}
IsNoRefusal(outcome) == outcome = "refused_by_proxy"

(* errors.Is(err, ECONNREFUSED) || errors.Is(err, ECONNRESET): the error   *)
(* of the connection to the proxy is wrapped with %w on its way.           *)
IsRefusal(outcome) == outcome \in {"refused", "refused_by_proxy"}

LastPort(w) == port[w] = NumPorts

(* One iteration of the loop of checkTCP. *)
CheckTCP(w) ==
  /\ pc[w] = "tcp"
  /\ \E outcome \in Outcomes :
       LET fail == failed[w] \/ outcome \in {"unreachable", "reported_refused"}
       IN
       /\ Record(w, port[w], TargetAnswered(outcome))
       /\ IF outcome = "connected" THEN Write(w, Result(TRUE, "tcp", "none"))
          ELSE IF cancelled THEN Write(w, Canceled)
          ELSE IF IsRefusal(outcome) THEN Write(w, Result(TRUE, "tcp", "none"))
          ELSE IF LastPort(w) THEN Write(w, Dead(fail))
          ELSE /\ failed' = [failed EXCEPT ![w] = fail]
               /\ port' = [port EXCEPT ![w] = @ + 1]
               /\ UNCHANGED <<pc, results, writes>>
  /\ UNCHANGED <<strategy, cancelled, jobVars, taken, target>>

WorkerNext(w) ==
  TakeJob(w) \/ JobsClosed(w) \/ CheckNone(w) \/ CheckICMP(w) \/ CheckTCP(w)

-----------------------------------------------------------------------------

Ended == caller \in {"returned", "failed"}

Next ==
  \/ CallerNext
  \/ \E w \in WorkerIds : WorkerNext(w)
  \/ Cancel
  \/ Ended /\ UNCHANGED vars

Spec == Init /\ [][Next]_vars

(* Every attempt is bounded by discovery.timeout. *)
FairSpec ==
  Spec /\ WF_vars(CallerNext) /\ \A w \in WorkerIds : WF_vars(WorkerNext(w))

-----------------------------------------------------------------------------

TypeOK ==
  /\ strategy \in Strategies
  /\ cancelled \in BOOLEAN
  /\ caller \in {"sending", "waiting", "returned", "failed"}
  /\ sent \in 0..NumTargets
  /\ taken \in 0..NumTargets
  /\ pc \in [WorkerIds -> {"range", "assume", "icmp", "tcp", "done"}]
  /\ target \in [WorkerIds -> Targets]
  /\ port \in [WorkerIds -> Ports]
  /\ failed \in [WorkerIds -> BOOLEAN]
  /\ results \in [Targets -> [alive  : BOOLEAN,
                              method : {"", "none", "icmp", "tcp"},
                              err    : {"none", "failed", "canceled"}]]
  /\ writes \in [Targets -> Nat]
  /\ heard \subseteq Targets
  /\ tried \in [Targets -> SUBSET (0..NumPorts)]

Busy(w) == pc[w] \in {"assume", "icmp", "tcp"}

(* The workers write the shared slice without a lock: no slot is ever      *)
(* written twice, and no two workers are about to write the same one.      *)
SlotsNotShared ==
  /\ \A t \in Targets : writes[t] <= 1
  /\ \A v, w \in WorkerIds :
       v # w /\ Busy(v) /\ Busy(w) => target[v] # target[w]
  /\ \A w \in WorkerIds : Busy(w) => writes[target[w]] = 0

(* Results that Discover returns are whole: every target was checked, and  *)
(* no result is an artefact of a cancelled context.                        *)
ResultsComplete ==
  caller = "returned" =>
    \A t \in Targets : writes[t] = 1 /\ results[t].err # "canceled"

(* A target is found alive only if it answered. *)
AliveAnswered ==
  \A t \in Targets :
    results[t].method \in {"icmp", "tcp"} => results[t].alive /\ t \in heard

(* The attempts a strategy has to make before it gives a target up. *)
AllAttempts ==
  CASE strategy = "none"          -> {}
    [] strategy = "icmp"          -> {0}
    [] strategy = "tcp"           -> Ports
    [] strategy = "icmp_then_tcp" -> {0} \cup Ports

(* A target that Discover reports unavailable, which the scan will skip,   *)
(* was tried in every way of the strategy and answered none.               *)
DeadWasSilent ==
  caller = "returned" =>
    \A t \in Targets :
      ~results[t].alive => tried[t] = AllAttempts /\ t \notin heard

(* Discover implements the ordered concurrent map: it succeeds only with a *)
(* result for every target under a live context, fails only because of the *)
(* context, and always returns, also when it is cancelled while jobs are   *)
(* still in the channel.                                                   *)
Pool == INSTANCE IndexedPool WITH
          Items <- Targets,
          decided <- {t \in Targets : writes[t] > 0},
          outcome <- IF Ended THEN caller ELSE "running"
PoolContract == Pool!FairSpec
=============================================================================
