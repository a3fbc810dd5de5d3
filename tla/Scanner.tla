------------------------------- MODULE Scanner -------------------------------
(***************************************************************************)
(* The worker pool of internal/scanner: Scan starts a feeder (sendTargets) *)
(* and W workers that share two bounded channels and one context.          *)
(*                                                                         *)
(*   sendTargets --targets (cap W)--> worker 1..W --events (cap W)--> main *)
(*                                                                         *)
(* A check is a (host, port) pair; checks are numbered in the order in     *)
(* which sendTargets visits them, so the content of the channel targets is *)
(* the interval taken+1..sent.  The channel events is the sequence log of  *)
(* everything ever sent on it together with the number of events the       *)
(* consumer has received: its buffer holds log[read+1..Len(log)].          *)
(*                                                                         *)
(* The context has two clocks: the moment at which its deadline passes     *)
(* (expired) is the one that cuts dials and probes short, because the      *)
(* network deadlines are set to it, and the moment at which ctx.Err()      *)
(* becomes non-nil (cancelled) comes later, or earlier by a signal.        *)
(***************************************************************************)
EXTENDS Integers, Sequences

CONSTANTS
  NumChecks,   \* len(Targets) * len(Ports)
  Configs,     \* the configurations to consider: config.Workers, and whether
               \* scan_timeout gives the context a deadline
  Protocols,   \* Protocols[c] = len(ForPort(port of check c))
  DialErrors   \* the classes of dial errors that can occur

(* What New rejects is excluded here: no target, no port, no worker. *)
ASSUME NumChecksAssumption == NumChecks \in Nat \ {0}
ASSUME ConfigsAssumption ==
         Configs \subseteq [workers : Nat \ {0}, timed : BOOLEAN]
ASSUME ProtocolsAssumption == Protocols \in [1..NumChecks -> Nat]
ASSUME DialErrorsAssumption ==
         DialErrors \subseteq {"timeout", "refused", "unreachable", "other"}

VARIABLES
  config,     \* the configuration of this scan
  cancelled,  \* ctx.Err() # nil
  expired,    \* the deadline of ctx has passed
  feeder,     \* the goroutine of Scan: "sending", "waiting" for the workers
              \* (targets is closed), "closed" (events is closed)
  sent,       \* checks put into targets
  taken,      \* checks received from targets
  pc,         \* where each worker is
  check,      \* the check each worker works on
  conn,       \* whether the worker holds an open connection
  err,        \* the error of the verdict being built, "none" for Open
  probes,     \* results of runProbes so far
  log,        \* every event sent on events
  read        \* how many of them the consumer has received

contextVars == <<config, cancelled, expired>>
feederVars == <<feeder, sent>>
workerVars == <<taken, pc, check, conn, err, probes>>
vars == <<contextVars, feederVars, workerVars, log, read>>

Checks     == 1..NumChecks
NumWorkers == config.workers
Cap        == IF NumWorkers > NumChecks THEN NumChecks ELSE NumWorkers
WorkerIds  == 1..Cap

VerdictErrors == DialErrors \cup {"none", "cut"}
ProbeResults  == {"ok", "failed", "interrupted", "cut"}
PCs == {"select", "announce", "dial", "probe", "redial", "inspect", "report",
        "done"}
Kinds == {"checking", "open", "closed"}
Events == [kind : Kinds, check : Checks, err : VerdictErrors,
           probes : Seq(ProbeResults)]

-----------------------------------------------------------------------------

Init ==
  /\ config \in Configs
  /\ cancelled = FALSE
  /\ expired = FALSE
  /\ feeder = "sending"
  /\ sent = 0
  /\ taken = 0
  /\ pc = [w \in WorkerIds |-> "select"]
  /\ check = [w \in WorkerIds |-> 1]
  /\ conn = [w \in WorkerIds |-> FALSE]
  /\ err = [w \in WorkerIds |-> "none"]
  /\ probes = [w \in WorkerIds |-> <<>>]
  /\ log = <<>>
  /\ read = 0

(* The context: its deadline passes, and ctx.Err() becomes non-nil because *)
(* of the deadline or, at any time, of a signal.                           *)
Expire ==
  /\ config.timed
  /\ ~expired
  /\ expired' = TRUE
  /\ UNCHANGED <<config, cancelled, feederVars, workerVars, log, read>>

Cancel ==
  /\ ~cancelled
  /\ cancelled' = TRUE
  /\ UNCHANGED <<config, expired, feederVars, workerVars, log, read>>

-----------------------------------------------------------------------------
(* The feeder: sendTargets, then workers.Wait and close(events). *)

FeederSend ==
  /\ feeder = "sending"
  /\ sent < NumChecks
  /\ sent - taken < Cap
  /\ sent' = sent + 1
  /\ UNCHANGED <<contextVars, feeder, workerVars, log, read>>

(* Mutants of FeederReturn: the loop may end one target early; the send is *)
(* not in a select with ctx.Done().                                        *)
FeederReturnIf(over) ==
  /\ feeder = "sending"
  /\ over
  /\ feeder' = "waiting"
  /\ UNCHANGED <<contextVars, sent, workerVars, log, read>>
FeederReturnEarly == FeederReturnIf(sent >= NumChecks - 1 \/ cancelled)
FeederReturnAtEnd == FeederReturnIf(sent = NumChecks)

(* The deferred close(targets), at the end of the loop or on ctx.Done(). *)
FeederReturn ==
  /\ feeder = "sending"
  /\ sent = NumChecks \/ cancelled
  /\ feeder' = "waiting"
  /\ UNCHANGED <<contextVars, sent, workerVars, log, read>>

(* Mutant of CloseEvents: no workers.Wait(). *)
CloseEventsNoWait ==
  /\ feeder = "waiting"
  /\ feeder' = "closed"
  /\ UNCHANGED <<contextVars, sent, workerVars, log, read>>

CloseEvents ==
  /\ feeder = "waiting"
  /\ \A w \in WorkerIds : pc[w] = "done"
  /\ feeder' = "closed"
  /\ UNCHANGED <<contextVars, sent, workerVars, log, read>>

FeederNext == FeederSend \/ FeederReturn \/ CloseEvents

-----------------------------------------------------------------------------
(* A worker.  Every select is a choice between the enabled alternatives. *)

Goto(w, label) == pc' = [pc EXCEPT ![w] = label]

(* Mutants of Take: the target stays in the channel; the Checking event is *)
(* left out.                                                               *)
TakeAs(w, label, rest) ==
  /\ pc[w] = "select"
  /\ taken < sent
  /\ taken' = rest
  /\ check' = [check EXCEPT ![w] = taken + 1]
  /\ err' = [err EXCEPT ![w] = "none"]
  /\ probes' = [probes EXCEPT ![w] = <<>>]
  /\ Goto(w, label)
  /\ UNCHANGED <<contextVars, feederVars, conn, log, read>>
TakePeek(w)   == TakeAs(w, "announce", taken)
TakeSilent(w) == TakeAs(w, "dial", taken + 1)

(* case current, ok := <-targets, with ok *)
Take(w) ==
  /\ pc[w] = "select"
  /\ taken < sent
  /\ taken' = taken + 1
  /\ check' = [check EXCEPT ![w] = taken + 1]
  /\ err' = [err EXCEPT ![w] = "none"]
  /\ probes' = [probes EXCEPT ![w] = <<>>]
  /\ Goto(w, "announce")
  /\ UNCHANGED <<contextVars, feederVars, conn, log, read>>

(* Mutants of Drained: the worker leaves although targets are buffered; it *)
(* does not notice that the channel is closed.                             *)
DrainedEarly(w) ==
  /\ pc[w] = "select"
  /\ feeder # "sending"
  /\ Goto(w, "done")
  /\ UNCHANGED <<contextVars, feederVars, taken, check, conn, err,
                 probes, log, read>>
DrainedUnnoticed(w) == cancelled /\ DrainedEarly(w)

(* case current, ok := <-targets, with !ok *)
Drained(w) ==
  /\ pc[w] = "select"
  /\ feeder # "sending"
  /\ taken = sent
  /\ Goto(w, "done")
  /\ UNCHANGED <<contextVars, feederVars, taken, check, conn, err,
                 probes, log, read>>

(* case <-ctx.Done(), in the worker's select and in both of its emits *)
Abandon(w) ==
  /\ cancelled
  /\ pc[w] \in {"select", "announce", "report"}
  /\ Goto(w, "done")
  /\ UNCHANGED <<contextVars, feederVars, taken, check, conn, err,
                 probes, log, read>>

HasRoom == Len(log) - read < Cap

EmitChecking(w) ==
  /\ pc[w] = "announce"
  /\ HasRoom
  /\ log' = Append(log, [kind |-> "checking", check |-> check[w],
                         err |-> "none", probes |-> <<>>])
  /\ Goto(w, "dial")
  /\ UNCHANGED <<contextVars, feederVars, taken, check, conn, err,
                 probes, read>>

(* DialContext succeeds.  Without a protocol for the port the connection   *)
(* is closed at once; otherwise it goes to the first probe.                *)
DialOpen(w) ==
  /\ pc[w] = "dial"
  /\ IF Protocols[check[w]] = 0
     THEN Goto(w, "report") /\ UNCHANGED conn
     ELSE Goto(w, "probe") /\ conn' = [conn EXCEPT ![w] = TRUE]
  /\ UNCHANGED <<contextVars, feederVars, taken, check, err, probes,
                 log, read>>

(* The errors a dial can return: the target's own, or the network timeout  *)
(* that the deadline of ctx imposes ("cut").                               *)
DialOutcomes == DialErrors \cup (IF expired THEN {"cut"} ELSE {})

(* DialContext fails while ctx.Err() is nil: a Closed event. *)
DialFail(w) ==
  /\ pc[w] = "dial"
  /\ ~cancelled
  /\ \E e \in DialOutcomes : err' = [err EXCEPT ![w] = e]
  /\ Goto(w, "report")
  /\ UNCHANGED <<contextVars, feederVars, taken, check, conn, probes,
                 log, read>>

(* DialContext fails and ctx.Err() is not nil: the worker returns. *)
DialCancelled(w) ==
  /\ pc[w] = "dial"
  /\ cancelled
  /\ Goto(w, "done")
  /\ UNCHANGED <<contextVars, feederVars, taken, check, conn, err,
                 probes, log, read>>

(* After result number n of runProbes: dial for the next protocol, or      *)
(* return to the worker, which looks at ctx.Err().                         *)
NextProbe(w, n) ==
  Goto(w, IF n < Protocols[check[w]] THEN "redial" ELSE "inspect")

AddResult(w, result) ==
  /\ probes' = [probes EXCEPT ![w] = Append(@, result)]
  /\ NextProbe(w, Len(probes[w]) + 1)

(* Registry.Run reports ctx.Err() once it is set, whatever the handshake   *)
(* returned; only if there was none, because the deadline could not be     *)
(* set, it does not look.                                                  *)
RunOutcomes ==
  IF cancelled THEN {"interrupted", "failed"}
  ELSE {"ok", "failed"} \cup (IF expired THEN {"cut"} ELSE {})

(* One iteration of runProbes: Run, append the result, close. *)
Probe(w) ==
  /\ pc[w] = "probe"
  /\ \E result \in RunOutcomes : AddResult(w, result)
  /\ conn' = [conn EXCEPT ![w] = FALSE]
  /\ UNCHANGED <<contextVars, feederVars, taken, check, err, log, read>>

RedialOpen(w) ==
  /\ pc[w] = "redial"
  /\ conn' = [conn EXCEPT ![w] = TRUE]
  /\ Goto(w, "probe")
  /\ UNCHANGED <<contextVars, feederVars, taken, check, err, probes,
                 log, read>>

(* The dial of a later protocol fails: its result is the failure, and the  *)
(* loop goes on.                                                           *)
RedialFail(w) ==
  /\ pc[w] = "redial"
  /\ ~cancelled
  /\ \E result \in {"failed"} \cup (IF expired THEN {"cut"} ELSE {}) :
       AddResult(w, result)
  /\ UNCHANGED <<contextVars, feederVars, taken, check, conn, err,
                 log, read>>

(* The same with ctx.Err() set: runProbes returns what it has. *)
RedialCancelled(w) ==
  /\ pc[w] = "redial"
  /\ cancelled
  /\ Goto(w, "inspect")
  /\ UNCHANGED <<contextVars, feederVars, taken, check, conn, err,
                 probes, log, read>>

(* Mutant of Inspect: no look at ctx.Err() after runProbes. *)
InspectNothing(w) ==
  /\ pc[w] = "inspect"
  /\ Goto(w, "report")
  /\ UNCHANGED <<contextVars, feederVars, taken, check, conn, err,
                 probes, log, read>>

(* if ctx.Err() != nil { return } after runProbes *)
Inspect(w) ==
  /\ pc[w] = "inspect"
  /\ Goto(w, IF cancelled THEN "done" ELSE "report")
  /\ UNCHANGED <<contextVars, feederVars, taken, check, conn, err,
                 probes, log, read>>

Verdict(w) ==
  [kind   |-> IF err[w] = "none" THEN "open" ELSE "closed",
   check  |-> check[w],
   err    |-> err[w],
   probes |-> probes[w]]

EmitVerdict(w) ==
  /\ pc[w] = "report"
  /\ HasRoom
  /\ log' = Append(log, Verdict(w))
  /\ Goto(w, "select")
  /\ UNCHANGED <<contextVars, feederVars, taken, check, conn, err,
                 probes, read>>

WorkerNext(w) ==
  \/ Take(w) \/ Drained(w) \/ Abandon(w)
  \/ EmitChecking(w) \/ EmitVerdict(w)
  \/ DialOpen(w) \/ DialFail(w) \/ DialCancelled(w)
  \/ Probe(w) \/ RedialOpen(w) \/ RedialFail(w) \/ RedialCancelled(w)
  \/ Inspect(w)

-----------------------------------------------------------------------------
(* The consumer of the event stream. *)

Receive ==
  /\ read < Len(log)
  /\ read' = read + 1
  /\ UNCHANGED <<contextVars, feederVars, workerVars, log>>

Finished == feeder = "closed" /\ read = Len(log)

(* The stream has ended; nothing is left to do. *)
Terminated == Finished /\ UNCHANGED vars

ScanNext == FeederNext \/ \E w \in WorkerIds : WorkerNext(w)

Next == ScanNext \/ Receive \/ Expire \/ Cancel \/ Terminated

Spec == Init /\ [][Next]_vars

(* Goroutines that can run do run; every dial and handshake is bounded by  *)
(* dial_timeout or the probe timeout, so a worker inside one is not stuck. *)
(* The consumer is not part of it: it may stop receiving at any time.      *)
ScanFairness ==
  /\ WF_vars(FeederNext)
  /\ \A w \in UNION {1..c.workers : c \in Configs} :
       WF_vars(w \in WorkerIds /\ WorkerNext(w))

-----------------------------------------------------------------------------
(* Properties. *)

TypeOK ==
  /\ config \in Configs
  /\ cancelled \in BOOLEAN
  /\ expired \in BOOLEAN
  /\ feeder \in {"sending", "waiting", "closed"}
  /\ sent \in 0..NumChecks
  /\ taken \in 0..NumChecks
  /\ pc \in [WorkerIds -> PCs]
  /\ check \in [WorkerIds -> Checks]
  /\ conn \in [WorkerIds -> BOOLEAN]
  /\ err \in [WorkerIds -> VerdictErrors]
  /\ probes \in [WorkerIds -> Seq(ProbeResults)]
  /\ log \in Seq(Events)
  /\ read \in Nat

IsVerdict(i)   == log[i].kind \in {"open", "closed"}
Announced(c)   == \E i \in 1..Len(log) : log[i].kind = "checking"
                                         /\ log[i].check = c
HasVerdict(c)  == \E i \in 1..Len(log) : IsVerdict(i) /\ log[i].check = c

(* Several workers share the targets: still no check is announced twice    *)
(* and no check gets two verdicts.                                         *)
OncePerCheck ==
  \A i, j \in 1..Len(log) :
    log[i].check = log[j].check /\ (IsVerdict(i) <=> IsVerdict(j)) => i = j

(* A verdict comes after the Checking event of the same check, whatever    *)
(* other workers emit in between.                                          *)
VerdictAfterChecking ==
  \A i \in 1..Len(log) : IsVerdict(i) =>
    \E j \in 1..(i - 1) : log[j].kind = "checking"
                          /\ log[j].check = log[i].check

(* If the stream ends and the context is still alive, no check was lost    *)
(* between the feeder, the two channels and the workers.                   *)
NothingLost ==
  feeder = "closed" /\ ~cancelled => \A c \in Checks : HasVerdict(c)

(* An Open event holds one result per protocol of its port, and none of    *)
(* them is an artefact of the cancellation: partial results are dropped.   *)
OpenIsWhole ==
  \A i \in 1..Len(log) : log[i].kind = "open" =>
    /\ Len(log[i].probes) = Protocols[log[i].check]
    /\ \A k \in 1..Len(log[i].probes) : log[i].probes[k] # "interrupted"

(* No path out of a worker leaves a connection behind, and a worker that   *)
(* waits for the consumer or for the next target holds none.               *)
NoConnectionHeld ==
  \A w \in WorkerIds : conn[w] => pc[w] = "probe"

(* Neither channel outgrows its buffer, and nobody sends on a closed one.  *)
ChannelsSafe ==
  /\ sent - taken \in 0..Cap
  /\ Len(log) - read \in 0..Cap
  /\ feeder = "closed" => \A w \in WorkerIds : pc[w] = "done"

(* Cancelling the context stops the feeder and every worker and closes the *)
(* stream, even if the consumer has stopped receiving.                     *)
CancelReleases == cancelled ~> feeder = "closed"

-----------------------------------------------------------------------------
(* The inductive invariant behind the safety properties: what the counters *)
(* of the two channels, the positions of the workers and the event log     *)
(* have to do with each other.                                             *)

Active(w) == pc[w] \notin {"select", "done"}

(* What is between the feeder and the workers.  Without a cancellation     *)
(* nobody leaves before everything was sent and taken.                     *)
ChannelInv ==
  /\ taken <= sent
  /\ sent - taken <= Cap
  /\ read <= Len(log)
  /\ Len(log) - read <= Cap
  /\ feeder = "closed" => \A w \in WorkerIds : pc[w] = "done"
  /\ ~cancelled /\ feeder # "sending" => sent = NumChecks
  /\ ~cancelled => \A w \in WorkerIds :
       pc[w] = "done" => feeder # "sending" /\ taken = sent

(* Each active worker has a check of its own. *)
OwnerInv ==
  /\ \A w \in WorkerIds : Active(w) => check[w] <= taken
  /\ \A v, w \in WorkerIds :
       v # w /\ Active(v) /\ Active(w) => check[v] # check[w]

(* What a worker has in its hands, label by label. *)
Hand(w) ==
  /\ conn[w] => pc[w] = "probe"
  /\ pc[w] \in {"announce", "dial"} => err[w] = "none" /\ probes[w] = <<>>
  /\ pc[w] \in {"probe", "redial"} =>
       err[w] = "none" /\ Len(probes[w]) < Protocols[check[w]]
  /\ pc[w] \in {"probe", "redial", "inspect"} /\ ~cancelled =>
       \A k \in 1..Len(probes[w]) : probes[w][k] # "interrupted"
  /\ pc[w] = "inspect" /\ ~cancelled =>
       err[w] = "none" /\ Len(probes[w]) = Protocols[check[w]]
  /\ pc[w] = "report" /\ err[w] = "none" =>
       /\ Len(probes[w]) = Protocols[check[w]]
       /\ \A k \in 1..Len(probes[w]) : probes[w][k] # "interrupted"

HandInv == \A w \in WorkerIds : Hand(w)

(* What the log says of the check of a worker. *)
LogInv ==
  /\ \A i \in 1..Len(log) : log[i].check <= taken
  /\ \A w \in WorkerIds : pc[w] = "announce" => ~Announced(check[w])
  /\ \A w \in WorkerIds : Active(w) => ~HasVerdict(check[w])
  /\ \A w \in WorkerIds : Active(w) /\ pc[w] # "announce" =>
       Announced(check[w])

(* Without a cancellation, a check that was taken is still in the hands of *)
(* a worker or has its verdict.                                            *)
CoverInv ==
  ~cancelled =>
    \A c \in 1..taken :
      HasVerdict(c) \/ \E w \in WorkerIds : Active(w) /\ check[w] = c

ScanInv ==
  /\ ChannelInv
  /\ OwnerInv
  /\ HandInv
  /\ LogInv
  /\ CoverInv
  /\ OncePerCheck
  /\ VerdictAfterChecking
  /\ OpenIsWhole
=============================================================================
