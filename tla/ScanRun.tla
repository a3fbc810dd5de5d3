------------------------------ MODULE ScanRun -------------------------------
(***************************************************************************)
(* The scan stage of run in cmd/go-port-scanner: the event loop over the   *)
(* stream of Scanner, the statistics it keeps, and the status it reports.  *)
(* The context is looked at only once the loop is over, so the status is   *)
(* decided after the last event, not with it.                              *)
(***************************************************************************)
EXTENDS Scanner, FiniteSets

VARIABLES
  phase,      \* "scanning", "summary" (the loop is over), then the status:
              \* "completed" or "interrupted"
  stats,      \* scanStats
  openEvents  \* the Open events kept for the report

runVars == <<vars, phase, stats, openEvents>>

Counters == {"completed", "open", "closed", "timeouts", "refused",
             "unreachable", "otherErrors"}

(* The counter of scanStats for the error of a Closed event.  A dial cut   *)
(* by the deadline of the context fails with a network timeout.            *)
ErrorCounter(e) ==
  CASE e \in {"timeout", "cut"} -> "timeouts"
    [] e = "refused"            -> "refused"
    [] e = "unreachable"        -> "unreachable"
    [] e = "other"              -> "otherErrors"

(* Mutant of Counted: an announced check counts as completed. *)
CountedTooSoon(event) ==
  CASE event.kind = "checking" -> {"completed"}
    [] event.kind = "open"     -> {"open"}
    [] event.kind = "closed"   -> {"closed", ErrorCounter(event.err)}

(* The counters that scanStats.observe increments for an event. *)
Counted(event) ==
  CASE event.kind = "checking" -> {}
    [] event.kind = "open"     -> {"completed", "open"}
    [] event.kind = "closed"   -> {"completed", "closed",
                                   ErrorCounter(event.err)}

RunInit ==
  /\ Init
  /\ phase = "scanning"
  /\ stats = [k \in Counters |-> 0]
  /\ openEvents = <<>>

(* case event, open := <-events, with open *)
Observe ==
  /\ phase = "scanning"
  /\ Receive
  /\ LET event == log[read + 1] IN
     /\ stats' = [k \in Counters |->
                    IF k \in Counted(event) THEN stats[k] + 1 ELSE stats[k]]
     /\ openEvents' = IF event.kind = "open" THEN Append(openEvents, event)
                      ELSE openEvents
  /\ UNCHANGED phase

(* case event, open := <-events, with !open *)
StreamClosed ==
  /\ phase = "scanning"
  /\ Finished
  /\ phase' = "summary"
  /\ UNCHANGED <<vars, stats, openEvents>>

(* Mutant of ReadStatus: the error of the context is not looked at. *)
ReadNoStatus ==
  /\ phase = "summary"
  /\ phase' = "completed"
  /\ UNCHANGED <<vars, stats, openEvents>>

(* scanError := scanContext.Err(), which becomes the status of the report *)
ReadStatus ==
  /\ phase = "summary"
  /\ phase' = IF cancelled THEN "interrupted" ELSE "completed"
  /\ UNCHANGED <<vars, stats, openEvents>>

Reported == phase \in {"completed", "interrupted"}

RunNext ==
  \/ (ScanNext \/ Expire \/ Cancel) /\ UNCHANGED <<phase, stats, openEvents>>
  \/ Observe
  \/ StreamClosed
  \/ ReadStatus
  \/ Reported /\ UNCHANGED runVars

RunSpec == RunInit /\ [][RunNext]_runVars

(* The fairness of Scanner.  None is asked of the loop here, so that it can *)
(* be seen what happens when nobody receives.                              *)
FairRunSpec == RunSpec /\ ScanFairness

(* The loop of run waits for nothing but the stream. *)
LoopFairness == WF_runVars(Observe \/ StreamClosed \/ ReadStatus)

-----------------------------------------------------------------------------

RunTypeOK ==
  /\ TypeOK
  /\ phase \in {"scanning", "summary", "completed", "interrupted"}
  /\ stats \in [Counters -> Nat]
  /\ openEvents \in Seq(Events)

Received(kinds) == {i \in 1..read : log[i].kind \in kinds}

(* The summary counts what was received and nothing else: at every moment  *)
(* (the progress line reads it too) the checks that are completed are the  *)
(* open and the closed ones, each closed one is in exactly one error       *)
(* class, and the total is never exceeded.                                 *)
SummaryAddsUp ==
  /\ stats["open"] = Cardinality(Received({"open"}))
  /\ stats["open"] = Len(openEvents)
  /\ stats["closed"] = Cardinality(Received({"closed"}))
  /\ stats["completed"] = stats["open"] + stats["closed"]
  /\ stats["closed"] = stats["timeouts"] + stats["refused"]
                         + stats["unreachable"] + stats["otherErrors"]
  /\ stats["completed"] <= NumChecks

(* A report with the status completed accounts for every check. *)
CompletedIsComplete ==
  phase = "completed" =>
    /\ stats["completed"] = NumChecks
    /\ \A c \in Checks : HasVerdict(c)

(* The report can be trusted: its status is completed only if no check was *)
(* cut short by the scan timeout ("a partial result cannot be mistaken for *)
(* a complete scan").                                                      *)
PartialNeverComplete ==
  phase = "completed" =>
    \A i \in 1..Len(log) :
      /\ log[i].err # "cut"
      /\ \A k \in DOMAIN log[i].probes : log[i].probes[k] # "cut"

(* Every run whose event loop is scheduled comes to a report. *)
RunEnds == LoopFairness => <>Reported

-----------------------------------------------------------------------------
(* The run keeps the contract of ScanStream, as far as the consumer can    *)
(* tell from the events it has received.                                   *)

Seen(c) == {log[i].kind : i \in {j \in 1..read : log[j].check = c}}

SeenState == [c \in Checks |->
                IF "open" \in Seen(c) THEN "open"
                ELSE IF "closed" \in Seen(c) THEN "closed"
                ELSE IF "checking" \in Seen(c) THEN "checking"
                ELSE "pending"]

Stream == INSTANCE ScanStream WITH
            state   <- SeenState,
            outcome <- IF Reported THEN phase ELSE "running"

StreamContract == Stream!Spec
=============================================================================
