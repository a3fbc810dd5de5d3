------------------------------ MODULE Pipeline ------------------------------
(***************************************************************************)
(* run in cmd/go-port-scanner: one goroutine takes the stages of a run one *)
(* after the other under one context, keeps a logger and perhaps a log     *)
(* file all along, and writes the report at the end.  What a stage does    *)
(* inside is in Scanner, ScanRun, Discovery and ReverseDNS; here it is one *)
(* step with any result these allow.  What matters here is which files and *)
(* streams are written, on which of the many ways out, and what the report *)
(* says.                                                                   *)
(***************************************************************************)
EXTENDS ReportDocument, SequencesExt

CONSTANTS
  Targets,        \* the expanded targets: a sequence without repetitions
  NumPorts,
  ProbeResults,   \* ProbeResults[port]: the outcomes of its handshakes
  Configurations, \* the validated configurations, records of the fields
                  \* reverseDNS, proxy, discovery, level (of verbosity),
                  \* logFile, report (a path or "off"), onlyWorking
  Leads,          \* Leads[path]: the file a path leads to
  Existing        \* the files there are before the run

ASSUME TargetsAssumption ==
  /\ Targets \in Seq(STRING) /\ Targets # <<>>
  /\ \A i, j \in DOMAIN Targets : Targets[i] = Targets[j] => i = j
ASSUME NumPortsAssumption == NumPorts \in Nat \ {0}
ASSUME ProbeResultsAssumption ==
  ProbeResults \in [1..NumPorts -> Seq({"ok", "failed"})]
ASSUME LeadsAssumption ==
  /\ DOMAIN Leads \cap {"stdout", "stderr", "off"} = {}
  /\ Existing \subseteq {Leads[p] : p \in DOMAIN Leads}
  /\ "config.yaml" \in DOMAIN Leads /\ Leads["config.yaml"] \in Existing
ASSUME ConfigurationsAssumption ==
  Configurations \subseteq
    [reverseDNS : BOOLEAN, proxy : {"off", "good", "bad"}, discovery : BOOLEAN,
     level : Nat, logFile : DOMAIN Leads \cup {"off"},
     report : DOMAIN Leads \cup {"stdout", "stderr", "off"},
     onlyWorking : BOOLEAN]

VARIABLES
  config,      \* the configuration of this run
  stage,       \* what run does next
  cancelled,   \* scanContext.Err() # nil
  existing,    \* the files there are
  content,     \* what is in each file or stream, in no order
  logFile,     \* "none", "open", "closed"
  logFailed,   \* logger.err # nil
  hostnames,   \* the targets with a PTR name
  alive,       \* the targets discovery found reachable
  targets,     \* the targets still to be scanned
  openEvents,  \* the open ports in the order of their events
  concluded,   \* how many checks were concluded
  interrupted, \* scanError # nil
  written,     \* the documents written whole: none or one
  errors       \* the errors joined in what run returns

diskVars  == <<existing, content>>
logVars   == <<logFile, logFailed>>
dataVars  == <<hostnames, alive, targets, openEvents, concluded, interrupted>>
vars == <<config, stage, cancelled, diskVars, logVars, dataVars, written, errors>>

Streams == {"stdout", "stderr"}
Files   == {Leads[p] : p \in DOMAIN Leads}
Blocks  == {"previous", "log", "report", "fragment", "error"}
Stages  ==
  {"validate", "open log", "names", "proxy", "discovery", "filter",
   "scan", "status", "report", "defer", "main", "exited"}

Reporting == config.report # "off"
Logging   == config.logFile # "off"
Checks    == Len(targets) * NumPorts

Init ==
  /\ config \in Configurations
  /\ stage = "validate"
  /\ cancelled = FALSE
  /\ existing = Existing
  /\ content = [f \in Files \cup Streams |->
                  IF f \in Existing THEN {"previous"} ELSE {}]
  /\ logFile = "none"
  /\ logFailed = FALSE
  /\ hostnames = {}
  /\ alive = {}
  /\ targets = Targets
  /\ openEvents = <<>>
  /\ concluded = 0
  /\ interrupted = FALSE
  /\ written = {}
  /\ errors = {}

-----------------------------------------------------------------------------
(* A signal or, once the context of the scan exists, its timeout. *)
Cancel ==
  /\ ~cancelled
  /\ cancelled' = TRUE
  /\ UNCHANGED <<config, stage, diskVars, logVars, dataVars, written, errors>>

Goto(next) == stage' = next /\ UNCHANGED errors

(* return: with a logger its deferred function is next *)
Fail(error) ==
  /\ errors' = errors \cup {error}
  /\ stage' = IF stage \in {"validate", "open log"} THEN "main" ELSE "defer"

-----------------------------------------------------------------------------
(* The logger. *)

(* reportLogOutput: the report has standard output for itself. *)
Terminal == IF config.report = "stdout" THEN "stderr" ELSE "stdout"

LogOutputs ==
  {Terminal} \cup (IF logFile = "open" THEN {Leads[config.logFile]} ELSE {})

Put(before, outputs, block) ==
  [f \in DOMAIN before |-> IF f \in outputs THEN before[f] \cup {block}
                           ELSE before[f]]

(* The lines of a stage, of which the most important has this level: the   *)
(* terminal is written before the file, and the first error is the last    *)
(* thing the logger does.                                                  *)
Log(before, level) ==
  /\ UNCHANGED logFile
  /\ IF config.level < level \/ logFailed
     THEN content' = before /\ UNCHANGED logFailed
     ELSE \E outputs \in {{}, {Terminal}, LogOutputs} :
            /\ content' = Put(before, outputs, "log")
            /\ logFailed' \in {outputs # LogOutputs, TRUE}

-----------------------------------------------------------------------------
(* Validation and the log file. *)

IsFile(destination) == destination \notin Streams \cup {"off"}

(* Mutant of SameFile: only the paths are compared. *)
SameFilePaths(left, right) == left = right

(* sameFile: equal paths, or two files that exist and are one *)
SameFile(left, right) ==
  \/ left = right
  \/ Leads[left] \in existing /\ Leads[right] \in existing
       /\ Leads[left] = Leads[right]

(* validateReportDestination and validateLogFileDestination *)
Collision ==
  \/ \E p \in {config.report, config.logFile} :
       IsFile(p) /\ SameFile(p, "config.yaml")
  \/ /\ IsFile(config.logFile) /\ IsFile(config.report)
     /\ SameFile(config.logFile, config.report)

Validate ==
  /\ stage = "validate"
  /\ \/ Collision /\ Fail("destination")
     \/ ~Collision /\ Goto("open log")
     \/ Fail("options or configuration")
  /\ UNCHANGED <<config, cancelled, diskVars, logVars, dataVars, written>>

(* Mutant of OpenLog: an existing log file is truncated. *)
OpenLogTruncates ==
  /\ stage = "open log"
  /\ Logging
  /\ existing' = existing \cup {Leads[config.logFile]}
  /\ content' = [content EXCEPT ![Leads[config.logFile]] = {}]
  /\ logFile' = "open"
  /\ Goto("names")
  /\ UNCHANGED <<config, cancelled, logFailed, dataVars, written>>

(* openLogOutput: a file is opened for appending, after its directory; if  *)
(* its mode cannot be changed it is closed again.                          *)
OpenLog ==
  /\ stage = "open log"
  /\ \/ ~Logging /\ Goto("names") /\ UNCHANGED <<existing, logFile>>
     \/ Logging /\ Fail("log file") /\ UNCHANGED <<existing, logFile>>
     \/ /\ Logging
        /\ existing' = existing \cup {Leads[config.logFile]}
        /\ \/ logFile' = "open" /\ Goto("names")
           \/ Fail("log file") /\ UNCHANGED logFile
  /\ UNCHANGED <<config, cancelled, content, logFailed, dataVars, written>>

-----------------------------------------------------------------------------
(* The network stages. *)

(* resolveHostnames: an ended context is the only error *)
Names ==
  /\ stage = "names"
  /\ IF ~config.reverseDNS
     THEN Goto("proxy") /\ UNCHANGED <<hostnames, content, logVars>>
     ELSE /\ Log(content, 1)
          /\ IF cancelled THEN Fail("names") /\ UNCHANGED hostnames
             ELSE /\ hostnames' \in SUBSET ToSet(Targets)
                  /\ Goto("proxy")
  /\ UNCHANGED <<config, cancelled, existing, alive, targets, openEvents,
                 concluded, interrupted, written>>

(* proxypool.New may refuse a URL that the validation has let through. *)
Proxy ==
  /\ stage = "proxy"
  /\ CASE config.proxy = "off"  -> Goto("discovery")
                                   /\ UNCHANGED <<content, logVars>>
       [] config.proxy = "good" -> Goto("discovery") /\ Log(content, 1)
       [] config.proxy = "bad"  -> Fail("proxy")
                                   /\ UNCHANGED <<content, logVars>>
  /\ UNCHANGED <<config, cancelled, existing, dataVars, written>>

Discover ==
  /\ stage = "discovery"
  /\ IF ~config.discovery
     THEN Goto("scan") /\ UNCHANGED <<alive, content, logVars>>
     ELSE /\ Log(content, 1)
          /\ IF cancelled THEN Fail("discovery") /\ UNCHANGED alive
             ELSE alive' \in SUBSET ToSet(Targets) /\ Goto("filter")
  /\ UNCHANGED <<config, cancelled, existing, hostnames, targets, openEvents,
                 concluded, interrupted, written>>

(* filterDiscoveryResults *)
Reachable == KeepTargets(Targets, alive)

Filter ==
  /\ stage = "filter"
  /\ Log(content, 1)
  /\ IF Reachable = <<>> THEN Fail("unreachable") /\ UNCHANGED targets
     ELSE targets' = Reachable /\ Goto("scan")
  /\ UNCHANGED <<config, cancelled, existing, hostnames, alive, openEvents,
                 concluded, interrupted, written>>

OpenEvent(check) ==
  [target |-> check[1], port |-> check[2], probes |-> ProbeResults[check[2]]]

(* The scan and the event loop (see ScanRun): the open ports arrive in any *)
(* order; checks are missing only if the context has ended.                *)
Scan ==
  /\ stage = "scan"
  /\ \E open \in SUBSET (ToSet(targets) \X (1..NumPorts)) :
       /\ \E order \in SetToSeqs(open) :
            openEvents' = [i \in DOMAIN order |-> OpenEvent(order[i])]
       /\ concluded' \in Cardinality(open)..Checks
       /\ concluded' # Checks => cancelled
  /\ Log(content, IF openEvents' = <<>> THEN 1 ELSE 0)
  /\ Goto("status")
  /\ UNCHANGED <<config, cancelled, existing, hostnames, alive, targets,
                 interrupted, written>>

-----------------------------------------------------------------------------
(* Status and report. *)

(* Mutant of ReadStatus: an interrupted scan is no error. *)
ReadStatusOnly ==
  /\ stage = "status"
  /\ interrupted' = cancelled
  /\ Goto("report")
  /\ Log(content, 1)
  /\ UNCHANGED <<config, cancelled, existing, hostnames, alive, targets,
                 openEvents, concluded, written>>

ReadStatus ==
  /\ stage = "status"
  /\ interrupted' = cancelled
  /\ stage' = "report"
  /\ errors' = IF cancelled THEN errors \cup {"interrupted"} ELSE errors
  /\ Log(content, 1)
  /\ UNCHANGED <<config, cancelled, existing, hostnames, alive, targets,
                 openEvents, concluded, written>>

(* buildReportDocument *)
Document ==
  [status    |-> IF interrupted THEN "interrupted" ELSE "completed",
   requested |-> Targets,
   scanned   |-> targets,
   discovery |-> IF config.discovery
                 THEN DiscoveryRows(Targets, alive, hostnames) ELSE <<>>,
   open      |-> OpenRows(openEvents, hostnames),
   summary   |-> [total |-> Checks, completed |-> concluded,
                  open |-> Len(openEvents),
                  closed |-> concluded - Len(openEvents)]]

Final ==
  Normalize(IF config.onlyWorking THEN FilterWorking(Document) ELSE Document)

(* The report is written whole; closing its file may still fail. *)
ReportWritten(before, closing) ==
  /\ written' = {Final}
  /\ \/ stage' = "defer" /\ UNCHANGED errors
        /\ Log(Put(before, {IF IsFile(config.report) THEN Leads[config.report]
                            ELSE config.report}, "report"), 1)
     \/ /\ closing /\ Fail("report") /\ UNCHANGED logVars
        /\ content' = Put(before, {Leads[config.report]}, "report")

(* Write fails: some of the report may have been written. *)
ReportCut(before, destination) ==
  /\ content' \in {before, Put(before, {destination}, "fragment")}
  /\ Fail("report")
  /\ UNCHANGED <<logVars, written>>

SkipReport ==
  /\ stage = "report"
  /\ ~Reporting
  /\ Goto("defer")
  /\ UNCHANGED <<config, cancelled, diskVars, logVars, dataVars, written>>

ReportToStream ==
  /\ stage = "report"
  /\ config.report \in Streams
  /\ ReportWritten(content, FALSE) \/ ReportCut(content, config.report)
  /\ UNCHANGED <<config, cancelled, existing, dataVars>>

Truncated(file) == [content EXCEPT ![file] = {}]

(* WriteDestination: directory and file, which is truncated, mode, write *)
ReportToFile ==
  /\ stage = "report"
  /\ IsFile(config.report)
  /\ \/ /\ Fail("report")
        /\ UNCHANGED <<diskVars, logVars, written>>
     \/ LET file == Leads[config.report] IN
        /\ existing' = existing \cup {file}
        /\ \/ ReportWritten(Truncated(file), TRUE)
           \/ ReportCut(Truncated(file), file)
  /\ UNCHANGED <<config, cancelled, dataVars>>

-----------------------------------------------------------------------------
(* The way out. *)

(* Mutant of Defer: an error of the logger stops it. *)
DeferFirstError ==
  /\ stage = "defer"
  /\ stage' = "main"
  /\ errors' = errors \cup IF logFailed THEN {"log"} ELSE {}
  /\ logFile' = IF logFile = "open" /\ ~logFailed THEN "closed" ELSE logFile
  /\ UNCHANGED <<config, cancelled, diskVars, logFailed, dataVars, written>>

(* The deferred function of the logger: its error and the one of closing   *)
(* the file are joined to whatever run returns.                            *)
Defer ==
  /\ stage = "defer"
  /\ stage' = "main"
  /\ \E closing \in {{}} \cup (IF logFile = "open" THEN {{"close"}} ELSE {}) :
       errors' = errors \cup closing \cup (IF logFailed THEN {"log"} ELSE {})
  /\ logFile' = IF logFile = "open" THEN "closed" ELSE logFile
  /\ UNCHANGED <<config, cancelled, diskVars, logFailed, dataVars, written>>

(* main prints the error, which makes the exit status 1. *)
Main ==
  /\ stage = "main"
  /\ Goto("exited")
  /\ content' = IF errors = {} THEN content
                ELSE Put(content, {"stderr"}, "error")
  /\ UNCHANGED <<config, cancelled, existing, logVars, dataVars, written>>

Runs ==
  \/ Validate \/ OpenLog \/ Names \/ Proxy \/ Discover \/ Filter \/ Scan
  \/ ReadStatus \/ SkipReport \/ ReportToStream \/ ReportToFile
  \/ Defer \/ Main

Next ==
  \/ Runs
  \/ Cancel
  \/ stage = "exited" /\ UNCHANGED vars

Spec == Init /\ [][Next]_vars

-----------------------------------------------------------------------------

Rows == [target : ToSet(Targets), available : BOOLEAN, named : BOOLEAN]
OpenPorts == [target : ToSet(Targets), port : 1..NumPorts,
              probes : Seq({"ok", "failed"}), named : BOOLEAN]
Documents ==
  [status : {"completed", "interrupted"}, requested : Seq(ToSet(Targets)),
   scanned : Seq(ToSet(Targets)), discovery : Seq(Rows), open : Seq(OpenPorts),
   summary : [total : Nat, completed : Nat, open : Nat, closed : Nat]]

TypeOK ==
  /\ config \in Configurations
  /\ stage \in Stages
  /\ cancelled \in BOOLEAN /\ logFailed \in BOOLEAN /\ interrupted \in BOOLEAN
  /\ existing \subseteq Files
  /\ content \in [Files \cup Streams -> SUBSET Blocks]
  /\ logFile \in {"none", "open", "closed"}
  /\ hostnames \subseteq ToSet(Targets) /\ alive \subseteq ToSet(Targets)
  /\ targets \in Seq(ToSet(Targets)) /\ targets # <<>>
  /\ concluded \in Nat
  /\ written \subseteq Documents /\ Cardinality(written) <= 1

Exited == stage = "exited"

(* The exit status can be trusted: without an error every check of every   *)
(* reachable target was concluded, the report that was asked for is there, *)
(* whole and with the status completed, and no line of the log is missing. *)
SuccessMeansDone ==
  Exited /\ errors = {} =>
    /\ concluded = Checks
    /\ targets = IF config.discovery THEN Reachable ELSE Targets
    /\ Reporting => \E d \in written : d.status = "completed"
    /\ ~logFailed

(* No way out leaves the log file open. *)
LogFileClosed == Exited => logFile # "open"

ReportFile == IF IsFile(config.report) THEN Leads[config.report]
              ELSE config.report

(* A report that was written to a file or to stdout has it for itself: no  *)
(* line of the log, no error and no rest of another report is in it.       *)
ReportAlone ==
  \A d \in written : config.report # "stderr" => content[ReportFile] = {"report"}

(* What was in a file stays there; only an earlier report is replaced, and *)
(* only once the run has come to its report.  Nothing is added to the file *)
(* of the configuration.                                                   *)
OnlyReportReplaces ==
  [][\A f \in Files :
       /\ ~(content[f] \subseteq content'[f]) =>
            stage = "report" /\ f = ReportFile /\ f \notin LogOutputs
       /\ f = Leads["config.yaml"] => content'[f] = content[f]]_vars

Kept(row) == IF config.onlyWorking THEN WorkingProbes(row) ELSE row

(* The report tells what the run has found: exactly the open ports of the  *)
(* run, in the order of the targets and of the ports, each with its name;  *)
(* counters that add up; every listed target accounted for, and with       *)
(* only_working only those that answered.                                  *)
ReportFaithful ==
  \A d \in written :
    /\ ToSet(d.open) = {Kept(row) : row \in ToSet(OpenRows(openEvents, hostnames))}
    /\ \A i, j \in DOMAIN d.open : i < j =>
         \/ d.open[i].target = d.open[j].target /\ d.open[i].port < d.open[j].port
         \/ Rank(d, d.open[i].target) < Rank(d, d.open[j].target)
    /\ TargetsOf(d.open) \subseteq ToSet(d.scanned)
    /\ ToSet(d.scanned) \subseteq ToSet(d.requested)
    /\ config.discovery =>
         /\ TargetsOf(d.discovery) = ToSet(d.requested)
         /\ {row.target : row \in {r \in ToSet(d.discovery) : r.available}}
              = ToSet(d.scanned)
    /\ d.summary.open = Len(d.open)
    /\ d.summary.completed = d.summary.open + d.summary.closed
    /\ d.summary.completed < d.summary.total => d.status = "interrupted"
    /\ config.onlyWorking /\ ~config.discovery =>
         ToSet(d.requested) = TargetsOf(d.open)
=============================================================================
