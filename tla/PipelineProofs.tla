----------------------------- MODULE PipelineProofs -----------------------------
(***************************************************************************)
(* A run of the program for any targets, configurations and files: what    *)
(* success means, which files are written, and what the report keeps to    *)
(* itself.                                                                 *)
(***************************************************************************)
EXTENDS Pipeline, FiniteSetTheorems, FunctionTheorems, TLAPS

-----------------------------------------------------------------------------
(* The inductive invariant. *)

Ending == {"defer", "main", "exited"}

(* What sameFile finds of two paths before the run has made a file. *)
SameBefore(left, right) ==
  left = right \/ (Leads[left] \in Existing /\ Leads[left] = Leads[right])

(* Which files there are, and that nothing was written before the log was  *)
(* opened.  The log file is open from then to the deferred function.       *)
FileInv ==
  /\ config \in Configurations
  /\ content \in [Files \cup Streams -> SUBSET Blocks]
  /\ logFailed \in BOOLEAN
  /\ stage = "validate" => existing = Existing
  /\ stage \in {"validate", "open log"} => logFile = "none"
  /\ logFile # "none" => Logging
  /\ stage \in {"main", "exited"} => logFile # "open"

(* Behind the validation neither destination is the configuration file,    *)
(* and if the two paths are one file, this file is new.                    *)
DestinationInv ==
  stage \notin {"validate", "main", "exited"} =>
    /\ \A p \in {config.report, config.logFile} :
         IsFile(p) => Leads[p] # Leads["config.yaml"]
    /\ IsFile(config.logFile) /\ IsFile(config.report) =>
         ~SameBefore(config.logFile, config.report)

(* The targets of the scan; and without an error all of it was done.       *)
DoneInv ==
  /\ stage \in {"validate", "open log", "names", "proxy", "discovery", "filter"} =>
       targets = Targets
  /\ stage = "filter" => config.discovery
  /\ stage \in {"scan", "status", "report"} \/ (stage \in Ending /\ errors = {}) =>
       targets = IF config.discovery THEN Reachable ELSE Targets
  /\ stage = "status" => concluded = Checks \/ cancelled
  /\ stage \in {"report"} \cup Ending /\ errors = {} =>
       concluded = Checks /\ ~interrupted
  /\ stage \in Ending /\ errors = {} /\ Reporting =>
       \E d \in written : d.status = "completed"
  /\ stage \in {"main", "exited"} /\ errors = {} => ~logFailed

RunInv == FileInv /\ DestinationInv /\ DoneInv

Contents == [Files \cup Streams -> SUBSET Blocks]

LEMMA ConfigIs ==
  ASSUME config \in Configurations
  PROVE  /\ config.level \in Nat
         /\ config.reverseDNS \in BOOLEAN
         /\ config.discovery \in BOOLEAN
         /\ config.proxy \in {"off", "good", "bad"}
         /\ Logging => IsFile(config.logFile) /\ Leads[config.logFile] \in Files
         /\ IsFile(config.report) => Leads[config.report] \in Files
         /\ Reporting /\ ~IsFile(config.report) => config.report \in Streams
         /\ Terminal \in Streams
<1>1. config \in [reverseDNS : BOOLEAN, proxy : {"off", "good", "bad"},
                  discovery : BOOLEAN, level : Nat, logFile : DOMAIN Leads \cup {"off"},
                  report : DOMAIN Leads \cup {"stdout", "stderr", "off"},
                  onlyWorking : BOOLEAN]
  BY ConfigurationsAssumption
<1> QED
  BY <1>1, LeadsAssumption DEF Logging, Reporting, IsFile, Files, Streams, Terminal

(* Putting a block into some outputs. *)
LEMMA PutIs ==
  ASSUME NEW before \in Contents, NEW outputs, NEW block \in Blocks
  PROVE  /\ Put(before, outputs, block) \in Contents
         /\ \A f \in Files \cup Streams :
              Put(before, outputs, block)[f] =
                IF f \in outputs THEN before[f] \cup {block} ELSE before[f]
BY DEF Put, Contents

(* What the lines of a stage leave: a line more or not in each output. *)
LEMMA LogIs ==
  ASSUME NEW before \in Contents, logFailed \in BOOLEAN, NEW level, Log(before, level)
  PROVE  /\ logFile' = logFile
         /\ logFailed' \in BOOLEAN
         /\ content' \in Contents
         /\ \A f \in Files \cup Streams :
              \/ content'[f] = before[f]
              \/ f \in LogOutputs /\ content'[f] = before[f] \cup {"log"}
<1>1. logFile' = logFile
  BY DEF Log
<1>2. CASE content' = before /\ UNCHANGED logFailed
  BY <1>1, <1>2
<1>3. CASE \E outputs \in {{}, {Terminal}, LogOutputs} :
             /\ content' = Put(before, outputs, "log")
             /\ logFailed' \in {outputs # LogOutputs, TRUE}
  <2>1. PICK outputs \in {{}, {Terminal}, LogOutputs} :
             /\ content' = Put(before, outputs, "log")
             /\ logFailed' \in {outputs # LogOutputs, TRUE}
    BY <1>3
  <2>2. "log" \in Blocks /\ outputs \subseteq LogOutputs
    BY DEF Blocks, LogOutputs
  <2>3. /\ content' \in Contents
        /\ \A f \in Files \cup Streams :
             content'[f] = IF f \in outputs THEN before[f] \cup {"log"} ELSE before[f]
    BY <2>1, <2>2, PutIs
  <2>4. logFailed' \in BOOLEAN
    BY <2>1
  <2> QED
    BY <1>1, <2>2, <2>3, <2>4
<1> QED
  BY <1>2, <1>3 DEF Log

LEMMA FailIs ==
  ASSUME NEW error, Fail(error)
  PROVE  /\ errors' # {}
         /\ stage \in {"validate", "open log"} => stage' = "main"
         /\ stage \notin {"validate", "open log"} => stage' = "defer"
BY DEF Fail

LEMMA RunInit == Init => RunInv
<1> SUFFICES ASSUME Init PROVE RunInv
  OBVIOUS
<1>1. /\ config \in Configurations /\ stage = "validate" /\ existing = Existing
      /\ logFile = "none" /\ logFailed = FALSE /\ targets = Targets
  BY DEF Init
<1>2. content \in [Files \cup Streams -> SUBSET Blocks]
  BY DEF Init, Blocks
<1>3. FileInv
  BY <1>1, <1>2 DEF FileInv
<1>4. DestinationInv /\ DoneInv
  BY <1>1 DEF DestinationInv, DoneInv, Ending
<1> QED
  BY <1>3, <1>4 DEF RunInv

(* The stages up to the scan. *)
LEMMA ValidateKeeps ==
  ASSUME RunInv, Validate
  PROVE  RunInv'
<1>1. /\ stage = "validate"
      /\ UNCHANGED <<config, existing, content, logFile, logFailed, targets>>
      /\ (~Collision /\ stage' = "open log" /\ UNCHANGED errors)
         \/ (stage' = "main" /\ errors' # {})
  <2>1. stage = "validate" /\ UNCHANGED <<config, diskVars, logVars, dataVars>>
    BY DEF Validate
  <2>2. (~Collision /\ stage' = "open log" /\ UNCHANGED errors)
        \/ (stage' = "main" /\ errors' # {})
    BY <2>1, FailIs DEF Validate, Goto
  <2> QED
    BY <2>1, <2>2 DEF diskVars, logVars, dataVars
<1>2. FileInv'
  BY <1>1 DEF RunInv, FileInv, Logging
<1>3. DestinationInv'
  <2>1. existing = Existing
    BY <1>1 DEF RunInv, FileInv
  <2>2. ASSUME ~Collision
        PROVE  /\ \A p \in {config.report, config.logFile} :
                    IsFile(p) => Leads[p] # Leads["config.yaml"]
               /\ IsFile(config.logFile) /\ IsFile(config.report) =>
                    ~SameBefore(config.logFile, config.report)
    BY <2>1, <2>2, LeadsAssumption DEF Collision, SameFile, SameBefore
  <2> QED
    BY <1>1, <2>2 DEF DestinationInv
<1>4. DoneInv'
  BY <1>1 DEF RunInv, DoneInv, Ending
<1> QED
  BY <1>2, <1>3, <1>4 DEF RunInv

LEMMA OpenLogKeeps ==
  ASSUME RunInv, OpenLog
  PROVE  RunInv'
<1>1. /\ stage = "open log"
      /\ UNCHANGED <<config, content, logFailed, targets>>
      /\ \/ ~Logging /\ stage' = "names" /\ UNCHANGED logFile
         \/ Logging /\ stage' = "names" /\ logFile' = "open"
         \/ stage' = "main" /\ errors' # {} /\ UNCHANGED logFile
  <2>1. stage = "open log" /\ UNCHANGED <<config, content, logFailed, dataVars>>
    BY DEF OpenLog
  <2>2. \/ ~Logging /\ stage' = "names" /\ UNCHANGED logFile
        \/ Logging /\ stage' = "names" /\ logFile' = "open"
        \/ stage' = "main" /\ errors' # {} /\ UNCHANGED logFile
    BY <2>1, FailIs DEF OpenLog, Goto
  <2> QED
    BY <2>1, <2>2 DEF dataVars
<1>2. FileInv'
  BY <1>1 DEF RunInv, FileInv, Logging
<1>3. DestinationInv'
  BY <1>1 DEF RunInv, DestinationInv
<1>4. DoneInv'
  BY <1>1 DEF RunInv, DoneInv, Ending
<1> QED
  BY <1>2, <1>3, <1>4 DEF RunInv

(* A stage with the logger in place goes on to the next one or fails. *)
LEMMA StageKeeps ==
  ASSUME RunInv,
         stage \in {"names", "proxy", "discovery", "filter"},
         UNCHANGED <<config, logFile>>,
         content' \in Contents, logFailed' \in BOOLEAN,
         \/ stage' = "defer" /\ errors' # {}
         \/ /\ UNCHANGED errors
            /\ \/ stage' \in {"proxy", "discovery"} /\ targets' = Targets
               \/ stage' = "filter" /\ targets' = Targets /\ config.discovery
               \/ /\ stage' = "scan"
                  /\ targets' = IF config.discovery THEN Reachable' ELSE Targets
  PROVE  RunInv'
<1>1. FileInv'
  BY DEF RunInv, FileInv, Contents, Logging
<1>2. DestinationInv'
  BY DEF RunInv, DestinationInv
<1>3. DoneInv'
  BY DEF RunInv, DoneInv, Ending
<1> QED
  BY <1>1, <1>2, <1>3 DEF RunInv

(* Goto and Fail of these stages, and their lines of log. *)
LEMMA StageTypes ==
  ASSUME RunInv
  PROVE  /\ config \in Configurations /\ content \in Contents /\ logFailed \in BOOLEAN
         /\ \A level : Log(content, level) =>
              UNCHANGED logFile /\ content' \in Contents /\ logFailed' \in BOOLEAN
BY LogIs DEF RunInv, FileInv, Contents

LEMMA NamesKeeps ==
  ASSUME RunInv, Names
  PROVE  RunInv'
<1>1. stage = "names" /\ UNCHANGED <<config, targets>>
  BY DEF Names
<1>2. (stage' = "proxy" /\ UNCHANGED errors) \/ (stage' = "defer" /\ errors' # {})
  BY <1>1, FailIs DEF Names, Goto
<1>3. UNCHANGED logFile /\ content' \in Contents /\ logFailed' \in BOOLEAN
  <2>1. Log(content, 1) \/ UNCHANGED <<content, logFile, logFailed>>
    BY DEF Names, logVars
  <2> QED
    BY <2>1, StageTypes
<1>4. targets = Targets
  BY <1>1 DEF RunInv, DoneInv
<1> QED
  BY <1>1, <1>2, <1>3, <1>4, StageKeeps

LEMMA ProxyKeeps ==
  ASSUME RunInv, Proxy
  PROVE  RunInv'
<1>1. stage = "proxy" /\ UNCHANGED <<config, targets>>
  BY DEF Proxy, dataVars
<1>2. config.proxy \in {"off", "good", "bad"}
  BY StageTypes, ConfigIs
<1>3. (stage' = "discovery" /\ UNCHANGED errors) \/ (stage' = "defer" /\ errors' # {})
  BY <1>1, <1>2, FailIs DEF Proxy, Goto
<1>4. UNCHANGED logFile /\ content' \in Contents /\ logFailed' \in BOOLEAN
  <2>1. Log(content, 1) \/ UNCHANGED <<content, logFile, logFailed>>
    BY <1>2 DEF Proxy, logVars
  <2> QED
    BY <2>1, StageTypes
<1>5. targets = Targets
  BY <1>1 DEF RunInv, DoneInv
<1> QED
  BY <1>1, <1>3, <1>4, <1>5, StageKeeps

LEMMA DiscoverKeeps ==
  ASSUME RunInv, Discover
  PROVE  RunInv'
<1>1. stage = "discovery" /\ UNCHANGED <<config, targets>>
  BY DEF Discover
<1>2. \/ stage' = "scan" /\ UNCHANGED errors /\ ~config.discovery
      \/ stage' = "filter" /\ UNCHANGED errors /\ config.discovery
      \/ stage' = "defer" /\ errors' # {}
  BY <1>1, FailIs DEF Discover, Goto
<1>3. UNCHANGED logFile /\ content' \in Contents /\ logFailed' \in BOOLEAN
  <2>1. Log(content, 1) \/ UNCHANGED <<content, logFile, logFailed>>
    BY DEF Discover, logVars
  <2> QED
    BY <2>1, StageTypes
<1>4. targets = Targets
  BY <1>1 DEF RunInv, DoneInv
<1> QED
  BY <1>1, <1>2, <1>3, <1>4, StageKeeps

LEMMA FilterKeeps ==
  ASSUME RunInv, Filter
  PROVE  RunInv'
<1>1. stage = "filter" /\ config.discovery /\ UNCHANGED <<config, alive>>
  BY DEF Filter, RunInv, DoneInv
<1>2. Reachable' = Reachable
  BY <1>1 DEF Reachable
<1>3. \/ stage' = "scan" /\ UNCHANGED errors /\ targets' = Reachable
      \/ stage' = "defer" /\ errors' # {}
  BY <1>1, FailIs DEF Filter, Goto
<1>4. UNCHANGED logFile /\ content' \in Contents /\ logFailed' \in BOOLEAN
  BY StageTypes DEF Filter
<1> QED
  BY <1>1, <1>2, <1>3, <1>4, StageKeeps

(* The scan, its status and the report. *)
LEMMA ScanKeeps ==
  ASSUME RunInv, Scan
  PROVE  RunInv'
<1>1. /\ stage = "scan" /\ stage' = "status"
      /\ UNCHANGED <<config, alive, targets, errors>>
      /\ concluded' = Checks \/ cancelled'
  <2>1. stage = "scan" /\ stage' = "status"
        /\ UNCHANGED <<config, cancelled, alive, targets, errors>>
    BY DEF Scan, Goto
  <2>2. concluded' = Checks \/ cancelled
    BY DEF Scan
  <2> QED
    BY <2>1, <2>2
<1>2. Reachable' = Reachable /\ Checks' = Checks
  BY <1>1 DEF Reachable, Checks
<1>3. UNCHANGED logFile /\ content' \in Contents /\ logFailed' \in BOOLEAN
  BY StageTypes DEF Scan
<1>4. FileInv'
  BY <1>1, <1>3 DEF RunInv, FileInv, Contents, Logging
<1>5. DestinationInv'
  BY <1>1 DEF RunInv, DestinationInv
<1>6. DoneInv'
  BY <1>1, <1>2 DEF RunInv, DoneInv, Ending
<1> QED
  BY <1>4, <1>5, <1>6 DEF RunInv

LEMMA ReadStatusKeeps ==
  ASSUME RunInv, ReadStatus
  PROVE  RunInv'
<1>1. /\ stage = "status" /\ stage' = "report"
      /\ UNCHANGED <<config, alive, targets, concluded>>
      /\ errors' = {} => ~cancelled /\ ~interrupted'
  BY DEF ReadStatus
<1>2. Reachable' = Reachable /\ Checks' = Checks
  BY <1>1 DEF Reachable, Checks
<1>3. UNCHANGED logFile /\ content' \in Contents /\ logFailed' \in BOOLEAN
  BY StageTypes DEF ReadStatus
<1>4. FileInv'
  BY <1>1, <1>3 DEF RunInv, FileInv, Contents, Logging
<1>5. DestinationInv'
  BY <1>1 DEF RunInv, DestinationInv
<1>6. DoneInv'
  BY <1>1, <1>2 DEF RunInv, DoneInv, Ending
<1> QED
  BY <1>4, <1>5, <1>6 DEF RunInv

(* The ways through the report. *)
LEMMA FinalStatus ==
  Final.status = IF interrupted THEN "interrupted" ELSE "completed"
<1>1. /\ "status" \in DOMAIN Document
      /\ Document.status = IF interrupted THEN "interrupted" ELSE "completed"
  BY DEF Document
<1>2. ASSUME NEW d, "status" \in DOMAIN d
      PROVE  Normalize(d).status = d.status
  BY <1>2, Zenon DEF Normalize
<1>3. ASSUME NEW d, "status" \in DOMAIN d
      PROVE  "status" \in DOMAIN FilterWorking(d) /\ FilterWorking(d).status = d.status
  BY <1>3, Zenon DEF FilterWorking
<1> QED
  BY <1>1, <1>2, <1>3 DEF Final

LEMMA ReportKeeps ==
  ASSUME RunInv, stage = "report",
         UNCHANGED <<config, alive, targets, concluded, interrupted, logFile>>,
         content' \in Contents, logFailed' \in BOOLEAN,
         \/ stage' = "defer" /\ errors' # {}
         \/ stage' = "defer" /\ UNCHANGED errors
            /\ (Reporting => written' = {Final})
  PROVE  RunInv'
<1>1. Reachable' = Reachable /\ Checks' = Checks
  BY DEF Reachable, Checks
<1>2. FileInv'
  BY DEF RunInv, FileInv, Contents, Logging
<1>3. DestinationInv'
  BY DEF RunInv, DestinationInv
<1>4. errors' = {} /\ Reporting => \E d \in written' : d.status = "completed"
  BY FinalStatus DEF RunInv, DoneInv
<1>5. DoneInv'
  BY <1>1, <1>4 DEF RunInv, DoneInv, Ending, Reporting
<1> QED
  BY <1>2, <1>3, <1>5 DEF RunInv

(* What ReportWritten and ReportCut do with the files. *)
LEMMA ReportWrites ==
  ASSUME RunInv, stage = "report", Reporting, NEW before \in Contents,
         \/ \E closing \in BOOLEAN : /\ closing => IsFile(config.report)
                                     /\ ReportWritten(before, closing)
         \/ ReportCut(before, ReportFile)
  PROVE  /\ UNCHANGED logFile
         /\ content' \in Contents /\ logFailed' \in BOOLEAN
         /\ stage' = "defer"
         /\ errors' # {} \/ (UNCHANGED errors /\ written' = {Final})
         /\ written' = written \/ written' = {Final}
         /\ \A f \in Files \cup Streams :
              \/ f = ReportFile
              \/ content'[f] = before[f]
              \/ f \in LogOutputs /\ content'[f] = before[f] \cup {"log"}
         /\ before[ReportFile] \subseteq content'[ReportFile]
         /\ written' # written =>
              \/ content'[ReportFile] = before[ReportFile] \cup {"report"}
              \/ /\ ReportFile \in LogOutputs
                 /\ content'[ReportFile] = before[ReportFile] \cup {"report", "log"}
<1>1. /\ ReportFile \in Files \cup Streams
      /\ logFailed \in BOOLEAN
  BY StageTypes, ConfigIs DEF ReportFile
<1>2. "report" \in Blocks /\ "fragment" \in Blocks
  BY DEF Blocks
<1>3. CASE ReportCut(before, ReportFile)
  <2>1. content' \in {before, Put(before, {ReportFile}, "fragment")}
        /\ UNCHANGED <<logFile, logFailed, written>> /\ Fail("report")
    BY <1>3 DEF ReportCut, logVars
  <2>2. stage' = "defer" /\ errors' # {}
    BY <2>1, FailIs
  <2> DEFINE cut == Put(before, {ReportFile}, "fragment")
  <2>3. /\ cut \in Contents
        /\ \A f \in Files \cup Streams :
             cut[f] = IF f = ReportFile THEN before[f] \cup {"fragment"} ELSE before[f]
    BY <1>2, PutIs
  <2>4. content' \in {before, cut}
    BY <2>1
  <2> HIDE DEF cut
  <2>5. /\ content' \in Contents
        /\ \A f \in Files \cup Streams : f = ReportFile \/ content'[f] = before[f]
        /\ before[ReportFile] \subseteq content'[ReportFile]
    BY <1>1, <2>3, <2>4
  <2> QED
    BY <1>1, <2>1, <2>2, <2>5
<1>4. ASSUME NEW closing \in BOOLEAN, closing => IsFile(config.report),
             ReportWritten(before, closing)
      PROVE  /\ written' = {Final}
             /\ UNCHANGED logFile
             /\ content' \in Contents /\ logFailed' \in BOOLEAN
             /\ stage' = "defer"
             /\ errors' # {} \/ UNCHANGED errors
             /\ \A f \in Files \cup Streams :
                  \/ f = ReportFile
                  \/ content'[f] = before[f]
                  \/ f \in LogOutputs /\ content'[f] = before[f] \cup {"log"}
             /\ before[ReportFile] \subseteq content'[ReportFile]
             /\ \/ content'[ReportFile] = before[ReportFile] \cup {"report"}
                \/ /\ ReportFile \in LogOutputs
                   /\ content'[ReportFile] = before[ReportFile] \cup {"report", "log"}
  <2> DEFINE after == Put(before, {ReportFile}, "report")
  <2>1. /\ after \in Contents
        /\ \A f \in Files \cup Streams :
             after[f] = IF f = ReportFile THEN before[f] \cup {"report"} ELSE before[f]
    BY <1>2, PutIs
  <2>2. CASE stage' = "defer" /\ UNCHANGED errors /\ Log(after, 1)
    <3> HIDE DEF after
    <3>1. /\ logFile' = logFile
          /\ logFailed' \in BOOLEAN
          /\ content' \in Contents
          /\ \A f \in Files \cup Streams :
               \/ content'[f] = after[f]
               \/ f \in LogOutputs /\ content'[f] = after[f] \cup {"log"}
      BY <1>1, <2>1, <2>2, LogIs
    <3> QED
      BY <1>1, <1>4, <2>1, <2>2, <3>1 DEF ReportWritten
  <2>3. CASE closing /\ Fail("report") /\ UNCHANGED logVars /\ content' = after
    <3>1. stage' = "defer" /\ errors' # {} /\ UNCHANGED <<logFile, logFailed>>
      BY <2>3, FailIs DEF logVars
    <3> HIDE DEF after
    <3> QED
      BY <1>1, <1>4, <2>1, <2>3, <3>1 DEF ReportWritten
  <2>4. ReportWritten(before, closing) <=>
          /\ written' = {Final}
          /\ \/ stage' = "defer" /\ UNCHANGED errors /\ Log(after, 1)
             \/ /\ closing /\ Fail("report") /\ UNCHANGED logVars
                /\ content' = Put(before, {Leads[config.report]}, "report")
    BY DEF ReportWritten, ReportFile
  <2>5. closing => Leads[config.report] = ReportFile
    BY <1>4 DEF ReportFile
  <2>6. written' = {Final}
    BY <1>4 DEF ReportWritten
  <2> QED
    BY <1>4, <2>2, <2>3, <2>4, <2>5, <2>6
<1> QED
  BY <1>3, <1>4

LEMMA TruncatedIs ==
  ASSUME content \in Contents, NEW file \in Files \cup Streams
  PROVE  /\ Truncated(file) \in Contents
         /\ \A f \in Files \cup Streams :
              Truncated(file)[f] = IF f = file THEN {} ELSE content[f]
BY DEF Truncated, Contents

(* The report is written to a stream as it is, and to a file that was      *)
(* truncated before; or nothing is touched.                                *)
Clean == IF IsFile(config.report) THEN Truncated(ReportFile) ELSE content

LEMMA ReportStepIs ==
  ASSUME RunInv, ReportToStream \/ ReportToFile
  PROVE  /\ stage = "report" /\ Reporting /\ Clean \in Contents
         /\ UNCHANGED <<config, alive, targets, concluded, interrupted, openEvents, hostnames>>
         /\ \/ /\ Fail("report")
               /\ UNCHANGED <<content, logFile, logFailed, written>>
            \/ \E closing \in BOOLEAN : /\ closing => IsFile(config.report)
                                        /\ ReportWritten(Clean, closing)
            \/ ReportCut(Clean, ReportFile)
<1>1. content \in Contents /\ config \in Configurations
  BY StageTypes
<1>2. CASE ReportToStream
  <2>1. /\ stage = "report" /\ config.report \in Streams
        /\ UNCHANGED <<config, alive, targets, concluded, interrupted, openEvents, hostnames>>
        /\ ReportWritten(content, FALSE) \/ ReportCut(content, config.report)
    BY <1>2 DEF ReportToStream, dataVars
  <2>2. ~IsFile(config.report) /\ Reporting /\ ReportFile = config.report
    BY <2>1 DEF IsFile, Reporting, ReportFile, Streams
  <2> QED
    BY <1>1, <2>1, <2>2 DEF Clean
<1>3. CASE ReportToFile
  <2>1. /\ stage = "report" /\ IsFile(config.report)
        /\ UNCHANGED <<config, alive, targets, concluded, interrupted, openEvents, hostnames>>
    BY <1>3 DEF ReportToFile, dataVars
  <2>2. /\ ReportFile = Leads[config.report] /\ Reporting /\ ReportFile \in Files
        /\ Clean = Truncated(ReportFile)
    BY <1>1, <2>1, ConfigIs DEF ReportFile, Reporting, IsFile, Clean
  <2>3. \/ Fail("report") /\ UNCHANGED <<diskVars, logVars, written>>
        \/ ReportWritten(Truncated(ReportFile), TRUE)
        \/ ReportCut(Truncated(ReportFile), ReportFile)
    BY <1>3, <2>2 DEF ReportToFile
  <2>4. Clean \in Contents
    BY <1>1, <2>2, TruncatedIs
  <2> QED
    BY <2>1, <2>2, <2>3, <2>4 DEF diskVars, logVars
<1> QED
  BY <1>2, <1>3

LEMMA ReportActionsKeep ==
  ASSUME RunInv, SkipReport \/ ReportToStream \/ ReportToFile
  PROVE  RunInv'
<1>1. CASE SkipReport
  <2>1. /\ stage = "report" /\ ~Reporting /\ stage' = "defer" /\ UNCHANGED errors
        /\ UNCHANGED <<config, alive, targets, concluded, interrupted, logFile, content,
                       logFailed>>
    BY <1>1 DEF SkipReport, Goto, diskVars, logVars, dataVars
  <2> QED
    BY <2>1, ReportKeeps, StageTypes
<1>2. CASE ReportToStream \/ ReportToFile
  <2>1. /\ stage = "report" /\ Reporting /\ Clean \in Contents
        /\ UNCHANGED <<config, alive, targets, concluded, interrupted>>
        /\ \/ /\ Fail("report")
              /\ UNCHANGED <<content, logFile, logFailed, written>>
           \/ \E closing \in BOOLEAN : /\ closing => IsFile(config.report)
                                       /\ ReportWritten(Clean, closing)
           \/ ReportCut(Clean, ReportFile)
    BY <1>2, ReportStepIs
  <2>2. /\ UNCHANGED logFile
        /\ content' \in Contents /\ logFailed' \in BOOLEAN
        /\ stage' = "defer"
        /\ errors' # {} \/ (UNCHANGED errors /\ written' = {Final})
    <3>1. CASE Fail("report") /\ UNCHANGED <<content, logFile, logFailed, written>>
      BY <2>1, <3>1, FailIs, StageTypes
    <3> QED
      BY <2>1, <3>1, ReportWrites
  <2> QED
    BY <2>1, <2>2, ReportKeeps
<1> QED
  BY <1>1, <1>2

(* The way out. *)
LEMMA DeferKeeps ==
  ASSUME RunInv, Defer
  PROVE  RunInv'
<1>1. /\ stage = "defer" /\ stage' = "main"
      /\ logFile' = IF logFile = "open" THEN "closed" ELSE logFile
      /\ UNCHANGED <<config, alive, targets, concluded, interrupted, content, logFailed,
                     written>>
      /\ errors' = {} => errors = {} /\ ~logFailed
  <2>1. errors' = {} => errors = {} /\ ~logFailed
    BY DEF Defer
  <2> QED
    BY <2>1 DEF Defer, diskVars, dataVars
<1>2. Reachable' = Reachable /\ Checks' = Checks
  BY <1>1 DEF Reachable, Checks
<1>3. FileInv'
  BY <1>1 DEF RunInv, FileInv, Logging
<1>4. DestinationInv'
  BY <1>1 DEF DestinationInv
<1>5. DoneInv'
  BY <1>1, <1>2 DEF RunInv, DoneInv, Ending, Reporting
<1> QED
  BY <1>3, <1>4, <1>5 DEF RunInv

LEMMA MainKeeps ==
  ASSUME RunInv, Main
  PROVE  RunInv'
<1>1. /\ stage = "main" /\ stage' = "exited"
      /\ UNCHANGED <<config, alive, targets, concluded, interrupted, logFile, logFailed,
                     written, errors>>
      /\ content' \in {content, Put(content, {"stderr"}, "error")}
  BY DEF Main, Goto, logVars, dataVars
<1>2. content' \in Contents
  BY <1>1, StageTypes, PutIs DEF Blocks
<1>3. Reachable' = Reachable /\ Checks' = Checks
  BY <1>1 DEF Reachable, Checks
<1>4. FileInv'
  BY <1>1, <1>2 DEF RunInv, FileInv, Logging, Contents
<1>5. DestinationInv'
  BY <1>1 DEF DestinationInv
<1>6. DoneInv'
  BY <1>1, <1>3 DEF RunInv, DoneInv, Ending, Reporting
<1> QED
  BY <1>4, <1>5, <1>6 DEF RunInv

LEMMA CancelKeeps ==
  ASSUME RunInv, Cancel \/ UNCHANGED vars
  PROVE  RunInv'
<1>1. /\ UNCHANGED <<config, stage, existing, content, logFile, logFailed, alive, targets,
                     concluded, interrupted, written, errors>>
      /\ cancelled => cancelled'
  BY DEF Cancel, vars, diskVars, logVars, dataVars
<1>2. Reachable' = Reachable /\ Checks' = Checks
  BY <1>1 DEF Reachable, Checks
<1>3. FileInv'
  BY <1>1 DEF RunInv, FileInv, Logging
<1>4. DestinationInv'
  BY <1>1 DEF RunInv, DestinationInv
<1>5. DoneInv'
  BY <1>1, <1>2 DEF RunInv, DoneInv, Ending, Reporting
<1> QED
  BY <1>3, <1>4, <1>5 DEF RunInv

LEMMA RunStep ==
  ASSUME RunInv, [Next]_vars
  PROVE  RunInv'
BY ValidateKeeps, OpenLogKeeps, NamesKeeps, ProxyKeeps, DiscoverKeeps, FilterKeeps,
   ScanKeeps, ReadStatusKeeps, ReportActionsKeep, DeferKeeps, MainKeeps, CancelKeeps
   DEF Next, Runs

(* RunInv holds throughout every run, whatever its configuration, its      *)
(* files, the results of its stages and the moment of a cancellation.      *)
THEOREM RunInvariant == Spec => []RunInv
<1>1. RunInv /\ [Next]_vars => RunInv'
  BY RunStep
<1> QED
  BY RunInit, <1>1, PTL DEF Spec

(* Every way out of run closes the log file that it has opened. *)
THEOREM LogClosed == Spec => []LogFileClosed
<1>1. RunInv => LogFileClosed
  BY DEF RunInv, FileInv, LogFileClosed, Exited
<1> QED
  BY RunInvariant, <1>1, PTL

(* The exit status can be trusted: a run without an error has concluded    *)
(* every check of every reachable target, has written the report that was  *)
(* asked for with the status completed, and has not lost a line of log.    *)
THEOREM SuccessIsReal == Spec => []SuccessMeansDone
<1>1. RunInv => SuccessMeansDone
  BY DEF RunInv, DoneInv, SuccessMeansDone, Exited, Ending
<1> QED
  BY RunInvariant, <1>1, PTL

-----------------------------------------------------------------------------
(* Who writes where.  sameFile can tell two names of one file only if the  *)
(* file is there before the run: OwnFiles says that a file which is not    *)
(* has one name, and that no name leads to a stream (see PipelineAlias).   *)

OwnFiles ==
  /\ Files \cap Streams = {}
  /\ \A p, q \in DOMAIN Leads : p # q /\ Leads[p] = Leads[q] => Leads[p] \in Existing

(* The destination of the report is clean until it is written, and then it *)
(* has the report.                                                         *)
ReportInv ==
  /\ written # {} => /\ stage \in Ending /\ Reporting
                     /\ config.report # "stderr" => content[ReportFile] = {"report"}
  /\ stage \notin Ending /\ config.report = "stdout" => content["stdout"] = {}

(* The report, the log and the configuration are apart. *)
LEMMA OutputsApart ==
  ASSUME OwnFiles, RunInv, stage \notin {"validate", "main", "exited"}
  PROVE  /\ Leads["config.yaml"] \in Files /\ Leads["config.yaml"] \notin LogOutputs
         /\ Reporting => Leads["config.yaml"] # ReportFile
         /\ Reporting /\ config.report # "stderr" => ReportFile \notin LogOutputs
         /\ config.report = "stdout" => "stdout" \notin LogOutputs
<1>1. /\ Logging => IsFile(config.logFile) /\ Leads[config.logFile] \in Files
      /\ IsFile(config.report) => Leads[config.report] \in Files
      /\ Reporting /\ ~IsFile(config.report) => config.report \in Streams
      /\ Terminal \in Streams
  BY StageTypes, ConfigIs
<1>2. /\ IsFile(config.report) => Leads[config.report] # Leads["config.yaml"]
      /\ IsFile(config.logFile) => Leads[config.logFile] # Leads["config.yaml"]
      /\ IsFile(config.logFile) /\ IsFile(config.report) =>
           ~SameBefore(config.logFile, config.report)
  BY DEF RunInv, DestinationInv
<1>3. LogOutputs \subseteq {Terminal} \cup (IF Logging THEN {Leads[config.logFile]} ELSE {})
  BY DEF RunInv, FileInv, LogOutputs
<1>4. /\ IsFile(config.logFile) /\ Logging => config.logFile \in DOMAIN Leads
      /\ IsFile(config.report) => config.report \in DOMAIN Leads
  <2>1. config.logFile \in DOMAIN Leads \cup {"off"}
        /\ config.report \in DOMAIN Leads \cup {"stdout", "stderr", "off"}
    BY StageTypes, ConfigurationsAssumption
  <2> QED
    BY <2>1 DEF IsFile, Streams
<1>5. Logging /\ IsFile(config.report) => Leads[config.logFile] # Leads[config.report]
  BY <1>1, <1>2, <1>4 DEF SameBefore, OwnFiles
<1>6. Leads["config.yaml"] \in Files /\ \A f \in Files : f \notin Streams
  BY LeadsAssumption DEF Files, OwnFiles
<1>7. Leads["config.yaml"] \notin LogOutputs
  BY <1>1, <1>2, <1>3, <1>6
<1>8. Reporting => Leads["config.yaml"] # ReportFile
  BY <1>1, <1>2, <1>6 DEF ReportFile
<1>9. Reporting /\ config.report # "stderr" => ReportFile \notin LogOutputs
  <2>1. CASE IsFile(config.report)
    BY <1>1, <1>3, <1>5, <1>6, <2>1 DEF ReportFile
  <2>2. CASE config.report = "stdout"
    <3>1. Terminal = "stderr" /\ "stdout" \in Streams /\ ~IsFile(config.report)
      BY <2>2 DEF Terminal, Streams, IsFile
    <3> QED
      BY <1>1, <1>3, <1>6, <2>2, <3>1 DEF ReportFile
  <2> QED
    BY <1>1, <2>1, <2>2 DEF Streams
<1>10. config.report = "stdout" => "stdout" \notin LogOutputs
  BY <1>9 DEF Reporting, ReportFile, IsFile, Streams
<1> QED
  BY <1>6, <1>7, <1>8, <1>9, <1>10

(* All other stages add lines to the log, and main its message to stderr.  *)
LEMMA OtherWrites ==
  ASSUME RunInv, [Next]_vars,
         ~(ReportToStream \/ ReportToFile)
  PROVE  /\ UNCHANGED <<config, written>>
         /\ stage \in Ending => stage' \in Ending
         /\ stage \in {"validate", "open log", "report", "defer", "exited"} =>
              content' = content
         /\ \A f \in Files \cup Streams :
              \/ content'[f] = content[f]
              \/ /\ f \in LogOutputs /\ stage \notin {"validate"} \cup Ending
                 /\ content'[f] = content[f] \cup {"log"}
              \/ /\ f = "stderr" /\ stage = "main"
                 /\ content'[f] = content[f] \cup {"error"}
<1>0. content \in Contents /\ logFailed \in BOOLEAN
  BY StageTypes
<1>1. CASE UNCHANGED <<config, stage, content, written>>
  BY <1>1
<1>2. Cancel \/ UNCHANGED vars => UNCHANGED <<config, stage, content, written>>
  BY DEF Cancel, vars, diskVars
<1>3. CASE Validate \/ OpenLog \/ SkipReport
  <2>1. /\ stage \in {"validate", "open log", "report"}
        /\ UNCHANGED <<config, content, written>>
    BY <1>3 DEF Validate, OpenLog, SkipReport, diskVars
  <2> QED
    BY <2>1 DEF Ending
<1>4. CASE Names \/ Proxy \/ Discover \/ Filter \/ Scan \/ ReadStatus
  <2>1. /\ stage \in {"names", "proxy", "discovery", "filter", "scan", "status"}
        /\ UNCHANGED <<config, written>>
    BY <1>4 DEF Names, Proxy, Discover, Filter, Scan, ReadStatus
  <2>2. config.proxy \in {"off", "good", "bad"}
    BY StageTypes, ConfigIs
  <2>3. content' = content \/ \E level : Log(content, level)
    BY <1>4, <2>2 DEF Names, Proxy, Discover, Filter, Scan, ReadStatus
  <2>4. \A f \in Files \cup Streams :
          \/ content'[f] = content[f]
          \/ f \in LogOutputs /\ content'[f] = content[f] \cup {"log"}
    BY <1>0, <2>3, LogIs
  <2> QED
    BY <2>1, <2>4 DEF Ending
<1>5. CASE Defer
  <2>1. stage = "defer" /\ stage' = "main" /\ UNCHANGED <<config, content, written>>
    BY <1>5 DEF Defer, diskVars
  <2> QED
    BY <2>1 DEF Ending
<1>6. CASE Main
  <2>1. /\ stage = "main" /\ stage' = "exited" /\ UNCHANGED <<config, written>>
        /\ content' \in {content, Put(content, {"stderr"}, "error")}
    BY <1>6 DEF Main, Goto
  <2> DEFINE after == Put(content, {"stderr"}, "error")
  <2>2. \A f \in Files \cup Streams :
          after[f] = IF f = "stderr" THEN content[f] \cup {"error"} ELSE content[f]
    <3>1. "error" \in Blocks
      BY DEF Blocks
    <3>2. \A f \in Files \cup Streams :
            after[f] = IF f \in {"stderr"} THEN content[f] \cup {"error"} ELSE content[f]
      BY <1>0, <3>1, PutIs
    <3> QED
      BY <3>2
  <2>3. content' \in {content, after}
    BY <2>1
  <2> HIDE DEF after
  <2> QED
    BY <2>1, <2>2, <2>3 DEF Ending
<1> QED
  BY <1>1, <1>2, <1>3, <1>4, <1>5, <1>6 DEF Next, Runs

LEMMA ReportInvInit ==
  ASSUME OwnFiles, Init
  PROVE  ReportInv
<1>1. written = {} /\ content["stdout"] = {}
  <2>1. "stdout" \notin Existing /\ "stdout" \in Streams
    BY LeadsAssumption DEF OwnFiles, Files, Streams
  <2> QED
    BY <2>1 DEF Init
<1> QED
  BY <1>1 DEF ReportInv

(* What the report stage leaves. *)
LEMMA ReportLeaves ==
  ASSUME OwnFiles, RunInv, ReportInv, ReportToStream \/ ReportToFile
  PROVE  /\ stage = "report" /\ stage' = "defer" /\ Reporting /\ UNCHANGED config
         /\ written' # {} /\ config.report # "stderr" => content'[ReportFile] = {"report"}
         /\ \A f \in Files : \/ content[f] \subseteq content'[f]
                             \/ f = ReportFile /\ f \notin LogOutputs
         /\ content'[Leads["config.yaml"]] = content[Leads["config.yaml"]]
<1>1. /\ stage = "report" /\ Reporting /\ Clean \in Contents /\ UNCHANGED config
      /\ \/ /\ Fail("report")
            /\ UNCHANGED <<content, logFile, logFailed, written>>
         \/ \E closing \in BOOLEAN : /\ closing => IsFile(config.report)
                                     /\ ReportWritten(Clean, closing)
         \/ ReportCut(Clean, ReportFile)
  BY ReportStepIs
<1>2. written = {} /\ (config.report = "stdout" => content["stdout"] = {})
  BY <1>1 DEF ReportInv, Ending
<1>3. /\ Leads["config.yaml"] \in Files /\ Leads["config.yaml"] \notin LogOutputs
      /\ Leads["config.yaml"] # ReportFile
      /\ config.report # "stderr" => ReportFile \notin LogOutputs
  BY <1>1, OutputsApart
<1>4. /\ content \in Contents
      /\ IsFile(config.report) => ReportFile \in Files
      /\ ~IsFile(config.report) => ReportFile = config.report /\ config.report \in Streams
  BY <1>1, StageTypes, ConfigIs DEF ReportFile
<1>5. /\ \A f \in Files \cup Streams : f # ReportFile => Clean[f] = content[f]
      /\ config.report # "stderr" => Clean[ReportFile] = {}
  <2>1. CASE IsFile(config.report)
    <3>1. \A f \in Files \cup Streams :
            Clean[f] = IF f = ReportFile THEN {} ELSE content[f]
      BY <1>4, <2>1, TruncatedIs DEF Clean
    <3> QED
      BY <1>4, <2>1, <3>1
  <2>2. CASE ~IsFile(config.report)
    BY <1>2, <1>4, <2>2 DEF Clean, Streams
  <2> QED
    BY <2>1, <2>2
<1>6. CASE Fail("report") /\ UNCHANGED <<content, logFile, logFailed, written>>
  BY <1>1, <1>2, <1>6, FailIs
<1>7. CASE \/ \E closing \in BOOLEAN : /\ closing => IsFile(config.report)
                                       /\ ReportWritten(Clean, closing)
           \/ ReportCut(Clean, ReportFile)
  <2>1. /\ stage' = "defer"
        /\ \A f \in Files \cup Streams :
             \/ f = ReportFile
             \/ content'[f] = Clean[f]
             \/ f \in LogOutputs /\ content'[f] = Clean[f] \cup {"log"}
        /\ written' # written =>
             \/ content'[ReportFile] = Clean[ReportFile] \cup {"report"}
             \/ /\ ReportFile \in LogOutputs
                /\ content'[ReportFile] = Clean[ReportFile] \cup {"report", "log"}
    BY <1>1, <1>7, ReportWrites
  <2>2. written' # {} /\ config.report # "stderr" => content'[ReportFile] = {"report"}
    BY <1>2, <1>3, <1>5, <2>1
  <2>3. ASSUME NEW f \in Files
        PROVE  \/ content[f] \subseteq content'[f]
               \/ f = ReportFile /\ f \notin LogOutputs
    <3>1. CASE f # ReportFile
      BY <1>5, <2>1, <3>1
    <3>2. CASE f = ReportFile
      <4>1. config.report # "stderr"
        BY <1>4, <3>2 DEF OwnFiles, IsFile, Streams
      <4> QED
        BY <1>3, <3>2, <4>1
    <3> QED
      BY <3>1, <3>2
  <2>4. content'[Leads["config.yaml"]] = content[Leads["config.yaml"]]
    BY <1>3, <1>5, <2>1
  <2> QED
    BY <1>1, <2>1, <2>2, <2>3, <2>4
<1> QED
  BY <1>1, <1>6, <1>7

LEMMA ReportInvStep ==
  ASSUME OwnFiles, RunInv, ReportInv, [Next]_vars
  PROVE  ReportInv'
<1>1. CASE ReportToStream \/ ReportToFile
  <2>1. /\ stage' = "defer" /\ Reporting /\ UNCHANGED config
        /\ written' # {} /\ config.report # "stderr" => content'[ReportFile] = {"report"}
    BY <1>1, ReportLeaves
  <2> QED
    BY <2>1 DEF ReportInv, Ending, Reporting, ReportFile, IsFile
<1>2. CASE ~(ReportToStream \/ ReportToFile)
  <2>1. /\ UNCHANGED <<config, written>>
        /\ stage \in Ending => stage' \in Ending
        /\ stage \in {"validate", "open log", "report", "defer", "exited"} =>
             content' = content
        /\ \A f \in Files \cup Streams :
             \/ content'[f] = content[f]
             \/ /\ f \in LogOutputs /\ stage \notin {"validate"} \cup Ending
                /\ content'[f] = content[f] \cup {"log"}
             \/ /\ f = "stderr" /\ stage = "main"
                /\ content'[f] = content[f] \cup {"error"}
    BY <1>2, OtherWrites
  <2>2. ASSUME written # {}
        PROVE  /\ stage \in Ending /\ Reporting
               /\ config.report # "stderr" => content'[ReportFile] = content[ReportFile]
    <3>1. stage \in Ending /\ Reporting
      BY <2>2 DEF ReportInv
    <3>2. /\ ReportFile \in Files \cup Streams
          /\ config.report # "stderr" => ReportFile # "stderr"
      <4>1. config \in Configurations
        BY StageTypes
      <4>2. /\ IsFile(config.report) => Leads[config.report] \in Files
            /\ ~IsFile(config.report) => config.report \in Streams
        BY <3>1, <4>1, ConfigIs
      <4> QED
        BY <4>2 DEF ReportFile, OwnFiles, Streams
    <3> QED
      BY <2>1, <3>1, <3>2
  <2>3. ASSUME stage' \notin Ending, config.report = "stdout"
        PROVE  content'["stdout"] = content["stdout"]
    <3>1. stage \notin Ending /\ stage # "main"
      BY <2>1, <2>3 DEF Ending
    <3>2. stage # "validate" => "stdout" \notin LogOutputs
      BY <2>3, <3>1, OutputsApart DEF Ending
    <3> QED
      BY <2>1, <3>1, <3>2 DEF Streams
  <2> QED
    BY <2>1, <2>2, <2>3 DEF ReportInv, Reporting, ReportFile, IsFile
<1> QED
  BY <1>1, <1>2

LEMMA ReplaceStep ==
  ASSUME OwnFiles, RunInv, ReportInv, [Next]_vars, NEW f \in Files
  PROVE  /\ ~(content[f] \subseteq content'[f]) =>
              stage = "report" /\ f = ReportFile /\ f \notin LogOutputs
         /\ f = Leads["config.yaml"] => content'[f] = content[f]
<1>1. CASE ReportToStream \/ ReportToFile
  BY <1>1, ReportLeaves
<1>2. CASE ~(ReportToStream \/ ReportToFile)
  <2>1. \/ content'[f] = content[f]
        \/ /\ f \in LogOutputs /\ stage \notin {"validate"} \cup Ending
           /\ content'[f] = content[f] \cup {"log"}
        \/ /\ f = "stderr" /\ stage = "main"
           /\ content'[f] = content[f] \cup {"error"}
    BY <1>2, OtherWrites
  <2>2. f # "stderr"
    BY DEF OwnFiles, Streams
  <2>3. stage \notin {"validate"} \cup Ending => Leads["config.yaml"] \notin LogOutputs
    BY OutputsApart DEF Ending
  <2> QED
    BY <2>1, <2>2, <2>3
<1> QED
  BY <1>1, <1>2

(* If every file that the run makes has one name, a report that was        *)
(* written to a file or to standard output has it for itself: neither a    *)
(* line of the log nor an error nor the rest of an earlier report is in it.*)
THEOREM ReportIsAlone ==
  ASSUME OwnFiles
  PROVE  Spec => []ReportAlone
<1>1. Init => ReportInv
  BY ReportInvInit
<1>2. RunInv /\ ReportInv /\ [Next]_vars => ReportInv'
  BY ReportInvStep
<1>3. ReportInv => ReportAlone
  BY DEF ReportInv, ReportAlone
<1> QED
  BY <1>1, <1>2, <1>3, RunInvariant, PTL DEF Spec

(* Under the same condition no step takes anything out of a file but the   *)
(* one that replaces an earlier report, in the report stage and never in a *)
(* file that also takes the log; and the file of the configuration is left *)
(* as it is.                                                               *)
THEOREM FilesKept ==
  ASSUME OwnFiles
  PROVE  Spec => OnlyReportReplaces
<1>1. Init => ReportInv
  BY ReportInvInit
<1>2. RunInv /\ ReportInv /\ [Next]_vars => ReportInv'
  BY ReportInvStep
<1>3. RunInv /\ ReportInv /\ [Next]_vars =>
        [\A f \in Files :
           /\ ~(content[f] \subseteq content'[f]) =>
                stage = "report" /\ f = ReportFile /\ f \notin LogOutputs
           /\ f = Leads["config.yaml"] => content'[f] = content[f]]_vars
  BY ReplaceStep
<1> QED
  BY <1>1, <1>2, <1>3, RunInvariant, PTL DEF Spec, OnlyReportReplaces

-----------------------------------------------------------------------------
(* What the report is made of. *)

(* A strict order of these positions. *)
Orders(before, P) ==
  /\ \A i \in P : <<i, i>> \notin before
  /\ \A i, j \in P : i = j \/ <<i, j>> \in before \/ <<j, i>> \in before
  /\ \A i, j, k \in P : <<i, j>> \in before /\ <<j, k>> \in before => <<i, k>> \in before

Earlier(P, before, i) == {j \in P : <<j, i>> \in before}

(* Which position comes k-th. *)
Chosen(P, before, k) == CHOOSE i \in P : Cardinality(Earlier(P, before, i)) = k - 1

(* How many others are before a position tells the positions apart, and    *)
(* grows in the order.                                                     *)
LEMMA EarlierGrows ==
  ASSUME NEW P, IsFiniteSet(P), NEW before, Orders(before, P),
         NEW i \in P, NEW j \in P, <<i, j>> \in before
  PROVE  /\ Cardinality(Earlier(P, before, i)) \in Nat
         /\ Cardinality(Earlier(P, before, j)) \in Nat
         /\ Cardinality(Earlier(P, before, i)) < Cardinality(Earlier(P, before, j))
<1> DEFINE low  == Earlier(P, before, i)
           high == Earlier(P, before, j)
<1>1. low \in SUBSET P /\ high \in SUBSET P
  BY DEF Earlier
<1>2. IsFiniteSet(low) /\ IsFiniteSet(high)
  BY <1>1, FS_Subset
<1>3. low \cup {i} \in SUBSET high /\ i \notin low
  BY DEF Earlier, Orders
<1> HIDE DEF low, high
<1>4. Cardinality(low \cup {i}) = Cardinality(low) + 1
  BY <1>2, <1>3, FS_AddElement
<1>5. Cardinality(low \cup {i}) <= Cardinality(high)
  BY <1>2, <1>3, FS_Subset
<1>6. Cardinality(low) \in Nat /\ Cardinality(high) \in Nat
  BY <1>2, FS_CardinalityType
<1>7. Cardinality(low) < Cardinality(high)
  BY <1>4, <1>5, <1>6
<1> QED
  BY <1>6, <1>7 DEF low, high

LEMMA EarlierCounts ==
  ASSUME NEW P, IsFiniteSet(P), NEW before, Orders(before, P), NEW i \in P
  PROVE  Cardinality(Earlier(P, before, i)) \in 0..(Cardinality(P) - 1)
<1> DEFINE low == Earlier(P, before, i)
<1>1. low \in SUBSET P /\ i \notin low
  BY DEF Earlier, Orders
<1>2. IsFiniteSet(low) /\ Cardinality(low) <= Cardinality(P) /\ low # P
      /\ (Cardinality(low) = Cardinality(P) => low = P)
  BY <1>1, FS_Subset
<1>3. Cardinality(low) \in Nat /\ Cardinality(P) \in Nat
  BY <1>2, FS_CardinalityType
<1> QED
  BY <1>2, <1>3

(* The k-th position is there, comes before the ones behind it, and every  *)
(* position is the k-th for one k.                                         *)
LEMMA ChosenIs ==
  ASSUME NEW P, IsFiniteSet(P), NEW before, Orders(before, P)
  PROVE  /\ Cardinality(P) \in Nat
         /\ \A k \in 1..Cardinality(P) :
              /\ Chosen(P, before, k) \in P
              /\ Cardinality(Earlier(P, before, Chosen(P, before, k))) = k - 1
         /\ \A i \in P : \E k \in 1..Cardinality(P) : Chosen(P, before, k) = i
         /\ \A k, l \in 1..Cardinality(P) :
              k < l => <<Chosen(P, before, k), Chosen(P, before, l)>> \in before
<1> DEFINE n == Cardinality(P)
           C(i) == Cardinality(Earlier(P, before, i))
           c == [i \in P |-> C(i)]
<1>1. n \in Nat
  BY FS_CardinalityType
<1>2. \A i \in P : C(i) \in 0..(n - 1)
  BY EarlierCounts
<1>3. \A i, j \in P : <<i, j>> \in before => C(i) < C(j)
  BY EarlierGrows
<1> HIDE DEF C
<1>4. \A i, j \in P : C(i) = C(j) => i = j
  <2> SUFFICES ASSUME NEW i \in P, NEW j \in P, i # j
               PROVE  C(i) # C(j)
    OBVIOUS
  <2>1. <<i, j>> \in before \/ <<j, i>> \in before
    BY DEF Orders
  <2>2. C(i) < C(j) \/ C(j) < C(i)
    BY <1>3, <2>1
  <2>3. C(i) \in Int /\ C(j) \in Int
    BY <1>1, <1>2
  <2> QED
    BY <2>2, <2>3
<1>5. c \in Injection(P, 0..(n - 1))
  <2>1. c \in [P -> 0..(n - 1)]
    BY <1>2
  <2>2. \A a, b \in P : c[a] = c[b] => a = b
    BY <1>4
  <2> HIDE DEF c
  <2> QED
    BY <2>1, <2>2, Fun_IsInj
<1>6. IsFiniteSet(0..(n - 1)) /\ Cardinality(0..(n - 1)) = n
  BY <1>1, FS_Interval
<1>7. c \in Surjection(P, 0..(n - 1))
  <2> HIDE DEF c
  <2> QED
    BY <1>5, <1>6, FS_Injection
<1>8. \A m \in 0..(n - 1) : \E i \in P : C(i) = m
  <2>1. \A m \in 0..(n - 1) : \E i \in P : c[i] = m
    <3> HIDE DEF c
    <3> QED
      BY <1>7 DEF Surjection
  <2> QED
    BY <2>1
<1>9. \A k \in 1..n : Chosen(P, before, k) \in P /\ C(Chosen(P, before, k)) = k - 1
  <2> SUFFICES ASSUME NEW k \in 1..n
               PROVE  Chosen(P, before, k) \in P /\ C(Chosen(P, before, k)) = k - 1
    OBVIOUS
  <2>1. k - 1 \in 0..(n - 1)
    BY <1>1
  <2>2. \E i \in P : C(i) = k - 1
    BY <1>8, <2>1
  <2> QED
    BY <2>2 DEF Chosen, C
<1> HIDE DEF n
<1>10. \A i \in P : \E k \in 1..n : Chosen(P, before, k) = i
  <2> SUFFICES ASSUME NEW i \in P
               PROVE  \E k \in 1..n : Chosen(P, before, k) = i
    OBVIOUS
  <2>1. C(i) + 1 \in 1..n /\ (C(i) + 1) - 1 = C(i)
    BY <1>1, <1>2
  <2>2. Chosen(P, before, C(i) + 1) = i
    BY <1>4, <1>9, <2>1
  <2> QED
    BY <2>1, <2>2
<1>11. \A k, l \in 1..n : k < l => <<Chosen(P, before, k), Chosen(P, before, l)>> \in before
  <2> SUFFICES ASSUME NEW k \in 1..n, NEW l \in 1..n, k < l
               PROVE  <<Chosen(P, before, k), Chosen(P, before, l)>> \in before
    OBVIOUS
  <2> DEFINE a == Chosen(P, before, k)
             b == Chosen(P, before, l)
  <2>1. a \in P /\ b \in P /\ C(a) = k - 1 /\ C(b) = l - 1
    BY <1>9
  <2> HIDE DEF a, b
  <2>2. C(a) < C(b) /\ C(a) \in Int /\ C(b) \in Int
    BY <1>1, <2>1
  <2>3. a = b \/ <<a, b>> \in before \/ <<b, a>> \in before
    BY <2>1 DEF Orders
  <2>4. <<a, b>> \in before
    BY <1>3, <2>1, <2>2, <2>3
  <2> QED
    BY <2>4 DEF a, b
<1> QED
  BY <1>1, <1>9, <1>10, <1>11 DEF n, C

(* What a rearranged sequence holds. *)
LEMMA ArrangedIs ==
  ASSUME NEW S, NEW s \in Seq(S), NEW P \in SUBSET (1..Len(s)),
         NEW before, Orders(before, P)
  PROVE  /\ Arranged(s, P, before) \in Seq(S)
         /\ Len(Arranged(s, P, before)) = Cardinality(P)
         /\ Cardinality(P) \in Nat
         /\ \A k \in 1..Cardinality(P) :
              /\ Chosen(P, before, k) \in P
              /\ Arranged(s, P, before)[k] = s[Chosen(P, before, k)]
         /\ \A i \in P : \E k \in 1..Cardinality(P) : Chosen(P, before, k) = i
         /\ \A k, l \in 1..Cardinality(P) :
              k < l => <<Chosen(P, before, k), Chosen(P, before, l)>> \in before
<1>1. Len(s) \in Nat /\ s \in [1..Len(s) -> S]
  OBVIOUS
<1>2. IsFiniteSet(P)
  <2>1. IsFiniteSet(1..Len(s))
    BY <1>1, FS_Interval
  <2> QED
    BY <2>1, FS_Subset
<1> DEFINE n == Cardinality(P)
<1>3. Arranged(s, P, before) = [k \in 1..n |-> s[Chosen(P, before, k)]]
  BY DEF Arranged, Chosen, Earlier
<1>4. /\ n \in Nat
      /\ \A k \in 1..n : Chosen(P, before, k) \in P
      /\ \A i \in P : \E k \in 1..n : Chosen(P, before, k) = i
      /\ \A k, l \in 1..n : k < l => <<Chosen(P, before, k), Chosen(P, before, l)>> \in before
  BY <1>2, ChosenIs
<1> HIDE DEF n
<1>5. \A k \in 1..n : s[Chosen(P, before, k)] \in S
  BY <1>1, <1>4
<1>6. Arranged(s, P, before) \in [1..n -> S]
  BY <1>3, <1>5
<1>7. Arranged(s, P, before) \in Seq(S) /\ Len(Arranged(s, P, before)) = n
  BY <1>4, <1>6
<1>8. \A k \in 1..n : Arranged(s, P, before)[k] = s[Chosen(P, before, k)]
  BY <1>3
<1> QED
  BY <1>4, <1>7, <1>8 DEF n

(* Keeping positions keeps just these elements, in their order. *)
LEMMA KeepIs ==
  ASSUME NEW S, NEW s \in Seq(S), NEW P \in SUBSET (1..Len(s))
  PROVE  /\ Keep(s, P) \in Seq(S)
         /\ ToSet(Keep(s, P)) = {s[i] : i \in P}
         /\ IsInjective(s) => IsInjective(Keep(s, P))
<1> DEFINE before == {p \in P \X P : p[1] < p[2]}
           r == Arranged(s, P, before)
           n == Cardinality(P)
<1>1. Keep(s, P) = r
  BY DEF Keep
<1>2. \A i, j \in P : <<i, j>> \in before <=> i < j
  OBVIOUS
<1>3. P \in SUBSET Int
  OBVIOUS
<1> HIDE DEF before
<1>4. Orders(before, P)
  BY <1>2, <1>3 DEF Orders
<1>5. /\ r \in Seq(S) /\ Len(r) = n /\ n \in Nat
      /\ \A k \in 1..n : Chosen(P, before, k) \in P /\ r[k] = s[Chosen(P, before, k)]
      /\ \A i \in P : \E k \in 1..n : Chosen(P, before, k) = i
      /\ \A k, l \in 1..n : k < l => <<Chosen(P, before, k), Chosen(P, before, l)>> \in before
  BY <1>4, ArrangedIs
<1> HIDE DEF r, n
<1>6. DOMAIN r = 1..n
  BY <1>5
<1>7. ToSet(r) = {s[i] : i \in P}
  <2>1. ToSet(r) = {r[k] : k \in 1..n}
    BY <1>6 DEF ToSet
  <2>2. \A k \in 1..n : r[k] \in {s[i] : i \in P}
    BY <1>5
  <2>3. \A i \in P : s[i] \in {r[k] : k \in 1..n}
    BY <1>5
  <2> QED
    BY <2>1, <2>2, <2>3
<1>8. ASSUME IsInjective(s)
      PROVE  IsInjective(r)
  <2> SUFFICES ASSUME NEW k \in 1..n, NEW l \in 1..n, r[k] = r[l]
               PROVE  k = l
    BY <1>6 DEF IsInjective
  <2>1. Chosen(P, before, k) \in P /\ Chosen(P, before, l) \in P
        /\ Chosen(P, before, k) = Chosen(P, before, l)
    <3>1. Chosen(P, before, k) \in P /\ Chosen(P, before, l) \in P
          /\ s[Chosen(P, before, k)] = s[Chosen(P, before, l)]
      BY <1>5
    <3>2. P \subseteq DOMAIN s
      OBVIOUS
    <3> QED
      BY <1>8, <3>1, <3>2 DEF IsInjective
  <2>2. ~(k < l) /\ ~(l < k)
    <3>1. Chosen(P, before, k) \in Int /\ Chosen(P, before, l) \in Int
      BY <1>3, <2>1
    <3>2. ~(Chosen(P, before, k) < Chosen(P, before, l))
          /\ ~(Chosen(P, before, l) < Chosen(P, before, k))
      BY <2>1, <3>1
    <3> QED
      BY <1>2, <1>5, <2>1, <3>2
  <2>3. k \in Int /\ l \in Int
    BY <1>5
  <2> QED
    BY <2>2, <2>3
<1> QED
  BY <1>1, <1>5, <1>7, <1>8

-----------------------------------------------------------------------------
(* The order of the report. *)

LEMMA RankIs ==
  ASSUME NEW doc, doc.scanned \in Seq(ToSet(doc.scanned)), NEW t
  PROVE  /\ Rank(doc, t) \in Nat
         /\ t \in ToSet(doc.scanned) =>
              /\ Rank(doc, t) \in 1..Len(doc.scanned)
              /\ doc.scanned[Rank(doc, t)] = t
<1> DEFINE s == doc.scanned
           places == {i \in DOMAIN s : s[i] = t}
<1>1. Rank(doc, t) = IF places = {} THEN Len(s) + 1 ELSE CHOOSE i \in places : TRUE
  BY DEF Rank
<1>2. Len(s) \in Nat /\ DOMAIN s = 1..Len(s)
  OBVIOUS
<1>3. CASE places = {}
  <2>1. t \notin ToSet(s)
    BY <1>3 DEF ToSet
  <2>2. Rank(doc, t) = Len(s) + 1
    BY <1>1, <1>3
  <2> QED
    BY <1>2, <2>1, <2>2
<1>4. CASE places # {}
  <2>1. Rank(doc, t) \in places
    <3>1. Rank(doc, t) = CHOOSE i \in places : TRUE
      BY <1>1, <1>4
    <3> HIDE DEF places
    <3> QED
      BY <1>4, <3>1
  <2> QED
    BY <1>2, <2>1
<1> QED
  BY <1>3, <1>4

(* normalize puts the rows in the order of targets and ports and changes   *)
(* nothing else.                                                           *)
LEMMA NormalizeIs ==
  ASSUME NEW doc, NEW R, {"open", "scanned"} \subseteq DOMAIN doc,
         doc.open \in Seq(R), \A r \in R : r.port \in Int,
         doc.scanned \in Seq(ToSet(doc.scanned)),
         TargetsOf(doc.open) \subseteq ToSet(doc.scanned),
         \A i, j \in DOMAIN doc.open :
           doc.open[i].target = doc.open[j].target /\ doc.open[i].port = doc.open[j].port
             => i = j
  PROVE  LET d == Normalize(doc)
         IN  /\ \A f \in DOMAIN doc : f # "open" => d[f] = doc[f]
             /\ ToSet(d.open) = ToSet(doc.open)
             /\ d.open \in Seq(R) /\ Len(d.open) = Len(doc.open)
             /\ \A i, j \in DOMAIN d.open : i < j =>
                  \/ d.open[i].target = d.open[j].target /\ d.open[i].port < d.open[j].port
                  \/ Rank(d, d.open[i].target) < Rank(d, d.open[j].target)
<1> DEFINE rows == doc.open
           K(i) == Rank(doc, rows[i].target)
           Precedes(i, j) ==
             \/ K(i) < K(j)
             \/ K(i) = K(j) /\ rows[i].port < rows[j].port
             \/ K(i) = K(j) /\ rows[i].port = rows[j].port /\ i < j
           P == DOMAIN rows
           before == {p \in P \X P : Precedes(p[1], p[2])}
           r == Arranged(rows, P, before)
           d == Normalize(doc)
           n == Len(rows)
<1>1. d = [doc EXCEPT !.open = r]
  BY DEF Normalize
<1>2. d.open = r /\ \A f \in DOMAIN doc : f # "open" => d[f] = doc[f]
  <2> HIDE DEF d, r
  <2> QED
    BY <1>1
<1>3. n \in Nat /\ P = 1..n /\ \A i \in P : rows[i] \in R /\ rows[i].port \in Int
  OBVIOUS
<1>4. \A i \in P : K(i) \in Nat /\ doc.scanned[K(i)] = rows[i].target
  <2> SUFFICES ASSUME NEW i \in P
               PROVE  K(i) \in Nat /\ doc.scanned[K(i)] = rows[i].target
    OBVIOUS
  <2>1. rows[i].target \in ToSet(doc.scanned)
    BY DEF TargetsOf
  <2> QED
    BY <2>1, RankIs
<1>5. \A i, j \in P : <<i, j>> \in before <=> Precedes(i, j)
  OBVIOUS
<1>6. \A t : Rank(d, t) = Rank(doc, t)
  <2>1. d.scanned = doc.scanned
    BY <1>2
  <2> HIDE DEF d
  <2> QED
    BY <2>1 DEF Rank
<1> HIDE DEF K, before
<1>7. Orders(before, P)
  <2>1. \A i \in P : ~Precedes(i, i)
    BY <1>3, <1>4
  <2>2. \A i, j \in P : i = j \/ Precedes(i, j) \/ Precedes(j, i)
    BY <1>3, <1>4
  <2>3. \A i, j, k \in P : Precedes(i, j) /\ Precedes(j, k) => Precedes(i, k)
    BY <1>3, <1>4
  <2> HIDE DEF Precedes, P
  <2> QED
    BY <1>5, <2>1, <2>2, <2>3 DEF Orders
<1>8. IsFiniteSet(P) /\ Cardinality(P) = n
  <2> HIDE DEF P, n
  <2>1. IsFiniteSet(1..n) /\ Cardinality(1..n) = n
    BY <1>3, FS_Interval
  <2> QED
    BY <1>3, <2>1
<1>9. /\ r \in Seq(R) /\ Len(r) = n
      /\ \A k \in 1..n : Chosen(P, before, k) \in P /\ r[k] = rows[Chosen(P, before, k)]
      /\ \A i \in P : \E k \in 1..n : Chosen(P, before, k) = i
      /\ \A k, l \in 1..n : k < l => <<Chosen(P, before, k), Chosen(P, before, l)>> \in before
  <2>1. P \in SUBSET (1..Len(rows)) /\ rows \in Seq(R)
    BY <1>3
  <2> HIDE DEF P, n, rows
  <2> QED
    BY <1>7, <1>8, <2>1, ArrangedIs
<1> HIDE DEF r
<1>10. DOMAIN r = 1..n
  BY <1>3, <1>9
<1>11. ToSet(r) = ToSet(rows)
  <2>1. ToSet(r) = {r[k] : k \in 1..n} /\ ToSet(rows) = {rows[i] : i \in P}
    BY <1>10 DEF ToSet
  <2>2. \A k \in 1..n : r[k] \in {rows[i] : i \in P}
    BY <1>9
  <2>3. \A i \in P : rows[i] \in {r[k] : k \in 1..n}
    BY <1>9
  <2> HIDE DEF P, n, rows
  <2> QED
    BY <2>1, <2>2, <2>3
<1>12. ASSUME NEW i \in 1..n, NEW j \in 1..n, i < j
       PROVE  \/ r[i].target = r[j].target /\ r[i].port < r[j].port
              \/ Rank(d, r[i].target) < Rank(d, r[j].target)
  <2> DEFINE a == Chosen(P, before, i)
             b == Chosen(P, before, j)
  <2>1. a \in P /\ b \in P /\ r[i] = rows[a] /\ r[j] = rows[b] /\ <<a, b>> \in before
    BY <1>9, <1>12
  <2> HIDE DEF a, b
  <2>2. Precedes(a, b)
    BY <1>5, <2>1
  <2>3. K(a) = K(b) => rows[a].target = rows[b].target
    BY <1>4, <2>1
  <2>4. K(a) = K(b) /\ rows[a].port = rows[b].port => a = b
    BY <2>1, <2>3
  <2>5. K(a) < K(b) \/ (rows[a].target = rows[b].target /\ rows[a].port < rows[b].port)
    <3>1. a \in Int
      BY <1>3, <2>1
    <3> QED
      BY <2>2, <2>3, <2>4, <3>1
  <2>6. Rank(d, r[i].target) = K(a) /\ Rank(d, r[j].target) = K(b)
    BY <1>6, <2>1 DEF K
  <2> QED
    BY <2>1, <2>5, <2>6
<1> QED
  BY <1>2, <1>9, <1>10, <1>11, <1>12

-----------------------------------------------------------------------------
(* What is reported. *)

(* The scan is one of the targets that were to be scanned, and its events  *)
(* are about these, no two of them about one port.                         *)
Scanned == targets = IF config.discovery THEN Reachable ELSE Targets

Events == [target : ToSet(targets), port : 1..NumPorts, probes : Seq({"ok", "failed"})]

FoundInv ==
  /\ openEvents \in Seq(Events)
  /\ \A i, j \in DOMAIN openEvents :
       openEvents[i].target = openEvents[j].target /\ openEvents[i].port = openEvents[j].port
         => i = j
  /\ concluded \in Nat /\ Len(openEvents) <= concluded

Reported == [target : ToSet(targets), port : 1..NumPorts,
             probes : Seq({"ok", "failed"}), named : BOOLEAN]

LEMMA KeepTargetsIs ==
  ASSUME NEW s, s \in Seq(ToSet(s)), NEW working
  PROVE  /\ KeepTargets(s, working) \in Seq(ToSet(s))
         /\ ToSet(KeepTargets(s, working)) = ToSet(s) \cap working
         /\ IsInjective(s) => IsInjective(KeepTargets(s, working))
<1> DEFINE P == {i \in DOMAIN s : s[i] \in working}
<1>1. P \in SUBSET (1..Len(s)) /\ DOMAIN s = 1..Len(s)
  OBVIOUS
<1>2. {s[i] : i \in P} = ToSet(s) \cap working
  BY DEF ToSet
<1>3. KeepTargets(s, working) = Keep(s, P)
  BY DEF KeepTargets
<1> HIDE DEF P
<1> QED
  BY <1>1, <1>2, <1>3, KeepIs

LEMMA TargetsAre ==
  /\ Targets \in Seq(ToSet(Targets)) /\ IsInjective(Targets)
  /\ Scanned => /\ targets \in Seq(ToSet(targets)) /\ IsInjective(targets)
                /\ ToSet(targets) = IF config.discovery THEN ToSet(Targets) \cap alive
                                    ELSE ToSet(Targets)
<1>1. Targets \in Seq(ToSet(Targets)) /\ IsInjective(Targets)
  <2>1. Targets \in Seq(STRING) /\ \A i, j \in DOMAIN Targets : Targets[i] = Targets[j] => i = j
    BY TargetsAssumption
  <2>2. Targets \in [1..Len(Targets) -> ToSet(Targets)] /\ Len(Targets) \in Nat
    BY <2>1 DEF ToSet
  <2> QED
    BY <2>1, <2>2 DEF IsInjective
<1>2. /\ Reachable \in Seq(ToSet(Targets)) /\ IsInjective(Reachable)
      /\ ToSet(Reachable) = ToSet(Targets) \cap alive
  BY <1>1, KeepTargetsIs DEF Reachable
<1>3. ASSUME NEW s \in Seq(ToSet(Targets))
      PROVE  s \in Seq(ToSet(s))
  <2>1. s \in [1..Len(s) -> ToSet(s)] /\ Len(s) \in Nat
    BY DEF ToSet
  <2> QED
    BY <2>1
<1> QED
  BY <1>1, <1>2, <1>3 DEF Scanned

LEMMA RowTargets ==
  ASSUME NEW rows
  PROVE  TargetsOf(rows) = {row.target : row \in ToSet(rows)}
BY DEF TargetsOf, ToSet

LEMMA WorkingProbesIs ==
  ASSUME NEW row \in Reported
  PROVE  /\ WorkingProbes(row) \in Reported
         /\ WorkingProbes(row).target = row.target
         /\ WorkingProbes(row).port = row.port
<1> DEFINE p == row.probes
           k == Keep(p, {i \in DOMAIN p : p[i] = "ok"})
<1>1. p \in Seq({"ok", "failed"})
  BY DEF Reported
<1>2. k \in Seq({"ok", "failed"})
  <2>1. {i \in DOMAIN p : p[i] = "ok"} \in SUBSET (1..Len(p))
    BY <1>1
  <2> QED
    BY <1>1, <2>1, KeepIs
<1>3. WorkingProbes(row) = [row EXCEPT !.probes = k]
  BY DEF WorkingProbes
<1> HIDE DEF k
<1> QED
  BY <1>2, <1>3 DEF Reported

(* The open ports, as they were found and as they are kept. *)
LEMMA OpenRowsAre ==
  ASSUME FoundInv
  PROVE  LET rows == OpenRows(openEvents, hostnames)
         IN  /\ rows \in Seq(Reported) /\ Len(rows) = Len(openEvents)
             /\ DOMAIN rows = 1..Len(openEvents) /\ Len(openEvents) \in Nat
             /\ \A i \in 1..Len(openEvents) : /\ rows[i] \in Reported
                                              /\ rows[i].target = openEvents[i].target
                                              /\ rows[i].port = openEvents[i].port
<1> DEFINE rows == OpenRows(openEvents, hostnames)
           n == Len(openEvents)
           row(i) == [target |-> openEvents[i].target, port |-> openEvents[i].port,
                      probes |-> openEvents[i].probes,
                      named |-> openEvents[i].target \in hostnames]
<1>1. n \in Nat /\ DOMAIN openEvents = 1..n /\ \A i \in 1..n : openEvents[i] \in Events
  BY DEF FoundInv
<1>2. rows = [i \in 1..n |-> row(i)]
  BY <1>1 DEF OpenRows
<1>3. \A i \in 1..n : row(i) \in Reported
  BY <1>1 DEF Events, Reported
<1>4. \A i \in 1..n : rows[i] = row(i)
  BY <1>2
<1>5. \A i \in 1..n : row(i).target = openEvents[i].target /\ row(i).port = openEvents[i].port
  OBVIOUS
<1> HIDE DEF row
<1>6. rows \in [1..n -> Reported]
  BY <1>2, <1>3
<1> HIDE DEF rows, n
<1>7. rows \in Seq(Reported) /\ Len(rows) = n /\ DOMAIN rows = 1..n
  BY <1>1, <1>6
<1> QED
  BY <1>1, <1>3, <1>4, <1>5, <1>7 DEF rows, n

(* The document before normalize: with only_working the filtered one. *)
Filtered == IF config.onlyWorking THEN FilterWorking(Document) ELSE Document

LEMMA DiscoveryRowsAre ==
  LET rows == DiscoveryRows(Targets, alive, hostnames)
      kept == Keep(rows, {i \in DOMAIN rows : rows[i].available})
  IN  /\ TargetsOf(rows) = ToSet(Targets)
      /\ {row.target : row \in {r \in ToSet(rows) : r.available}} = ToSet(Targets) \cap alive
      /\ ToSet(kept) = {r \in ToSet(rows) : r.available}
<1> DEFINE rows == DiscoveryRows(Targets, alive, hostnames)
           P == {i \in DOMAIN rows : rows[i].available}
           row(i) == [target |-> Targets[i], available |-> Targets[i] \in alive,
                      named |-> Targets[i] \in hostnames]
<1>1. Targets \in Seq(ToSet(Targets)) /\ Len(Targets) \in Nat /\ DOMAIN Targets = 1..Len(Targets)
  BY TargetsAre
<1>2. rows = [i \in 1..Len(Targets) |-> row(i)]
  BY <1>1 DEF DiscoveryRows
<1>3. /\ \A i \in DOMAIN Targets : rows[i].target = Targets[i]
      /\ \A i \in DOMAIN Targets : rows[i].available <=> Targets[i] \in alive
      /\ \A i \in DOMAIN Targets : rows[i] \in ToSet(rows)
      /\ DOMAIN rows = 1..Len(Targets)
  <2>1. \A i \in DOMAIN Targets : row(i).target = Targets[i]
    OBVIOUS
  <2>2. \A i \in DOMAIN Targets : row(i).available <=> Targets[i] \in alive
    BY Zenon
  <2> HIDE DEF row, rows
  <2>3. DOMAIN rows = 1..Len(Targets) /\ \A i \in DOMAIN Targets : rows[i] = row(i)
    BY <1>1, <1>2
  <2>4. \A i \in DOMAIN Targets : rows[i] \in ToSet(rows)
    BY <1>1, <2>3 DEF ToSet
  <2>5. \A i \in DOMAIN Targets : rows[i].available <=> Targets[i] \in alive
    BY <2>2, <2>3, Zenon
  <2> QED
    BY <2>1, <2>3, <2>4, <2>5
<1>4. rows \in Seq(ToSet(rows)) /\ Len(rows) = Len(Targets)
  <2>1. rows \in [1..Len(Targets) -> ToSet(rows)]
    BY <1>1, <1>2, <1>3
  <2> HIDE DEF rows
  <2> QED
    BY <1>1, <2>1
<1> HIDE DEF rows
<1>5. TargetsOf(rows) = ToSet(Targets)
  BY <1>1, <1>3 DEF TargetsOf, ToSet
<1>6. ToSet(rows) = {rows[i] : i \in DOMAIN Targets} /\ DOMAIN rows = DOMAIN Targets
  BY <1>1, <1>3 DEF ToSet
<1>7. {r.target : r \in {r \in ToSet(rows) : r.available}} = ToSet(Targets) \cap alive
  BY <1>3, <1>6 DEF ToSet
<1>8. ToSet(Keep(rows, P)) = {r \in ToSet(rows) : r.available}
  <2>1. P \in SUBSET (1..Len(rows))
    BY <1>3, <1>4
  <2>2. {rows[i] : i \in P} = {r \in ToSet(rows) : r.available}
    BY <1>6
  <2> HIDE DEF P
  <2> QED
    BY <1>4, <2>1, <2>2, KeepIs
<1> QED
  BY <1>5, <1>7, <1>8 DEF rows, P

LEMMA DocumentIs ==
  /\ DOMAIN Document = {"status", "requested", "scanned", "discovery", "open", "summary"}
  /\ Document.status = IF interrupted THEN "interrupted" ELSE "completed"
  /\ Document.requested = Targets
  /\ Document.scanned = targets
  /\ Document.discovery = IF config.discovery THEN DiscoveryRows(Targets, alive, hostnames)
                          ELSE <<>>
  /\ Document.open = OpenRows(openEvents, hostnames)
  /\ Document.summary = [total |-> Checks, completed |-> concluded,
                         open |-> Len(openEvents),
                         closed |-> concluded - Len(openEvents)]
BY DEF Document

LEMMA FilterWorkingIs ==
  ASSUME NEW d,
         DOMAIN d = {"status", "requested", "scanned", "discovery", "open", "summary"}
  PROVE  LET found == d.discovery
             discovery == Keep(found, {i \in DOMAIN found : found[i].available})
             open == [i \in DOMAIN d.open |-> WorkingProbes(d.open[i])]
             working == TargetsOf(discovery) \cup TargetsOf(open)
             f == FilterWorking(d)
         IN  /\ DOMAIN f = DOMAIN d
             /\ f.status = d.status
             /\ f.discovery = discovery
             /\ f.open = open
             /\ f.requested = KeepTargets(d.requested, working)
             /\ f.scanned = KeepTargets(d.scanned, working)
             /\ f.summary = [total |-> Len(open), completed |-> Len(open),
                             open |-> Len(open), closed |-> 0]
<1> DEFINE found == d.discovery
           discovery == Keep(found, {i \in DOMAIN found : found[i].available})
           open == [i \in DOMAIN d.open |-> WorkingProbes(d.open[i])]
           working == TargetsOf(discovery) \cup TargetsOf(open)
           f == FilterWorking(d)
           requested == KeepTargets(d.requested, working)
           scanned == KeepTargets(d.scanned, working)
           summary == [total |-> Len(open), completed |-> Len(open),
                       open |-> Len(open), closed |-> 0]
<1>1. f = [d EXCEPT !.discovery = discovery, !.open = open, !.requested = requested,
                    !.scanned = scanned, !.summary = summary]
  BY DEF FilterWorking
<1> HIDE DEF f, discovery, open, requested, scanned, summary
<1>2. /\ DOMAIN f = DOMAIN d /\ f.status = d.status /\ f.discovery = discovery
      /\ f.open = open /\ f.requested = requested /\ f.scanned = scanned
      /\ f.summary = summary
  BY <1>1
<1> QED
  BY <1>2 DEF f, discovery, open, requested, scanned, summary

KeptRows == {Kept(row) : row \in ToSet(OpenRows(openEvents, hostnames))}

LEMMA FilteredIs ==
  ASSUME Scanned, FoundInv, NumPorts \in Nat, config.onlyWorking \in BOOLEAN,
         concluded = Checks \/ interrupted
  PROVE  /\ {"open", "scanned", "requested", "discovery", "summary", "status"} = DOMAIN Filtered
         /\ Filtered.open \in Seq(Reported) /\ Len(Filtered.open) = Len(openEvents)
         /\ \A i \in DOMAIN openEvents :
              /\ Filtered.open[i].target = openEvents[i].target
              /\ Filtered.open[i].port = openEvents[i].port
         /\ ToSet(Filtered.open) = KeptRows
         /\ Filtered.scanned \in Seq(ToSet(Filtered.scanned))
         /\ ToSet(Filtered.scanned) \subseteq ToSet(Filtered.requested)
         /\ TargetsOf(Filtered.open) \subseteq ToSet(Filtered.scanned)
         /\ config.discovery =>
              /\ TargetsOf(Filtered.discovery) = ToSet(Filtered.requested)
              /\ {row.target : row \in {r \in ToSet(Filtered.discovery) : r.available}}
                   = ToSet(Filtered.scanned)
         /\ Filtered.summary.open = Len(openEvents)
         /\ Filtered.summary.completed = Filtered.summary.open + Filtered.summary.closed
         /\ Filtered.summary.completed < Filtered.summary.total
              => Filtered.status = "interrupted"
         /\ config.onlyWorking /\ ~config.discovery =>
              ToSet(Filtered.requested) = TargetsOf(Filtered.open)
<1> DEFINE rows == OpenRows(openEvents, hostnames)
           n == Len(openEvents)
           d == Document
           T == ToSet(Targets)
           S == ToSet(targets)
           O == {openEvents[i].target : i \in DOMAIN openEvents}
<1>1. /\ rows \in Seq(Reported) /\ Len(rows) = n /\ DOMAIN rows = 1..n /\ n \in Nat
      /\ \A i \in 1..n : /\ rows[i] \in Reported
                         /\ rows[i].target = openEvents[i].target
                         /\ rows[i].port = openEvents[i].port
  BY OpenRowsAre
<1>2. DOMAIN openEvents = 1..n /\ concluded \in Nat /\ O \subseteq S
  <2>1. openEvents \in Seq(Events) /\ concluded \in Nat
    BY DEF FoundInv
  <2>2. DOMAIN openEvents = 1..n /\ \A i \in 1..n : openEvents[i] \in Events
    BY <2>1
  <2>3. \A i \in 1..n : openEvents[i].target \in S
    BY <2>2 DEF Events
  <2> QED
    BY <2>1, <2>2, <2>3
<1>3. /\ Targets \in Seq(T)
      /\ targets \in Seq(S) /\ S = IF config.discovery THEN T \cap alive ELSE T
  BY TargetsAre
<1>4. /\ DOMAIN d = {"status", "requested", "scanned", "discovery", "open", "summary"}
      /\ d.status = IF interrupted THEN "interrupted" ELSE "completed"
      /\ d.requested = Targets /\ d.scanned = targets
      /\ d.discovery = IF config.discovery THEN DiscoveryRows(Targets, alive, hostnames)
                       ELSE <<>>
      /\ d.open = rows
      /\ d.summary = [total |-> Checks, completed |-> concluded, open |-> n,
                      closed |-> concluded - n]
  BY DocumentIs
<1>5. CASE ~config.onlyWorking
  <2>1. Filtered = d
    BY <1>5 DEF Filtered
  <2>2. ToSet(rows) = KeptRows
    BY <1>5 DEF KeptRows, Kept
  <2>3. TargetsOf(rows) = O
    BY <1>1, <1>2 DEF TargetsOf
  <2>4. config.discovery =>
          /\ TargetsOf(d.discovery) = T
          /\ {row.target : row \in {r \in ToSet(d.discovery) : r.available}} = S
    BY <1>3, <1>4, DiscoveryRowsAre
  <2>5. /\ d.summary.open = n
        /\ d.summary.completed = d.summary.open + d.summary.closed
        /\ d.summary.completed < d.summary.total => d.status = "interrupted"
    <3>1. /\ d.summary.open = n /\ d.summary.completed = concluded
          /\ d.summary.closed = concluded - n /\ d.summary.total = Checks
      BY <1>4
    <3> HIDE DEF d
    <3>2. interrupted => d.status = "interrupted"
      BY <1>4
    <3>3. ~(concluded < concluded)
      BY <1>2
    <3> HIDE DEF n
    <3> QED
      BY <1>1, <1>2, <3>1, <3>2, <3>3
  <2> HIDE DEF d, rows, n, T, S, O
  <2> QED
    BY <1>1, <1>2, <1>3, <1>4, <1>5, <2>1, <2>2, <2>3, <2>4, <2>5 DEF T, S
<1>6. CASE config.onlyWorking
  <2> DEFINE found == d.discovery
             discovery == Keep(found, {i \in DOMAIN found : found[i].available})
             open == [i \in DOMAIN d.open |-> WorkingProbes(d.open[i])]
             working == TargetsOf(discovery) \cup TargetsOf(open)
             f == FilterWorking(d)
  <2>1. Filtered = f
    BY <1>6 DEF Filtered
  <2>2. /\ DOMAIN f = DOMAIN d /\ f.status = d.status /\ f.discovery = discovery
        /\ f.open = open
        /\ f.requested = KeepTargets(d.requested, working)
        /\ f.scanned = KeepTargets(d.scanned, working)
        /\ f.summary = [total |-> Len(open), completed |-> Len(open),
                        open |-> Len(open), closed |-> 0]
    BY <1>4, FilterWorkingIs
  <2>3. /\ open \in Seq(Reported) /\ Len(open) = n
        /\ \A i \in 1..n : /\ open[i] = WorkingProbes(rows[i])
                           /\ open[i].target = openEvents[i].target
                           /\ open[i].port = openEvents[i].port
    <3>1. open = [i \in 1..n |-> WorkingProbes(rows[i])]
      BY <1>1, <1>4
    <3>2. \A i \in 1..n : /\ WorkingProbes(rows[i]) \in Reported
                         /\ WorkingProbes(rows[i]).target = openEvents[i].target
                         /\ WorkingProbes(rows[i]).port = openEvents[i].port
      BY <1>1, WorkingProbesIs
    <3> HIDE DEF open, rows, n
    <3>3. open \in [1..n -> Reported]
      BY <3>1, <3>2
    <3> QED
      BY <1>1, <3>1, <3>2, <3>3
  <2>4. TargetsOf(discovery) = IF config.discovery THEN T \cap alive ELSE {}
    <3>1. CASE config.discovery
      <4>1. found = DiscoveryRows(Targets, alive, hostnames)
        BY <1>4, <3>1
      <4>2. TargetsOf(discovery) = {row.target : row \in ToSet(discovery)}
        BY RowTargets
      <4> QED
        BY <3>1, <4>1, <4>2, DiscoveryRowsAre
    <3>2. CASE ~config.discovery
      <4>1. found = <<>>
        BY <1>4, <3>2
      <4>2. found \in Seq({}) /\ {i \in DOMAIN found : found[i].available} = {}
            /\ {} \in SUBSET (1..Len(found))
        BY <4>1
      <4>3. ToSet(discovery) = {found[i] : i \in {}}
        <5> HIDE DEF found
        <5> QED
          BY <4>2, KeepIs
      <4>4. ToSet(discovery) = {}
        BY <4>3
      <4> QED
        BY <3>2, <4>4, RowTargets
    <3> QED
      BY <3>1, <3>2
  <2> HIDE DEF found, discovery, open, f
  <2>5. DOMAIN open = 1..n
    BY <1>1, <2>3
  <2>6. TargetsOf(open) = O
    BY <1>2, <2>3, <2>5 DEF TargetsOf
  <2>7. ToSet(open) = KeptRows
    <3>1. \A row : Kept(row) = WorkingProbes(row)
      BY <1>6 DEF Kept
    <3>2. ToSet(open) = {WorkingProbes(rows[i]) : i \in 1..n}
      BY <2>3, <2>5 DEF ToSet
    <3>3. ToSet(rows) = {rows[i] : i \in 1..n}
      BY <1>1 DEF ToSet
    <3>4. KeptRows = {WorkingProbes(row) : row \in ToSet(rows)}
      BY <3>1 DEF KeptRows
    <3> HIDE DEF rows, n
    <3> QED
      BY <3>2, <3>3, <3>4
  <2>8. working = S \cap (IF config.discovery THEN T ELSE O)
    BY <1>2, <1>3, <2>4, <2>6
  <2>9. /\ KeepTargets(Targets, working) \in Seq(T)
        /\ ToSet(KeepTargets(Targets, working)) = T \cap working
        /\ KeepTargets(targets, working) \in Seq(S)
        /\ ToSet(KeepTargets(targets, working)) = S \cap working
    BY <1>3, KeepTargetsIs
  <2>10. KeepTargets(targets, working) \in Seq(ToSet(KeepTargets(targets, working)))
    <3> DEFINE k == KeepTargets(targets, working)
    <3>1. k \in [1..Len(k) -> ToSet(k)] /\ Len(k) \in Nat
      <4>1. k \in Seq(S)
        BY <2>9
      <4> HIDE DEF k
      <4> QED
        BY <4>1 DEF ToSet
    <3> HIDE DEF k
    <3>2. k \in Seq(ToSet(k))
      BY <3>1
    <3> QED
      BY <3>2 DEF k
  <2>11. config.discovery =>
           /\ TargetsOf(discovery) = T \cap alive
           /\ {row.target : row \in {r \in ToSet(discovery) : r.available}} = T \cap alive
    <3> SUFFICES ASSUME config.discovery
                 PROVE  {row.target : row \in {r \in ToSet(discovery) : r.available}} = T \cap alive
      BY <2>4
    <3>1. found = DiscoveryRows(Targets, alive, hostnames)
      BY <1>4 DEF found
    <3>2. ToSet(discovery) = {r \in ToSet(found) : r.available}
          /\ {row.target : row \in {r \in ToSet(found) : r.available}} = T \cap alive
      BY <3>1, DiscoveryRowsAre DEF discovery
    <3>3. {r \in ToSet(discovery) : r.available} = {r \in ToSet(found) : r.available}
      BY <3>2
    <3> QED
      BY <3>2, <3>3
  <2>12. /\ f.summary.open = n
         /\ f.summary.completed = f.summary.open + f.summary.closed
         /\ ~(f.summary.completed < f.summary.total)
    <3>1. f.summary.open = n /\ f.summary.completed = n /\ f.summary.total = n
          /\ f.summary.closed = 0
      BY <2>2, <2>3
    <3> HIDE DEF n
    <3> QED
      BY <1>1, <3>1
  <2>13. /\ f.requested = KeepTargets(Targets, working)
         /\ f.scanned = KeepTargets(targets, working)
    BY <1>4, <2>2
  <2>14. /\ S \cap working \subseteq T \cap working
         /\ O \subseteq S \cap working
         /\ config.discovery => T \cap working = T \cap alive /\ S \cap working = T \cap alive
         /\ ~config.discovery => T \cap working = O
    BY <1>2, <1>3, <2>8
  <2> HIDE DEF d, rows, n, T, S, O, working
  <2> QED
    BY <1>1, <1>2, <1>4, <1>6, <2>1, <2>2, <2>3, <2>5, <2>6, <2>7, <2>9, <2>10, <2>11,
       <2>12, <2>13, <2>14
<1> QED
  BY <1>5, <1>6

(* The one document that is ever written is the one the data of the run    *)
(* make at the end: nothing of it changes once it is written.              *)
DocumentInv ==
  /\ stage \notin Ending => written = {}
  /\ written \subseteq {Final}
  /\ stage \in {"status", "report"} \/ written # {} => FoundInv
  /\ stage = "report" \/ written # {} => concluded = Checks \/ interrupted
  /\ written # {} => Scanned

LEMMA FinalIs ==
  ASSUME FoundInv, concluded = Checks \/ interrupted, Scanned, config.onlyWorking \in BOOLEAN,
         written \subseteq {Final}
  PROVE  ReportFaithful
<1> SUFFICES ASSUME NEW d \in written
             PROVE  /\ ToSet(d.open) = KeptRows
                    /\ \A i, j \in DOMAIN d.open : i < j =>
                         \/ /\ d.open[i].target = d.open[j].target
                            /\ d.open[i].port < d.open[j].port
                         \/ Rank(d, d.open[i].target) < Rank(d, d.open[j].target)
                    /\ TargetsOf(d.open) \subseteq ToSet(d.scanned)
                    /\ ToSet(d.scanned) \subseteq ToSet(d.requested)
                    /\ config.discovery =>
                         /\ TargetsOf(d.discovery) = ToSet(d.requested)
                         /\ {row.target : row \in {r \in ToSet(d.discovery) : r.available}}
                              = ToSet(d.scanned)
                    /\ d.summary.open = Len(d.open)
                    /\ d.summary.completed = d.summary.open + d.summary.closed
                    /\ d.summary.completed < d.summary.total => d.status = "interrupted"
                    /\ config.onlyWorking /\ ~config.discovery =>
                         ToSet(d.requested) = TargetsOf(d.open)
  BY Zenon DEF ReportFaithful, KeptRows
<1> DEFINE f == Filtered
           n == Len(openEvents)
<1>1. d = Normalize(f)
  BY DEF Final, Filtered
<1>2. NumPorts \in Nat
  BY NumPortsAssumption
<1>3. /\ {"open", "scanned", "requested", "discovery", "summary", "status"} = DOMAIN f
      /\ f.open \in Seq(Reported) /\ Len(f.open) = n
      /\ \A i \in DOMAIN openEvents :
           f.open[i].target = openEvents[i].target /\ f.open[i].port = openEvents[i].port
      /\ ToSet(f.open) = KeptRows
      /\ f.scanned \in Seq(ToSet(f.scanned))
      /\ ToSet(f.scanned) \subseteq ToSet(f.requested)
      /\ TargetsOf(f.open) \subseteq ToSet(f.scanned)
      /\ config.discovery =>
           /\ TargetsOf(f.discovery) = ToSet(f.requested)
           /\ {row.target : row \in {r \in ToSet(f.discovery) : r.available}} = ToSet(f.scanned)
      /\ f.summary.open = n
      /\ f.summary.completed = f.summary.open + f.summary.closed
      /\ f.summary.completed < f.summary.total => f.status = "interrupted"
      /\ config.onlyWorking /\ ~config.discovery => ToSet(f.requested) = TargetsOf(f.open)
  BY <1>2, FilteredIs
<1>4. DOMAIN openEvents = 1..n /\ n \in Nat
  BY DEF FoundInv
<1> HIDE DEF f
<1>5. DOMAIN f.open = 1..n
  BY <1>3, <1>4
<1>6. \A i, j \in DOMAIN f.open :
        f.open[i].target = f.open[j].target /\ f.open[i].port = f.open[j].port => i = j
  BY <1>3, <1>4, <1>5 DEF FoundInv
<1>7. \A r \in Reported : r.port \in Int
  BY <1>2 DEF Reported
<1> HIDE DEF n
<1>8. /\ \A x \in DOMAIN f : x # "open" => d[x] = f[x]
      /\ ToSet(d.open) = ToSet(f.open)
      /\ d.open \in Seq(Reported) /\ Len(d.open) = Len(f.open)
      /\ \A i, j \in DOMAIN d.open : i < j =>
           \/ d.open[i].target = d.open[j].target /\ d.open[i].port < d.open[j].port
           \/ Rank(d, d.open[i].target) < Rank(d, d.open[j].target)
  <2>1. {"open", "scanned"} \subseteq DOMAIN f
    BY <1>3
  <2> QED
    <3>1. /\ f.open \in Seq(Reported)
          /\ f.scanned \in Seq(ToSet(f.scanned))
          /\ TargetsOf(f.open) \subseteq ToSet(f.scanned)
      BY <1>3, Zenon
    <3>2. /\ \A x \in DOMAIN f : x # "open" => Normalize(f)[x] = f[x]
          /\ ToSet(Normalize(f).open) = ToSet(f.open)
          /\ Normalize(f).open \in Seq(Reported)
          /\ Len(Normalize(f).open) = Len(f.open)
          /\ \A i, j \in DOMAIN Normalize(f).open : i < j =>
               \/ /\ Normalize(f).open[i].target = Normalize(f).open[j].target
                  /\ Normalize(f).open[i].port < Normalize(f).open[j].port
               \/ Rank(Normalize(f), Normalize(f).open[i].target)
                    < Rank(Normalize(f), Normalize(f).open[j].target)
      BY <1>6, <1>7, <2>1, <3>1, NormalizeIs, Zenon
    <3> QED
      BY <1>1, <3>2, Zenon
<1>9. /\ d.scanned = f.scanned /\ d.requested = f.requested /\ d.discovery = f.discovery
      /\ d.summary = f.summary /\ d.status = f.status
  BY <1>3, <1>8
<1>10. TargetsOf(d.open) = TargetsOf(f.open)
  BY <1>8, RowTargets
<1> QED
  BY <1>3, <1>8, <1>9, <1>10

LEMMA DocumentInit == Init => DocumentInv
<1> SUFFICES ASSUME Init PROVE DocumentInv
  OBVIOUS
<1>1. stage = "validate" /\ written = {}
  BY DEF Init
<1> QED
  BY <1>1 DEF DocumentInv, Ending

(* The events are about ports of targets of the scan, one for each check.  *)
LEMMA ScanFinds ==
  ASSUME Scan, targets \in Seq(ToSet(targets)) PROVE  FoundInv'
<1>1. PICK open \in SUBSET (ToSet(targets) \X (1..NumPorts)) :
        /\ \E order \in SetToSeqs(open) :
             openEvents' = [i \in DOMAIN order |-> OpenEvent(order[i])]
        /\ concluded' \in Cardinality(open)..Checks
  BY DEF Scan
<1>2. PICK order \in SetToSeqs(open) :
        openEvents' = [i \in DOMAIN order |-> OpenEvent(order[i])]
  BY <1>1
<1> DEFINE n == Cardinality(open)
<1>3. targets' = targets
  BY DEF Scan
<1>4. n \in Nat
  <2>1. IsFiniteSet(ToSet(targets)) /\ NumPorts \in Nat
    <3>1. Len(targets) \in Nat /\ DOMAIN targets = 1..Len(targets)
      OBVIOUS
    <3>2. IsFiniteSet(1..Len(targets))
      BY <3>1, FS_Interval
    <3> DEFINE f == [i \in 1..Len(targets) |-> targets[i]]
    <3>3. f \in [1..Len(targets) -> ToSet(targets)]
          /\ \A t \in ToSet(targets) : \E i \in 1..Len(targets) : f[i] = t
      BY <3>1 DEF ToSet
    <3> HIDE DEF f
    <3>4. f \in Surjection(1..Len(targets), ToSet(targets))
      BY <3>3, Fun_IsSurj
    <3> QED
      BY <3>2, <3>4, FS_Surjection, NumPortsAssumption
  <2>2. IsFiniteSet(1..NumPorts)
    BY <2>1, FS_Interval
  <2>3. IsFiniteSet(ToSet(targets) \X (1..NumPorts))
    BY <2>1, <2>2, FS_Product
  <2>4. IsFiniteSet(open)
    BY <2>3, FS_Subset
  <2> QED
    BY <2>4, FS_CardinalityType
<1>5. order \in [1..n -> open] /\ \A i, j \in 1..n : i # j => order[i] # order[j]
  BY DEF SetToSeqs
<1> HIDE DEF n
<1>6. openEvents' = [i \in 1..n |-> OpenEvent(order[i])]
  BY <1>2, <1>5
<1>7. \A i \in 1..n : /\ order[i] \in ToSet(targets) \X (1..NumPorts)
                     /\ order[i] = <<order[i][1], order[i][2]>>
                     /\ order[i][1] \in ToSet(targets) /\ order[i][2] \in 1..NumPorts
  BY <1>5
<1>8. ASSUME NEW i \in 1..n
      PROVE  /\ OpenEvent(order[i]) \in Events
             /\ OpenEvent(order[i]).target = order[i][1]
             /\ OpenEvent(order[i]).port = order[i][2]
  <2>1. ProbeResults[order[i][2]] \in Seq({"ok", "failed"})
    BY <1>7, ProbeResultsAssumption
  <2> QED
    BY <1>7, <2>1 DEF OpenEvent, Events
<1>9. openEvents' \in Seq(Events) /\ Len(openEvents') = n /\ DOMAIN openEvents' = 1..n
  <2>1. openEvents' \in [1..n -> Events]
    BY <1>6, <1>8
  <2> QED
    BY <1>4, <2>1
<1>10. \A i, j \in 1..n :
         openEvents'[i].target = openEvents'[j].target /\ openEvents'[i].port = openEvents'[j].port
           => i = j
  <2> SUFFICES ASSUME NEW i \in 1..n, NEW j \in 1..n,
                      openEvents'[i].target = openEvents'[j].target,
                      openEvents'[i].port = openEvents'[j].port
               PROVE  i = j
    OBVIOUS
  <2>1. openEvents'[i] = OpenEvent(order[i]) /\ openEvents'[j] = OpenEvent(order[j])
    BY <1>6
  <2>2. order[i][1] = order[j][1] /\ order[i][2] = order[j][2]
    BY <1>8, <2>1
  <2>3. order[i] = order[j]
    BY <1>7, <2>2
  <2> QED
    BY <1>5, <2>3
<1>11. concluded' \in Nat /\ n <= concluded'
  <2>1. Checks \in Int
    BY NumPortsAssumption DEF Checks
  <2> QED
    BY <1>1, <1>4, <2>1 DEF n
<1>12. Events' = Events
  BY <1>3 DEF Events
<1> QED
  BY <1>9, <1>10, <1>11, <1>12 DEF FoundInv

(* Steps that leave the data of the report alone. *)
DataStays == UNCHANGED <<config, hostnames, alive, targets, openEvents, concluded, interrupted>>

LEMMA DataStaysIs ==
  ASSUME DataStays
  PROVE  /\ Final' = Final /\ Checks' = Checks /\ Scanned' = Scanned
         /\ FoundInv => FoundInv'
<1>1. Reachable' = Reachable /\ Checks' = Checks
  BY DEF DataStays, Reachable, Checks
<1>2. Document' = Document
  BY <1>1 DEF DataStays, Document
<1> QED
  BY <1>1, <1>2 DEF DataStays, Final, Scanned, FoundInv, Events

LEMMA DocumentStep ==
  ASSUME RunInv, DocumentInv, [Next]_vars
  PROVE  DocumentInv'
<1>1. RunInv'
  BY RunStep
<1>2. CASE Validate \/ OpenLog \/ Names \/ Proxy \/ Discover \/ Filter
  <2>1. /\ stage \in {"validate", "open log", "names", "proxy", "discovery", "filter"}
        /\ UNCHANGED written
    BY <1>2 DEF Validate, OpenLog, Names, Proxy, Discover, Filter
  <2>2. stage' \in {"open log", "names", "proxy", "discovery", "filter", "scan", "main", "defer"}
    <3>1. config.proxy \in {"off", "good", "bad"}
      BY StageTypes, ConfigIs
    <3> QED
      BY <1>2, <2>1, <3>1
         DEF Validate, OpenLog, Names, Proxy, Discover, Filter, Goto, Fail
  <2>3. written = {}
    BY <2>1 DEF DocumentInv, Ending
  <2> QED
    BY <2>1, <2>2, <2>3 DEF DocumentInv
<1>3. CASE Scan
  <2>1. stage = "scan" /\ stage' = "status" /\ UNCHANGED <<written, targets>>
    BY <1>3 DEF Scan, Goto
  <2>2. written = {} /\ Scanned
    BY <2>1 DEF RunInv, DoneInv, DocumentInv, Ending, Scanned
  <2>3. FoundInv'
    BY <1>3, <2>2, TargetsAre, ScanFinds
  <2> QED
    BY <2>1, <2>2, <2>3 DEF DocumentInv
<1>4. CASE ReadStatus
  <2>1. /\ stage = "status" /\ stage' = "report" /\ interrupted' = cancelled
        /\ UNCHANGED <<written, targets, openEvents, concluded>>
    BY <1>4 DEF ReadStatus
  <2>2. written = {} /\ FoundInv /\ (concluded = Checks \/ cancelled)
    BY <2>1 DEF RunInv, DoneInv, DocumentInv, Ending
  <2>3. FoundInv' /\ Checks' = Checks
    BY <2>1, <2>2 DEF FoundInv, Events, Checks
  <2> QED
    BY <2>1, <2>2, <2>3 DEF DocumentInv
<1>5. CASE SkipReport \/ Defer \/ Main \/ Cancel \/ UNCHANGED vars
  <2>1. DataStays /\ UNCHANGED written
    BY <1>5 DEF SkipReport, Defer, Main, Cancel, vars, dataVars, DataStays
  <2>2. /\ stage' \in {"status", "report"} => stage' = stage
        /\ stage \in Ending => stage' \in Ending
    BY <1>5 DEF SkipReport, Defer, Main, Cancel, vars, Goto, Ending
  <2> QED
    BY <2>1, <2>2, DataStaysIs DEF DocumentInv, DataStays
<1>6. CASE ReportToStream \/ ReportToFile
  <2>1. /\ stage = "report" /\ Reporting /\ Clean \in Contents
        /\ UNCHANGED <<config, alive, targets, concluded, interrupted, openEvents, hostnames>>
        /\ \/ /\ Fail("report")
              /\ UNCHANGED <<content, logFile, logFailed, written>>
           \/ \E closing \in BOOLEAN : /\ closing => IsFile(config.report)
                                       /\ ReportWritten(Clean, closing)
           \/ ReportCut(Clean, ReportFile)
    BY <1>6, ReportStepIs
  <2>2. stage' = "defer" /\ (written' = written \/ written' = {Final})
    <3>1. CASE Fail("report") /\ UNCHANGED written
      BY <2>1, <3>1, FailIs
    <3> QED
      BY <2>1, <3>1, ReportWrites
  <2>3. DataStays
    BY <2>1 DEF DataStays
  <2>4. Scanned /\ FoundInv /\ (concluded = Checks \/ interrupted) /\ written = {}
    BY <2>1 DEF RunInv, DoneInv, DocumentInv, Ending, Scanned
  <2>5. Final' = Final /\ Checks' = Checks /\ Scanned' /\ FoundInv'
    BY <2>3, <2>4, DataStaysIs
  <2> QED
    BY <2>2, <2>3, <2>4, <2>5 DEF DocumentInv, DataStays, Ending
<1> QED
  BY <1>2, <1>3, <1>4, <1>5, <1>6 DEF Next, Runs

(* The report tells what the run has found, for any targets, ports,        *)
(* results of the stages and configuration: exactly the open ports, in the *)
(* order of the targets and of the ports, with counters that add up and    *)
(* with every target accounted for, filtered by only_working or not.       *)
THEOREM ReportIsFaithful == Spec => []ReportFaithful
<1>1. DocumentInv /\ RunInv => ReportFaithful
  <2> SUFFICES ASSUME DocumentInv, RunInv
               PROVE  ReportFaithful
    OBVIOUS
  <2>1. CASE written = {}
    BY <2>1 DEF ReportFaithful
  <2>2. CASE written # {}
    <3>1. config.onlyWorking \in BOOLEAN
      BY StageTypes, ConfigurationsAssumption
    <3> QED
      BY <2>2, <3>1, FinalIs DEF DocumentInv
  <2> QED
    BY <2>1, <2>2
<1>2. RunInv /\ DocumentInv /\ [Next]_vars => DocumentInv'
  BY DocumentStep
<1> QED
  BY RunInvariant, DocumentInit, <1>1, <1>2, PTL DEF Spec
=============================================================================
