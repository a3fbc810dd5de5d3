\* Two targets with two ports: every subset of the optional stages, and every
\* combination of destinations of the log and the report.
CONSTANTS
  Targets <- MCTwoTargets
  NumPorts = 2
  ProbeResults <- MCTwoPorts
  Configurations <- MCAllConfigurations
  Leads <- MCLeads
  Existing <- MCExisting
SPECIFICATION Spec
INVARIANTS
  SuccessMeansDone
  ReportFaithful
  LogFileClosed
  ReportAlone
PROPERTY OnlyReportReplaces
