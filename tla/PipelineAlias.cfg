\* The log file and the report are one new file under two names.
CONSTANTS
  Targets <- MCOneTarget
  NumPorts = 1
  ProbeResults <- MCOnePort
  Configurations <- MCAliasConfigurations
  Leads <- MCAliasLeads
  Existing <- MCAliasExisting
SPECIFICATION Spec
INVARIANT ReportAlone
