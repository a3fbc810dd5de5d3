\* A scan_timeout that passes just before the context notices it.
CONSTANTS
  NumChecks = 2
  Configs <- DeadlineConfigs
  Protocols <- DeadlineProtocols
  DialErrors = {"refused"}
SPECIFICATION RunSpec
INVARIANT PartialNeverComplete
