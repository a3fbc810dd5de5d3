\* Direct dialer: three targets, two workers, two ports, every strategy.
CONSTANTS
  NumTargets = 3
  NumWorkers = 2
  NumPorts = 2
  Strategies = {"none", "tcp", "icmp", "icmp_then_tcp"}
  Proxied = FALSE
SPECIFICATION FairSpec
INVARIANTS
  SlotsNotShared
  AliveAnswered
  DeadWasSilent
PROPERTY PoolContract
