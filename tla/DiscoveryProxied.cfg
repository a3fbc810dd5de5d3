\* The dialer is a proxy pool, and a proxy may refuse the connection.
CONSTANTS
  NumTargets = 1
  NumWorkers = 1
  NumPorts = 1
  Strategies = {"tcp"}
  Proxied = TRUE
SPECIFICATION Spec
INVARIANT AliveAnswered
