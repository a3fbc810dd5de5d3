\* Three clients, three proxies, two dials through each proxy, every strategy.
CONSTANTS
  Clients = {c1, c2, c3}
  NumProxies = 3
  Strategies = {"round_robin", "random", "least_connections"}
  MaxDials = 2
SPECIFICATION Spec
SYMMETRY ClientSymmetry
INVARIANTS
  ActiveExact
  WireCounted
  RoundRobinFair
PROPERTY DialsGoToLeast
\* The callers may stop dialling.
CHECK_DEADLOCK FALSE
