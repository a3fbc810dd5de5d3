\* Eight IPv4 and 32 IPv6 addresses, octets of two bits, four ports; limits
\* of 0, 3 and 5 targets.
CONSTANTS
  Size <- MCSize
  Octet = 4
  MaxPort = 4
  Default <- MCDefault
  Starts <- MCStarts
SPECIFICATION Spec
INVARIANTS
  ChecksExact
  RefusedRightly
  WorkBounded
  ProbesAsConfigured
