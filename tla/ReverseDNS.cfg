\* Three addresses and a name, two workers.
CONSTANTS
  NumTargets = 4
  Addresses <- MCAddresses
  NumWorkers = 2
  Names <- MCNames
SPECIFICATION FairSpec
INVARIANTS
  HostnamesAreOwn
PROPERTY PoolContract
