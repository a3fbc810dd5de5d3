\* Three checks by one worker with a deadline, whose channels both fill, and by
\* two workers without one.
CONSTANTS
  NumChecks = 3
  Configs <- MCConfigs
  Protocols <- MCProtocols
  DialErrors = {"refused"}
SPECIFICATION FairRunSpec
INVARIANTS
  OncePerCheck
  NothingLost
  OpenIsWhole
  ChannelsSafe
  SummaryAddsUp
  CompletedIsComplete
PROPERTIES
  StreamContract
  RunEnds
  CancelReleases
