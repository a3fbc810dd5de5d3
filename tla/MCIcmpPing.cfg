\* Two concurrent pings; the first target may have two addresses; three
\* sequence numbers for at most three requests; no other program pings.
CONSTANTS
  NumPings = 2
  MaxAddresses <- MCAddresses
  SeqModulus = 3
  Sockets = {"datagram", "raw"}
  Strangers = FALSE
SPECIFICATION FairSpec
INVARIANTS
  AliveAnswered
  SilentWasAsked
  NoSocketLeft
PROPERTY CancelEndsPings
