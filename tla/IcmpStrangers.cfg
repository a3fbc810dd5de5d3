\* One ping through a raw socket while another program pings, too.
CONSTANTS
  NumPings = 1
  MaxAddresses <- MCOneAddress
  SeqModulus = 3
  Sockets = {"raw"}
  Strangers = TRUE
SPECIFICATION Spec
INVARIANT AliveAnswered
