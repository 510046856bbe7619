CONSTANTS
  MaxTxn = 2
  Fds = {0, 1}
  BodySizes = {3}
  Faults = {}
  MaxTransacts = 1
  MaxOpens = 1
  MaxUnread = 1
SPECIFICATION Safety
INVARIANT OpenMeansConnected
