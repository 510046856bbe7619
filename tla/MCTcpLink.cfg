CONSTANTS
  MaxTxn = 2
  Fds = {0, 1}
  BodySizes = {1, 3}
  Faults = {"repeat", "protocol", "length"}
  MaxTransacts = 3
  MaxOpens = 2
  MaxUnread = 2
SPECIFICATION Spec
INVARIANTS
  DescriptorsAreAccounted
  ExchangesStartInSync
  ReplyIsForThisRequest
PROPERTY ImplementsLink
