CONSTANTS
  Units = {1, 2}
  Faults = {"noise", "lost", "repeat", "stranger"}
  AnswersLate = FALSE
  MaxTransacts = 3
  MaxOpens = 2
  MaxFaults = 1
SPECIFICATION Spec
INVARIANTS
  PortIsHeldOnce
  ReplyIsForThisRequest
PROPERTIES
  PeacefulExchangesSucceed
  ImplementsLink
