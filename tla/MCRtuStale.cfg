CONSTANTS
  Units = {1, 2}
  Faults = {}
  AnswersLate = TRUE
  MaxTransacts = 2
  MaxOpens = 2
  MaxFaults = 0
SPECIFICATION Safety
INVARIANT ReplyIsForThisRequest
