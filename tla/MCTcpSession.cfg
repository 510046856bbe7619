CONSTANTS
  NoThread = NoThread
  Threads = {t1}
  Size = 1
  Calls <- SomeCalls
  Replies <- TheReplies
  UnitIds = {1}
  Timeouts = {1000}
  RetryValues <- SomeRetries
  Backoffs <- OneBackoff
  KeepsOpen = {}
  MaxCalls = 3
SPECIFICATION SessionSpec
INVARIANTS
  AnsweredWritesStand
  AnswersAreFinal
  CallsSucceedWithoutTrouble
