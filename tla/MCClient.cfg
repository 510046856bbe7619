CONSTANTS
  t1 = t1
  t2 = t2
  NoThread = NoThread
  Threads = {t1, t2}
  Calls <- AllCalls
  Replies <- SomeReplies
  UnitIds = {1, 2}
  Timeouts = {1000}
  RetryValues <- SomeRetries
  Backoffs <- SomeBackoffs
  KeepsOpen = {"Protocol"}
  MaxCalls = 2
SPECIFICATION Spec
INVARIANTS
  TypeOK
  MutexCoversTheLink
  IntentionalDisconnectSticks
  ReconnectingIsVisible
  RetryBudget
  OnlyTransportErrorsAreRetried
  VerdictExplained
  SettingsHoldThroughACall
  BackoffGrowsToTheMaximum
PROPERTIES
  UsesTheLinkSequentially
  MethodsReturn
