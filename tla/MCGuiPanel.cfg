CONSTANTS
  Addresses = {a1, a2}
  null = null
  Units = {1, 2}
  NoUnit = 0
  MaxPending = 2
SPECIFICATION Spec
INVARIANTS
  WorkerHasTheClient
  OnlyOverdueCallsAreOrphans
  LastCallHasItsUnit
PROPERTIES
  PanelComesBack
  ClosedPanelGoes
  PollingShowsTheLink
