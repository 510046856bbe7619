CONSTANTS
  Bauds <- SomeBauds
  Foreign <- SomeForeign
SPECIFICATION SettingsSpec
INVARIANT ParityIsAsConfigured
