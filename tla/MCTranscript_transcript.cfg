SPECIFICATION Spec
CONSTANTS
  Views = {"app", "panel"}
  Shapes <- SomeShapes
  Growing = {"text", "tagged"}
  Pending = 3
  MaxBuffered = 3
  MaxAttempts = 1
  MaxPrompts = 2
  MaxMessages = 2
  MaxTroubles = 2
INVARIANT TypeOK
INVARIANT LiveIsReload
INVARIANT SettledIsQuiet
INVARIANT PanelShowsTranscript
CHECK_DEADLOCK FALSE
