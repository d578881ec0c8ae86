SPECIFICATION AgentsSpec
CONSTANTS
  r1 = r1
  r2 = r2
  Requests <- TwoCalls
  Kinds <- AllKinds
  StartupDelay = TRUE
  MaxGen = 2
  MaxMishaps = 1
  MaxInputs = 3
  MaxTroubles = 1
  Verdicts <- Recovered
INVARIANTS
  AgentsTypeOK
  LiveIsRegistered
  TornDownStaysQuiet
  SchedulersAccounted
  TurnsAreSerial
PROPERTIES
  HaltIsFinal
  CallsReturn
  QueuedIsSettled
CHECK_DEADLOCK FALSE
