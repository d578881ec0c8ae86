SPECIFICATION BusSpec
CONSTANTS
  a1 = a1
  a2 = a2
  d1 = d1
  d2 = d2
  good = good
  forged = forged
  org1 = org1
  org2 = org2
  run1 = run1
  run2 = run2
  t1 = t1
  t2 = t2
  Nobody = Nobody
  Actors <- TwoActors
  MaxDeaths = 1
  Letters <- TwoLetters
  Forged <- OneForged
  Daemon = a1
  Orgs <- TwoOrgs
  Jobs <- TwoRuns
  Tries = {1}
  Crons <- OneCron
  Ticks <- TwoTicks
  MaxTries = 2
  MaxSlots = 2
  MaxEdits = 1
  MaxMishaps = 2
  Events = {1, 2}
  MaxTroubles = 3
  Proc <- TwoDaemons
  MayCrash <- TwoDaemons
  MaxAttempts = 3
  NoDir = NoDir
INVARIANTS
  BusTypeOK
  Exclusive
  ReturnedIsInFlight
  OneClaimant
  FiresAreSound
  MutualExclusion
  LiveLockIsKept
PROPERTIES
  LettersServed
  ClosedStaysClosed
  JournalRefines
  DueIsFired
  EventsGetThrough
CHECK_DEADLOCK FALSE
