SPECIFICATION CronSpec
CONSTANTS
  t1 = t1
  t2 = t2
  Crons <- TwoCrons
  Ticks <- TwoTicks
  MaxTries = 2
  MaxSlots = 1
  MaxEdits = 0
  MaxMishaps = 1
INVARIANT OnceDelivered
CHECK_DEADLOCK FALSE
