SPECIFICATION ScheduleSpec
CONSTANTS
  s1 = s1
  timer = timer
  hook = hook
  Schedules = {s1}
  NoSchedule = NoSchedule
  FeatureOf <- MCFeatureOf
  Tickers = {timer, hook}
  MaxDue = 1
  MaxRounds = 3
  Limits = {1, 2}
  Stories = 1
  MaxTime = 2
  MaxJobs = 2
  MaxRestarts = 0
INVARIANTS
  FireOnce
  EachJobCountsOnce
PROPERTIES
  ManualOffStays
SYMMETRY AnyTicker
CHECK_DEADLOCK FALSE
