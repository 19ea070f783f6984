SPECIFICATION FairScheduleSpec
CONSTANTS
  s1 = s1
  s2 = s2
  timer = timer
  Schedules = {s1, s2}
  NoSchedule = NoSchedule
  FeatureOf <- MCFeatureOf
  Tickers = {timer}
  MaxDue = 1
  MaxRounds = 3
  Limits = {1}
  Stories = 1
  MaxTime = 2
  MaxJobs = 1
  MaxRestarts = 1
PROPERTIES
  DueFires
CHECK_DEADLOCK FALSE
