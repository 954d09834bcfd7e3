SPECIFICATION FairSpec
CONSTANTS
  MaxGreen = 2
  MaxJobs = 2
  MaxStarted = 3
  MaxTime = 1
  Deferreds = {}
  Delays = {1}
  BlockingTimersOk = TRUE
PROPERTIES
  ReadyRuns
  CancelTakesEffect
  WaitEnds
