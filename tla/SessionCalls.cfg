SPECIFICATION SessionSpec
CONSTANTS
  MaxGreen = 2
  MaxJobs = 2
  MaxStarted = 3
  MaxTime = 1
  Deferreds = {d1}
  Delays = {1}
  BlockingTimersOk = FALSE
PROPERTY
  CallsLeaveTheSessionIntact
