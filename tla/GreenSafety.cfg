SPECIFICATION Spec
CONSTANTS
  MaxGreen = 2
  MaxJobs = 2
  MaxStarted = 3
  MaxTime = 1
  Deferreds = {d1}
  Delays = {1}
  BlockingTimersOk = TRUE
INVARIANTS
  OnePlace
  NobodyStranded
  DeliversWhatIsAwaited
  NoCancelSleptThrough
  HostYieldNeverEscapes
PROPERTIES
  OutcomesAreWrittenOnce
  ImplementsAwaiting
  CancelFiresOncePerRequest
