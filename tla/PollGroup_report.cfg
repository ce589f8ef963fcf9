SPECIFICATION Spec
CONSTANTS
  a = a
  NaN = NaN
  None = None
  Tags = {a}
  Readings <- MCReadings
  Deadband <- MCDeadband
  Heartbeat = 3
  Interval = 2
  FirstBackoff = 1
  MaxBackoff = 3
  PollMax = 1
  Lag = 1
  MaxSteps = 2
INVARIANTS IInv SilenceBounded ReportedWithinDeadband
