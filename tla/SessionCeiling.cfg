SPECIFICATION LiveSpec
CONSTANTS
  None = None
  Timers = {t}
  ResponseTimeout = 1
  Closer = Closer
  Sessions = {s1, s2, s3}
  MaxSessions = 1
  Idle = 2
  MaxAdmitting = 2
  MaxTime = 3
  Stops = TRUE
  Breaking = {s1}
CHECK_DEADLOCK FALSE
INVARIANTS CeilingWithinAdmitting NoIdleAtCount NothingLeaks
PROPERTIES IdleIsEvicted
