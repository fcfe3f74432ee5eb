SPECIFICATION Spec
CONSTANTS
  mail = mail
  check = check
  Jobs = {mail, check}
  MAX_TRIES = 3
  MaxCuts = 4
INVARIANT FailedJobsAreParked
CHECK_DEADLOCK FALSE
