SPECIFICATION FairSpec
CONSTANTS
  mail = mail
  check = check
  Jobs = {mail, check}
  MAX_TRIES = 3
  MaxCuts = 4
INVARIANT ParkedJobsAreDead
PROPERTY EveryJobEnds
CHECK_DEADLOCK FALSE
