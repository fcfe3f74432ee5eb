SPECIFICATION FairSpec
CONSTANTS
  ana = ana
  ben = ben
  Timeout = 1
  Chain <- MCChain
  Users = {ana, ben}
  Known = {ana, ben}
  OnCall = {ben}
  Starts = {0, 2}
  Reported = 1
  MaxTime = 8
  MaxChanges = 1
  MaxLate = 1
  MaxRun = 0
  MaxFaults = 1
  MaxJobs = 8
INVARIANT TypeOK
INVARIANT OneStepPerInterval
INVARIANT AcknowledgeSilences
INVARIANT DuplicatesNeedCrashes
PROPERTY EscalatesUnlessDisturbed
CHECK_DEADLOCK FALSE
