SPECIFICATION FairSpec
CONSTANTS
  Txns = {t1, t2, t3}
  v1 = v1
  v2 = v2
  Values = {v1, v2}
  InitialValue = v1
  Absent = Absent
  Asks <- MCAsks
  NoTxn = NoTxn
  MaxOpen = 3
INVARIANT TypeOK
INVARIANT MilestonesStamped
INVARIANT TimelineTellsStatus
PROPERTY NeverReopened
PROPERTY StatusEventsArriveInOrder
PROPERTY EveryRequestEnds
CHECK_DEADLOCK FALSE
