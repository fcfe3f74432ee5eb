SPECIFICATION FairSpec
CONSTANTS
  Requests = {r1, r2, r3}
  o1 = o1
  o2 = o2
  k1 = k1
  Orgs = {o1, o2}
  Keys = {k1}
  Asks <- MCAsks
  NoKey = NoKey
  NoRequest = NoRequest
  PruneMidRequest = TRUE
  ExpiredReadsLoad = FALSE
INVARIANT TypeOK
INVARIANT GaplessNumbers
INVARIANT KeyCreatesOnce
INVARIANT SuccessNamesIncident
INVARIANT Sev1WatchedUnlessHandlerDied
PROPERTY ImplementsBook
PROPERTY EveryRequestAnswered
CHECK_DEADLOCK FALSE
