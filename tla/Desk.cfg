SPECIFICATION Spec
CONSTANTS
  c1 = c1  c2 = c2  t1 = t1  t2 = t2  ann = ann
  Connections = {c1, c2}
  Tickets = {t1, t2}
  TicketOf <- MCTicketOf
  UserOf <- MCUserOf
  Wanted <- MCWanted
  Channels = {org, inc}
  IncidentChannels = {inc}
  MaxCommands = 2
  Nobody = Nobody
  Writers = {w1, w2}
  Uploads = {u1}
  MaxComments = 2
  MaxEvents = 3
  PageSize = 1
  Nothing = Nothing
  Requests = {r1, r2, r3}
  Limit = 1
  Window = 2
  MaxSkew = 1
  MaxTime = 4
  Incidents = {i1}
  Runs = {j1}
  Changers = {q1, q2}
  LastDay = 2
  Unset = Unset
  v1 = v1  v2 = v2  d1 = d1  f1 = f1  f2 = f2  n1 = n1  n2 = n2  p1 = p1  p2 = p2
  Clerks = {k1, k2}
  Services = {v1, v2}
  Schedules = {d1}
  Shifts = {f1, f2}
  Names = {n1, n2}
  Staff = {p1, p2}
  Hours = {0, 1, 2, 3}
  Wants <- MCWants
  Absent = Absent
INVARIANT ListenersAreFed
PROPERTY DepartedIsForgotten
INVARIANT WalkSkipsNothing
INVARIANT DeletionIsFinal
INVARIANT AttachmentsAreStored
INVARIANT LimitIsExact
INVARIANT RollupCountsTheDay
INVARIANT CatalogHolds
CHECK_DEADLOCK FALSE
