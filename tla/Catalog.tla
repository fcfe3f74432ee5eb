-------------------------------- MODULE Catalog --------------------------------
(***************************************************************************)
(* The service catalogue of one organisation, the on-call schedules of its *)
(* services, their shifts, and what else refers to them: incidents, and    *)
(* the members who go on call.  Requests overlap; each reads without a     *)
(* lock, and its writes wait for the rows, index entries and shifts that   *)
(* others hold.                                                            *)
(***************************************************************************)
EXTENDS Naturals, FiniteSets

CONSTANTS
  Clerks,        \* requests that can be under way at a time
  Services, Schedules, Shifts,   \* ids; they bound what is ever made
  Names, Staff,
  Hours,         \* the moments that shifts begin and end at
  Wants,         \* what requests may ask for
  Absent

Intervals == {h \in Hours \X Hours : h[1] < h[2]}
Want == [op : {"create", "rename", "delete", "schedule", "shift", "unshift", "report", "remove"},
         service : Services \union {Absent}, name : Names \union {Absent},
         schedule : Schedules \union {Absent}, shift : Shifts \union {Absent},
         who : Staff \union {Absent}, hours : Intervals \union {Absent}]

\* A request names what its operation needs.
Complete(w) ==
  /\ w.op \in {"create", "rename", "delete", "schedule", "report"} => w.service \in Services
  /\ w.op \in {"create", "rename"} => w.name \in Names
  /\ w.op \in {"schedule", "shift"} => w.schedule \in Schedules
  /\ w.op \in {"shift", "unshift"} => w.shift \in Shifts
  /\ w.op \in {"shift", "remove"} => w.who \in Staff
  /\ w.op = "shift" => w.hours \in Intervals

ASSUME CatalogAssumption ==
  /\ Hours \subseteq Nat
  /\ Absent \notin Services \union Names
  /\ Wants \subseteq {w \in Want : Complete(w)}

VARIABLES
  services,      \* the name of each service
  schedules,     \* the service of each schedule
  shifts,        \* [schedule, who, hours]
  reported,      \* services an incident is recorded against
  staff,         \* the members
  clerk          \* the request of each clerk

catalogRows == <<services, schedules, shifts, reported, staff>>
catalogVars == <<catalogRows, clerk>>

Resting == [pc |-> "resting", want |-> Absent, holds |-> {}, shares |-> {}]

CatalogInit ==
  /\ services = [s \in Services |-> Absent]
  /\ schedules = [d \in Schedules |-> Absent]
  /\ shifts = [f \in Shifts |-> Absent]
  /\ reported = {}
  /\ staff = Staff
  /\ clerk = [k \in Clerks |-> Resting]

\* What a request locks for itself, and what it only keeps from being deleted: the
\* rows its foreign keys point to.
ServiceRow(s) == <<"service", s>>
NameEntry(n) == <<"name", n>>
ScheduleRow(d) == <<"schedule", d>>
ShiftRow(f) == <<"shift", f>>

Waits(k, alone, shared) ==
  \E j \in Clerks \ {k} : \/ alone \intersect (clerk[j].holds \union clerk[j].shares) # {}
                          \/ shared \intersect clerk[j].holds # {}

Overlap(a, b) == a[1] < b[2] /\ b[1] < a[2]
On(d) == {f \in Shifts : shifts[f] # Absent /\ shifts[f].schedule = d}
Of(s) == {d \in Schedules : schedules[d] = s}

-----------------------------------------------------------------------------
(* What a request reads before it writes.                                  *)

Readable(w) ==
  CASE w.op = "create"   -> services[w.service] = Absent
    [] w.op \in {"rename", "delete", "report"} -> services[w.service] # Absent
    [] w.op = "schedule" -> schedules[w.schedule] = Absent /\ services[w.service] # Absent
    [] w.op = "shift"    -> /\ shifts[w.shift] = Absent
                            /\ schedules[w.schedule] # Absent
                            /\ w.who \in staff
    [] w.op = "unshift"  -> shifts[w.shift] # Absent
    [] w.op = "remove"   -> w.who \in staff

Read(k) ==
  /\ clerk[k].pc = "resting"
  /\ \E w \in Wants :
       /\ Readable(w)
       /\ clerk' = [clerk EXCEPT ![k] = [Resting EXCEPT !.pc = "write", !.want = w]]
  /\ UNCHANGED catalogRows

-----------------------------------------------------------------------------
(* The flush: what it locks, and the constraints it then meets.            *)

Cascade(s) == {ServiceRow(s)} \union {ScheduleRow(d) : d \in Of(s)}
              \union UNION {{ShiftRow(f) : f \in On(d)} : d \in Of(s)}

Alone(w) ==
  CASE w.op \in {"create", "rename"} -> {ServiceRow(w.service), NameEntry(w.name)}
    [] w.op = "delete"   -> Cascade(w.service)
    [] w.op = "schedule" -> {ScheduleRow(w.schedule)}
    [] w.op \in {"shift", "unshift"} -> {ShiftRow(w.shift)}
    [] OTHER             -> {}

Shared(w) == CASE w.op \in {"schedule", "report"} -> {ServiceRow(w.service)}
               [] w.op = "shift" -> {ScheduleRow(w.schedule)}
               [] OTHER -> {}

Pending(k) == {clerk[j].want : j \in {j \in Clerks \ {k} : clerk[j].pc = "commit"}}
Clashes(a, b) == a.schedule = b.schedule /\ Overlap(a.hours, b.hours)

\* ex_on_call_shifts_no_overlap waits for the uncommitted shift it clashes with,
\* and an ON DELETE CASCADE for the uncommitted children.
WaitsToo(k, w) ==
  \/ w.op = "shift" /\ \E o \in Pending(k) : o.op = "shift" /\ Clashes(o, w)
  \/ w.op = "delete" /\ Waits(k, {ScheduleRow(d) : d \in Of(w.service)}, {})

\* A bug: it asks only who is on call when the new shift begins.
OverlapsAtItsStart(w) ==
  \E f \in On(w.schedule) : /\ shifts[f].hours[1] <= w.hours[1]
                            /\ w.hours[1] < shifts[f].hours[2]

OverlapsShift(w) == \E f \in On(w.schedule) : Overlap(shifts[f].hours, w.hours)

Violates(w) ==
  CASE w.op = "create"   -> \E s \in Services : services[s] = w.name
    [] w.op = "rename"   -> \/ services[w.service] = Absent   \* StaleDataError
                            \/ \E s \in Services \ {w.service} : services[s] = w.name
    [] w.op = "delete"   -> w.service \in reported
    [] w.op \in {"schedule", "report"} -> services[w.service] = Absent
    [] w.op = "shift"    -> schedules[w.schedule] = Absent \/ OverlapsShift(w)
    [] OTHER             -> FALSE

WriteRows(k) ==
  LET w == clerk[k].want
  IN /\ clerk[k].pc = "write"
     /\ ~Waits(k, Alone(w), Shared(w))
     /\ ~WaitsToo(k, w)
     /\ clerk' = [clerk EXCEPT ![k] =
          IF Violates(w) THEN Resting
          ELSE [pc |-> "commit", want |-> w, holds |-> Alone(w), shares |-> Shared(w)]]
     /\ UNCHANGED catalogRows

Gone(k, row) == clerk[k].want.op \in {"delete", "unshift"} /\ row \in clerk[k].holds

CommitRows(k) ==
  LET w == clerk[k].want
  IN /\ clerk[k].pc = "commit"
     /\ services' = [s \in Services |->
          IF Gone(k, ServiceRow(s)) THEN Absent
          ELSE IF w.op \in {"create", "rename"} /\ s = w.service THEN w.name
          ELSE services[s]]
     /\ schedules' = [d \in Schedules |->
          IF Gone(k, ScheduleRow(d)) THEN Absent
          ELSE IF w.op = "schedule" /\ d = w.schedule THEN w.service ELSE schedules[d]]
     /\ shifts' = [f \in Shifts |->
          IF Gone(k, ShiftRow(f)) THEN Absent
          ELSE IF w.op = "shift" /\ f = w.shift
            THEN [schedule |-> w.schedule, who |-> w.who, hours |-> w.hours]
            ELSE shifts[f]]
     /\ reported' = reported \union (IF w.op = "report" THEN {w.service} ELSE {})
     /\ staff' = staff \ (IF w.op = "remove" THEN {w.who} ELSE {})
     /\ clerk' = [clerk EXCEPT ![k] = Resting]

FailRows(k) ==
  /\ clerk[k].pc # "resting"
  /\ clerk' = [clerk EXCEPT ![k] = Resting]
  /\ UNCHANGED catalogRows

CatalogNext == \E k \in Clerks : Read(k) \/ WriteRows(k) \/ CommitRows(k) \/ FailRows(k)

CatalogSpec == CatalogInit /\ [][CatalogNext]_catalogVars

-----------------------------------------------------------------------------
\* who_is_on_call picks one of these for each schedule, or nobody.
OnCall(d, h) == {shifts[f].who : f \in {f \in On(d) : shifts[f].hours[1] <= h
                                                    /\ h < shifts[f].hours[2]}}

(* "Overlapping shifts on one schedule are rejected" (api/v1/oncall.py) and *)
(* "history wins over tidiness" (services/catalog.py): at any moment one    *)
(* person at most is on call on a schedule, every shift has its schedule,   *)
(* every schedule and every incident its service, and no two services one   *)
(* name, however creations, renames and cascading deletions overlap.        *)
CatalogHolds ==
  /\ \A d \in Schedules, h \in Hours : Cardinality(OnCall(d, h)) <= 1
  /\ \A d \in Schedules : On(d) # {} => schedules[d] # Absent
  /\ \A d \in Schedules : schedules[d] # Absent => services[schedules[d]] # Absent
  /\ \A s \in reported : services[s] # Absent
  /\ \A s, z \in Services : services[s] = services[z] => s = z \/ services[s] = Absent
===============================================================================
