--------------------------------- MODULE MCDesk ---------------------------------
(* One user at two browsers, one of which watches an incident only, two      *)
(* requests at once on a discussion, three calls to a limiter of one, two    *)
(* requests that change a status beside a run that counts two days, two      *)
(* clerks.                                                                   *)
EXTENDS Desk, TLC

CONSTANTS c1, c2, t1, t2, ann,          \* connections, tickets and their user
          v1, v2, d1, f1, f2, n1, n2,   \* services, a schedule, shifts, names
          p1, p2                        \* those who go on call

MCTicketOf == (c1 :> t1) @@ (c2 :> t2)
MCWanted == (c1 :> Channels) @@ (c2 :> IncidentChannels)
MCUserOf == (t1 :> ann) @@ (t2 :> ann)

W(op) == [op |-> op, service |-> Absent, name |-> Absent, schedule |-> Absent,
          shift |-> Absent, who |-> Absent, hours |-> Absent]

\* A shift that overlaps another, one that only touches it, a name used twice.
MCWants ==
  {[W("create") EXCEPT !.service = v1, !.name = n1],
   [W("create") EXCEPT !.service = v2, !.name = n1],
   [W("rename") EXCEPT !.service = v1, !.name = n2],
   [W("delete") EXCEPT !.service = v1],
   [W("schedule") EXCEPT !.service = v1, !.schedule = d1],
   [W("shift") EXCEPT !.schedule = d1, !.shift = f1, !.who = p1, !.hours = <<0, 2>>],
   [W("shift") EXCEPT !.schedule = d1, !.shift = f2, !.who = p2, !.hours = <<1, 2>>],
   [W("shift") EXCEPT !.schedule = d1, !.shift = f2, !.who = p2, !.hours = <<2, 3>>],
   [W("unshift") EXCEPT !.schedule = d1, !.shift = f1],
   [W("report") EXCEPT !.service = v1],
   [W("remove") EXCEPT !.who = p2]}
===============================================================================
