----------------------------- MODULE Assignment -----------------------------
(***************************************************************************)
(* Who visits whom and when: PATCH /jobs/:id/assignment (routes/jobs.ts),  *)
(* which places a job's appointment on a technician under an advisory lock *)
(* of that technician, beside the appointment endpoints of the office      *)
(* (routes/residential.ts), which write the same rows without it.          *)
(*                                                                         *)
(* A handler's reads before its transaction, its wait for the lock, its    *)
(* conflict query and its update with the commit are steps of their own.   *)
(* Postgres runs the transactions at READ COMMITTED: a write is seen when  *)
(* it commits, which is also when the lock is released.  The wall clock is *)
(* counted in half-hour blocks from midnight (UTC) of the first day.  A    *)
(* technician is a member of the organization with the skill the job asks  *)
(* for; a request for anybody else ends before it has done anything.       *)
(***************************************************************************)
EXTENDS Integers

CONSTANTS
    Job, Appointment, Technician,
    Client,      \* concurrent assignment requests
    None,        \* SQL null
    DayLength,   \* blocks in a day
    DayStart,    \* DAY_START_MINUTES: the block the board day begins with
    BoardLength, \* blocks in a board day
    Days,        \* bound: days an appointment may be put on by its creation
    MaxVisit,    \* bound: blocks of a visit as the office enters it
    MaxEdits     \* bound: writes of the office's appointment endpoints

ASSUME LengthAssumption ==
    DayLength \in Nat \ {0} /\ DayStart \in Nat /\ BoardLength \in 0..(DayLength - DayStart)
ASSUME NoneAssumption ==
    None \notin Job \cup Technician \cup Client \cup Appointment \cup Int
ASSUME BoundAssumption == Days \in Nat /\ MaxVisit \in Nat /\ MaxEdits \in Nat

VARIABLES
    jobs, used,                    \* jobs that exist, and that ever existed
    jobOf, assignee, start, end,   \* the appointments table
    pc, request,                   \* the assignment handlers
    holder,                        \* pg_advisory_xact_lock by technician
    placedBy, edits                \* history: who wrote a row's place last

tableVars == <<jobs, used, jobOf, assignee, start, end, placedBy>>
vars == <<tableVars, pc, request, holder, edits>>

Points == {"idle", "lock", "check", "write"}
NoRequest == [job |-> None, appt |-> None, tech |-> None, start |-> 0, end |-> 0]

Block == 0..(BoardLength - 1)
OfficeStart == 0..(Days * DayLength - 1)
OfficeEnd(s) == {None} \cup {s + n : n \in 0..MaxVisit}

Live(a) == jobOf[a] \in jobs

Init ==
    /\ jobs = {} /\ used = {}
    /\ jobOf = [a \in Appointment |-> None]
    /\ assignee = [a \in Appointment |-> None]
    /\ start = [a \in Appointment |-> 0]
    /\ end = [a \in Appointment |-> None]
    /\ pc = [c \in Client |-> "idle"]
    /\ request = [c \in Client |-> NoRequest]
    /\ holder = [t \in Technician |-> None]
    /\ placedBy = [a \in Appointment |-> "nobody"]
    /\ edits = 0

-----------------------------------------------------------------------------
(* The rows *)

Put(a, t, s, e, who) ==
    /\ assignee' = [assignee EXCEPT ![a] = t]
    /\ start' = [start EXCEPT ![a] = s]
    /\ end' = [end EXCEPT ![a] = e]
    /\ placedBy' = [placedBy EXCEPT ![a] = who]

\* POST /jobs: the job and one unassigned appointment, in one transaction.
CreateJob(j, a, s, e) ==
    /\ j \notin used /\ jobOf[a] = None
    /\ jobs' = jobs \cup {j}
    /\ used' = used \cup {j}
    /\ jobOf' = [jobOf EXCEPT ![a] = j]
    /\ Put(a, None, s, e, "nobody")
    /\ UNCHANGED <<pc, request, holder, edits>>

\* DELETE /jobs/:id cascades to the appointments.
DeleteJob(j) ==
    /\ j \in jobs
    /\ jobs' = jobs \ {j}
    /\ UNCHANGED <<used, jobOf, assignee, start, end, placedBy, pc, request, holder, edits>>

\* POST /appointments: staff and times as the body has them.
AddAppointment(j, a, t, s, e) ==
    /\ edits < MaxEdits
    /\ j \in jobs /\ jobOf[a] = None
    /\ jobOf' = [jobOf EXCEPT ![a] = j]
    /\ Put(a, t, s, e, "created")
    /\ edits' = edits + 1
    /\ UNCHANGED <<jobs, used, pc, request, holder>>

\* PATCH /appointments/:id by an office role: any of the fields, any value.
EditAppointment(a, t, s, e) ==
    /\ edits < MaxEdits
    /\ Live(a)
    /\ Put(a, t, s, e, "edited")
    /\ edits' = edits + 1
    /\ UNCHANGED <<jobs, used, jobOf, pc, request, holder>>

-----------------------------------------------------------------------------
(* PATCH /jobs/:id/assignment *)

\* The clock time comes from the block, the date from the appointment.
OnBlock(s, b) == (s \div DayLength) * DayLength + DayStart + b

VisitLength(s, e) == IF e # None /\ e > s THEN e - s ELSE 1

\* The job's earliest appointment is read, and the new window computed from it,
\* before the transaction begins.
Read(c, j, a, t, b) ==
    /\ pc[c] = "idle"
    /\ j \in jobs /\ jobOf[a] = j
    /\ \A o \in Appointment : jobOf[o] = j => start[a] <= start[o]
    /\ request' = [request EXCEPT ![c] =
         [job |-> j, appt |-> a, tech |-> t, start |-> OnBlock(start[a], b),
          end |-> OnBlock(start[a], b) + VisitLength(start[a], end[a])]]
    /\ pc' = [pc EXCEPT ![c] = "lock"]
    /\ UNCHANGED <<tableVars, holder, edits>>

\* Mutant of Lock: a lock that does not exclude.
LockShared(c) ==
    /\ pc[c] = "lock"
    /\ holder' = [holder EXCEPT ![request[c].tech] = c]
    /\ pc' = [pc EXCEPT ![c] = "check"]
    /\ UNCHANGED <<tableVars, request, edits>>

Lock(c) ==
    /\ pc[c] = "lock"
    /\ holder[request[c].tech] = None
    /\ holder' = [holder EXCEPT ![request[c].tech] = c]
    /\ pc' = [pc EXCEPT ![c] = "check"]
    /\ UNCHANGED <<tableVars, request, edits>>

\* The transaction ends, the request is answered.
Leave(c) ==
    /\ pc' = [pc EXCEPT ![c] = "idle"]
    /\ request' = [request EXCEPT ![c] = NoRequest]
    /\ holder' = [t \in Technician |-> IF holder[t] = c THEN None ELSE holder[t]]
    /\ UNCHANGED edits

EndsAfter(e, s) == e # None => e > s

\* An appointment of the technician, other than the one to be moved, that
\* overlaps the new window.
Conflicts(c, b) ==
    /\ Live(b) /\ b # request[c].appt
    /\ assignee[b] = request[c].tech
    /\ start[b] < request[c].end
    /\ EndsAfter(end[b], request[c].start)

CheckPasses(c) ==
    /\ pc[c] = "check"
    /\ ~\E b \in Appointment : Conflicts(c, b)
    /\ pc' = [pc EXCEPT ![c] = "write"]
    /\ UNCHANGED <<tableVars, request, holder, edits>>

\* 409: the technician has an overlapping appointment.
CheckFails(c) ==
    /\ pc[c] = "check"
    /\ \E b \in Appointment : Conflicts(c, b)
    /\ Leave(c)
    /\ UNCHANGED tableVars

\* updateMany matches the appointment unless it has been deleted.
Write(c) ==
    /\ pc[c] = "write"
    /\ IF Live(request[c].appt)
         THEN Put(request[c].appt, request[c].tech, request[c].start, request[c].end, "dispatch")
         ELSE UNCHANGED <<assignee, start, end, placedBy>>
    /\ Leave(c)
    /\ UNCHANGED <<jobs, used, jobOf>>

\* The connection is lost, or the interactive transaction times out: nothing
\* of it is seen and its lock is released.
Rollback(c) ==
    /\ pc[c] # "idle"
    /\ Leave(c)
    /\ UNCHANGED tableVars

-----------------------------------------------------------------------------
OfficeStep ==
    \E a \in Appointment, t \in Technician \cup {None}, s \in OfficeStart :
        \E e \in OfficeEnd(s) :
            \/ EditAppointment(a, t, s, e)
            \/ \E j \in Job : AddAppointment(j, a, t, s, e)

JobStep ==
    \/ \E j \in Job : DeleteJob(j)
    \/ \E j \in Job, a \in Appointment, s \in OfficeStart :
          \E e \in OfficeEnd(s) \ {None} : CreateJob(j, a, s, e)

Ask(c) ==
    \E j \in Job, a \in Appointment, t \in Technician, b \in Block : Read(c, j, a, t, b)

Proceed(c) == CheckPasses(c) \/ CheckFails(c) \/ Write(c)

Next ==
    \/ OfficeStep
    \/ JobStep
    \/ \E c \in Client : Ask(c) \/ Lock(c) \/ Proceed(c) \/ Rollback(c)

Spec == Init /\ [][Next]_vars

-----------------------------------------------------------------------------
(* Properties *)

Request ==
    [job : Job \cup {None}, appt : Appointment \cup {None},
     tech : Technician \cup {None}, start : Int, end : Int]

\* Types of the appointments table and the handlers of PATCH /jobs/:id/assignment.
TypeOK ==
    /\ jobs \subseteq used /\ used \subseteq Job
    /\ jobOf \in [Appointment -> Job \cup {None}]
    /\ assignee \in [Appointment -> Technician \cup {None}]
    /\ start \in [Appointment -> Int]
    /\ end \in [Appointment -> Int \cup {None}]
    /\ pc \in [Client -> Points]
    /\ request \in [Client -> Request]
    /\ holder \in [Technician -> Client \cup {None}]
    /\ placedBy \in [Appointment -> {"nobody", "dispatch", "created", "edited"}]
    /\ edits \in Nat

\* Two appointments of one technician at the same time.
DoubleBooked(a, b) ==
    /\ a # b /\ Live(a) /\ Live(b)
    /\ assignee[a] # None /\ assignee[a] = assignee[b]
    /\ EndsAfter(end[a], start[b]) /\ EndsAfter(end[b], start[a])

\* Two appointments that the assignment endpoint has placed never overlap on one
\* technician, whatever assignments, deletions and office edits run beside each
\* other ("Assignment double-booking fixed", PRODUCTION_READINESS.md).
DispatchNeverDoubleBooks ==
    \A a, b \in Appointment :
        placedBy[a] = "dispatch" /\ placedBy[b] = "dispatch" => ~DoubleBooked(a, b)

\* "assignment and schedule edits are dispatch authority — they must ride the advisory-lock
\* path in PATCH /api/jobs/:id/assignment, not this endpoint", says PATCH /appointments/:id
\* (routes/residential.ts): then no edit made at that endpoint puts an appointment on top of
\* one that the assignment endpoint has placed.
EditsNeverDoubleBook ==
    \A a, b \in Appointment :
        placedBy[a] = "edited" /\ placedBy[b] = "dispatch" => ~DoubleBooked(a, b)

\* An assignment sets the clock time only: "the appointment's DATE is preserved"
\* and "the end keeps the appointment's existing duration" (routes/jobs.ts), although
\* the window is computed before the lock is taken.
KeepsDateAndDuration(a) ==
    /\ start'[a] \div DayLength = start[a] \div DayLength
    /\ end'[a] - start'[a] = VisitLength(start[a], end[a])

MoveKeepsDateAndDuration ==
    [][\A c \in Client :
         Write(c) /\ Live(request[c].appt) => KeepsDateAndDuration(request[c].appt)]_vars

=============================================================================
