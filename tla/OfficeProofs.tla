---------------------------- MODULE OfficeProofs ----------------------------
(***************************************************************************)
(* What the offices of a company rely on, for any number of actors.        *)
(*                                                                         *)
(* Assignment: the advisory lock does what it is there for; with any       *)
(* number of requests, jobs, appointments, technicians and office edits,   *)
(* the assignment endpoint itself double-books nobody.                     *)
(*                                                                         *)
(* Live feed: a stream that outlives its socket and a pin that outlives a  *)
(* shift have one of the causes the history names.                         *)
(*                                                                         *)
(* Job threads: whatever the races, crashes and lost answers, a job has    *)
(* one Slack thread as long as the office keeps its workspace.             *)
(***************************************************************************)
EXTENDS Assignment, LiveFeed, JobThread, TLAPS

-----------------------------------------------------------------------------
(* Assignment *)

\* An appointment's job has existed, so that no new job revives a deleted row.
JobsAreUsed == \A a \in Appointment : jobOf[a] # None => jobOf[a] \in used

\* A request in progress names a row and a technician.
RequestIsFull ==
    \A c \in Client : pc[c] # "idle" =>
        request[c].appt \in Appointment /\ request[c].tech \in Technician

\* A transaction past the lock holds the lock of its technician.
LockIsHeld ==
    \A c \in Client : pc[c] \in {"check", "write"} => holder[request[c].tech] = c

\* What the conflict query found still holds when the update is made.
WindowIsFree ==
    \A c \in Client : pc[c] = "write" =>
        \A b \in Appointment : placedBy[b] = "dispatch" => ~Conflicts(c, b)

IInv ==
    /\ TypeOK
    /\ JobsAreUsed
    /\ RequestIsFull
    /\ LockIsHeld
    /\ WindowIsFree
    /\ DispatchNeverDoubleBooks

-----------------------------------------------------------------------------
(* Types *)

\* The window computed from an appointment is a window.
LEMMA WindowType ==
  ASSUME NEW s \in Int, NEW e \in Int \cup {None}, NEW b \in Block
  PROVE  OnBlock(s, b) \in Int /\ OnBlock(s, b) + VisitLength(s, e) \in Int
<1>1. OnBlock(s, b) \in Int
  BY LengthAssumption DEF OnBlock, Block
<1>2. VisitLength(s, e) \in Int
  BY NoneAssumption DEF VisitLength
<1> QED
  BY <1>1, <1>2

\* Initially there is no job and no request.
LEMMA InitEstablishesIInv == Init => IInv
<1> SUFFICES ASSUME Init PROVE IInv
  OBVIOUS
<1>1. TypeOK
  BY DEF Init, TypeOK, Points, NoRequest, Request
<1> QED
  BY <1>1 DEF Init, IInv, JobsAreUsed, RequestIsFull, LockIsHeld, WindowIsFree,
     DispatchNeverDoubleBooks

\* A request that ends leaves well-typed locks and locals.
LEMMA LeaveTypes ==
  ASSUME TypeOK, NEW c \in Client, Leave(c)
  PROVE  /\ pc' \in [Client -> Points]
         /\ request' \in [Client -> Request]
         /\ holder' \in [Technician -> Client \cup {None}]
         /\ edits' \in Nat
<1>1. NoRequest \in Request
  BY DEF NoRequest, Request
<1> QED
  BY <1>1 DEF TypeOK, Leave, Points

\* Every step keeps the types.
LEMMA StepKeepsTypes == IInv /\ [Next]_vars => TypeOK'
<1> SUFFICES ASSUME IInv, [Next]_vars PROVE TypeOK'
  OBVIOUS
<1> USE DEF IInv, TypeOK
<1>1. ASSUME NEW a \in Appointment, NEW t \in Technician \cup {None}, NEW s \in OfficeStart,
             NEW e \in OfficeEnd(s), EditAppointment(a, t, s, e)
      PROVE  TypeOK'
  BY <1>1 DEF EditAppointment, Put, OfficeStart, OfficeEnd
<1>2. ASSUME NEW a \in Appointment, NEW t \in Technician \cup {None}, NEW s \in OfficeStart,
             NEW e \in OfficeEnd(s), NEW j \in Job, AddAppointment(j, a, t, s, e)
      PROVE  TypeOK'
  BY <1>2 DEF AddAppointment, Put, OfficeStart, OfficeEnd
<1>3. ASSUME NEW j \in Job, DeleteJob(j) PROVE TypeOK'
  BY <1>3 DEF DeleteJob
<1>4. ASSUME NEW j \in Job, NEW a \in Appointment, NEW s \in OfficeStart,
             NEW e \in OfficeEnd(s), CreateJob(j, a, s, e)
      PROVE  TypeOK'
  BY <1>4 DEF CreateJob, Put, OfficeStart, OfficeEnd
<1>5. ASSUME NEW c \in Client, NEW j \in Job, NEW a \in Appointment, NEW t \in Technician,
             NEW b \in Block, Read(c, j, a, t, b)
      PROVE  TypeOK'
  <2>1. OnBlock(start[a], b) \in Int
        /\ OnBlock(start[a], b) + VisitLength(start[a], end[a]) \in Int
    BY WindowType
  <2> QED
    BY <1>5, <2>1 DEF Read, Points, Request, tableVars
<1>6. ASSUME NEW c \in Client, Lock(c) PROVE TypeOK'
  BY <1>6 DEF Lock, Points, tableVars
<1>7. ASSUME NEW c \in Client, CheckPasses(c) PROVE TypeOK'
  BY <1>7 DEF CheckPasses, Points, tableVars
<1>8. ASSUME NEW c \in Client, CheckFails(c) \/ Rollback(c) PROVE TypeOK'
  <2>1. Leave(c) /\ UNCHANGED tableVars
    BY <1>8 DEF CheckFails, Rollback
  <2> QED
    BY <2>1, LeaveTypes DEF tableVars
<1>9. ASSUME NEW c \in Client, Write(c) PROVE TypeOK'
  <2>1. Leave(c) /\ UNCHANGED <<jobs, used, jobOf>>
    BY <1>9 DEF Write
  <2>2. request[c].appt \in Appointment /\ request[c] \in Request
    BY <1>9 DEF RequestIsFull, Write, Request
  <2>3. /\ assignee' \in [Appointment -> Technician \cup {None}]
        /\ start' \in [Appointment -> Int]
        /\ end' \in [Appointment -> Int \cup {None}]
        /\ placedBy' \in [Appointment -> {"nobody", "dispatch", "created", "edited"}]
    BY <1>9, <2>2 DEF Write, Put, Request
  <2> QED
    BY <2>1, <2>3, LeaveTypes
<1>10. CASE UNCHANGED vars
  BY <1>10 DEF vars, tableVars
<1> HIDE DEF IInv, TypeOK
<1> QED
  BY <1>1, <1>2, <1>3, <1>4, <1>5, <1>6, <1>7, <1>8, <1>9, <1>10
  DEF Next, OfficeStep, JobStep, Ask, Proceed

-----------------------------------------------------------------------------
(* The invariant is inductive *)

\* Every step keeps the invariant.
LEMMA StepKeepsIInv == IInv /\ [Next]_vars => IInv'
<1> SUFFICES ASSUME IInv, [Next]_vars PROVE IInv'
  OBVIOUS
<1>0. TypeOK'
  BY StepKeepsTypes
<1>1. ASSUME NEW a \in Appointment, NEW t \in Technician \cup {None}, NEW s \in OfficeStart,
             NEW e \in OfficeEnd(s),
             EditAppointment(a, t, s, e) \/ \E j \in Job : AddAppointment(j, a, t, s, e)
      PROVE  IInv'
  \* The row written is the office's, whose place no claim is made about.
  <2>1. /\ placedBy' \in {[placedBy EXCEPT ![a] = "created"], [placedBy EXCEPT ![a] = "edited"]}
        /\ \A b \in Appointment : b # a => /\ jobOf'[b] = jobOf[b] /\ assignee'[b] = assignee[b]
                                        /\ start'[b] = start[b] /\ end'[b] = end[b]
        /\ UNCHANGED <<jobs, used, pc, request, holder>>
    BY <1>1 DEF IInv, TypeOK, EditAppointment, AddAppointment, Put
  <2>2. JobsAreUsed'
    BY <1>1 DEF IInv, TypeOK, JobsAreUsed, EditAppointment, AddAppointment
  <2>3. WindowIsFree'
    BY <2>1 DEF IInv, TypeOK, WindowIsFree, Conflicts, Live
  <2>4. DispatchNeverDoubleBooks'
    BY <2>1 DEF IInv, TypeOK, DispatchNeverDoubleBooks, DoubleBooked, Live
  <2> QED
    BY <1>0, <2>1, <2>2, <2>3, <2>4 DEF IInv, RequestIsFull, LockIsHeld
<1>2. ASSUME NEW j \in Job, DeleteJob(j) PROVE IInv'
  <2>1. WindowIsFree'
    BY <1>2 DEF IInv, WindowIsFree, Conflicts, Live, DeleteJob
  <2>2. DispatchNeverDoubleBooks'
    BY <1>2 DEF IInv, DispatchNeverDoubleBooks, DoubleBooked, Live, DeleteJob
  <2> QED
    BY <1>0, <1>2, <2>1, <2>2 DEF IInv, JobsAreUsed, RequestIsFull, LockIsHeld, DeleteJob
<1>3. ASSUME NEW j \in Job, NEW a \in Appointment, NEW s \in OfficeStart,
             NEW e \in OfficeEnd(s), CreateJob(j, a, s, e)
      PROVE  IInv'
  \* No other row has the new job, which has never been used.
  <2>1. \A b \in Appointment : b # a => /\ Live(b)' = Live(b) /\ assignee'[b] = assignee[b]
                                       /\ start'[b] = start[b] /\ end'[b] = end[b]
                                       /\ placedBy'[b] = placedBy[b]
    BY <1>3, NoneAssumption DEF IInv, TypeOK, JobsAreUsed, CreateJob, Put, Live
  <2>2. placedBy'[a] = "nobody" /\ UNCHANGED <<pc, request, holder>>
    BY <1>3 DEF IInv, TypeOK, CreateJob, Put
  <2>3. JobsAreUsed'
    BY <1>3 DEF IInv, TypeOK, JobsAreUsed, CreateJob
  <2>4. WindowIsFree'
    BY <2>1, <2>2 DEF IInv, WindowIsFree, Conflicts
  <2>5. DispatchNeverDoubleBooks'
    BY <2>1, <2>2 DEF IInv, DispatchNeverDoubleBooks, DoubleBooked
  <2> QED
    BY <1>0, <2>2, <2>3, <2>4, <2>5 DEF IInv, RequestIsFull, LockIsHeld
<1>4. ASSUME NEW c \in Client, NEW j \in Job, NEW a \in Appointment, NEW t \in Technician,
             NEW b \in Block, Read(c, j, a, t, b)
      PROVE  IInv'
  <2>1. RequestIsFull'
    BY <1>4 DEF IInv, TypeOK, RequestIsFull, Read
  <2>2. LockIsHeld'
    BY <1>4 DEF IInv, TypeOK, LockIsHeld, Read
  <2>3. WindowIsFree'
    BY <1>4 DEF IInv, TypeOK, WindowIsFree, Conflicts, Live, Read, tableVars
  <2> QED
    BY <1>0, <1>4, <2>1, <2>2, <2>3
    DEF IInv, JobsAreUsed, DispatchNeverDoubleBooks, DoubleBooked, Live, Read, tableVars
<1>5. ASSUME NEW c \in Client, Lock(c) PROVE IInv'
  <2>1. RequestIsFull'
    BY <1>5 DEF IInv, TypeOK, RequestIsFull, Lock
  <2>2. LockIsHeld'
    BY <1>5, NoneAssumption DEF IInv, TypeOK, RequestIsFull, LockIsHeld, Lock
  <2>3. WindowIsFree'
    BY <1>5 DEF IInv, TypeOK, WindowIsFree, Conflicts, Live, Lock, tableVars
  <2> QED
    BY <1>0, <1>5, <2>1, <2>2, <2>3
    DEF IInv, JobsAreUsed, DispatchNeverDoubleBooks, DoubleBooked, Live, Lock, tableVars
<1>6. ASSUME NEW c \in Client, CheckPasses(c) PROVE IInv'
  <2>1. RequestIsFull' /\ LockIsHeld'
    BY <1>6 DEF IInv, TypeOK, RequestIsFull, LockIsHeld, CheckPasses
  <2>2. WindowIsFree'
    BY <1>6 DEF IInv, TypeOK, WindowIsFree, Conflicts, Live, CheckPasses, tableVars
  <2> QED
    BY <1>0, <1>6, <2>1, <2>2
    DEF IInv, JobsAreUsed, DispatchNeverDoubleBooks, DoubleBooked, Live, CheckPasses, tableVars
<1>7. ASSUME NEW c \in Client, Leave(c), \A d \in Client : d # c => pc[d] = pc'[d]
      PROVE  RequestIsFull' /\ LockIsHeld'
  <2>1. \A d \in Client : d # c => request'[d] = request[d]
    BY <1>7 DEF IInv, TypeOK, Leave
  <2>2. \A t \in Technician, d \in Client : d # c /\ holder[t] = d => holder'[t] = d
    BY <1>7 DEF Leave
  <2>3. pc'[c] = "idle"
    BY <1>7 DEF IInv, TypeOK, Leave
  <2> QED
    BY <1>7, <2>1, <2>2, <2>3 DEF IInv, RequestIsFull, LockIsHeld
<1>8. ASSUME NEW c \in Client, CheckFails(c) \/ Rollback(c) PROVE IInv'
  <2>1. Leave(c) /\ UNCHANGED tableVars
    BY <1>8 DEF CheckFails, Rollback
  <2>2. RequestIsFull' /\ LockIsHeld'
    BY <1>7, <2>1 DEF IInv, TypeOK, Leave
  <2>3. WindowIsFree'
    BY <2>1 DEF IInv, TypeOK, WindowIsFree, Conflicts, Live, Leave, tableVars
  <2> QED
    BY <1>0, <2>1, <2>2, <2>3
    DEF IInv, JobsAreUsed, DispatchNeverDoubleBooks, DoubleBooked, Live, tableVars
<1>9. ASSUME NEW c \in Client, Write(c) PROVE IInv'
  <2> DEFINE p == request[c]
  <2>1. /\ Leave(c) /\ UNCHANGED <<jobs, used, jobOf>>
        /\ p \in Request /\ p.appt \in Appointment /\ p.tech \in Technician
        /\ holder[p.tech] = c
    BY <1>9 DEF IInv, TypeOK, RequestIsFull, LockIsHeld, Write
  <2>2. RequestIsFull' /\ LockIsHeld'
    BY <1>7, <2>1 DEF IInv, TypeOK, Leave
  <2>3. \A b \in Appointment : b # p.appt => /\ assignee'[b] = assignee[b] /\ start'[b] = start[b]
                                            /\ end'[b] = end[b] /\ placedBy'[b] = placedBy[b]
    BY <1>9, <2>1 DEF IInv, TypeOK, Write, Put
  <2>4. CASE Live(p.appt)
    <3>1. /\ assignee'[p.appt] = p.tech /\ start'[p.appt] = p.start
          /\ end'[p.appt] = p.end /\ placedBy'[p.appt] = "dispatch"
      BY <1>9, <2>1, <2>4 DEF IInv, TypeOK, Write, Put
    \* Another transaction at its update holds another technician's lock.
    <3>2. WindowIsFree'
      <4>1. ASSUME NEW d \in Client, pc'[d] = "write", NEW b \in Appointment,
                   placedBy'[b] = "dispatch"
            PROVE  ~Conflicts(d, b)'
        <5>1. d # c /\ pc[d] = "write" /\ request'[d] = request[d]
          BY <2>1, <4>1 DEF IInv, TypeOK, Leave
        <5>2. request[d].tech # p.tech
          BY <2>1, <5>1 DEF IInv, LockIsHeld
        <5>3. CASE b = p.appt
          BY <3>1, <5>1, <5>2, <5>3 DEF Conflicts
        <5>4. CASE b # p.appt
          BY <2>1, <2>3, <4>1, <5>1, <5>4 DEF IInv, WindowIsFree, Conflicts, Live
        <5> QED
          BY <5>3, <5>4
      <4> QED
        BY <4>1 DEF WindowIsFree
    \* The row written overlaps no row that the endpoint has placed.
    <3>3. PICK x \in Appointment : x = p.appt
      BY <2>1
    <3>4. ASSUME NEW b \in Appointment, b # x, placedBy'[b] = "dispatch"
          PROVE  ~DoubleBooked(x, b)' /\ ~DoubleBooked(b, x)'
      <4>1. ~Conflicts(c, b)
        BY <1>9, <2>3, <3>3, <3>4 DEF IInv, WindowIsFree, Write
      <4>2. start[b] \in Int /\ p.end \in Int /\ p.end # None
        BY <2>1, NoneAssumption DEF IInv, TypeOK, Request
      <4>3. Live(b) /\ assignee[b] = p.tech => ~(start[b] < p.end /\ EndsAfter(end[b], p.start))
        BY <3>3, <3>4, <4>1 DEF Conflicts
      <4> QED
        BY <2>1, <2>3, <3>1, <3>3, <3>4, <4>2, <4>3 DEF DoubleBooked, Live, EndsAfter
    <3>5. DispatchNeverDoubleBooks'
      <4>1. ASSUME NEW a \in Appointment, NEW b \in Appointment, a # x, b # x,
                   placedBy'[a] = "dispatch", placedBy'[b] = "dispatch"
            PROVE  ~DoubleBooked(a, b)'
        BY <2>1, <2>3, <3>3, <4>1 DEF IInv, DispatchNeverDoubleBooks, DoubleBooked, Live
      <4>2. ~DoubleBooked(x, x)'
        BY DEF DoubleBooked
      <4> QED
        BY <3>4, <4>1, <4>2 DEF DispatchNeverDoubleBooks
    <3> QED
      BY <1>0, <2>1, <2>2, <3>2, <3>5 DEF IInv, JobsAreUsed
  <2>5. CASE ~Live(p.appt)
    <3>1. UNCHANGED tableVars
      BY <1>9, <2>5 DEF Write, tableVars
    <3>2. WindowIsFree'
      BY <2>1, <3>1 DEF IInv, TypeOK, WindowIsFree, Conflicts, Live, Leave, tableVars
    <3> QED
      BY <1>0, <2>1, <2>2, <3>1, <3>2
      DEF IInv, JobsAreUsed, DispatchNeverDoubleBooks, DoubleBooked, Live, tableVars
  <2> QED
    BY <2>4, <2>5
<1>10. CASE UNCHANGED vars
  BY <1>0, <1>10 DEF IInv, JobsAreUsed, RequestIsFull, LockIsHeld, WindowIsFree, Conflicts,
     DispatchNeverDoubleBooks, DoubleBooked, Live, vars, tableVars
<1> QED
  BY <1>1, <1>2, <1>3, <1>4, <1>5, <1>6, <1>8, <1>9, <1>10
  DEF Next, OfficeStep, JobStep, Ask, Proceed

-----------------------------------------------------------------------------
(* What follows for every behaviour *)

\* The inductive invariant holds in every reachable state.
THEOREM Invariant == Spec => []IInv
  BY InitEstablishesIInv, StepKeepsIInv, PTL DEF Spec

\* The appointments, the handlers and the locks keep their types.
THEOREM TypeCorrect == Spec => []TypeOK
<1>1. IInv => TypeOK
  BY DEF IInv
<1> QED
  BY <1>1, Invariant, PTL

\* PATCH /jobs/:id/assignment never gives a technician two overlapping visits.
THEOREM DispatchIsExclusive == Spec => []DispatchNeverDoubleBooks
<1>1. IInv => DispatchNeverDoubleBooks
  BY DEF IInv
<1> QED
  BY <1>1, Invariant, PTL

-----------------------------------------------------------------------------
(* The live feed *)

\* The two ends of the sockets, the reports under way and the heartbeats.
FeedTypes ==
    /\ client \in [Socket -> {"none", "open", "closed"}]
    /\ server \in [Socket -> {"none", "checking", "feeding", "ended"}]
    /\ beat \subseteq Socket /\ cutEarly \subseteq Socket
    /\ sending \subseteq {"on", "off"} \X Nat /\ fixes \in Nat

\* Both ends of a socket begin together, and a heartbeat follows a subscription.
EndsBeginTogether == \A n \in Socket : client[n] = "none" <=> server[n] = "none"
BeatsFollowChecks == \A n \in beat : server[n] # "none" /\ server[n] # "checking"

\* A socket whose console has gone is fed, or will be, only if it was cut early.
FedWithoutSocket ==
    \A n \in Socket : server[n] \in {"checking", "feeding"} /\ client[n] # "open" => n \in cutEarly

\* After a log-off its beacon is under way, came last, or left a trace in the history.
BeaconOfLogOff ==
    \/ onShift
    \/ \E k \in Nat : <<"off", k>> \in sending
    \/ sending = {} /\ ~pin
    \/ missed
    \/ reordered

FeedInv == FeedTypes /\ EndsBeginTogether /\ BeatsFollowChecks /\ FedWithoutSocket /\ BeaconOfLogOff

LEMMA FeedStarts == FeedInit => FeedInv
  BY DEF FeedInit, FeedInv, FeedTypes, EndsBeginTogether, BeatsFollowChecks, FedWithoutSocket,
       BeaconOfLogOff

\* What the stream does not touch.
StreamOnly == UNCHANGED <<sending, fixes, onShift, pin, missed, reordered>>
StreamInv ==
    /\ client \in [Socket -> {"none", "open", "closed"}]
    /\ server \in [Socket -> {"none", "checking", "feeding", "ended"}]
    /\ beat \subseteq Socket /\ cutEarly \subseteq Socket
    /\ EndsBeginTogether /\ BeatsFollowChecks /\ FedWithoutSocket

LEMMA StreamKeepsInv ==
  ASSUME StreamInv, StreamStep
  PROVE  StreamInv'
<1> USE DEF StreamInv, EndsBeginTogether, BeatsFollowChecks, FedWithoutSocket
<1>1. PICK n \in Socket :
         \/ Connect(n) \/ RefuseSocket(n) \/ Subscribe(n) \/ CutSocket(n)
         \/ Heartbeat(n) \/ HeartbeatAnswer(n) \/ HeartbeatFails(n)
  BY DEF StreamStep
<1>2. CASE Connect(n)
  BY <1>2 DEF Connect, feedVars
<1>3. CASE RefuseSocket(n)
  BY <1>3 DEF RefuseSocket, feedVars
<1>4. CASE Subscribe(n)
  BY <1>4 DEF Subscribe, feedVars
<1>5. CASE CutSocket(n)
  BY <1>5 DEF CutSocket, Ended, feedVars
<1>6. CASE Heartbeat(n)
  BY <1>6 DEF Heartbeat, Subscribed, feedVars
<1>7. CASE HeartbeatAnswer(n)
  BY <1>7 DEF HeartbeatAnswer, Ended, feedVars
<1>8. CASE HeartbeatFails(n)
  BY <1>8 DEF HeartbeatFails, feedVars
<1> QED
  BY <1>1, <1>2, <1>3, <1>4, <1>5, <1>6, <1>7, <1>8

VanInv == sending \subseteq {"on", "off"} \X Nat /\ fixes \in Nat /\ BeaconOfLogOff

LEMMA VanKeepsInv ==
  ASSUME VanInv, VanStep
  PROVE  VanInv'
<1>1. CASE SendFix
  <2>1. sending' \subseteq {"on", "off"} \X Nat /\ fixes' \in Nat
    BY <1>1 DEF SendFix, VanInv
  <2>2. onShift' = onShift /\ onShift
    BY <1>1 DEF SendFix
  <2> QED
    BY <2>1, <2>2, Zenon DEF VanInv, BeaconOfLogOff
<1>2. CASE LogOff
  <2>1. sending' \subseteq {"on", "off"} \X Nat /\ fixes' \in Nat
    BY <1>2 DEF LogOff, VanInv
  <2>2. <<"off", fixes + 1>> \in sending' /\ fixes + 1 \in Nat
    BY <1>2 DEF LogOff, VanInv
  <2> QED
    BY <2>1, <2>2, Zenon DEF VanInv, BeaconOfLogOff
<1>3. ASSUME NEW r \in sending, LoseReport(r) \/ PublishReport(r)
      PROVE  VanInv'
  <2>1. sending' = sending \ {r} /\ fixes' = fixes /\ onShift' = onShift
    BY <1>3, Zenon DEF LoseReport, PublishReport
  <2>2. sending' \subseteq {"on", "off"} \X Nat /\ fixes' \in Nat
    BY <2>1, Zenon DEF VanInv
  <2>3. BeaconOfLogOff'
    <3>1. CASE onShift
      BY <3>1, <2>1, Zenon DEF BeaconOfLogOff
    <3>2. CASE \E k \in Nat : <<"off", k>> \in sending
      <4>1. PICK k \in Nat : <<"off", k>> \in sending
        BY <3>2
      <4>2. CASE r = <<"off", k>>
        <5>1. r[1] = "off"
          BY <4>2
        <5>2. CASE LoseReport(r)
          BY <5>1, <5>2, Zenon DEF LoseReport, BeaconOfLogOff
        <5>3. CASE PublishReport(r) /\ Watching
          <6>1. r[1] # "on"
            BY <5>1
          <6>2. ~pin'
            BY <5>3, <6>1, Zenon DEF PublishReport, Applied
          <6>3. sending = {r} \/ reordered'
            BY <5>1, <5>3, Zenon DEF PublishReport
          <6>4. sending = {r} => sending' = {}
            BY <2>1
          <6> QED
            BY <6>2, <6>3, <6>4, Zenon DEF BeaconOfLogOff
        <5>4. CASE PublishReport(r) /\ ~Watching
          BY <5>1, <5>4, Zenon DEF PublishReport, BeaconOfLogOff
        <5> QED
          BY <1>3, <5>2, <5>3, <5>4
      <4>3. CASE r # <<"off", k>>
        <5>1. <<"off", k>> \in sending'
          BY <4>1, <4>3, <2>1
        <5> QED
          BY <5>1, Zenon DEF BeaconOfLogOff
      <4> QED
        BY <4>2, <4>3
    <3>3. CASE missed \/ reordered
      <4>1. LoseReport(r) => (missed => missed')
        BY Zenon DEF LoseReport
      <4>2. LoseReport(r) => reordered' = reordered
        BY DEF LoseReport
      <4>3. PublishReport(r) => (reordered => reordered')
        BY Zenon DEF PublishReport
      <4>4. PublishReport(r) => (missed => missed')
        BY Zenon DEF PublishReport
      <4> QED
        BY <1>3, <3>3, <4>1, <4>2, <4>3, <4>4, Zenon DEF BeaconOfLogOff
    <3>4. CASE sending = {}
      BY <3>4, <1>3
    <3> QED
      BY <3>1, <3>2, <3>3, <3>4, Zenon DEF VanInv, BeaconOfLogOff
  <2> QED
    BY <2>2, <2>3 DEF VanInv
<1> QED
  BY <1>1, <1>2, <1>3, Zenon DEF VanStep

LEMMA FeedStepKeepsInv == FeedInv /\ [FeedNext]_liveVars => FeedInv'
<1> SUFFICES ASSUME FeedInv, [FeedNext]_liveVars
             PROVE  FeedInv'
  OBVIOUS
<1>1. FeedInv <=> StreamInv /\ VanInv
  BY Zenon DEF FeedInv, StreamInv, VanInv, FeedTypes
<1>2. FeedInv' <=> StreamInv' /\ VanInv'
  BY Zenon DEF FeedInv, StreamInv, VanInv, FeedTypes
<1>3. UNCHANGED <<client, server, beat, cutEarly>> => StreamInv'
  BY <1>1 DEF StreamInv, EndsBeginTogether, BeatsFollowChecks, FedWithoutSocket
<1>4. UNCHANGED <<sending, fixes, onShift, pin, missed, reordered>> => VanInv'
  BY <1>1 DEF VanInv, BeaconOfLogOff
<1>5. CASE StreamStep
  <2>1. UNCHANGED <<sending, fixes, onShift, pin, missed, reordered>>
    BY <1>5, Zenon DEF StreamStep, Connect, RefuseSocket, Subscribe, CutSocket, Heartbeat,
         HeartbeatAnswer,
                HeartbeatFails, vanVars
  <2> QED
    BY <1>5, <1>1, <1>2, <1>4, <2>1, StreamKeepsInv
<1>6. CASE VanStep
  <2>1. UNCHANGED <<client, server, beat, cutEarly>>
    BY <1>6, Zenon DEF VanStep, SendFix, LogOff, LoseReport, PublishReport, feedVars
  <2> QED
    BY <1>6, <1>1, <1>2, <1>3, <2>1, VanKeepsInv
<1>7. CASE AskToken \/ Revoke \/ ChangeStatus \/ Poll \/ Hydrate \/ UNCHANGED liveVars
  <2>1. UNCHANGED <<client, server, beat, cutEarly>>
    BY <1>7, Zenon DEF AskToken, Revoke, ChangeStatus, Poll, Hydrate, liveVars, feedVars
  <2>2. UNCHANGED <<sending, fixes, onShift, pin, missed, reordered>>
    BY <1>7, Zenon DEF AskToken, Revoke, ChangeStatus, Poll, Hydrate, liveVars, vanVars
  <2> QED
    BY <1>2, <1>3, <1>4, <2>1, <2>2
<1> QED
  BY <1>5, <1>6, <1>7, Zenon DEF FeedNext

\* The inductive invariant holds in every state of the feed, whatever the scheduler does.
THEOREM FeedInvariant == FeedSpec => []FeedInv
<1> QED
  BY FeedStarts, FeedStepKeepsInv, PTL DEF FeedSpec

\* A listener that outlives its socket was cut off while its session was being read, and a
\* van shown after its shift has a report under way, lost, missed or overtaken.
THEOREM FeedStaysHonest == FeedSpec => []FeedIsHonest
<1>1. FeedInv => ListenersEndUnlessCutEarly
  BY DEF FeedInv, ListenersEndUnlessCutEarly, FedWithoutSocket, Subscribed
<1>2. FeedInv => PinHasCause
  <2> SUFFICES ASSUME FeedInv, pin, ~onShift, ~missed, ~reordered
               PROVE  sending # {}
    BY Zenon DEF PinHasCause
  <2>1. \E k \in Nat : <<"off", k>> \in sending
    BY Zenon DEF FeedInv, BeaconOfLogOff
  <2> QED
    BY <2>1, Zenon
<1>3. FeedInv => FeedIsHonest
  BY <1>1, <1>2 DEF FeedIsHonest
<1> QED
  BY FeedInvariant, <1>3, PTL

-----------------------------------------------------------------------------
(* The Slack thread of a job *)

\* The steps of a worker between its claim and its answer, and those of a message's actor.
Loaded == {"find", "parent", "record", "reread", "reply"}
OfMessage == Loaded \cup {"post", "load"}
ActorPoints == OfMessage \cup {"idle", "match", "store"}

\* What an actor has read fits the step it is at.
ActFits(r) ==
    /\ r = [pc |-> r.pc, about |-> r.about, ws |-> r.ws, at |-> r.at, linked |-> r.linked]
    /\ r.pc \in ActorPoints
    /\ r.pc \in OfMessage => r.about \in Message
    /\ r.pc \in Loaded => r.ws \in SlackTeam \X Nat
    /\ r.pc = "record" => r.at \in Thread /\ r.at.ws = r.ws /\ r.at.team = r.ws[1]
    /\ r.pc = "reply" => r.at \in Thread /\ r.at.parent \in recorded
    /\ r.pc \in {"match", "store"} => r.about \in Reply /\ typed[r.about] = r.at /\ r.at # Nothing
    /\ r.pc = "store" => r.at \in recorded
ActorsFit == act = [a \in Actor |-> act[a]] /\ \A a \in Actor : ActFits(act[a])

RowsFit ==
    /\ org \in [SlackTeam -> Organization \cup {Nothing}] /\ age \in [SlackTeam -> Nat]
    /\ routed \subseteq SlackTeam
    /\ parents \in Seq(SlackTeam) /\ typed \in [Reply -> Nat \cup {Nothing}]
    /\ delivery \in [Message -> {"none", "queued", "leased", "delivered", "failed"}]

\* Only a recorded thread is replied in, and only what was typed in one is stored.
ThreadFits == thread # Nothing => thread \in Thread /\ thread.parent \in recorded
ShownFits == \A x \in shown : x[1] \in Message /\ x[2] \in recorded
StoredFits ==
    \A s \in stored :
        \/ s \in Message
        \/ s[1] \in Reply /\ s[2] = typed[s[1]] /\ s[2] \in recorded /\ s[2] # Nothing

\* As long as the office keeps its workspace t, its row is what every worker has loaded,
\* and all replies go to the thread of the job.
ActLinked(t, r) ==
    /\ r.pc \in Loaded => r.ws = Row(t)
    /\ r.pc = "reply" => thread # Nothing /\ r.at = thread
    /\ r.pc = "reread" => thread # Nothing
Linked(t) ==
    /\ WorkspacesOf(Home) = {t} /\ t \in routed /\ (thread # Nothing => thread.team = t)
    /\ \A a \in Actor : ActLinked(t, act[a])
    /\ \A x \in shown : thread # Nothing /\ x[2] = thread.parent
KeepsLink == unlinked \/ \E t \in SlackTeam : Linked(t)

ThreadInv == RowsFit /\ ActorsFit /\ ThreadFits /\ ShownFits /\ StoredFits /\ KeepsLink

LEMMA ThreadStarts == ThreadInit => ThreadInv
<1> SUFFICES ASSUME ThreadInit PROVE ThreadInv
  OBVIOUS
<1>1. PICK t \in SlackTeam : org = [u \in SlackTeam |-> IF u = t THEN Home ELSE Nothing] /\ routed = {t}
  BY DEF ThreadInit
<1>2. RowsFit
  BY <1>1 DEF ThreadInit, RowsFit, Organization
<1>3. ActorsFit
  BY DEF ThreadInit, ActorsFit, ActFits, IdleActor, ActorPoints, OfMessage, Loaded
<1>4. ThreadFits /\ ShownFits /\ StoredFits
  BY DEF ThreadInit, ThreadFits, ShownFits, StoredFits
<1>5. WorkspacesOf(Home) = {t}
  BY <1>1, NothingAssumption DEF WorkspacesOf, Organization
<1>6. Linked(t)
  BY <1>1, <1>5 DEF ThreadInit, Linked, ActLinked, IdleActor, Loaded
<1> QED
  BY <1>2, <1>3, <1>4, <1>6 DEF ThreadInv, KeepsLink

-----------------------------------------------------------------------------
(* Steps of one actor *)

ActsAlone(a) == act' = [b \in Actor |-> act'[b]] /\ \A b \in Actor \ {a} : act'[b] = act[b]

LEMMA ActorStarts ==
  ASSUME ActorsFit, NEW a \in Actor, NEW point, NEW what, Start(a, point, what)
  PROVE  ActsAlone(a) /\ act'[a] = [IdleActor EXCEPT !.pc = point, !.about = what]
  BY DEF ActorsFit, ActsAlone, Start

LEMMA ActorGoes ==
  ASSUME ActorsFit, NEW a \in Actor, NEW point, NEW ws, NEW at, MoveTo(a, point, ws, at)
  PROVE  /\ ActsAlone(a)
         /\ act'[a] = [pc |-> point, about |-> act[a].about, ws |-> ws, at |-> at,
                       linked |-> act[a].linked]
<1>1. act[a] = [pc |-> act[a].pc, about |-> act[a].about, ws |-> act[a].ws, at |-> act[a].at,
                linked |-> act[a].linked]
  BY DEF ActorsFit, ActFits
<1>2. act'[a] = [act[a] EXCEPT !.pc = point, !.ws = ws, !.at = at]
  BY DEF ActorsFit, MoveTo
<1> QED
  BY <1>1, <1>2 DEF ActorsFit, ActsAlone, MoveTo

LEMMA ActorLeaves ==
  ASSUME ActorsFit, NEW a \in Actor, Rest(a)
  PROVE  ActsAlone(a) /\ act'[a] = IdleActor
  BY DEF ActorsFit, ActsAlone, Rest

LEMMA ActorsKeepFit ==
  ASSUME ActorsFit, NEW a \in Actor, ActsAlone(a), ActFits(act[a])',
         recorded \subseteq recorded', \A x \in Reply : typed[x] # Nothing => typed'[x] = typed[x]
  PROVE  ActorsFit'
<1>1. \A q : ActFits(q) => ActFits(q)'
  BY DEF ActFits
<1> QED
  BY <1>1 DEF ActorsFit, ActsAlone

LEMMA ActorsStayFit ==
  ASSUME ActorsFit, act' = act,
         recorded \subseteq recorded', \A x \in Reply : typed[x] # Nothing => typed'[x] = typed[x]
  PROVE  ActorsFit'
<1>1. \A q : ActFits(q) => ActFits(q)'
  BY DEF ActFits
<1> QED
  BY <1>1 DEF ActorsFit

\* A step that leaves workspaces and threads alone.
LEMMA LinkIsKept ==
  ASSUME KeepsLink, UNCHANGED workspaceVars, unlinked' = unlinked,
         NEW a \in Actor, \A b \in Actor \ {a} : act'[b] = act[b],
         \A t \in SlackTeam : Linked(t) => ActLinked(t, act'[a]),
         \A t \in SlackTeam : Linked(t) => \A x \in shown' \ shown : thread # Nothing /\ x[2] = thread.parent
  PROVE  KeepsLink'
<1>2. UNCHANGED <<org, age, routed, thread>>
  BY DEF workspaceVars
<1>3. ASSUME NEW t \in SlackTeam, Linked(t) PROVE Linked(t)'
  <2>1. ASSUME NEW q PROVE ActLinked(t, q)' <=> ActLinked(t, q)
    BY <1>2 DEF ActLinked, Row
  <2>2. WorkspacesOf(Home)' = WorkspacesOf(Home)
    BY <1>2 DEF WorkspacesOf
  <2>3. \A b \in Actor : ActLinked(t, act'[b])
    BY <1>3 DEF Linked
  <2>4. \A b \in Actor : ActLinked(t, act[b])'
    BY <1>2, <2>3 DEF ActLinked, Row
  <2>5. \A x \in shown' : thread' # Nothing /\ x[2] = thread'.parent
    BY <1>2, <1>3 DEF Linked
  <2> QED
    BY <1>2, <1>3, <2>2, <2>4, <2>5 DEF Linked
<1> QED
  BY <1>3 DEF KeepsLink

Deliveries == [Message -> {"none", "queued", "leased", "delivered", "failed"}]
IsStored(s) ==
    \/ s \in Message
    \/ s[1] \in Reply /\ s[2] = typed[s[1]] /\ s[2] \in recorded /\ s[2] # Nothing

\* A step of one actor that leaves workspaces, threads and what people typed alone.
LEMMA ActorKeepsInv ==
  ASSUME ThreadInv, NEW a \in Actor, ActsAlone(a), ActFits(act[a])',
         UNCHANGED <<org, age, routed, thread, typed, recorded, unlinked>>,
         parents' \in Seq(SlackTeam), delivery' \in Deliveries,
         \A s \in stored' \ stored : IsStored(s),
         \A x \in shown' \ shown :
            /\ x[1] \in Message /\ x[2] \in recorded
            /\ \A t \in SlackTeam : Linked(t) => thread # Nothing /\ x[2] = thread.parent,
         \A t \in SlackTeam : Linked(t) => ActLinked(t, act'[a])
  PROVE  ThreadInv'
<1>1. RowsFit'
  BY DEF ThreadInv, RowsFit, Deliveries
<1>2. ActorsFit'
  BY ActorsKeepFit DEF ThreadInv
<1>3. ThreadFits'
  BY DEF ThreadInv, ThreadFits
<1>4. ShownFits'
  BY DEF ThreadInv, ShownFits
<1>5. StoredFits'
  BY DEF ThreadInv, StoredFits, IsStored
<1>6. KeepsLink'
  BY LinkIsKept DEF ThreadInv, ActsAlone, workspaceVars
<1> QED
  BY <1>1, <1>2, <1>3, <1>4, <1>5, <1>6 DEF ThreadInv

\* What a worker writes at the end; an idle actor fits whatever has happened.
LEMMA ActorSettles ==
  ASSUME ThreadInv, NEW a \in Actor, act[a].about \in Message, NEW result, Settle(a, result)
  PROVE  /\ ActsAlone(a) /\ act'[a] = IdleActor
         /\ delivery' = delivery \/ delivery' = [delivery EXCEPT ![act[a].about] = result]
  BY ActorLeaves DEF ThreadInv, Settle, deliveryVars

LEMMA IdleFits == ActFits(IdleActor)' /\ ActFits(IdleActor) /\ \A t \in SlackTeam : ActLinked(t, IdleActor)
  BY DEF ActFits, ActLinked, IdleActor, ActorPoints, OfMessage, Loaded

-----------------------------------------------------------------------------
(* The messages *)

LEMMA AskPostKeepsInv ==
  ASSUME ThreadInv, NEW a \in Actor, NEW m \in Message, AskPost(a, m)
  PROVE  ThreadInv'
<1>1. ASSUME Start(a, "post", m)
      PROVE  ActsAlone(a) /\ ActFits(act[a])' /\ \A t \in SlackTeam : ActLinked(t, act'[a])
  <2>1. ActsAlone(a) /\ act'[a] = [IdleActor EXCEPT !.pc = "post", !.about = m]
    BY <1>1, ActorStarts DEF ThreadInv
  <2> QED
    BY <2>1 DEF ActFits, ActLinked, IdleActor, ActorPoints, OfMessage, Loaded
<1>2. ASSUME NEW l, act' = [act EXCEPT ![a] = [IdleActor EXCEPT !.pc = "post", !.about = m, !.linked = l]]
      PROVE  ActsAlone(a) /\ ActFits(act[a])' /\ \A t \in SlackTeam : ActLinked(t, act'[a])
  <2>1. ActsAlone(a) /\ act'[a] = [IdleActor EXCEPT !.pc = "post", !.about = m, !.linked = l]
    BY <1>2 DEF ThreadInv, ActorsFit, ActsAlone
  <2> QED
    BY <2>1 DEF ActFits, ActLinked, IdleActor, ActorPoints, OfMessage, Loaded
<1>3. ActsAlone(a) /\ ActFits(act[a])' /\ \A t \in SlackTeam : ActLinked(t, act'[a])
  BY <1>1, <1>2, Zenon DEF AskPost
<1>4. UNCHANGED <<org, age, routed, thread, typed, recorded, unlinked, parents, delivery,
                  stored, shown, refused>>
  BY DEF AskPost, workspaceVars, slackVars, deliveryVars, pastVars
<1> QED
  BY <1>3, <1>4, ActorKeepsInv DEF ThreadInv, RowsFit, Deliveries, Linked

LEMMA CommitPostKeepsInv ==
  ASSUME ThreadInv, NEW a \in Actor, CommitPost(a)
  PROVE  ThreadInv'
<1>1. ActsAlone(a) /\ act'[a] = IdleActor
  BY ActorLeaves DEF CommitPost, ThreadInv
<1>2. act[a].about \in Message
  BY DEF CommitPost, AtStep, ThreadInv, ActorsFit, ActFits, OfMessage
<1>3. UNCHANGED <<org, age, routed, thread, typed, recorded, unlinked, parents, shown, refused>>
  BY DEF CommitPost, workspaceVars, slackVars, pastVars
<1>4. stored' = stored \cup {act[a].about}
      /\ (delivery' = delivery \/ delivery' = [delivery EXCEPT ![act[a].about] = "queued"])
  BY DEF CommitPost
<1>5. delivery' \in Deliveries
  BY <1>2, <1>4 DEF ThreadInv, RowsFit, Deliveries
<1> QED
  BY <1>1, <1>2, <1>3, <1>4, <1>5, IdleFits, ActorKeepsInv DEF ThreadInv, RowsFit, IsStored,
       Linked

LEMMA ClaimKeepsInv ==
  ASSUME ThreadInv, NEW a \in Actor, NEW m \in Message, Claim(a, m)
  PROVE  ThreadInv'
<1>1. ActsAlone(a) /\ act'[a] = [IdleActor EXCEPT !.pc = "load", !.about = m]
  BY ActorStarts DEF Claim, ThreadInv
<1>2. ActFits(act[a])' /\ \A t \in SlackTeam : ActLinked(t, act'[a])
  BY <1>1 DEF ActFits, ActLinked, IdleActor, ActorPoints, OfMessage, Loaded
<1>3. UNCHANGED <<org, age, routed, thread, typed, recorded, unlinked, parents, stored, shown,
                  refused>>
  BY DEF Claim, workspaceVars, slackVars, pastVars
<1>4. delivery' \in Deliveries
  BY DEF Claim, ThreadInv, RowsFit, Deliveries
<1> QED
  BY <1>1, <1>2, <1>3, <1>4, ActorKeepsInv DEF ThreadInv, RowsFit, Linked

\* A worker that is at a step after its claim has a message.
LEMMA HasMessage ==
  ASSUME ThreadInv, NEW a \in Actor, act[a].pc \in OfMessage
  PROVE  act[a].about \in Message
  BY DEF ThreadInv, ActorsFit, ActFits

LEMMA LoadWorkspaceKeepsInv ==
  ASSUME ThreadInv, NEW a \in Actor, LoadWorkspace(a)
  PROVE  ThreadInv'
<1>1. act[a].about \in Message
  BY HasMessage DEF LoadWorkspace, AtStep, OfMessage
<1>2. UNCHANGED <<org, age, routed, thread, typed, recorded, unlinked, parents, stored, shown,
                  refused>>
  BY DEF LoadWorkspace, workspaceVars, slackVars, pastVars
<1>3. CASE WorkspacesOf(Home) = {} /\ Settle(a, "failed")
  <2>1. ActsAlone(a) /\ act'[a] = IdleActor /\ delivery' \in Deliveries
    <3>1. /\ ActsAlone(a) /\ act'[a] = IdleActor
          /\ delivery' = delivery \/ delivery' = [delivery EXCEPT ![act[a].about] = "failed"]
      BY <1>1, <1>3, ActorSettles
    <3> QED
      BY <1>1, <3>1 DEF ThreadInv, RowsFit, Deliveries
  <2> QED
    BY <1>2, <2>1, IdleFits, ActorKeepsInv DEF ThreadInv, RowsFit
<1>4. CASE \E t \in WorkspacesOf(Home) : MoveTo(a, "find", Row(t), Nothing) /\ UNCHANGED deliveryVars
  <2>1. PICK t \in WorkspacesOf(Home) : MoveTo(a, "find", Row(t), Nothing) /\ UNCHANGED deliveryVars
    BY <1>4
  <2>2. ActsAlone(a) /\ act'[a] = [pc |-> "find", about |-> act[a].about, ws |-> Row(t), at |-> Nothing,
                                   linked |-> act[a].linked]
    BY <2>1, ActorGoes DEF ThreadInv
  <2>3. t \in SlackTeam /\ Row(t) \in SlackTeam \X Nat
    BY DEF WorkspacesOf, Row, ThreadInv, RowsFit
  <2>4. ActFits(act[a])'
    BY <1>1, <2>2, <2>3 DEF ActFits, ActorPoints, OfMessage, Loaded
  <2>5. \A u \in SlackTeam : Linked(u) => ActLinked(u, act'[a])
    BY <2>2 DEF Linked, ActLinked
  <2>6. delivery' = delivery
    BY <2>1 DEF deliveryVars
  <2> QED
    BY <1>2, <2>2, <2>4, <2>5, <2>6, ActorKeepsInv DEF ThreadInv, RowsFit, Deliveries, Linked
<1> QED
  BY <1>3, <1>4 DEF LoadWorkspace

LEMMA FindThreadKeepsInv ==
  ASSUME ThreadInv, NEW a \in Actor, FindThread(a)
  PROVE  ThreadInv'
<1> DEFINE ws == act[a].ws
<1>1. act[a].about \in Message /\ ws \in SlackTeam \X Nat /\ act[a].pc \in Loaded
  BY DEF FindThread, AtStep, OfMessage, Loaded, ThreadInv, ActorsFit, ActFits
<1>2. UNCHANGED <<org, age, routed, thread, typed, recorded, unlinked, parents, stored, shown,
                  refused>>
  BY DEF FindThread, workspaceVars, slackVars, pastVars
<1>3. CASE thread # Nothing
  <2>1. MoveTo(a, "reply", ws, thread) /\ delivery' = delivery
    BY <1>3 DEF FindThread, deliveryVars
  <2>2. ActsAlone(a) /\ act'[a] = [pc |-> "reply", about |-> act[a].about, ws |-> ws, at |-> thread,
                                   linked |-> act[a].linked]
    BY <2>1, ActorGoes DEF ThreadInv
  <2>3. ActFits(act[a])'
    BY <1>1, <1>2, <1>3, <2>2 DEF ThreadInv, ThreadFits, ActFits, ActorPoints, OfMessage, Loaded
  <2>4. \A u \in SlackTeam : Linked(u) => ActLinked(u, act'[a])
    BY <1>1, <1>3, <2>2 DEF Linked, ActLinked
  <2> QED
    BY <1>2, <2>1, <2>2, <2>3, <2>4, ActorKeepsInv DEF ThreadInv, RowsFit, Deliveries, Linked
<1>4. CASE thread = Nothing /\ RowExists(ws) /\ ws[1] \in routed
  <2>1. MoveTo(a, "parent", ws, Nothing) /\ delivery' = delivery
    BY <1>4 DEF FindThread, deliveryVars
  <2>2. ActsAlone(a) /\ act'[a] = [pc |-> "parent", about |-> act[a].about, ws |-> ws, at |-> Nothing,
                                   linked |-> act[a].linked]
    BY <2>1, ActorGoes DEF ThreadInv
  <2>3. ActFits(act[a])'
    BY <1>1, <2>2 DEF ActFits, ActorPoints, OfMessage, Loaded
  <2>4. \A u \in SlackTeam : Linked(u) => ActLinked(u, act'[a])
    BY <1>1, <2>2 DEF Linked, ActLinked
  <2> QED
    BY <1>2, <2>1, <2>2, <2>3, <2>4, ActorKeepsInv DEF ThreadInv, RowsFit, Deliveries, Linked
<1>5. CASE thread = Nothing /\ ~(RowExists(ws) /\ ws[1] \in routed)
  <2>1. Settle(a, "failed")
    BY <1>5 DEF FindThread
  <2>2. ActsAlone(a) /\ act'[a] = IdleActor /\ delivery' \in Deliveries
    <3>1. /\ ActsAlone(a) /\ act'[a] = IdleActor
          /\ delivery' = delivery \/ delivery' = [delivery EXCEPT ![act[a].about] = "failed"]
      BY <1>1, <2>1, ActorSettles
    <3> QED
      BY <1>1, <3>1 DEF ThreadInv, RowsFit, Deliveries
  <2> QED
    BY <1>2, <2>2, IdleFits, ActorKeepsInv DEF ThreadInv, RowsFit
<1> QED
  BY <1>3, <1>4, <1>5

\* Slack refuses, for good or for now, or does not answer.
LEMMA SlackFailsKeepsInv ==
  ASSUME ThreadInv, NEW a \in Actor, act[a].about \in Message, NEW accepted, SlackFails(a, accepted),
         UNCHANGED <<org, age, routed, thread, typed, stored>>, parents' \in Seq(SlackTeam),
         \A x \in shown' \ shown :
            /\ x[1] \in Message /\ x[2] \in recorded
            /\ \A t \in SlackTeam : Linked(t) => thread # Nothing /\ x[2] = thread.parent
  PROVE  ThreadInv'
<1>1. UNCHANGED <<recorded, unlinked>>
  BY DEF SlackFails
<1>2. CASE Settle(a, "failed") /\ refused' = TRUE
  <2>1. /\ ActsAlone(a) /\ act'[a] = IdleActor
        /\ delivery' = delivery \/ delivery' = [delivery EXCEPT ![act[a].about] = "failed"]
    BY <1>2, ActorSettles
  <2>2. delivery' \in Deliveries
    BY <2>1 DEF ThreadInv, RowsFit, Deliveries
  <2> QED
    BY <1>1, <1>2, <2>1, <2>2, IdleFits, ActorKeepsInv
<1>3. CASE Settle(a, AfterRetryable(act[a].about)) /\ refused' = refused
  <2>1. /\ ActsAlone(a) /\ act'[a] = IdleActor
        /\ \/ delivery' = delivery
           \/ delivery' = [delivery EXCEPT ![act[a].about] = AfterRetryable(act[a].about)]
    BY <1>3, ActorSettles
  <2>2. delivery' \in Deliveries
    BY <2>1 DEF ThreadInv, RowsFit, Deliveries, AfterRetryable
  <2> QED
    BY <1>1, <1>3, <2>1, <2>2, IdleFits, ActorKeepsInv
<1> QED
  BY <1>2, <1>3, Zenon DEF SlackFails

LEMMA PostParentKeepsInv ==
  ASSUME ThreadInv, NEW a \in Actor, PostParent(a)
  PROVE  ThreadInv'
<1> DEFINE ws == act[a].ws
           at == [team |-> ws[1], ws |-> ws, org |-> Home, parent |-> Len(parents) + 1]
<1>1. act[a].about \in Message /\ ws \in SlackTeam \X Nat /\ act[a].pc \in Loaded
  BY DEF PostParent, AtStep, OfMessage, Loaded, ThreadInv, ActorsFit, ActFits
<1>2. UNCHANGED <<org, age, routed, thread, typed, stored, shown>>
  BY DEF PostParent, workspaceVars
<1>3. at \in Thread
  BY <1>1 DEF Thread, ThreadInv, RowsFit, Organization
<1>4. parents' \in Seq(SlackTeam)
  <2>1. parents' = Append(parents, ws[1]) \/ parents' = parents
    BY Zenon DEF PostParent
  <2>2. ws[1] \in SlackTeam /\ parents \in Seq(SlackTeam)
    BY <1>1 DEF ThreadInv, RowsFit
  <2> QED
    BY <2>1, <2>2
<1>5. CASE MoveTo(a, "record", ws, at) /\ UNCHANGED <<deliveryVars, pastVars, countVars>>
  <2>1. ActsAlone(a) /\ act'[a] = [pc |-> "record", about |-> act[a].about, ws |-> ws, at |-> at,
                                   linked |-> act[a].linked]
    BY <1>5, ActorGoes DEF ThreadInv
  <2>2. ActFits(act[a])'
    BY <1>1, <1>3, <2>1 DEF ActFits, ActorPoints, OfMessage, Loaded
  <2>3. \A u \in SlackTeam : Linked(u) => ActLinked(u, act'[a])
    BY <1>1, <2>1 DEF Linked, ActLinked
  <2>4. UNCHANGED <<delivery, recorded, unlinked, refused>>
    BY <1>5 DEF deliveryVars, pastVars
  <2> QED
    BY <1>2, <1>4, <2>1, <2>2, <2>3, <2>4, ActorKeepsInv DEF ThreadInv, RowsFit, Deliveries,
         Linked
<1>6. CASE \E accepted \in BOOLEAN : SlackFails(a, accepted)
  BY <1>1, <1>2, <1>4, <1>6, SlackFailsKeepsInv
<1> QED
  BY <1>5, <1>6, Zenon DEF PostParent

LEMMA RecordThreadKeepsInv ==
  ASSUME ThreadInv, NEW a \in Actor, RecordThread(a)
  PROVE  ThreadInv'
<1> DEFINE at == act[a].at
           ws == act[a].ws
<1>1. /\ act[a].about \in Message /\ ws \in SlackTeam \X Nat /\ act[a].pc \in Loaded
      /\ at \in Thread /\ at.ws = ws /\ at.team = ws[1]
  BY DEF RecordThread, AtStep, OfMessage, Loaded, ThreadInv, ActorsFit, ActFits
<1>2. UNCHANGED <<org, age, routed, typed, stored, shown, parents, delivery, unlinked, refused>>
  BY DEF RecordThread, slackVars, deliveryVars
<1>3. CASE thread = Nothing /\ RowExists(at.ws)
  <2>1. thread' = at /\ recorded' = recorded \cup {at.parent} /\ MoveTo(a, "reply", ws, at)
    BY <1>3 DEF RecordThread
  <2>2. ActsAlone(a) /\ act'[a] = [pc |-> "reply", about |-> act[a].about, ws |-> ws, at |-> at,
                                   linked |-> act[a].linked]
    BY <2>1, ActorGoes DEF ThreadInv
  <2>3. ActFits(act[a])'
    BY <1>1, <2>1, <2>2 DEF ActFits, ActorPoints, OfMessage, Loaded
  <2>4. ActorsFit'
    BY <1>2, <2>1, <2>2, <2>3, ActorsKeepFit DEF ThreadInv
  <2>5. RowsFit' /\ ThreadFits' /\ ShownFits' /\ StoredFits'
    BY <1>1, <1>2, <2>1 DEF ThreadInv, RowsFit, ThreadFits, ShownFits, StoredFits
  <2>6. at # Nothing
    BY <1>1, NothingAssumption
  <2>7. ASSUME NEW t \in SlackTeam, Linked(t) PROVE Linked(t)'
    <3>1. ws = Row(t) /\ at.team = t
      BY <1>1, <2>7 DEF Linked, ActLinked, Row
    <3>2. shown = {}
      BY <1>3, <2>7 DEF Linked
    <3>3. \A b \in Actor : ActLinked(t, act[b])'
      <4>1. ActLinked(t, act[a])'
        BY <1>2, <2>1, <2>2, <2>6, <3>1 DEF ActLinked, Row
      <4>2. ASSUME NEW b \in Actor \ {a} PROVE ActLinked(t, act[b])'
        BY <1>2, <1>3, <2>2, <2>7 DEF ActsAlone, Linked, ActLinked, Row
      <4> QED
        BY <4>1, <4>2
    <3>4. WorkspacesOf(Home)' = WorkspacesOf(Home)
      BY <1>2 DEF WorkspacesOf
    <3> QED
      BY <1>2, <2>1, <2>7, <3>1, <3>2, <3>3, <3>4 DEF Linked
  <2>8. KeepsLink'
    BY <1>2, <2>7 DEF ThreadInv, KeepsLink
  <2> QED
    BY <2>4, <2>5, <2>8 DEF ThreadInv
<1>4. CASE ~(thread = Nothing /\ RowExists(at.ws))
  <2>1. thread' = thread /\ recorded' = recorded /\ MoveTo(a, "reread", ws, at)
    BY <1>4 DEF RecordThread
  <2>2. ActsAlone(a) /\ act'[a] = [pc |-> "reread", about |-> act[a].about, ws |-> ws, at |-> at,
                                   linked |-> act[a].linked]
    BY <2>1, ActorGoes DEF ThreadInv
  <2>3. ActFits(act[a])'
    BY <1>1, <2>2 DEF ActFits, ActorPoints, OfMessage, Loaded
  <2>4. ASSUME NEW u \in SlackTeam, Linked(u) PROVE ActLinked(u, act'[a])
    <3>1. ws = Row(u) /\ at.ws = <<u, age[u]>> /\ org[u] = Home /\ Home # Nothing
      BY <1>1, <2>4, NothingAssumption DEF Linked, ActLinked, Row, WorkspacesOf, Organization
    <3>2. thread # Nothing
      BY <1>4, <3>1 DEF RowExists
    <3> QED
      BY <2>2, <3>1, <3>2 DEF ActLinked
  <2> QED
    BY <1>2, <2>1, <2>2, <2>3, <2>4, ActorKeepsInv DEF ThreadInv, RowsFit, Deliveries, Linked
<1> QED
  BY <1>3, <1>4

LEMMA RereadThreadKeepsInv ==
  ASSUME ThreadInv, NEW a \in Actor, RereadThread(a)
  PROVE  ThreadInv'
<1> DEFINE ws == act[a].ws
<1>1. act[a].about \in Message /\ ws \in SlackTeam \X Nat /\ act[a].pc \in Loaded
  BY DEF RereadThread, AtStep, OfMessage, Loaded, ThreadInv, ActorsFit, ActFits
<1>2. UNCHANGED <<org, age, routed, thread, typed, recorded, unlinked, parents, stored, shown,
                  refused>>
  BY DEF RereadThread, workspaceVars, slackVars, pastVars
<1>3. CASE thread # Nothing
  <2>1. MoveTo(a, "reply", ws, thread) /\ delivery' = delivery
    BY <1>3 DEF RereadThread, deliveryVars
  <2>2. ActsAlone(a) /\ act'[a] = [pc |-> "reply", about |-> act[a].about, ws |-> ws, at |-> thread,
                                   linked |-> act[a].linked]
    BY <2>1, ActorGoes DEF ThreadInv
  <2>3. ActFits(act[a])'
    BY <1>1, <1>2, <1>3, <2>2 DEF ThreadInv, ThreadFits, ActFits, ActorPoints, OfMessage, Loaded
  <2>4. \A u \in SlackTeam : Linked(u) => ActLinked(u, act'[a])
    BY <1>1, <1>3, <2>2 DEF Linked, ActLinked
  <2> QED
    BY <1>2, <2>1, <2>2, <2>3, <2>4, ActorKeepsInv DEF ThreadInv, RowsFit, Deliveries, Linked
<1>4. CASE thread = Nothing
  <2>1. /\ ActsAlone(a) /\ act'[a] = IdleActor
        /\ \/ delivery' = delivery
           \/ delivery' = [delivery EXCEPT ![act[a].about] = AfterRetryable(act[a].about)]
    BY <1>1, <1>4, ActorSettles DEF RereadThread
  <2>2. delivery' \in Deliveries
    BY <2>1 DEF ThreadInv, RowsFit, Deliveries, AfterRetryable
  <2> QED
    BY <1>2, <2>1, <2>2, IdleFits, ActorKeepsInv DEF ThreadInv, RowsFit, Linked
<1> QED
  BY <1>3, <1>4

LEMMA PostReplyKeepsInv ==
  ASSUME ThreadInv, NEW a \in Actor, PostReply(a)
  PROVE  ThreadInv'
<1> DEFINE at == act[a].at
           ws == act[a].ws
<1>1. /\ act[a].about \in Message /\ ws \in SlackTeam \X Nat /\ act[a].pc = "reply"
      /\ at \in Thread /\ at.parent \in recorded
  BY DEF PostReply, AtStep, OfMessage, Loaded, ThreadInv, ActorsFit, ActFits
<1>2. UNCHANGED <<org, age, routed, thread, typed, stored, parents>> /\ parents \in Seq(SlackTeam)
  BY DEF PostReply, workspaceVars, ThreadInv, RowsFit
<1>3. ASSUME NEW t \in SlackTeam, Linked(t)
      PROVE  thread # Nothing /\ at = thread /\ at.parent = thread.parent /\ ws[1] = at.team
  BY <1>1, <1>3 DEF Linked, ActLinked, Row, Loaded
<1>4. ASSUME NEW x \in shown' \ shown
      PROVE  /\ x[1] \in Message /\ x[2] \in recorded
             /\ \A t \in SlackTeam : Linked(t) => thread # Nothing /\ x[2] = thread.parent
  <2>1. x = <<act[a].about, at.parent>>
    BY <1>4 DEF PostReply
  <2> QED
    BY <1>1, <1>3, <2>1
<1>5. CASE ws[1] # at.team
  <2>1. Settle(a, "failed") /\ UNCHANGED <<recorded, unlinked, refused>>
    BY <1>5 DEF PostReply, pastVars
  <2>2. /\ ActsAlone(a) /\ act'[a] = IdleActor
        /\ delivery' = delivery \/ delivery' = [delivery EXCEPT ![act[a].about] = "failed"]
    BY <1>1, <2>1, ActorSettles
  <2>3. delivery' \in Deliveries
    BY <2>2 DEF ThreadInv, RowsFit, Deliveries
  <2> QED
    BY <1>2, <1>4, <2>1, <2>2, <2>3, IdleFits, ActorKeepsInv
<1>6. CASE Settle(a, "delivered") /\ UNCHANGED <<pastVars, countVars>>
  <2>1. /\ ActsAlone(a) /\ act'[a] = IdleActor
        /\ delivery' = delivery \/ delivery' = [delivery EXCEPT ![act[a].about] = "delivered"]
    BY <1>1, <1>6, ActorSettles
  <2>2. delivery' \in Deliveries
    BY <2>1 DEF ThreadInv, RowsFit, Deliveries
  <2>3. UNCHANGED <<recorded, unlinked, refused>>
    BY <1>6 DEF pastVars
  <2> QED
    BY <1>2, <1>4, <2>1, <2>2, <2>3, IdleFits, ActorKeepsInv DEF Linked
<1>7. CASE \E accepted \in BOOLEAN : SlackFails(a, accepted)
  BY <1>1, <1>2, <1>4, <1>7, SlackFailsKeepsInv
<1> QED
  BY <1>5, <1>6, <1>7, Zenon DEF PostReply

\* Only delivery and lease of a message change.
LEMMA LeaseOverrunKeepsInv ==
  ASSUME ThreadInv, NEW m \in Message, LeaseOverrun(m)
  PROVE  ThreadInv'
<1>1. UNCHANGED <<org, age, routed, thread, typed, recorded, unlinked, parents, stored, shown,
                  refused, act>>
  BY DEF LeaseOverrun, workspaceVars, slackVars, pastVars
<1>2. delivery' \in Deliveries
  BY DEF LeaseOverrun, ThreadInv, RowsFit, Deliveries
<1>3. RowsFit' /\ ThreadFits' /\ ShownFits' /\ StoredFits'
  BY <1>1, <1>2 DEF ThreadInv, RowsFit, ThreadFits, ShownFits, StoredFits, Deliveries
<1>4. ActorsFit'
  BY <1>1, ActorsStayFit DEF ThreadInv
<1>5. ASSUME NEW t \in SlackTeam, Linked(t) PROVE Linked(t)'
  <2>1. \A a \in Actor : ActLinked(t, act[a])'
    BY <1>1, <1>5 DEF Linked, ActLinked, Row
  <2> QED
    BY <1>1, <1>2, <1>5, <2>1 DEF Linked, WorkspacesOf
<1> QED
  BY <1>1, <1>3, <1>4, <1>5 DEF ThreadInv, KeepsLink

LEMMA CrashKeepsInv ==
  ASSUME ThreadInv, NEW a \in Actor, Crash(a)
  PROVE  ThreadInv'
<1>1. UNCHANGED <<org, age, routed, thread, typed, recorded, unlinked, parents, stored, shown,
                  refused>>
  BY DEF Crash, workspaceVars, slackVars, pastVars
<1>2. CASE act[a].about \in Message /\ Settle(a, "queued")
  <2>1. /\ ActsAlone(a) /\ act'[a] = IdleActor
        /\ delivery' = delivery \/ delivery' = [delivery EXCEPT ![act[a].about] = "queued"]
    BY <1>2, ActorSettles
  <2>2. delivery' \in Deliveries
    BY <1>2, <2>1 DEF ThreadInv, RowsFit, Deliveries
  <2> QED
    BY <1>1, <2>1, <2>2, IdleFits, ActorKeepsInv DEF ThreadInv, RowsFit, Linked
<1>3. CASE Rest(a) /\ UNCHANGED deliveryVars
  <2>1. ActsAlone(a) /\ act'[a] = IdleActor /\ delivery' = delivery
    BY <1>3, ActorLeaves DEF ThreadInv, deliveryVars
  <2> QED
    BY <1>1, <2>1, IdleFits, ActorKeepsInv DEF ThreadInv, RowsFit, Deliveries, Linked
<1> QED
  BY <1>2, <1>3, Zenon DEF Crash

-----------------------------------------------------------------------------
(* The replies *)

LEMMA TypeKeepsInv ==
  ASSUME ThreadInv, NEW r \in Reply, Type(r)
  PROVE  ThreadInv'
<1>1. PICK p \in 1..Len(parents) : typed' = [typed EXCEPT ![r] = p]
  BY DEF Type
<1>2. UNCHANGED <<org, age, routed, thread, recorded, unlinked, parents, stored, delivery,
                  shown, refused, act>>
  BY DEF Type, workspaceVars, pastVars, deliveryVars
<1>3. typed[r] = Nothing /\ p \in Nat
  BY DEF Type, ThreadInv, RowsFit
<1>4. \A x \in Reply : typed[x] # Nothing => typed'[x] = typed[x]
  BY <1>1, <1>3 DEF ThreadInv, RowsFit
<1>5. ActorsFit'
  BY <1>2, <1>4, ActorsStayFit DEF ThreadInv
<1>6. RowsFit'
  BY <1>1, <1>2, <1>3 DEF ThreadInv, RowsFit
<1>7. ThreadFits' /\ ShownFits' /\ StoredFits'
  BY <1>2, <1>4 DEF ThreadInv, ThreadFits, ShownFits, StoredFits
<1>8. ASSUME NEW t \in SlackTeam, Linked(t) PROVE Linked(t)'
  <2>1. \A a \in Actor : ActLinked(t, act[a])'
    BY <1>2, <1>8 DEF Linked, ActLinked, Row
  <2> QED
    BY <1>2, <1>8, <2>1 DEF Linked, WorkspacesOf
<1> QED
  BY <1>2, <1>5, <1>6, <1>7, <1>8 DEF ThreadInv, KeepsLink

LEMMA ReceiveKeepsInv ==
  ASSUME ThreadInv, NEW a \in Actor, NEW e \in Events, Receive(a, e)
  PROVE  ThreadInv'
<1>1. UNCHANGED <<org, age, routed, thread, typed, recorded, unlinked, parents, stored,
                  delivery, shown, refused>>
  BY DEF Receive, workspaceVars, slackVars, pastVars, deliveryVars
<1>2. CASE UNCHANGED act
  <2>1. ActsAlone(a)
    BY <1>2 DEF ThreadInv, ActorsFit, ActsAlone
  <2>2. ActFits(act[a])'
    BY <1>1, <1>2 DEF ThreadInv, ActorsFit, ActFits
  <2> QED
    BY <1>1, <1>2, <2>1, <2>2, ActorKeepsInv DEF ThreadInv, RowsFit, Deliveries, Linked
<1>3. ASSUME IsHuman(e), NEW o,
             act' = [act EXCEPT ![a] = [IdleActor EXCEPT !.pc = "match", !.about = e.about, !.ws = o, !.at = e.parent]]
      PROVE  ThreadInv'
  <2>1. e.about \in Reply /\ typed[e.about] = e.parent /\ e.parent # Nothing
    <3>1. CASE \E x \in shown : e = [about |-> x[1], parent |-> x[2]]
      BY <1>3, <3>1, ReplyAssumption DEF IsHuman, ThreadInv, ShownFits
    <3>2. CASE \E r \in Reply \ acked : typed[r] # Nothing /\ e = [about |-> r, parent |-> typed[r]]
      BY <3>2
    <3> QED
      BY <3>1, <3>2 DEF Events
  <2>2. ActsAlone(a) /\ act'[a] = [IdleActor EXCEPT !.pc = "match", !.about = e.about, !.ws = o, !.at = e.parent]
    BY <1>3 DEF ThreadInv, ActorsFit, ActsAlone
  <2>3. ActFits(act[a])' /\ \A t \in SlackTeam : ActLinked(t, act'[a])
    BY <1>1, <2>1, <2>2 DEF ActFits, ActLinked, IdleActor, ActorPoints, OfMessage, Loaded
  <2> QED
    BY <1>1, <2>2, <2>3, ActorKeepsInv DEF ThreadInv, RowsFit, Deliveries, Linked
<1> QED
  BY <1>2, <1>3 DEF Receive

LEMMA MatchThreadKeepsInv ==
  ASSUME ThreadInv, NEW a \in Actor, MatchThread(a)
  PROVE  ThreadInv'
<1>1. UNCHANGED <<org, age, routed, thread, typed, recorded, unlinked, parents, stored,
                  delivery, shown, refused>>
  BY DEF MatchThread, workspaceVars, slackVars, pastVars, deliveryVars
<1>2. CASE thread # Nothing /\ thread.parent = act[a].at /\ MoveTo(a, "store", act[a].ws, act[a].at)
  <2>1. ActsAlone(a) /\ act'[a] = [pc |-> "store", about |-> act[a].about, ws |-> act[a].ws,
                                   at |-> act[a].at, linked |-> act[a].linked]
    BY <1>2, ActorGoes DEF ThreadInv
  <2>2. act[a].about \in Reply /\ typed[act[a].about] = act[a].at /\ act[a].at # Nothing /\ act[a].at \in recorded
    BY <1>2 DEF MatchThread, AtStep, ThreadInv, ActorsFit, ActFits, ThreadFits
  <2>3. ActFits(act[a])' /\ \A t \in SlackTeam : ActLinked(t, act'[a])
    BY <1>1, <2>1, <2>2 DEF ActFits, ActLinked, ActorPoints, OfMessage, Loaded
  <2> QED
    BY <1>1, <2>1, <2>3, ActorKeepsInv DEF ThreadInv, RowsFit, Deliveries, Linked
<1>3. CASE Rest(a)
  <2>1. ActsAlone(a) /\ act'[a] = IdleActor
    BY <1>3, ActorLeaves DEF ThreadInv
  <2> QED
    BY <1>1, <2>1, IdleFits, ActorKeepsInv DEF ThreadInv, RowsFit, Deliveries, Linked
<1> QED
  BY <1>2, <1>3 DEF MatchThread

LEMMA StoreReplyKeepsInv ==
  ASSUME ThreadInv, NEW a \in Actor, StoreReply(a)
  PROVE  ThreadInv'
<1>1. UNCHANGED <<org, age, routed, thread, typed, recorded, unlinked, parents, delivery,
                  shown, refused>>
  BY DEF StoreReply, workspaceVars, slackVars, pastVars, deliveryVars
<1>2. ActsAlone(a) /\ act'[a] = IdleActor
  BY ActorLeaves DEF StoreReply, ThreadInv
<1>3. act[a].about \in Reply /\ typed[act[a].about] = act[a].at /\ act[a].at # Nothing /\ act[a].at \in recorded
  BY DEF StoreReply, AtStep, ThreadInv, ActorsFit, ActFits
<1>4. \A s \in stored' \ stored : IsStored(s)
  BY <1>3 DEF StoreReply, IsStored
<1> QED
  BY <1>1, <1>2, <1>4, IdleFits, ActorKeepsInv DEF ThreadInv, RowsFit, Deliveries, Linked

-----------------------------------------------------------------------------
(* The offices *)

\* What an office does leaves the actors and what they have written alone.
LEMMA OfficeKeepsInv ==
  ASSUME ThreadInv, UNCHANGED <<act, stored, delivery, parents, shown, typed, recorded, refused>>,
         org' \in [SlackTeam -> Organization \cup {Nothing}], age' \in [SlackTeam -> Nat], routed' \subseteq SlackTeam,
         thread' = thread \/ thread' = Nothing, unlinked => unlinked',
         ~unlinked' => \A t \in SlackTeam : Linked(t) =>
            /\ WorkspacesOf(Home)' = {t} /\ t \in routed' /\ age'[t] = age[t] /\ thread' = thread
  PROVE  ThreadInv'
<1>1. RowsFit' /\ ThreadFits' /\ ShownFits' /\ StoredFits'
  BY DEF ThreadInv, RowsFit, ThreadFits, ShownFits, StoredFits
<1>2. ActorsFit'
  BY ActorsStayFit DEF ThreadInv
<1>3. ASSUME NEW t \in SlackTeam, Linked(t), ~unlinked' PROVE Linked(t)'
  <2>1. WorkspacesOf(Home)' = {t} /\ t \in routed' /\ age'[t] = age[t] /\ thread' = thread
    BY <1>3
  <2>2. \A a \in Actor : ActLinked(t, act[a])'
    BY <1>3, <2>1 DEF Linked, ActLinked, Row
  <2> QED
    BY <1>3, <2>1, <2>2 DEF Linked
<1>4. KeepsLink'
  BY <1>3, Zenon DEF ThreadInv, KeepsLink
<1> QED
  BY <1>1, <1>2, <1>4 DEF ThreadInv

LEMMA ConnectKeepsInv ==
  ASSUME ThreadInv, NEW o \in Organization, NEW t \in SlackTeam, ConnectTeam(o, t)
  PROVE  ThreadInv'
<1>1. UNCHANGED <<act, stored, delivery, parents, shown, typed, recorded, refused, age,
                  routed, thread>>
  BY DEF ConnectTeam, Upsert, slackVars, deliveryVars
<1>2. org' = [org EXCEPT ![t] = o] /\ org' \in [SlackTeam -> Organization \cup {Nothing}]
  BY DEF ConnectTeam, Upsert, ThreadInv, RowsFit
<1>3. unlinked => unlinked'
  BY Zenon DEF ConnectTeam, Upsert
<1>4. ~unlinked' => (Home \in {o, org[t]} => WorkspacesOf(Home) = {t}) /\ (o # Home => org[t] # Home)
  BY Zenon DEF ConnectTeam, Upsert
<1>5. ASSUME ~unlinked', NEW u \in SlackTeam, Linked(u)
      PROVE  WorkspacesOf(Home)' = {u}
  <2>1. WorkspacesOf(Home) = {u}
    BY <1>5 DEF Linked
  <2>2. WorkspacesOf(Home)' = WorkspacesOf(Home)
    <3>1. CASE Home \in {o, org[t]}
      <4>1. o = Home /\ org[t] = Home
        BY <1>4, <1>5, <3>1 DEF WorkspacesOf
      <4> QED
        BY <1>2, <4>1 DEF WorkspacesOf, ThreadInv, RowsFit
    <3>2. CASE Home \notin {o, org[t]}
      BY <1>2, <3>2 DEF WorkspacesOf, ThreadInv, RowsFit
    <3> QED
      BY <3>1, <3>2
  <2> QED
    BY <2>1, <2>2
<1> QED
  BY <1>1, <1>2, <1>3, <1>5, OfficeKeepsInv DEF ThreadInv, RowsFit, Linked

LEMMA DisconnectKeepsInv ==
  ASSUME ThreadInv, NEW o \in Organization, Disconnect(o)
  PROVE  ThreadInv'
<1>1. UNCHANGED <<act, stored, delivery, parents, shown, typed, recorded, refused>>
  BY DEF Disconnect, slackVars, deliveryVars
<1>2. /\ org' = [t \in SlackTeam |-> IF org[t] = o THEN Nothing ELSE org[t]]
      /\ age' = [t \in SlackTeam |-> IF org[t] = o THEN age[t] + 1 ELSE age[t]]
      /\ routed' = routed \ WorkspacesOf(o)
      /\ thread' = IF thread # Nothing /\ thread.team \in WorkspacesOf(o) THEN Nothing ELSE thread
  BY DEF Disconnect
<1>3. org' \in [SlackTeam -> Organization \cup {Nothing}] /\ age' \in [SlackTeam -> Nat] /\ routed' \subseteq SlackTeam
  BY <1>2 DEF ThreadInv, RowsFit
<1>4. (unlinked => unlinked') /\ (~unlinked' => o # Home)
  BY Zenon DEF Disconnect
<1>5. ASSUME ~unlinked', NEW t \in SlackTeam, Linked(t)
      PROVE  WorkspacesOf(Home)' = {t} /\ t \in routed' /\ age'[t] = age[t] /\ thread' = thread
  <2>1. o # Home /\ org[t] = Home /\ Home # Nothing
    BY <1>4, <1>5, NothingAssumption DEF Linked, WorkspacesOf, Organization
  <2>2. t \notin WorkspacesOf(o)
    BY <2>1 DEF WorkspacesOf
  <2>3. WorkspacesOf(Home)' = WorkspacesOf(Home)
    BY <1>2, <2>1 DEF WorkspacesOf
  <2> QED
    BY <1>2, <1>5, <2>1, <2>2, <2>3 DEF Linked
<1> QED
  BY <1>1, <1>2, <1>3, <1>4, <1>5, OfficeKeepsInv

LEMMA RouteKeepsInv ==
  ASSUME ThreadInv, NEW o \in Organization, NEW t \in SlackTeam, SetRoute(o, t) \/ ClearRoute(o, t)
  PROVE  ThreadInv'
<1>1. UNCHANGED <<act, stored, delivery, parents, shown, typed, recorded, refused, org, age,
                  thread>>
  BY DEF SetRoute, ClearRoute, slackVars, deliveryVars, pastVars
<1>2. (unlinked => unlinked') /\ routed' \subseteq SlackTeam
  <2>1. unlinked => unlinked'
    BY Zenon DEF SetRoute, ClearRoute, pastVars
  <2> QED
    BY <2>1 DEF SetRoute, ClearRoute, ThreadInv, RowsFit
<1>3. ASSUME ~unlinked', NEW u \in SlackTeam, Linked(u) PROVE u \in routed'
  <2>1. CASE SetRoute(o, t)
    BY <1>3, <2>1 DEF SetRoute, Linked
  <2>2. CASE ClearRoute(o, t)
    <3>1. o # Home
      BY <1>3, <2>2, Zenon DEF ClearRoute
    <3>2. org[t] = o /\ org[u] = Home /\ routed' = routed \ {t}
      BY <1>3, <2>2 DEF ClearRoute, WorkspacesOf, Linked
    <3> QED
      BY <1>3, <3>1, <3>2 DEF Linked
  <2> QED
    BY <2>1, <2>2
<1>4. WorkspacesOf(Home)' = WorkspacesOf(Home)
  BY <1>1 DEF WorkspacesOf
<1> QED
  BY <1>1, <1>2, <1>3, <1>4, OfficeKeepsInv DEF ThreadInv, RowsFit, Linked

\* Nothing of this changes.
LEMMA OthersKeepInv ==
  ASSUME ThreadInv, UNCHANGED <<workspaceVars, stored, deliveryVars, slackVars, act, pastVars>>
  PROVE  ThreadInv'
<1>1. UNCHANGED <<act, stored, delivery, parents, shown, typed, recorded, refused, org, age,
                  thread, routed, unlinked>>
  BY DEF workspaceVars, deliveryVars, slackVars, pastVars
<1>2. WorkspacesOf(Home)' = WorkspacesOf(Home)
  BY <1>1 DEF WorkspacesOf
<1> QED
  BY <1>1, <1>2, OfficeKeepsInv DEF ThreadInv, RowsFit, Linked

LEMMA ThreadStepKeepsInv == ThreadInv /\ [ThreadNext]_threadVars => ThreadInv'
<1> SUFFICES ASSUME ThreadInv, [ThreadNext]_threadVars
             PROVE  ThreadInv'
  OBVIOUS
<1>1. ASSUME NEW a \in Actor, NEW m \in Message, AskPost(a, m) PROVE ThreadInv'
  BY <1>1, AskPostKeepsInv
<1>2. ASSUME NEW a \in Actor, CommitPost(a) PROVE ThreadInv'
  BY <1>2, CommitPostKeepsInv
<1>3. ASSUME NEW a \in Actor, Deliver(a) PROVE ThreadInv'
  BY <1>3, ClaimKeepsInv, LoadWorkspaceKeepsInv, FindThreadKeepsInv, PostParentKeepsInv,
     RecordThreadKeepsInv, RereadThreadKeepsInv, PostReplyKeepsInv DEF Deliver
<1>4. ASSUME NEW a \in Actor, Bridge(a) PROVE ThreadInv'
  BY <1>4, ReceiveKeepsInv, MatchThreadKeepsInv, StoreReplyKeepsInv DEF Bridge
<1>5. ASSUME NEW a \in Actor, Crash(a) PROVE ThreadInv'
  BY <1>5, CrashKeepsInv
<1>6. ASSUME NEW m \in Message, LeaseOverrun(m) PROVE ThreadInv'
  BY <1>6, LeaseOverrunKeepsInv
<1>7. ASSUME NEW r \in Reply, Type(r) PROVE ThreadInv'
  BY <1>7, TypeKeepsInv
<1>8. CASE Office
  <2>1. ASSUME NEW o \in Organization, Disconnect(o) PROVE ThreadInv'
    BY <2>1, DisconnectKeepsInv
  <2>2. ASSUME NEW o \in Organization, NEW t \in SlackTeam, ConnectTeam(o, t) PROVE ThreadInv'
    BY <2>2, ConnectKeepsInv
  <2>3. ASSUME NEW o \in Organization, NEW t \in SlackTeam, SetRoute(o, t) \/ ClearRoute(o, t) PROVE ThreadInv'
    BY <2>3, RouteKeepsInv
  <2>4. ASSUME AskConsent PROVE ThreadInv'
    <3>1. UNCHANGED <<workspaceVars, stored, deliveryVars, slackVars, act, pastVars>>
      BY <2>4, Zenon DEF AskConsent
    <3> QED
      BY <3>1, OthersKeepInv
  <2>5. ASSUME NEW t \in SlackTeam, Callback(t) PROVE ThreadInv'
    <3>1. UNCHANGED <<workspaceVars, pastVars>>
      BY <2>5 DEF Callback, CallbackOrganization
    <3>2. UNCHANGED <<stored, deliveryVars, slackVars, act>>
      BY <2>5, Zenon DEF Callback
    <3> QED
      BY <3>1, <3>2, OthersKeepInv
  <2> QED
    BY <1>8, <2>1, <2>2, <2>3, <2>4, <2>5, Zenon DEF Office
<1>9. CASE UNCHANGED threadVars
  <2>1. UNCHANGED <<workspaceVars, stored, deliveryVars, slackVars, act, pastVars>>
    BY <1>9, Zenon DEF threadVars
  <2> QED
    BY <2>1, OthersKeepInv
<1> QED
  BY <1>1, <1>2, <1>3, <1>4, <1>5, <1>6, <1>7, <1>8, <1>9, Zenon DEF ThreadNext

-----------------------------------------------------------------------------
(* The deliveries: an attempt after the first needs a fault, as long as the office keeps *)
(* its workspace.                                                                        *)

\* A lease is of a message that is being delivered, an attempt of one that was queued.
TriesFit ==
    /\ lease \in [Message -> Actor \cup {Nothing}]
    /\ tries \in [Message -> Nat] /\ threadFaults \in Nat
    /\ \A m \in Message :
          /\ lease[m] \in Actor => delivery[m] = "leased"
          /\ delivery[m] = "none" => tries[m] = 0
          /\ m \notin stored => delivery[m] = "none"

Bounded(m) ==
    /\ delivery[m] = "queued" => tries[m] <= threadFaults
    /\ delivery[m] = "leased" => tries[m] <= threadFaults + 1
    /\ delivery[m] = "failed" => refused \/ threadFaults >= ThreadAttempts
TriesBounded == unlinked \/ \A m \in Message : Bounded(m)

DeliveryInv == TriesFit /\ TriesBounded

LEMMA DeliveriesStart == ThreadInit => DeliveryInv
  BY WorkerAssumption DEF ThreadInit, DeliveryInv, TriesFit, TriesBounded, Bounded

\* A step that leaves the deliveries alone.
LEMMA DeliveriesStay ==
  ASSUME DeliveryInv, UNCHANGED <<delivery, lease, tries>>, stored \subseteq stored',
         threadFaults' \in {threadFaults, threadFaults + 1}, refused => refused',
         unlinked => unlinked'
  PROVE  DeliveryInv'
<1>1. TriesFit'
  BY DEF DeliveryInv, TriesFit
<1>2. ASSUME NEW m \in Message, Bounded(m) PROVE Bounded(m)'
  BY <1>2, WorkerAssumption DEF Bounded, DeliveryInv, TriesFit
<1>3. TriesBounded'
  BY <1>2, Zenon DEF DeliveryInv, TriesBounded
<1> QED
  BY <1>1, <1>3 DEF DeliveryInv

\* A step that changes what is known of one message.
LEMMA OthersStayBounded ==
  ASSUME DeliveryInv, NEW m \in Message, Bounded(m)' \/ unlinked',
         threadFaults' \in {threadFaults, threadFaults + 1}, refused => refused',
         unlinked => unlinked',
         \A n \in Message \ {m} : delivery'[n] = delivery[n] /\ tries'[n] = tries[n]
  PROVE  TriesBounded'
<1>1. ASSUME NEW n \in Message \ {m}, Bounded(n) PROVE Bounded(n)'
  BY <1>1, WorkerAssumption DEF Bounded, DeliveryInv, TriesFit
<1> QED
  BY <1>1, Zenon DEF DeliveryInv, TriesBounded

\* What a worker settles on is queued again after a fault, or given up for a cause.
LEMMA SettlingKeepsDeliveries ==
  ASSUME ThreadInv, DeliveryInv, NEW a \in Actor, act[a].about \in Message,
         NEW result \in {"queued", "delivered", "failed"}, Settle(a, result),
         stored' = stored, threadFaults' \in {threadFaults, threadFaults + 1},
         refused => refused', unlinked => unlinked',
         lease[act[a].about] = a => \/ unlinked
                                    \/ result = "delivered"
                                    \/ result = "queued" /\ threadFaults' = threadFaults + 1
                                    \/ result = "failed" /\ refused'
                                    \/ result = "failed" /\ threadFaults' >= ThreadAttempts
  PROVE  DeliveryInv'
<1>0. PICK m \in Message : m = act[a].about
  OBVIOUS
<1>1. CASE lease[m] # a
  <2>1. UNCHANGED <<delivery, lease, tries>>
    BY <1>0, <1>1 DEF Settle
  <2> QED
    BY <2>1, DeliveriesStay
<1>2. CASE lease[m] = a
  <2>1. /\ delivery' = [delivery EXCEPT ![m] = result]
        /\ lease' = [lease EXCEPT ![m] = Nothing] /\ tries' = tries
    BY <1>0, <1>2 DEF Settle
  <2>2. delivery \in Deliveries /\ delivery[m] = "leased"
    BY <1>2 DEF ThreadInv, RowsFit, Deliveries, DeliveryInv, TriesFit
  <2>3. TriesFit'
    BY <2>1, <2>2, WorkerAssumption DEF DeliveryInv, TriesFit, Deliveries
  <2>4. ASSUME Bounded(m) PROVE Bounded(m)' \/ unlinked
    <3>1. tries[m] <= threadFaults + 1 /\ tries'[m] = tries[m] /\ delivery'[m] = result
      BY <2>1, <2>2, <2>4 DEF Bounded, Deliveries
    <3> QED
      BY <1>0, <1>2, <3>1 DEF Bounded
  <2>5. Bounded(m)' \/ unlinked'
    BY <2>4, Zenon DEF DeliveryInv, TriesBounded
  <2>6. \A n \in Message \ {m} : delivery'[n] = delivery[n] /\ tries'[n] = tries[n]
    BY <2>1, <2>2 DEF Deliveries
  <2> QED
    BY <2>3, <2>5, <2>6, OthersStayBounded DEF DeliveryInv
<1> QED
  BY <1>1, <1>2

\* A last attempt that fails was made after as many faults, this one included.
LEMMA LastAttempt ==
  ASSUME DeliveryInv, NEW m \in Message, lease[m] \in Actor, ~unlinked,
         AfterRetryable(m) # "queued"
  PROVE  threadFaults + 1 >= ThreadAttempts
<1>1. Bounded(m)
  BY Zenon DEF DeliveryInv, TriesBounded
<1> QED
  BY <1>1, WorkerAssumption DEF DeliveryInv, TriesFit, Bounded, AfterRetryable

\* Where a worker gives up without a fault, the office has changed its workspace.
LEMMA StuckOnlyIfUnlinked ==
  ASSUME ThreadInv, NEW a \in Actor,
         \/ AtStep(a, "load") /\ WorkspacesOf(Home) = {}
         \/ /\ AtStep(a, "find") /\ thread = Nothing
            /\ ~(RowExists(act[a].ws) /\ act[a].ws[1] \in routed)
         \/ AtStep(a, "reread") /\ thread = Nothing
         \/ AtStep(a, "reply") /\ act[a].ws[1] # act[a].at.team
  PROVE  unlinked
<1>1. ASSUME NEW t \in SlackTeam, Linked(t) PROVE FALSE
  <2>1. WorkspacesOf(Home) = {t} /\ t \in routed /\ org[t] = Home /\ Home # Nothing
    BY <1>1, NothingAssumption DEF Linked, WorkspacesOf, Organization
  <2>2. act[a].pc \in Loaded => act[a].ws = <<t, age[t]>>
    BY <1>1 DEF Linked, ActLinked, Row
  <2>3. act[a].pc \in {"reread", "reply"} => thread # Nothing
    BY <1>1 DEF Linked, ActLinked
  <2>4. act[a].pc = "reply" => act[a].at.team = t
    BY <1>1 DEF Linked, ActLinked
  <2> QED
    BY <2>1, <2>2, <2>3, <2>4 DEF AtStep, Loaded, RowExists
<1> QED
  BY <1>1, Zenon DEF ThreadInv, KeepsLink

LEMMA SlackFailsKeepsDeliveries ==
  ASSUME ThreadInv, DeliveryInv, NEW a \in Actor, act[a].about \in Message, NEW accepted,
         SlackFails(a, accepted), stored' = stored
  PROVE  DeliveryInv'
<1>1. threadFaults' = threadFaults + 1 /\ unlinked' = unlinked
  BY DEF SlackFails, ThreadFault
<1>2. CASE Settle(a, "failed") /\ refused' = TRUE
  BY <1>1, <1>2, SettlingKeepsDeliveries
<1>3. CASE Settle(a, AfterRetryable(act[a].about)) /\ refused' = refused
  <2>1. AfterRetryable(act[a].about) \in {"queued", "failed"}
    BY DEF AfterRetryable
  <2>2. refused => refused'
    BY <1>3, Zenon
  <2> QED
    BY <1>1, <1>3, <2>1, <2>2, LastAttempt, SettlingKeepsDeliveries
<1> QED
  BY <1>2, <1>3, Zenon DEF SlackFails

\* The steps of a worker.
LEMMA DeliverKeepsDeliveries ==
  ASSUME ThreadInv, DeliveryInv, NEW a \in Actor, Deliver(a)
  PROVE  DeliveryInv'
<1>1. ASSUME NEW m \in Message, Claim(a, m) PROVE DeliveryInv'
  <2>1. /\ delivery[m] = "queued" /\ delivery' = [delivery EXCEPT ![m] = "leased"]
        /\ lease' = [lease EXCEPT ![m] = a] /\ tries' = [tries EXCEPT ![m] = @ + 1]
        /\ UNCHANGED <<stored, refused, unlinked, threadFaults>>
    BY <1>1 DEF Claim, pastVars, countVars
  <2>2. delivery \in Deliveries
    BY DEF ThreadInv, RowsFit, Deliveries
  <2>3. TriesFit'
    BY <2>1, <2>2 DEF DeliveryInv, TriesFit, Deliveries
  <2>4. Bounded(m) => Bounded(m)'
    BY <2>1, <2>2 DEF Bounded, Deliveries, DeliveryInv, TriesFit
  <2>5. Bounded(m)' \/ unlinked'
    BY <2>1, <2>4, Zenon DEF DeliveryInv, TriesBounded
  <2>6. \A n \in Message \ {m} : delivery'[n] = delivery[n] /\ tries'[n] = tries[n]
    BY <2>1, <2>2 DEF Deliveries, DeliveryInv, TriesFit
  <2>7. (refused => refused') /\ (unlinked => unlinked')
    BY <2>1, Zenon
  <2> QED
    BY <2>1, <2>3, <2>5, <2>6, <2>7, OthersStayBounded DEF DeliveryInv
<1>2. CASE LoadWorkspace(a)
  <2>1. /\ act[a].about \in Message
        /\ UNCHANGED <<stored, refused, unlinked, threadFaults>>
    BY <1>2, HasMessage DEF LoadWorkspace, AtStep, OfMessage, pastVars, countVars
  <2>2. (refused => refused') /\ (unlinked => unlinked')
    BY <2>1, Zenon
  <2>3. CASE WorkspacesOf(Home) = {} /\ Settle(a, "failed")
    BY <1>2, <2>1, <2>2, <2>3, StuckOnlyIfUnlinked, SettlingKeepsDeliveries DEF LoadWorkspace
  <2>4. CASE UNCHANGED deliveryVars
    BY <2>1, <2>2, <2>4, DeliveriesStay DEF deliveryVars
  <2> QED
    BY <1>2, <2>3, <2>4, Zenon DEF LoadWorkspace
<1>3. CASE FindThread(a)
  <2>1. /\ act[a].about \in Message
        /\ UNCHANGED <<stored, refused, unlinked, threadFaults>>
    BY <1>3, HasMessage DEF FindThread, AtStep, OfMessage, Loaded, pastVars, countVars
  <2>2. (refused => refused') /\ (unlinked => unlinked')
    BY <2>1, Zenon
  <2>3. CASE thread = Nothing /\ ~(RowExists(act[a].ws) /\ act[a].ws[1] \in routed)
    <3>1. Settle(a, "failed") /\ AtStep(a, "find")
      BY <1>3, <2>3 DEF FindThread
    <3> QED
      BY <2>1, <2>2, <2>3, <3>1, StuckOnlyIfUnlinked, SettlingKeepsDeliveries
  <2>4. CASE ~(thread = Nothing /\ ~(RowExists(act[a].ws) /\ act[a].ws[1] \in routed))
    <3>1. UNCHANGED deliveryVars
      BY <1>3, <2>4 DEF FindThread
    <3> QED
      BY <2>1, <2>2, <3>1, DeliveriesStay DEF deliveryVars
  <2> QED
    BY <2>3, <2>4
<1>4. CASE PostParent(a)
  <2>1. act[a].about \in Message /\ stored' = stored
    BY <1>4, HasMessage DEF PostParent, AtStep, OfMessage, Loaded
  <2>2. CASE UNCHANGED <<deliveryVars, pastVars, countVars>>
    <3>1. UNCHANGED <<delivery, lease, tries, refused, unlinked, threadFaults>>
      BY <2>2 DEF deliveryVars, pastVars, countVars
    <3>2. (refused => refused') /\ (unlinked => unlinked')
      BY <3>1, Zenon
    <3> QED
      BY <2>1, <3>1, <3>2, DeliveriesStay
  <2>3. CASE \E accepted \in BOOLEAN : SlackFails(a, accepted)
    BY <2>1, <2>3, SlackFailsKeepsDeliveries
  <2> QED
    BY <1>4, <2>2, <2>3, Zenon DEF PostParent
<1>5. CASE RecordThread(a)
  <2>1. UNCHANGED <<stored, delivery, lease, tries, refused, unlinked, threadFaults>>
    BY <1>5 DEF RecordThread, deliveryVars, countVars
  <2>2. (refused => refused') /\ (unlinked => unlinked')
    BY <2>1, Zenon
  <2> QED
    BY <2>1, <2>2, DeliveriesStay
<1>6. CASE RereadThread(a)
  <2>1. /\ act[a].about \in Message
        /\ UNCHANGED <<stored, refused, unlinked, threadFaults>>
    BY <1>6, HasMessage DEF RereadThread, AtStep, OfMessage, Loaded, pastVars, countVars
  <2>2. (refused => refused') /\ (unlinked => unlinked')
    BY <2>1, Zenon
  <2>3. CASE thread # Nothing
    BY <1>6, <2>1, <2>2, <2>3, DeliveriesStay DEF RereadThread, deliveryVars
  <2>4. CASE thread = Nothing
    <3>1. Settle(a, AfterRetryable(act[a].about)) /\ AtStep(a, "reread")
      BY <1>6, <2>4 DEF RereadThread
    <3>2. AfterRetryable(act[a].about) \in {"queued", "failed"}
      BY DEF AfterRetryable
    <3> QED
      BY <2>1, <2>2, <2>4, <3>1, <3>2, StuckOnlyIfUnlinked, SettlingKeepsDeliveries
  <2> QED
    BY <2>3, <2>4
<1>7. CASE PostReply(a)
  <2>1. act[a].about \in Message /\ stored' = stored /\ AtStep(a, "reply")
    BY <1>7, HasMessage DEF PostReply, AtStep, OfMessage, Loaded
  <2>2. CASE act[a].ws[1] # act[a].at.team
    <3>1. Settle(a, "failed") /\ UNCHANGED <<refused, unlinked, threadFaults>>
      BY <1>7, <2>2 DEF PostReply, pastVars, countVars
    <3>2. refused => refused'
      BY <3>1, Zenon
    <3> QED
      BY <2>1, <2>2, <3>1, <3>2, StuckOnlyIfUnlinked, SettlingKeepsDeliveries
  <2>3. CASE Settle(a, "delivered") /\ UNCHANGED <<pastVars, countVars>>
    <3>1. UNCHANGED <<refused, unlinked, threadFaults>>
      BY <2>3 DEF pastVars, countVars
    <3>2. refused => refused'
      BY <3>1, Zenon
    <3> QED
      BY <2>1, <2>3, <3>1, <3>2, SettlingKeepsDeliveries
  <2>4. CASE \E accepted \in BOOLEAN : SlackFails(a, accepted)
    BY <2>1, <2>4, SlackFailsKeepsDeliveries
  <2> QED
    BY <1>7, <2>2, <2>3, <2>4, Zenon DEF PostReply
<1> QED
  BY <1>1, <1>2, <1>3, <1>4, <1>5, <1>6, <1>7 DEF Deliver

LEMMA CommitPostKeepsDeliveries ==
  ASSUME ThreadInv, DeliveryInv, NEW a \in Actor, CommitPost(a)
  PROVE  DeliveryInv'
<1>0. PICK m \in Message : m = act[a].about
  BY HasMessage DEF CommitPost, AtStep, OfMessage
<1>1. /\ stored' = stored \cup {m}
      /\ UNCHANGED <<lease, tries, refused, unlinked, threadFaults>>
  BY <1>0 DEF CommitPost, pastVars, countVars
<1>2. (refused => refused') /\ (unlinked => unlinked')
  BY <1>1, Zenon
<1>3. CASE delivery' = delivery
  BY <1>1, <1>2, <1>3, DeliveriesStay
<1>4. CASE m \notin stored /\ delivery' = [delivery EXCEPT ![m] = "queued"]
  <2>1. delivery \in Deliveries /\ delivery[m] = "none" /\ tries[m] = 0
    BY <1>1, <1>4 DEF ThreadInv, RowsFit, Deliveries, DeliveryInv, TriesFit
  <2>2. TriesFit'
    BY <1>1, <1>4, <2>1 DEF DeliveryInv, TriesFit, Deliveries
  <2>3. Bounded(m)'
    BY <1>1, <1>4, <2>1 DEF Bounded, Deliveries, DeliveryInv, TriesFit
  <2>4. \A n \in Message \ {m} : delivery'[n] = delivery[n] /\ tries'[n] = tries[n]
    BY <1>1, <1>4, <2>1 DEF Deliveries
  <2> QED
    BY <1>1, <1>2, <2>2, <2>3, <2>4, OthersStayBounded DEF DeliveryInv
<1> QED
  BY <1>0, <1>3, <1>4 DEF CommitPost

LEMMA FaultsKeepDeliveries ==
  ASSUME ThreadInv, DeliveryInv,
         (\E a \in Actor : Crash(a)) \/ (\E m \in Message : LeaseOverrun(m))
  PROVE  DeliveryInv'
<1>1. ASSUME NEW a \in Actor, Crash(a) PROVE DeliveryInv'
  <2>1. threadFaults' = threadFaults + 1 /\ UNCHANGED <<stored, refused, unlinked>>
    BY <1>1 DEF Crash, ThreadFault, pastVars
  <2>2. (refused => refused') /\ (unlinked => unlinked')
    BY <2>1, Zenon
  <2>3. CASE act[a].about \in Message /\ Settle(a, "queued")
    BY <2>1, <2>2, <2>3, SettlingKeepsDeliveries
  <2>4. CASE UNCHANGED deliveryVars
    BY <2>1, <2>2, <2>4, DeliveriesStay DEF deliveryVars
  <2> QED
    BY <1>1, <2>3, <2>4, Zenon DEF Crash
<1>2. ASSUME NEW m \in Message, LeaseOverrun(m) PROVE DeliveryInv'
  <2>1. /\ delivery[m] = "leased" /\ delivery' = [delivery EXCEPT ![m] = "queued"]
        /\ lease' = [lease EXCEPT ![m] = Nothing] /\ threadFaults' = threadFaults + 1
        /\ UNCHANGED <<stored, tries, refused, unlinked>>
    BY <1>2 DEF LeaseOverrun, ThreadFault, pastVars
  <2>2. delivery \in Deliveries
    BY DEF ThreadInv, RowsFit, Deliveries
  <2>3. TriesFit'
    BY <2>1, <2>2, WorkerAssumption DEF DeliveryInv, TriesFit, Deliveries
  <2>4. Bounded(m) => Bounded(m)'
    BY <2>1, <2>2 DEF Bounded, Deliveries, DeliveryInv, TriesFit
  <2>5. Bounded(m)' \/ unlinked'
    BY <2>1, <2>4, Zenon DEF DeliveryInv, TriesBounded
  <2>6. \A n \in Message \ {m} : delivery'[n] = delivery[n] /\ tries'[n] = tries[n]
    BY <2>1, <2>2 DEF Deliveries
  <2>7. (refused => refused') /\ (unlinked => unlinked')
    BY <2>1, Zenon
  <2> QED
    BY <2>1, <2>3, <2>5, <2>6, <2>7, OthersStayBounded DEF DeliveryInv
<1> QED
  BY <1>1, <1>2

LEMMA StepKeepsDeliveries == ThreadInv /\ DeliveryInv /\ [ThreadNext]_threadVars => DeliveryInv'
<1> SUFFICES ASSUME ThreadInv, DeliveryInv, [ThreadNext]_threadVars
             PROVE  DeliveryInv'
  OBVIOUS
<1>1. ASSUME UNCHANGED <<deliveryVars, countVars, refused>>, stored \subseteq stored',
             unlinked => unlinked'
      PROVE  DeliveryInv'
  <2>1. UNCHANGED <<delivery, lease, tries, threadFaults>>
    BY <1>1 DEF deliveryVars, countVars
  <2>2. refused => refused'
    BY <1>1, Zenon
  <2> QED
    BY <1>1, <2>1, <2>2, DeliveriesStay
<1>2. ASSUME UNCHANGED <<deliveryVars, threadFaults, stored, refused>>, unlinked => unlinked'
      PROVE  DeliveryInv'
  <2>1. UNCHANGED <<delivery, lease, tries>>
    BY <1>2 DEF deliveryVars
  <2>2. refused => refused'
    BY <1>2, Zenon
  <2> QED
    BY <1>2, <2>1, <2>2, DeliveriesStay
<1>3. ASSUME NEW a \in Actor, NEW m \in Message, AskPost(a, m) PROVE DeliveryInv'
  <2>1. UNCHANGED <<deliveryVars, countVars, refused, unlinked, stored>>
    BY <1>3 DEF AskPost, pastVars
  <2> QED
    BY <1>1, <2>1, Zenon
<1>4. ASSUME NEW a \in Actor, Bridge(a) PROVE DeliveryInv'
  <2>1. UNCHANGED <<deliveryVars, countVars, refused, unlinked>> /\ stored \subseteq stored'
    BY <1>4 DEF Bridge, Receive, MatchThread, StoreReply, pastVars
  <2> QED
    BY <1>1, <2>1, Zenon
<1>5. ASSUME NEW r \in Reply, Type(r) PROVE DeliveryInv'
  <2>1. UNCHANGED <<deliveryVars, countVars, refused, unlinked, stored>>
    BY <1>5 DEF Type, pastVars
  <2> QED
    BY <1>1, <2>1, Zenon
<1>6. CASE Office
  <2>1. UNCHANGED <<deliveryVars, threadFaults, stored, refused>>
    BY <1>6, Zenon
    DEF Office, Disconnect, ConnectTeam, SetRoute, ClearRoute, AskConsent, Callback, Upsert,
        OfficeActs, pastVars, countVars
  <2>2. unlinked => unlinked'
    BY <1>6, Zenon
    DEF Office, Disconnect, ConnectTeam, SetRoute, ClearRoute, AskConsent, Callback, Upsert,
        pastVars
  <2> QED
    BY <1>2, <2>1, <2>2
<1>7. CASE UNCHANGED threadVars
  <2>1. UNCHANGED <<deliveryVars, countVars, refused, unlinked, stored>>
    BY <1>7 DEF threadVars, pastVars
  <2> QED
    BY <1>1, <2>1, Zenon
<1> QED
  BY <1>3, <1>4, <1>5, <1>6, <1>7, CommitPostKeepsDeliveries, DeliverKeepsDeliveries,
     FaultsKeepDeliveries, Zenon DEF ThreadNext

\* The inductive invariants hold in every state of the bridge.
THEOREM ThreadInvariant == ThreadSpec => [](ThreadInv /\ DeliveryInv)
<1> QED
  BY ThreadStarts, DeliveriesStart, ThreadStepKeepsInv, StepKeepsDeliveries, PTL DEF ThreadSpec

\* With any number of actors, messages, replies, teams, attempts, faults and changes of the
\* offices, a job has one Slack thread while its office keeps the workspace, only typed
\* replies come back from it, and a message is given up only for a change of the workspace,
\* a refusal, or as many faults as it has attempts.
THEOREM ThreadStaysSound == ThreadSpec => []ThreadIsSound
<1>1. ThreadInv => OneThreadPerJob
  <2> SUFFICES ASSUME ThreadInv PROVE OneThreadPerJob
    OBVIOUS
  <2>1. \A x \in shown : x[2] \in recorded
    BY DEF ThreadInv, ShownFits
  <2>2. ASSUME NEW t \in SlackTeam, Linked(t) PROVE \A x, y \in shown : x[2] = y[2]
    BY <2>2 DEF Linked
  <2>3. ~unlinked => \A x, y \in shown : x[2] = y[2]
    BY <2>2, Zenon DEF ThreadInv, KeepsLink
  <2> QED
    BY <2>1, <2>3, Zenon DEF OneThreadPerJob
<1>2. ThreadInv => OnlyRepliesComeBack
  BY DEF ThreadInv, StoredFits, OnlyRepliesComeBack
<1>3. DeliveryInv => GivenUpOnlyForCause
  BY Zenon DEF DeliveryInv, TriesBounded, Bounded, GivenUpOnlyForCause
<1>4. ThreadInv /\ DeliveryInv => ThreadIsSound
  BY <1>1, <1>2, <1>3 DEF ThreadIsSound
<1> QED
  BY ThreadInvariant, <1>4, PTL

=============================================================================
