------------------------------ MODULE CrewBoard ------------------------------
(* What a console shows of the crew: the board payload with its attention flags           *)
(* (routes/board.ts, lib/needsAttention.ts), the board it is turned into (hq              *)
(* lib/adapter.ts), and the vans of the live feed, which are found by the place of their  *)
(* technician on the roster (CrewTree.tsx, MapSurface.tsx, MapLibreView.tsx).             *)
(* Times are counted in quarter hours, members are technicians, and absences, which no    *)
(* roster has, and en_route, which no live board has, are left out.  A payload is read    *)
(* and shown in one step and frames keep their order: LiveFeed and BoardSync have that.   *)
EXTENDS Integers, FiniteSets, SequencesExt

CONSTANTS
    Member, NameOf,                           \* users, and their names, which two may share
    First, Second,                            \* the members of the organization at first
    Jobs, SiteOf,                             \* jobs of the organization, numbered from the newest; their addresses
    Site, Drive,                              \* minutes of the move between two addresses, in quarter hours
    VisitSlot,                                \* times an office gives a visit: [start, end]
    Clock,                                    \* times at which the board may be read
    Unknown,
    DayLength, DayStart, Blocks, BlockLength, \* the board day of lib/format.ts
    BoardCap,                                 \* BOARD_JOB_CAP
    TrailCap,                                 \* fixes kept of a van
    MaxCrewActs                               \* bound: writes to the API and reports of the vans

CrewJob == 1..Jobs

VARIABLES
    roster,                     \* OrganizationMembership by createdAt
    visits,                     \* a job's earliest appointment, as [staff, slot], or Unknown
    state, open, ended,         \* a job's status; its open and its ended time entries
    van,                        \* the van each member's device reports as, or Unknown
    crewOnShift,                \* members whose device reports
    techs, shown, flags,        \* the store: technicians, jobs and flags
    pins, trail,                \* liveLocations and their history, by van
    read, heard,                \* history: the visits of the last payload, frames since
    shuffled, misfits, unheard, \* history: a member has left; devices with a van that is not
                                \* their place on the roster; log-offs that were missed
    crewActs

recordVars == <<roster, visits, state, open, ended>>
boardVars == <<techs, shown, flags, read, heard>>
crewVanVars == <<van, crewOnShift, pins, trail, misfits, unheard>>
crewVars == <<recordVars, boardVars, crewVanVars, shuffled, crewActs>>

Vans == 1..Cardinality(Member)
\* Nothing keeps a visit from ending before it starts (routes/residential.ts), and an hour of
\* the board, a block and a trail are not empty (lib/format.ts, stores/fleetStore.ts).
ASSUME CrewAssumption ==
    /\ IsFiniteSet(Member) /\ First \in Member /\ Second \in Member /\ First # Second
    /\ Jobs \in Nat /\ VisitSlot \subseteq [start : Nat, end : Nat \cup {Unknown}]
    /\ Clock \subseteq Nat /\ DayLength \in Nat \ {0} /\ DayStart \in Nat
    /\ Blocks \in Nat \ {0} /\ BlockLength \in Nat \ {0} /\ TrailCap \in Nat \ {0}

PlaceOf(s, m) == CHOOSE i \in 1..Len(s) : s[i] = m
\* A job that was not created by this API may have no appointment.
CrewInit ==
    /\ roster = <<First, Second>>
    /\ visits = [j \in CrewJob |-> Unknown] /\ state = [j \in CrewJob |-> "scheduled"]
    /\ open = [j \in CrewJob |-> 0] /\ ended = [j \in CrewJob |-> 0]
    /\ van = [m \in Member |-> Unknown] /\ crewOnShift = {} /\ misfits = {} /\ unheard = {}
    /\ techs = <<>> /\ shown = [j \in CrewJob |-> Unknown] /\ flags = {}
    /\ pins = [v \in Vans |-> Unknown] /\ trail = [v \in Vans |-> <<>>]
    /\ read = visits /\ heard = {} /\ shuffled = FALSE /\ crewActs = 0

-----------------------------------------------------------------------------
(* computeNeedsAttention *)

Listed == {j \in CrewJob : j <= BoardCap}    \* the newest
Staffed(j) == visits[j] # Unknown /\ visits[j].staff # Unknown
IsStillOpen(j) == state[j] # "completed" /\ ended[j] = 0
Overdue(j, now) == visits[j] # Unknown /\ visits[j].slot.end # Unknown /\ visits[j].slot.end < now
DayOf(t) == t \div DayLength
WallClock(t) == t % DayLength

\* A technician's visits in the order of their start, whatever has become of them.
Before(j, k) ==
    /\ Staffed(j) /\ Staffed(k) /\ j # k /\ visits[j].staff = visits[k].staff
    /\ \/ visits[j].slot.start < visits[k].slot.start
       \/ visits[j].slot.start = visits[k].slot.start /\ j < k
Consecutive(among, j, k) == Before(j, k) /\ ~\E i \in among : Before(j, i) /\ Before(i, k)
\* Mutant of SameDay: the last visit of a day and the first of the next are compared too.
AnyDay(j, k) == TRUE

SameDay(j, k) == DayOf(visits[j].slot.start) = DayOf(visits[k].slot.start)
Tight(among, j, k) ==
    /\ Consecutive(among, j, k) /\ SiteOf[j] # SiteOf[k] /\ SameDay(j, k)
    /\ visits[j].slot.end # Unknown
    /\ WallClock(visits[k].slot.start) - WallClock(visits[j].slot.end) < Drive[SiteOf[j], SiteOf[k]]

NeedsAttention(among, now) ==
    {<<"overdue", <<j>>>> : j \in {i \in among : IsStillOpen(i) /\ Overdue(i, now)}}
    \cup {<<"unassigned", <<j>>>> : j \in {i \in among : IsStillOpen(i) /\ ~Staffed(i)}}
    \cup {<<"travel_buffer", p>> : p \in {q \in among \X among : Tight(among, q[1], q[2])}}

-----------------------------------------------------------------------------
(* The board made of a payload *)

Clamp(n, low, high) == IF n < low THEN low ELSE IF n > high THEN high ELSE n
\* Math.round rounds halves up.
InBlocks(t) == (2 * t + BlockLength) \div (2 * BlockLength)
StartBlock(s) == Clamp(InBlocks(WallClock(s.start) - DayStart), 0, Blocks - 1)
SpanBlocks(s) ==
    IF s.end # Unknown /\ WallClock(s.end) > WallClock(s.start)
    THEN Clamp(InBlocks(WallClock(s.end) - WallClock(s.start)), 1, Blocks - StartBlock(s))
    ELSE 1
\* A job without a visit is given a place on the day that is shown as today.
Placed(j, now) ==
    IF visits[j] = Unknown
    THEN [start |-> ((j - 1) * 5) % 16, span |-> 3, day |-> DayOf(now)]
    ELSE [start |-> StartBlock(visits[j].slot), span |-> SpanBlocks(visits[j].slot),
          day |-> DayOf(visits[j].slot.start)]

\* The assignee by id, or else the first technician of that name.
Namesakes(m) == {i \in 1..Len(roster) : NameOf[roster[i]] = NameOf[m]}
TechForJob(j) ==
    IF ~Staffed(j) THEN Unknown
    ELSE IF visits[j].staff \in ToSet(roster) THEN visits[j].staff
    ELSE IF Namesakes(visits[j].staff) = {} THEN Unknown
    ELSE roster[CHOOSE i \in Namesakes(visits[j].staff) : \A k \in Namesakes(visits[j].staff) : i <= k]

BoardStatus(s) == [scheduled |-> "scheduled", in_progress |-> "active", completed |-> "complete"][s]
Adapted(j, now) ==
    [row |-> TechForJob(j), place |-> Placed(j, now), running |-> open[j] > 0,
     status |-> IF TechForJob(j) # Unknown \/ state[j] = "completed" THEN BoardStatus(state[j])
                ELSE "unassigned"]

PollBoard(now) ==
    /\ techs' = roster
    /\ shown' = [j \in CrewJob |-> IF j \in Listed THEN Adapted(j, now) ELSE Unknown]
    /\ flags' = NeedsAttention(Listed, now)
    /\ read' = visits /\ heard' = {}
    /\ UNCHANGED <<recordVars, crewVanVars, shuffled, crewActs>>

-----------------------------------------------------------------------------
(* What changes on the API *)

CrewAct == crewActs < MaxCrewActs /\ crewActs' = crewActs + 1

\* The office creates an appointment, or sets any field of one, to whomever and whenever;
\* Assignment has the endpoint that makes some of these changes after a check.
Plan(j, m, s) ==
    /\ CrewAct /\ visits' = [visits EXCEPT ![j] = [staff |-> m, slot |-> s]]
    /\ UNCHANGED <<roster, state, open, ended, boardVars, crewVanVars, shuffled>>

\* The status frame of a job reaches the console, unless it is missed.
Told(j) ==
    \/ UNCHANGED boardVars
    \/ /\ shown[j] # Unknown
       /\ shown' = [shown EXCEPT ![j].status = BoardStatus(state'[j]), ![j].running = state'[j] = "in_progress"]
       /\ heard' = heard \cup {j} /\ UNCHANGED <<techs, flags, read>>
SetStatus(j, s) ==
    /\ CrewAct /\ state' = [state EXCEPT ![j] = s] /\ Told(j)
    /\ UNCHANGED <<roster, visits, open, ended, crewVanVars, shuffled>>

\* An entry is created open, or with an end already; a correction may open it again.  It
\* says nothing of the status, and the board does nothing with its frame.
ClockOn(j) ==
    /\ CrewAct
    /\ \/ open' = [open EXCEPT ![j] = @ + 1] /\ UNCHANGED ended
       \/ ended' = [ended EXCEPT ![j] = @ + 1] /\ UNCHANGED open
    /\ UNCHANGED <<roster, visits, state, boardVars, crewVanVars, shuffled>>
ClockOff(j) ==
    /\ CrewAct /\ open[j] > 0
    /\ open' = [open EXCEPT ![j] = @ - 1] /\ ended' = [ended EXCEPT ![j] = @ + 1]
    /\ UNCHANGED <<roster, visits, state, boardVars, crewVanVars, shuffled>>
Reopen(j) ==
    /\ CrewAct /\ ended[j] > 0
    /\ open' = [open EXCEPT ![j] = @ + 1] /\ ended' = [ended EXCEPT ![j] = @ - 1]
    /\ UNCHANGED <<roster, visits, state, boardVars, crewVanVars, shuffled>>

\* Whoever joins comes last; the visits of whoever leaves stay.  Somebody always stays, who
\* owns the organization.
Join(m) ==
    /\ CrewAct /\ m \notin ToSet(roster) /\ roster' = Append(roster, m)
    /\ UNCHANGED <<visits, state, open, ended, boardVars, crewVanVars, shuffled>>
LeaveCompany(m) ==
    /\ CrewAct /\ m \in ToSet(roster) /\ Len(roster) > 1 /\ shuffled' = TRUE
    /\ roster' = RemoveAt(roster, PlaceOf(roster, m)) /\ crewOnShift' = crewOnShift \ {m}
    /\ UNCHANGED <<visits, state, open, ended, boardVars, van, pins, trail, misfits, unheard>>

-----------------------------------------------------------------------------
(* The vans *)

\* The device names the van, and keeps to it; its frame may be missed.
Newest(s) == IF Len(s) > TrailCap THEN Tail(s) ELSE s
Ping(m, v, site, presence) ==
    /\ CrewAct /\ m \in ToSet(roster) /\ van[m] \in {Unknown, v}
    /\ van' = [van EXCEPT ![m] = v] /\ crewOnShift' = crewOnShift \cup {m}
    /\ misfits' = IF v = PlaceOf(roster, m) THEN misfits ELSE misfits \cup {m}
    /\ LET fix == [from |-> m, site |-> site, presence |-> presence]
       IN  \/ /\ pins' = [pins EXCEPT ![v] = fix]
              /\ trail' = [trail EXCEPT ![v] = Newest(Append(@, fix))]
           \/ UNCHANGED <<pins, trail>>
    /\ UNCHANGED <<recordVars, boardVars, unheard, shuffled>>
\* The beacon of a log-off takes the pin away and leaves the trail.
LogOffVan(m) ==
    /\ m \in crewOnShift /\ crewOnShift' = crewOnShift \ {m}
    /\ \/ pins' = [pins EXCEPT ![van[m]] = Unknown] /\ UNCHANGED unheard
       \/ unheard' = unheard \cup {m} /\ UNCHANGED pins
    /\ UNCHANGED <<recordVars, boardVars, van, trail, misfits, shuffled, crewActs>>

\* The van of a technician is the one of his place on the board's roster.
PinOf(i) == pins[i]
InFlight(i, day) ==
    {j \in CrewJob : shown[j] # Unknown /\ shown[j].row = techs[i] /\ shown[j].place.day = day
                 /\ shown[j].status = "active"}
Presence(i, day) ==
    IF PinOf(i) # Unknown /\ PinOf(i).presence = "on_break" THEN "on_break"
    ELSE IF InFlight(i, day) # {} THEN "on_job" ELSE "available"
\* The jobs in flight that the van is at; the first is named on the crew list.
ArrivedJobs(i, day) ==
    IF PinOf(i) = Unknown THEN {} ELSE {j \in InFlight(i, day) : SiteOf[j] = PinOf(i).site}

CrewNext ==
    \/ \E t \in Clock : PollBoard(t)
    \/ \E j \in CrewJob :
          \/ \E m \in Member \cup {Unknown}, s \in VisitSlot : Plan(j, m, s)
          \/ \E s \in {"scheduled", "in_progress", "completed"} : SetStatus(j, s)
          \/ ClockOn(j) \/ ClockOff(j) \/ Reopen(j)
    \/ \E m \in Member :
          \/ Join(m) \/ LeaveCompany(m) \/ LogOffVan(m)
          \/ \E v \in Vans, site \in Site, p \in {"on_job", "on_break"} : Ping(m, v, site, p)

CrewSpec == CrewInit /\ [][CrewNext]_crewVars

-----------------------------------------------------------------------------
Rows == {j \in CrewJob : shown[j] # Unknown /\ read[j] # Unknown}

\* Flags and board are of one snapshot (board.ts): a job flagged as unassigned waits in the
\* queue, one flagged as overdue is open until a frame says otherwise, and the two of a
\* tight move are on one row of one day, in order.
FlagsFit ==
    \A f \in flags :
        LET j == f[2][1]
        IN  CASE f[1] = "unassigned" -> shown[j].row = Unknown
              [] f[1] = "overdue" -> shown[j].status # "complete" \/ j \in heard
              [] f[1] = "travel_buffer" ->
                    LET k == f[2][2]
                    IN  /\ shown[j].row = shown[k].row /\ shown[j].place.day = shown[k].place.day
                        /\ shown[j].place.start <= shown[k].place.start

\* A job is on the row of its assignee, or of his namesake once he is gone; visits that
\* follow each other on a day are shown in order, and if the board day has begun when the
\* first begins, rounding to blocks makes them overlap by at most one.  The span of an
\* earlier one is counted from the first block.
RowsFit ==
    /\ \A j \in Rows : shown[j].row # Unknown =>
          shown[j].row \in ToSet(techs) /\ NameOf[shown[j].row] = NameOf[read[j].staff]
    /\ \A j, k \in Rows :
          LET s == read[j].slot
              n == read[k].slot
          IN  s.end # Unknown /\ s.start <= s.end /\ s.end <= n.start
              /\ DayOf(s.start) = DayOf(s.end) /\ DayOf(s.end) = DayOf(n.start) =>
                /\ shown[j].place.start <= shown[k].place.start
                /\ WallClock(s.start) >= DayStart =>
                      shown[j].place.start + shown[j].place.span <= shown[k].place.start + 1

\* As long as nobody has left and the devices have the vans of their places on the roster,
\* a technician's marker is his own van's, where its trail ends, and on shift unless his
\* log-off was missed; he is on site of jobs of his own row that his van is at.
VansFit ==
    \A i \in 1..Len(techs) : ~shuffled /\ misfits = {} =>
        /\ PinOf(i) # Unknown =>
              /\ PinOf(i).from = techs[i] /\ Last(trail[i]) = PinOf(i) /\ Len(trail[i]) <= TrailCap
              /\ techs[i] \in crewOnShift \cup unheard
        /\ \A day \in {shown[j].place.day : j \in {k \in CrewJob : shown[k] # Unknown}} :
           \A j \in ArrivedJobs(i, day) :
              shown[j].row = PinOf(i).from /\ Last(trail[i]).site = SiteOf[j]

CrewBoardIsHonest == FlagsFit /\ RowsFit /\ VansFit

\* What the code does not give.  A marker is of the technician it is drawn for, once a
\* member has left and the numbers move up; visits that do not overlap do not overlap on the
\* board; a job in the queue is flagged.
PinIsOfItsTech ==
    misfits = {} => \A i \in 1..Len(techs) : PinOf(i) # Unknown => PinOf(i).from = techs[i]
ShownApart ==
    \A j, k \in Rows :
        LET s == read[j].slot
            n == read[k].slot
        IN  s.end # Unknown /\ DayOf(s.end) = DayOf(n.start) /\ s.end <= n.start =>
              shown[j].place.start + shown[j].place.span <= shown[k].place.start
QueueIsFlagged ==
    \A j \in CrewJob :
        shown[j] # Unknown /\ shown[j].status = "unassigned" => <<"unassigned", <<j>>>> \in flags

=============================================================================
