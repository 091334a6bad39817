---------------------------- MODULE RouteOptimizer ----------------------------
(***************************************************************************)
(* The local route engine of HQ (apps/hq/src/lib/optimize.ts) and what     *)
(* applying its plan does to the board (applyRouteStops in boardStore.ts,  *)
(* performRouteApply in board/actions.ts).                                 *)
(*                                                                         *)
(* The engine fills one van after the other, the emptiest first; each turn *)
(* of its loops is one step here.  A job's number is its place in the      *)
(* order of ids.  Durations are minutes, positions are blocks of the board *)
(* day.                                                                    *)
(***************************************************************************)
EXTENDS Integers, Sequences, FiniteSets, FiniteSetsExt, SequencesExt

CONSTANTS
    Tech, Job,          \* technicians; jobs, by number
    Skilled,            \* who has the one skill jobs may require
    Site, Depot, Legs,  \* places and travelMinutes between two of them
    TotalBlocks,        \* TOTAL_BLOCKS of the board day
    Board, Config,      \* boards and optimizer settings to start from
    Absences,           \* the sets of technicians who may be on leave
    None                \* nobody

VARIABLES
    board,      \* the store's jobs of the day
    absent,     \* the technicians on leave that day
    config,     \* scope, maxRoutes, maxTasksPerRoute, minutes per route
    waiting,    \* eligible technicians not yet routed
    van, own,   \* the technician being routed, existing jobs left to sequence
    stops, cursor, point, driven,  \* the route so far, its end, place and travel
    rejected,   \* pool jobs this van turned down
    unplaced,   \* what is reported as not placed, each time with a reason
    routes,     \* finished routes, by technician
    phase

vars == <<board, absent, config, waiting, van, own, stops, cursor, point, driven, rejected,
          unplaced, routes, phase>>

-----------------------------------------------------------------------------
(* Derived from the board *)

EndOf(j) == board[j].start + board[j].span

Existing(t) == {j \in Job : board[j].tech = t /\ ~ board[j].complete}

Pool == {j \in Job : board[j].tech = None /\ ~ board[j].complete}

Qualified(t, j) == board[j].skill => t \in Skilled

\* The sort of the vans: emptiest first, more skills first among equals; names decide
\* the rest, in any order here.
Before(t, u) ==
    \/ Cardinality(Existing(t)) < Cardinality(Existing(u))
    \/ /\ Cardinality(Existing(t)) = Cardinality(Existing(u))
       /\ t \in Skilled /\ u \notin Skilled

\* blocksForTravel: a leg takes whole blocks, and one at least.
Gap(leg) == Max({1, (leg + 29) \div 30})

JobsOf(route) == {route[i].job : i \in DOMAIN route}

Placed == JobsOf(stops) \union UNION {JobsOf(routes[t]) : t \in DOMAIN routes}

Work(route) == MapThenSumSet(LAMBDA i : 30 * board[route[i].job].span, DOMAIN route)

\* The first of S by rank, then by number.
FirstBy(S, rank(_)) ==
    CHOOSE j \in S : \A k \in S \ {j} : rank(j) < rank(k) \/ (rank(j) = rank(k) /\ j < k)

LegTo(j) == Legs[point, board[j].site]

\* Mutant of StartOf: the drive is not planned.
StartOfAtOnce(j) == cursor

\* Where the next stop starts: right at the cursor for the first of a route.
StartOf(j) == cursor + (IF stops = << >> THEN 0 ELSE Gap(LegTo(j)))

-----------------------------------------------------------------------------
Init ==
    /\ board \in Board /\ absent \in Absences /\ config \in Config
    /\ waiting = Tech \ absent
    /\ van = None /\ own = {} /\ stops = << >> /\ cursor = 0 /\ point = Depot /\ driven = 0
    /\ rejected = {} /\ unplaced = << >> /\ routes = << >> /\ phase = "next"

\* The next van: its day is sequenced anew, or extended after the work it has.
OpenRoute(t) ==
    /\ phase = "next" /\ t \in waiting
    /\ \A u \in waiting : ~ Before(u, t)
    /\ Cardinality(DOMAIN routes) < Max({1, config.maxRoutes})
    /\ van' = t /\ waiting' = waiting \ {t}
    /\ stops' = << >> /\ driven' = 0 /\ rejected' = {}
    /\ IF config.scope = "all" \/ Existing(t) = {}
       THEN /\ cursor' = 0 /\ point' = Depot
            /\ own' = IF config.scope = "all" THEN Existing(t) ELSE {}
       ELSE /\ cursor' = Max({EndOf(j) : j \in Existing(t)})
            /\ point' = board[FirstBy(Existing(t), LAMBDA j : - board[j].start)].site
            /\ own' = {}
    /\ phase' = IF config.scope = "all" THEN "own" ELSE "fill"
    /\ UNCHANGED <<board, absent, config, unplaced, routes>>

Append1(j, new) ==
    /\ stops' = Append(stops, [job |-> j, start |-> StartOf(j), new |-> new,
                               leg |-> IF stops = << >> THEN 0 ELSE LegTo(j)])
    /\ cursor' = StartOf(j) + board[j].span
    /\ point' = board[j].site

\* Existing work of the van, most urgent first, until one does not fit the day: that one
\* and those after it are left out of the route.
Resequence ==
    /\ phase = "own"
    /\ LET j == FirstBy(own, LAMBDA k : board[k].priority)
       IN  IF own # {} /\ StartOf(j) + board[j].span <= TotalBlocks
           THEN /\ Append1(j, FALSE)
                /\ driven' = driven + (IF stops = << >> THEN 0 ELSE LegTo(j))
                /\ own' = own \ {j}
                /\ UNCHANGED phase
           ELSE /\ phase' = "fill" /\ own' = {}
                /\ UNCHANGED <<stops, cursor, point, driven>>
    /\ UNCHANGED <<board, absent, config, waiting, van, rejected, unplaced, routes>>

Candidates == {j \in Pool \ (Placed \union rejected) : Qualified(van, j)}

\* The nearest of the most urgent tier.
NextStop ==
    LET tier == {j \in Candidates :
                    \A k \in Candidates : board[j].priority <= board[k].priority}
    IN  FirstBy(tier, LegTo)

WithinBudget(j) ==
    driven + LegTo(j) + Work(stops) + 30 * board[j].span <= config.maxMinutes

WithinDay(j) == StartOf(j) + board[j].span <= TotalBlocks

\* The budget is looked at first.
WhyNot(j) == IF WithinBudget(j) THEN "day" ELSE "budget"

\* One turn of the fill loop: the next stop is placed, or turned down by this van and
\* flagged, whatever a later van makes of it.
Fill ==
    /\ phase = "fill" /\ Len(stops) < config.maxTasks /\ Candidates # {}
    /\ IF WithinBudget(NextStop) /\ WithinDay(NextStop)
       THEN /\ Append1(NextStop, TRUE)
            /\ driven' = driven + LegTo(NextStop)
            /\ UNCHANGED <<rejected, unplaced>>
       ELSE /\ rejected' = rejected \union {NextStop}
            /\ unplaced' = Append(unplaced, [job |-> NextStop, reason |-> WhyNot(NextStop)])
            /\ UNCHANGED <<stops, cursor, point, driven>>
    /\ UNCHANGED <<board, absent, config, waiting, van, own, routes, phase>>

CloseRoute ==
    /\ phase = "fill" /\ (Len(stops) >= config.maxTasks \/ Candidates = {})
    /\ routes' = [t \in DOMAIN routes \union {van} |-> IF t = van THEN stops ELSE routes[t]]
    /\ stops' = << >> /\ phase' = "next"
    /\ UNCHANGED <<board, absent, config, waiting, van, own, cursor, point, driven, rejected,
                   unplaced>>

JobsIn(report) == {report[i].job : i \in DOMAIN report}

\* The queue's jobs that no van placed and none turned down.
Leftovers ==
    {[job |-> j, reason |-> IF \E t \in DOMAIN routes : Qualified(t, j)
                            THEN "limit" ELSE "unqualified"] :
        j \in Pool \ (Placed \union JobsIn(unplaced))}

\* Mutant of Settled: a job that a later van took stays on the report.
SettledKeepsStale(flags) ==
    FoldLeft(LAMBDA kept, u : IF u.job \in JobsIn(kept) THEN kept ELSE Append(kept, u),
             << >>, flags)

\* Flags of jobs that a later van took are dropped; of several flags the first counts.
Settled(flags) ==
    FoldLeft(LAMBDA kept, u : IF u.job \in Placed \union JobsIn(kept) THEN kept ELSE Append(kept, u),
             << >>, flags)

\* The result.  What is left over is reported after what was turned down.
Finish ==
    /\ phase = "next"
    /\ waiting = {} \/ Cardinality(DOMAIN routes) >= Max({1, config.maxRoutes})
    /\ unplaced' = Settled(unplaced \o SetToSeq(Leftovers))
    /\ phase' = "planned"
    /\ UNCHANGED <<board, absent, config, waiting, van, own, stops, cursor, point, driven,
                   rejected, routes>>

-----------------------------------------------------------------------------
(* Applying the plan *)

StopsOfPlan == UNION {{<<t, routes[t][i]>> : i \in DOMAIN routes[t]} : t \in DOMAIN routes}

Moved(j) == CHOOSE s \in StopsOfPlan : s[2].job = j

\* The final layout: every stop on its row, its start clamped to the day.
Layout ==
    [j \in Job |->
        IF j \in Placed
        THEN [board[j] EXCEPT !.tech = Moved(j)[1],
                  !.start = Max({0, Min({Moved(j)[2].start, TotalBlocks - board[j].span})})]
        ELSE board[j]]

Overlap(layout, j, k) ==
    /\ layout[j].tech = layout[k].tech /\ ~ layout[k].complete
    /\ layout[j].start < layout[k].start + layout[k].span
    /\ layout[k].start < layout[j].start + layout[j].span

Rejected ==
    \/ \E s \in StopsOfPlan : s[1] \in absent \/ ~ Qualified(s[1], s[2].job)
    \/ \E j \in Placed : \E k \in Job \ {j} : Overlap(Layout, j, k)

\* All or nothing: nothing mutates before the whole layout is checked.
ApplyRoutes ==
    /\ phase = "planned" /\ Placed # {}
    /\ IF Rejected
       THEN phase' = "rejected" /\ UNCHANGED board
       ELSE phase' = "applied" /\ board' = Layout
    /\ UNCHANGED <<absent, config, waiting, van, own, stops, cursor, point, driven, rejected,
                   unplaced, routes>>

Next ==
    \/ \E t \in Tech : OpenRoute(t)
    \/ Resequence \/ Fill \/ CloseRoute \/ Finish \/ ApplyRoutes

Spec == Init /\ [][Next]_vars /\ WF_vars(Next)

-----------------------------------------------------------------------------
(* Properties *)

AllRoutes == {routes[t] : t \in DOMAIN routes} \union {stops}

\* A route can be driven: each stop ends in the day and leaves whole blocks for the drive
\* to the next, whatever mix of existing and new work it sequences.
RouteIsDrivable ==
    \A r \in AllRoutes : \A i \in DOMAIN r :
        LET s == r[i] IN
        /\ s.start + board[s.job].span <= TotalBlocks
        /\ i > 1 => s.start >= r[i - 1].start + board[r[i - 1].job].span + Gap(s.leg)

\* No job is on two routes or twice on one; new work goes to a van with the skill that is
\* not on leave, within the limits of the settings.
RoutesKeepLimits ==
    /\ \A t, u \in DOMAIN routes : t # u => JobsOf(routes[t]) \cap JobsOf(routes[u]) = {}
    /\ \A r \in AllRoutes : IsInjective([i \in DOMAIN r |-> r[i].job])
    /\ Cardinality(DOMAIN routes) <= Max({1, config.maxRoutes})
    /\ \A t \in DOMAIN routes :
          LET new == SelectSeq(routes[t], LAMBDA s : s.new) IN
          /\ t \notin absent /\ \A j \in JobsOf(new) : Qualified(t, j)
          /\ new # << >> => Work(routes[t]) <= config.maxMinutes
                                - MapThenSumSet(LAMBDA i : routes[t][i].leg, DOMAIN routes[t])
                            /\ Len(routes[t]) <= config.maxTasks

\* Why a job may be on the report: nobody who drives has its skill; whoever could have
\* taken it had a full route; or somebody who could have taken it turned it down.
ReasonHolds(u) ==
    LET able == {t \in DOMAIN routes : Qualified(t, u.job)} IN
    CASE u.reason = "unqualified" -> able = {}
      [] u.reason = "limit" -> able # {} /\ \A t \in able : Len(routes[t]) >= config.maxTasks
      [] OTHER -> able # {}

\* Nothing of the queue disappears: when the plan is made, each of the queue's jobs is
\* either on a route or on the report, once and for a reason that holds, and nothing else
\* is; when it is applied, the report is the queue.
PlanAccountsForJobs ==
    phase \in {"planned", "rejected", "applied"} =>
        LET new == {s[2].job : s \in {x \in StopsOfPlan : x[2].new}} IN
        /\ JobsIn(unplaced) \cap new = {}
        /\ Pool = IF phase = "applied" THEN JobsIn(unplaced) ELSE JobsIn(unplaced) \union new
        /\ IsInjective([i \in DOMAIN unplaced |-> unplaced[i].job])
        /\ \A i \in DOMAIN unplaced : ReasonHolds(unplaced[i])

\* A plan is turned down only when a day that was sequenced anew did not hold all the work
\* its van has, or holds work the van has not the skill for; and a plan that is applied
\* leaves none of its stops on top of an open job.
PlanApplies ==
    /\ phase = "rejected" =>
          /\ config.scope = "all"
          /\ \E t \in DOMAIN routes : \E j \in Existing(t) :
                j \notin JobsOf(routes[t]) \/ ~ Qualified(t, j)
    /\ phase = "applied" =>
          \A j \in Placed, k \in Job : j # k => ~ Overlap(board, j, k)

RoutesAreSound ==
    RouteIsDrivable /\ RoutesKeepLimits /\ PlanAccountsForJobs /\ PlanApplies

\* The comment of blocksForTravel: "Every leg reserves at least one 30-minute block", the
\* leg from the van's existing work to the first stop appended to it included.
EveryLegIsReserved ==
    \A t \in DOMAIN routes : config.scope = "unassigned" /\ phase # "applied" =>
        \A i \in DOMAIN routes[t], j \in Existing(t) : routes[t][i].start > EndOf(j)

=============================================================================
