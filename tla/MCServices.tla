----------------------------- MODULE MCServices -----------------------------
(* Instances for TLC of the services of the API and of the console's planning          *)
(* algorithms, which do not call each other.  A behaviour exercises one of them,       *)
(* chosen at its start; the others keep their initial states, so the run covers the    *)
(* sum of their states and not the product.                                            *)
EXTENDS Team, Connections, Captures, Paperwork, MobileSync, JobThread, TLC

CONSTANTS
    Today,                                                  \* Paperwork
    HomeTeam, Message1, Message2,                           \* JobThread
    Caller, CacheCap, Address, MaxAsks,                     \* RoutingProxy
    Far, MaxStops, MaxPasses,                               \* RouteOrder
    Van1, Van2                                              \* RouteOptimizer

VARIABLES
    service,
    cache, ask, served, job, answers, audited, uses, asks, roadFaults,
    at, origin, greedy, order, left, first, second, improved, passes, refined,
    board, absent, config, waiting, van, own, stops, seat, point, driven, rejected, unplaced,
    planned, phase

teamVars == <<role, account, session, invite, lock, pc, op, about, as, requests,
              overtaken, unguarded>>
roadVars == <<cache, ask, served, job, answers, audited, uses, asks, roadFaults>>
orderVars == <<at, origin, greedy, order, left, first, second, improved, passes, refined>>
planVars == <<board, absent, config, waiting, van, own, stops, seat, point, driven, rejected,
              unplaced, planned, phase>>

\* Two addresses round to one cell of the proxy's cache.
Questions ==
    [shape |-> {<<"near1", "far">>, <<"near2", "far">>, <<"near1", "near2">>,
                <<"far", "away">>, <<"near1", "away">>},
     isochrones |-> {<<"near1">>, <<"near2">>}, reverse |-> {<<"near1">>},
     matrix |-> {<<"near1", "far">>}, snap |-> {<<"near1", "near2">>},
     geocode |-> {<<>>}, optimize |-> {<<>>}]
Cells == [near1 |-> "near", near2 |-> "near", far |-> "far", away |-> "away"]

Roads   == INSTANCE RoutingProxy WITH
    Asks <- Questions, CellOf <- Cells, Cap <- CacheCap, Configured <- TRUE,
    faults <- roadFaults, MaxFaults <- 1

-----------------------------------------------------------------------------
\* Straight lines between four places, three of which lie on one road: a at -9, b at 5 and
\* c at 16 of it, and d, 12 away from it at 0.
Between(p, q) ==
    CASE p = q -> 0
      [] {p, q} = {"a", "b"} -> 14
      [] {p, q} = {"a", "c"} -> 25
      [] {p, q} = {"a", "d"} -> 15
      [] {p, q} = {"b", "c"} -> 11
      [] {p, q} = {"b", "d"} -> 13
      [] {p, q} = {"c", "d"} -> 20
FarTable == [p \in {"a", "b", "c", "d"} \X {"a", "b", "c", "d"} |-> Between(p[1], p[2])]

Order == INSTANCE RouteOrder WITH
    Stops <- MaxStops, Spot <- {"a", "b", "c", "d"}, i <- first, j <- second

\* Three jobs on a day of five blocks: two of a kind, near or not, and one of any kind far
\* away; what the vans have does not overlap.
Tasks(places, priorities, needs) ==
    {t \in [tech : {Van1, Van2, None}, start : {0, 2}, span : {1, 3}, priority : priorities,
            skill : needs, site : places, complete : {FALSE}] :
        t.tech = None => t.start = 0}
Boards ==
    {b \in Tasks({"near"}, {1}, {FALSE}) \X Tasks({"near", "far"}, {1}, {FALSE})
            \X Tasks({"far"}, {0, 1}, BOOLEAN) :
        \A j, k \in 1..3 : j < k /\ b[j].tech = b[k].tech /\ b[j].tech # None =>
            b[j].start + b[j].span <= b[k].start \/ b[k].start + b[k].span <= b[j].start}
Settings == [scope : {"all", "unassigned"}, maxRoutes : {1, 2}, maxTasks : {2}, maxMinutes : {100}]
Minutes ==
    [leg \in {"depot", "near", "far"} \X {"depot", "near", "far"} |->
        IF leg[1] = leg[2] THEN 5 ELSE IF "depot" \in {leg[1], leg[2]} THEN 20 ELSE 40]

Planner == INSTANCE RouteOptimizer WITH
    Tech <- {Van1, Van2}, Job <- 1..3, Skilled <- {Van1}, Absences <- {{}, {Van1}},
    Site <- {"depot", "near", "far"}, Depot <- "depot", Legs <- Minutes, TotalBlocks <- 5,
    Board <- Boards, Config <- Settings, routes <- planned, cursor <- seat

-----------------------------------------------------------------------------
Service == {"team", "connections", "paperwork", "captures", "sync", "threads", "roads",
            "order", "plan"}

\* Only the service that is exercised may start in more than one state.
Chosen(s, start) == service = s \/ (service # s /\ start)

ServicesInit ==
    /\ service \in Service
    /\ Chosen("plan", /\ board = (CHOOSE b \in Boards : TRUE) /\ absent = {}
                      /\ config = (CHOOSE c \in Settings : TRUE))
    /\ Chosen("order", at = <<>> /\ origin = None)
    /\ Chosen("team", role = [p \in Person |-> "owner"]) /\ Chosen("connections", good = {})
    /\ Chosen("paperwork", openStops = Today)
    /\ Init /\ role[CHOOSE p \in Person : TRUE] = "owner" \* people are alike
    /\ LinkInit /\ PaperInit /\ CaptureInit /\ SyncInit
    /\ ThreadInit /\ routed = {HomeTeam}
    /\ Roads!Init /\ job.address = (CHOOSE a \in Address : TRUE)
    /\ Planner!Init /\ Order!Init

TeamStep ==
    /\ service = "team" /\ Next
    /\ UNCHANGED <<linkVars, paperVars, captureVars, syncVars, threadVars, roadVars,
                   orderVars, planVars>>
\* Two acts of the office, or one and a fault.
ConnectionStep ==
    /\ service = "connections" /\ LinkNext /\ linkActs' + linkFaults' <= MaxLinkActs
    /\ UNCHANGED <<teamVars, paperVars, captureVars, syncVars, threadVars, roadVars,
                   orderVars, planVars>>
\* A route that is planned again, or a crash.
PaperworkStep ==
    /\ service = "paperwork" /\ PaperNext /\ replans' + crashes' <= 1
    /\ UNCHANGED <<teamVars, linkVars, captureVars, syncVars, threadVars, roadVars,
                   orderVars, planVars>>
CaptureStep ==
    /\ service = "captures" /\ CaptureNext
    /\ UNCHANGED <<teamVars, linkVars, paperVars, syncVars, threadVars, roadVars,
                   orderVars, planVars>>
SyncStep ==
    /\ service = "sync" /\ SyncNext
    /\ UNCHANGED <<teamVars, linkVars, paperVars, captureVars, threadVars, roadVars,
                   orderVars, planVars>>
\* The messages are interchangeable: the first one is stored first.  Two changes of the
\* offices; or a fault, or as many of one message as use up its attempts.
ThreadStep ==
    /\ service = "threads" /\ ThreadNext
    /\ Message2 \in stored' => Message1 \in stored'
    /\ threadFaults' = 0 \/ office' = 0
    /\ threadFaults' <= 1 \/ Message2 \notin stored'
    /\ UNCHANGED <<teamVars, linkVars, paperVars, captureVars, syncVars, roadVars,
                   orderVars, planVars>>
\* Four questions, or three and a fault.
RoadStep ==
    /\ service = "roads" /\ Roads!Next /\ asks' + roadFaults' <= MaxAsks
    /\ UNCHANGED <<teamVars, linkVars, paperVars, captureVars, syncVars, threadVars, orderVars, planVars>>

OrderStep ==
    /\ service = "order" /\ Order!Next
    /\ UNCHANGED <<teamVars, linkVars, paperVars, captureVars, syncVars, threadVars, roadVars,
                   planVars>>
PlanStep ==
    /\ service = "plan" /\ Planner!Next
    /\ UNCHANGED <<teamVars, linkVars, paperVars, captureVars, syncVars, threadVars, roadVars,
                   orderVars>>

ServicesNext ==
    /\ \/ TeamStep \/ ConnectionStep \/ PaperworkStep \/ CaptureStep
       \/ SyncStep \/ ThreadStep \/ RoadStep \/ OrderStep \/ PlanStep
    /\ UNCHANGED service

ServicesSpec == ServicesInit /\ [][ServicesNext]_<<service, teamVars, linkVars, paperVars,
    captureVars, syncVars, threadVars, roadVars, orderVars, planVars>>

\* The proxy answers from its cache what was paid for the same question, keeps the answers
\* used last and audits every answer paid for; a job's coordinates are those of its address
\* (routes/routing.ts, the address edit of routes/jobs.ts).
RoadDataIsHonest == Roads!RoadDataIsHonest

\* What is proposed to the crews: an optimized day can be driven and the board accepts it,
\* and a reordered route has every stop once and is never longer than the greedy one
\* (lib/optimize.ts, actions.ts, lib/crewline.ts).
RoutesAreSound == Planner!RoutesAreSound /\ Order!RouteIsSound

=============================================================================
