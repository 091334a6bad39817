----------------------------- MODULE MCLiveMap -----------------------------
(* Instances for TLC of the console's live feed, its map and its crew board, which do  *)
(* not call each other.  A behaviour shows one of them, chosen at its start; the       *)
(* others keep their initial states, so the run covers the sum of their states and not *)
(* the product.  Only the feed has a scheduler to be fair.                             *)
EXTENDS LiveFeed, MapStage, CrewBoard

CONSTANTS
    Tech1, Tech2, Place1, Place2,                           \* RoadLines
    Theme1, Theme2,                                         \* MapStage
    Sam1, Sam2, Kim                                         \* CrewBoard

VARIABLE view

-----------------------------------------------------------------------------
\* Two vans with stops, the same stops exchanged, or one with none.
Standing == [t \in Tech |-> IF t = Tech1 THEN <<>> ELSE <<Place1>>]
Rounds   == {[t \in Tech |-> IF t = Tech1 THEN <<Place1, Place2>> ELSE <<Place2, Place1>>],
             [t \in Tech |-> IF t = Tech1 THEN <<Place2, Place1>> ELSE <<Place1, Place2>>],
             Standing}
Convoy   == <<Tech1, Tech2>>
Paths    == {<<Place2, Place1>>}

Ladders == [t \in Theme |-> IF t = Theme1 THEN 1 ELSE 2]

\* Two technicians of one name beside a third; two jobs at two sites, two ticks apart.
Names  == [m \in Member |-> IF m = Kim THEN "kim" ELSE "sam"]
Sites  == {"a", "b"}
Places == <<"a", "b">>
Drives == [p \in Sites \X Sites |-> IF p[1] = p[2] THEN 0 ELSE 2]
Visits == {[start |-> 20, end |-> 34], [start |-> 33, end |-> 34], [start |-> 34, end |-> 36],
           [start |-> 128, end |-> 131]}

-----------------------------------------------------------------------------
View == {"feed", "lines", "stage", "crew"}

\* Only the view that is shown may start in more than one state.
LiveMapInit ==
    /\ view \in View
    /\ FeedInit /\ (view # "feed" => flagged)
    /\ LinesInit /\ (view # "lines" => plans = Standing)
    /\ StageInit
    /\ view # "stage" => theme = Theme1 /\ day = (CHOOSE d \in Day : TRUE)
                         /\ located = [d \in Day |-> {}]
    /\ CrewInit

FeedStep ==
    /\ view = "feed" /\ FeedNext
    /\ UNCHANGED <<lineVars, stageVars, crewVars>>
LinesStep ==
    /\ view = "lines" /\ LinesNext
    /\ UNCHANGED <<liveVars, stageVars, crewVars>>
StageStep ==
    /\ view = "stage" /\ StageNext
    /\ UNCHANGED <<liveVars, lineVars, crewVars>>
\* A device with another's van is one of the first two acts.
CrewStep ==
    /\ view = "crew" /\ CrewNext /\ (misfits' = {} \/ crewActs' <= 2)
    /\ UNCHANGED <<liveVars, lineVars, stageVars>>

LiveMapNext ==
    /\ \/ FeedStep \/ LinesStep \/ StageStep \/ CrewStep
    /\ UNCHANGED view

\* The fairness of LiveFeed, where the feed is what the behaviour shows.
Shows(A) == view = "feed" /\ A
FeedFairness ==
    /\ \A n \in Socket : WF_liveVars(Shows(Heartbeat(n))) /\ WF_liveVars(Shows(HeartbeatAnswer(n)))
                         /\ WF_liveVars(Shows(RefuseSocket(n) \/ Subscribe(n)))
    /\ WF_liveVars(Shows(Poll)) /\ WF_liveVars(Shows(Hydrate))

LiveMapSpec ==
    /\ LiveMapInit
    /\ [][LiveMapNext]_<<view, liveVars, lineVars, stageVars, crewVars>>
    /\ FeedFairness

=============================================================================
