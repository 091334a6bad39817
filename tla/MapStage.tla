------------------------------ MODULE MapStage ------------------------------
(* The stage of the dispatch map: the ladder of basemap styles with its backstop        *)
(* (lib/basemapLadder.ts), the camera that frames the day, a crew member or a job       *)
(* (features/map/MapLibreView.tsx), and the drive-time shells around the selected job   *)
(* (features/crewline/MapSurface.tsx).  The lines of RoadLines are drawn on it and read  *)
(* nothing of it, so a behaviour of the map is one of each.                              *)
EXTENDS RoadLines

CONSTANTS
    Theme, Styles,   \* the colourways; how many candidates each has: [Theme -> Nat]
    Passes,          \* MAX_STYLE_LADDER_PASSES
    Day, MapJob, Van, Unselected,
    MaxStageChanges, \* bound on what the dispatcher and the polls do
    MaxLate          \* bound on fatal errors of a style that had loaded

VARIABLES
    theme, rung, styleLoaded, mapError, \* rung: the style and the pass tried
    mounted,                            \* history: the mounted map has become ready
    failedRungs,                        \* history: rungs that failed since the ladder was reset
    lateErrors,
    camera,                             \* what the mounted map shows: <<"region">>, <<"day", d>>, ...
    fittedDay, fittedVan, pannedJob,    \* the refs that keep the camera from jumping
    remounted,                          \* history: the map was remounted after the camera had been set
    spent,                              \* history: days that were framed while nothing on them had a place
    recentered,                         \* history: a poll moved the camera off what it had framed
    day, selected, job, located,        \* the selection; jobs of each day with a place
    minutes, shells, asking, reachCache,
    staleReach,                         \* history: the last ask failed and other shells stayed
    stageChanges

ladderVars == <<theme, rung, styleLoaded, mapError, mounted, failedRungs, lateErrors>>
cameraVars == <<camera, fittedDay, fittedVan, pannedJob, remounted, spent, recentered>>
shownVars  == <<day, selected, job, located>>
reachVars  == <<minutes, shells, asking, reachCache, staleReach>>
stageVars == <<ladderVars, cameraVars, shownVars, reachVars, stageChanges>>

\* Every theme has candidates (lib/tileProvider.ts).
ASSUME StageAssumption ==
    /\ Passes \in Nat \ {0} /\ Styles \in [Theme -> Nat \ {0}]
    /\ Unselected \notin Day \cup [style : Nat, pass : Nat]

FirstRung == [style |-> 1, pass |-> 1]
Region == <<"region">>

StageInit ==
    /\ theme \in Theme /\ rung = FirstRung /\ styleLoaded = FALSE /\ mapError = FALSE
    /\ mounted = FALSE /\ failedRungs = {} /\ lateErrors = 0
    /\ camera = Region /\ fittedDay = Unselected /\ fittedVan = Unselected /\ pannedJob = Unselected
    /\ remounted = FALSE /\ spent = {} /\ recentered = FALSE
    /\ day \in Day /\ selected = Unselected /\ job = Unselected
    /\ located \in [Day -> SUBSET MapJob]
    /\ minutes = FALSE /\ shells = Unselected /\ asking = Unselected /\ reachCache = {}
    /\ staleReach = FALSE
    /\ stageChanges = 0

StageChange == stageChanges < MaxStageChanges /\ stageChanges' = stageChanges + 1

-----------------------------------------------------------------------------
(* The camera: its three effects run in this order after every render. *)

\* A ready map frames the van, then the day, then pans to the job, each once.
FitVan(ready, d, v, at) == ready /\ v # Unselected /\ at[d] # {} /\ fittedVan # v
FitDay(ready, d, v, j) == ready /\ v = Unselected /\ j = Unselected /\ fittedDay # d
PanJob(ready, d, j, at) == ready /\ j # Unselected /\ j \in at[d] /\ pannedJob # j
Frame(ready, d, v, j, at) ==
    /\ fittedVan' = IF FitVan(ready, d, v, at) THEN v ELSE fittedVan
    /\ fittedDay' = IF FitDay(ready, d, v, j) THEN d ELSE fittedDay
    /\ spent' = IF FitDay(ready, d, v, j) /\ at[d] = {} THEN spent \cup {d} ELSE spent
    /\ pannedJob' = IF j = Unselected THEN Unselected
                  ELSE IF PanJob(ready, d, j, at) THEN j ELSE pannedJob
    /\ camera' = IF PanJob(ready, d, j, at) THEN <<"job", j>>
                 ELSE IF FitDay(ready, d, v, j) /\ at[d] # {} THEN <<"day", d>>
                 ELSE IF FitVan(ready, d, v, at) THEN <<"van", v>> ELSE camera

\* The map is keyed on theme and rung: another one starts over at the region.  The refs
\* outlive it, and nothing that the effects depend on has changed.
RemountMap ==
    /\ mounted' = FALSE /\ camera' = Region
    /\ remounted' = (remounted \/ camera # Region)
    /\ UNCHANGED <<fittedDay, fittedVan, pannedJob, spent, recentered>>

Ready == styleLoaded /\ ~mapError

-----------------------------------------------------------------------------
(* The ladder *)

\* Mutant of Advance: the ladder is climbed once.
AdvanceOnce(r, n) == IF r.style < n THEN [r EXCEPT !.style = @ + 1] ELSE Unselected

\* advanceStyleLadder
Advance(r, n) ==
    IF r.style < n THEN [r EXCEPT !.style = @ + 1]
    ELSE IF r.pass < Passes THEN [style |-> 1, pass |-> r.pass + 1] ELSE Unselected

Climb(loaded) ==
    LET next == Advance(rung, Styles[theme])
    IN  /\ failedRungs' = failedRungs \cup {rung}
        /\ styleLoaded' = loaded
        /\ IF next = Unselected
           THEN /\ mapError' = TRUE /\ mounted' = FALSE /\ rung' = rung
                /\ UNCHANGED cameraVars
           ELSE /\ rung' = next /\ UNCHANGED mapError /\ RemountMap
        /\ UNCHANGED <<theme, shownVars, reachVars, stageChanges>>

\* onLoad
StyleLoads ==
    /\ ~mapError /\ ~mounted
    /\ mounted' = TRUE /\ styleLoaded' = TRUE
    /\ IF styleLoaded THEN UNCHANGED cameraVars
       ELSE Frame(TRUE, day, selected, job, located) /\ UNCHANGED <<remounted, recentered>>
    /\ UNCHANGED <<theme, rung, mapError, failedRungs, lateErrors, shownVars, reachVars, stageChanges>>
\* The backstop runs only while no style is known to have loaded.
TimeOut == ~styleLoaded /\ ~mapError /\ Climb(FALSE) /\ UNCHANGED lateErrors
\* A fatal error advances the ladder, but what it knows of the old style stays.
FatalError ==
    /\ ~mapError
    /\ IF mounted THEN lateErrors < MaxLate /\ lateErrors' = lateErrors + 1 ELSE UNCHANGED lateErrors
    /\ Climb(styleLoaded)

Reset(t) ==
    /\ theme' = t /\ rung' = FirstRung /\ styleLoaded' = FALSE /\ mapError' = FALSE
    /\ failedRungs' = {}
    /\ RemountMap
    /\ UNCHANGED <<lateErrors, shownVars, reachVars>>
ChangeTheme == StageChange /\ \E t \in Theme \ {theme} : Reset(t)
RetryMap == mapError /\ StageChange /\ Reset(theme)

-----------------------------------------------------------------------------
(* The selection, the polls, and the shells *)

ReachKey(j, at, m) == IF m /\ j # Unselected /\ (\E e \in Day : j \in at[e]) THEN j ELSE Unselected
Key == ReachKey(job, located, minutes)

\* The effect of a change: an ask under way is forgotten, shells stay until others land.
Reach(j, at, m) ==
    LET key == ReachKey(j, at, m)
    IN  /\ shells' = IF key = Unselected \/ key \in reachCache THEN key ELSE shells
        /\ asking' = IF key = Unselected \/ key \in reachCache THEN Unselected ELSE key
        /\ staleReach' = (staleReach /\ asking' # Unselected)
        /\ UNCHANGED reachCache
Show(d, v, j, at) ==
    /\ day' = d /\ selected' = v /\ job' = j /\ located' = at
    /\ Frame(Ready, d, v, j, at)
    /\ UNCHANGED <<ladderVars, remounted>>

ChangeDay ==
    /\ StageChange /\ UNCHANGED <<recentered, reachVars>>
    /\ \E d \in Day \ {day} : Show(d, selected, job, located)
SelectVan ==
    /\ StageChange /\ UNCHANGED <<recentered, reachVars>>
    /\ \E v \in (Van \cup {Unselected}) \ {selected} : Show(day, v, job, located)
SelectJob ==
    /\ StageChange
    /\ \E j \in (MapJob \cup {Unselected}) \ {job} :
        Show(day, selected, j, located) /\ Reach(j, located, minutes)
        /\ UNCHANGED <<minutes, recentered>>
\* A poll replaces the jobs, and with them the selected one.
StagePoll ==
    /\ StageChange
    /\ \E j \in MapJob, d \in Day :
        LET at == [located EXCEPT ![d] = @ \cup {j}]
        IN  Show(day, selected, job, at) /\ Reach(job, at, minutes) /\ UNCHANGED minutes
    /\ recentered' =
         (recentered \/ (camera' # camera
                          /\ camera' \in {<<"job", pannedJob>>, <<"van", fittedVan>>}))
ToggleReach ==
    /\ StageChange /\ job # Unselected
    /\ minutes' = ~minutes /\ Reach(job, located, ~minutes)
    /\ UNCHANGED <<ladderVars, cameraVars, shownVars>>

ReachLands ==
    /\ asking # Unselected
    /\ reachCache' = reachCache \cup {asking} /\ shells' = asking
    /\ asking' = Unselected /\ staleReach' = FALSE
    /\ UNCHANGED <<ladderVars, cameraVars, shownVars, minutes, stageChanges>>
\* Nothing is set when the ask fails.
ReachFails ==
    /\ asking # Unselected /\ asking' = Unselected
    /\ staleReach' = (shells # Unselected)
    /\ UNCHANGED <<ladderVars, cameraVars, shownVars, minutes, shells, reachCache, stageChanges>>

StageNext ==
    \/ StyleLoads \/ TimeOut \/ FatalError \/ ChangeTheme \/ RetryMap
    \/ ChangeDay \/ SelectVan \/ SelectJob \/ StagePoll \/ ToggleReach
    \/ ReachLands \/ ReachFails

StageSpec == StageInit /\ [][StageNext]_stageVars

-----------------------------------------------------------------------------
\* The map is given up only after every candidate has failed in every pass, and a map that
\* is not ready has the backstop running, unless it follows a fatal error of a style that
\* had loaded (MapLibreView.tsx, the backstop and onError).
LadderIsHonest ==
    /\ mapError => failedRungs = [style : 1..Styles[theme], pass : 1..Passes]
    /\ ~mounted /\ ~mapError => ~styleLoaded \/ lateErrors > 0

\* "If the current style never becomes ready within the timeout, advance"
\* (MapLibreView.tsx:142): the backstop runs for every map that is not ready.
BackstopCoversEveryStyle == ~mounted /\ ~mapError => ~styleLoaded

\* Shells shown are those of the selected job, unless it is being asked for or the last
\* ask failed (MapSurface.tsx, the effect of reachMin and reachAnchor).
ShellsFollowSelection ==
    /\ asking \in {Unselected, Key}
    /\ shells \in {Unselected, Key} \/ asking = Key \/ staleReach

\* "Unreachable - shells simply stay off" (MapSurface.tsx:154).
UnreachableShellsStayOff == asking = Unselected => shells \in {Unselected, Key}

\* A ready map with nothing selected shows work of some day and not the region, unless the
\* day was framed while it was empty or the map was remounted, and a poll never re-centres
\* what was framed before (MapLibreView.tsx, the three framing effects and their refs).
CameraIsCalm ==
    /\ Ready /\ mounted /\ selected = Unselected /\ job = Unselected /\ camera = Region =>
        remounted \/ day \in spent
    /\ ~recentered

\* "The hardcoded Melbourne view is only the empty-day fallback" (MapLibreView.tsx:411).
RegionOnlyForEmptyDays ==
    Ready /\ mounted /\ selected = Unselected /\ job = Unselected /\ camera = Region => located[day] = {}

\* The stage gives up last, keeps still, and shows the reach of what is selected.
StageIsHonest == LadderIsHonest /\ ShellsFollowSelection /\ CameraIsCalm

-----------------------------------------------------------------------------
(* The map: its stage and the lines on it *)

MapSpec == LinesSpec /\ StageSpec

\* What the map draws and frames: a solid line is a road of the van's present stops, an
\* approximate one says so, and the camera moves by the dispatcher's choices only
\* (MapLibreView.tsx, roadShape.ts, MapSurface.tsx).
MapIsHonest == LinesAreHonest /\ StageIsHonest

=============================================================================
