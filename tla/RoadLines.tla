------------------------------ MODULE RoadLines ------------------------------
(* What the dispatch map draws over its tiles: a line per crew member that is straight  *)
(* until road geometry lands (features/map/MapLibreView.tsx, lib/roadShape.ts), the     *)
(* snapped trail of the selected van.  Answers arrive in any order, beside changes of    *)
(* the board, pings of the vans and changes of the selection.                           *)
EXTENDS Integers, FiniteSets, Sequences

CONSTANTS
    Crew, Boards,  \* the crew in the order of the board, and the stops of each, as places
    Spot, Nowhere,
    Trails,        \* paths of the vans that may be selected
    Attempts,      \* SHAPE_ATTEMPTS
    MaxLineChanges \* bound on changes of the board, positions and the selection

VARIABLES
    plans, origin,           \* stops and position per crew member
    timer,                   \* the debounce is running
    inflight,                \* chains being asked for, with the attempt: [chains -> 1..Attempts]
    shapeCache,              \* chains whose road geometry is known
    fired, batches,          \* firings of the debounce, and by their number those that have not
                             \* landed: [chains -> "wait", "road" or "null"]
    shapes, sources,         \* roadShapes and roadShapeSources
    roadless,                \* history: chains some batch was told "null" about
    vanTrail, snap, snapped, \* the trail shown, the one being snapped, those snapped
    lineChanges

roadVars  == <<plans, origin, timer, inflight, shapeCache, fired, batches, shapes, sources, roadless>>
trailVars == <<vanTrail, snap, snapped>>
lineVars == <<roadVars, trailVars, lineChanges>>

Without(f, k) == [x \in DOMAIN f \ {k} |-> f[x]]
NoChains == [x \in {} |-> Nowhere]

\* A line starts at the van, when its position is known, and follows the stops.
ChainOf(p, o, t) == IF o[t] = Nowhere THEN p[t] ELSE <<o[t]>> \o p[t]
Tech == {Crew[i] : i \in DOMAIN Crew}
RenderChains(p, o) ==
    SelectSeq([i \in DOMAIN Crew |-> ChainOf(p, o, Crew[i])], LAMBDA chain : Len(chain) >= 2)
In(list) == {list[i] : i \in DOMAIN list}
Chains == In(RenderChains(plans, origin))
Degenerate(chain) == \A i \in DOMAIN chain : chain[i] = chain[1]

LinesInit ==
    /\ plans \in Boards /\ origin = [t \in Tech |-> Nowhere] /\ timer = (Chains # {})
    /\ inflight = NoChains /\ shapeCache = {} /\ fired = 0 /\ batches = NoChains
    /\ shapes = {} /\ sources = NoChains /\ roadless = {}
    /\ vanTrail = Nowhere /\ snap = Nowhere /\ snapped = {}
    /\ lineChanges = 0

LineChange == lineChanges < MaxLineChanges /\ lineChanges' = lineChanges + 1

-----------------------------------------------------------------------------
(* Road geometry *)

\* A change of the chains or of their order (chainsSignature) re-arms the debounce; a poll
\* that leaves them alone does not.
Rearm(p, o) ==
    /\ plans' = p /\ origin' = o
    /\ timer' = IF RenderChains(p, o) = RenderChains(plans, origin) THEN timer
                ELSE RenderChains(p, o) # << >>
    /\ UNCHANGED <<inflight, shapeCache, fired, batches, shapes, sources, roadless>>

ChangeBoard == LineChange /\ \E p \in Boards \ {plans} : Rearm(p, origin)
PingLine(t) ==
    /\ LineChange
    /\ \E o \in Spot \ {origin[t]} : Rearm(plans, [origin EXCEPT ![t] = o])

\* A batch lands as a whole and at once when its last chain has settled (Promise.all),
\* earlier batches first.  The snap of the trail starts over when the labels change.
Label(outcome) == IF outcome = "road" THEN "road" ELSE "straight-line"
Settled(batch) == \A c \in DOMAIN batch : batch[c] # "wait"
Latest(numbers) == CHOOSE i \in numbers : \A k \in numbers : k <= i
Land(all) ==
    LET done    == {i \in DOMAIN all : Settled(all[i])}
        With(c) == {i \in done : c \in DOMAIN all[i]}
        told    == UNION {DOMAIN all[i] : i \in done}
    IN  /\ batches' = [i \in DOMAIN all \ done |-> all[i]]
        /\ shapes' = shapes \cup {c \in told : \E i \in With(c) : all[i][c] = "road"}
        /\ sources' = [c \in DOMAIN sources \cup told |->
                         IF c \in told THEN Label(all[Latest(With(c))][c]) ELSE sources[c]]
        /\ snap' = IF sources' # sources THEN Nowhere ELSE snap
        /\ UNCHANGED <<plans, origin, vanTrail, snapped, lineChanges>>

\* fetchRoadShape: known, shared with a running ask, degenerate, or asked for.
Fetched(chain) ==
    IF chain \in shapeCache THEN "road"
    ELSE IF chain \notin DOMAIN inflight /\ Degenerate(chain) THEN "null" ELSE "wait"
FireDebounce ==
    /\ timer /\ timer' = FALSE /\ fired' = fired + 1
    /\ Land([i \in DOMAIN batches \cup {fired'} |->
                IF i = fired' THEN [c \in Chains |-> Fetched(c)] ELSE batches[i]])
    /\ inflight' = [c \in DOMAIN inflight \cup {d \in Chains : Fetched(d) = "wait"} |->
                        IF c \in DOMAIN inflight THEN inflight[c] ELSE 1]
    /\ roadless' = roadless \cup {c \in Chains : Fetched(c) = "null"} /\ UNCHANGED shapeCache

\* Everyone who waits for the chain is told; the ask is no longer in flight.
Settle(chain, outcome) ==
    /\ inflight' = Without(inflight, chain)
    /\ Land([i \in DOMAIN batches |->
                [c \in DOMAIN batches[i] |->
                    IF c = chain /\ batches[i][c] = "wait" THEN outcome ELSE batches[i][c]]])
    /\ UNCHANGED <<timer, fired>>
ShapeLands(chain) ==
    /\ Settle(chain, "road")
    /\ shapeCache' = shapeCache \cup {chain} /\ UNCHANGED roadless
\* The proxy answers without geometry, or the last attempt fails.
ShapeMissing(chain) ==
    /\ Settle(chain, "null")
    /\ roadless' = roadless \cup {chain} /\ UNCHANGED shapeCache
RetryShape(chain) ==
    /\ inflight[chain] < Attempts
    /\ inflight' = [inflight EXCEPT ![chain] = @ + 1]
    /\ UNCHANGED <<plans, origin, timer, shapeCache, fired, batches, shapes, sources, roadless, trailVars,
                   lineChanges>>

-----------------------------------------------------------------------------
(* The trail of the selected van *)

ChangeTrail ==
    /\ LineChange /\ \E t \in (Trails \cup {Nowhere}) \ {vanTrail} : vanTrail' = t
    /\ snap' = Nowhere
    /\ UNCHANGED <<roadVars, snapped>>
AskSnap ==
    /\ vanTrail # Nowhere /\ snap = Nowhere /\ vanTrail \notin snapped
    /\ (vanTrail \in DOMAIN sources => sources[vanTrail] # "road")
    /\ snap' = vanTrail
    /\ UNCHANGED <<roadVars, vanTrail, snapped, lineChanges>>
SnapLands ==
    /\ snap # Nowhere
    /\ snapped' \in {snapped, snapped \cup {snap}} /\ snap' = Nowhere
    /\ UNCHANGED <<roadVars, vanTrail, lineChanges>>

LinesNext ==
    \/ UNCHANGED trailVars /\ (ChangeBoard \/ \E t \in Tech : PingLine(t))
    \/ FireDebounce
    \/ \E c \in DOMAIN inflight : ShapeLands(c) \/ ShapeMissing(c) \/ RetryShape(c)
    \/ ChangeTrail \/ AskSnap \/ SnapLands

LinesSpec == LinesInit /\ [][LinesNext]_lineVars

-----------------------------------------------------------------------------
\* A chain on the map is waiting for the debounce, part of a batch that has not landed, or
\* labelled: none is forgotten by a change of the board in between (MapLibreView.tsx, the
\* effect of chainsSignature).
EveryChainIsAsked ==
    \A c \in Chains : timer \/ c \in DOMAIN sources \/ \E i \in DOMAIN batches : c \in DOMAIN batches[i]

\* A line is drawn solid only with road geometry, and dashed over road geometry only when
\* an ask that failed landed in a batch after the one that succeeded.
SolidIsRoad ==
    /\ \A c \in DOMAIN sources : sources[c] = "road" => c \in shapes
    /\ \A c \in shapes : sources[c] = "road" \/ c \in roadless
    /\ shapes \subseteq shapeCache

\* The legend's promise without the exception: geometry of roads is drawn solid.
SolidMeansRoad == \A c \in shapes : sources[c] = "road"

\* A trail is never snapped under the name of another.
SnapFollowsTrail == snap \in {Nowhere, vanTrail}

\* What the map draws was asked for, belongs to what it is drawn for, and says what it is.
LinesAreHonest == EveryChainIsAsked /\ SolidIsRoad /\ SnapFollowsTrail

=============================================================================
