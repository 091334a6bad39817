----------------------------- MODULE RouteOrder -----------------------------
(* The order in which the dispatch map draws a technician's stops: computeRouteOrder and   *)
(* refineTwoOpt of hq lib/crewline.ts, greedy by straight lines, then pairs of legs are    *)
(* flipped in passes that go on with the order they have just changed.                     *)
EXTENDS Integers, FiniteSets, SequencesExt

CONSTANTS Stops,          \* bound: stops a technician has on the day
    Spot, Far,            \* places on the map and the straight line between two of them
    None, MaxPasses

VARIABLES at, origin,     \* where the listed stops are; the last known position or None
    greedy, order,        \* the order before and after flips
    left,                 \* greedy: the stops not visited yet, as the last sort has left them
    i, j, improved, passes, refined    \* the loops, and whether they have ended

siteVars == <<at, origin>>
loopVars == <<i, j, improved, passes, refined>>
vars == <<siteVars, greedy, order, left, loopVars>>

Stop == DOMAIN at
Init ==
    /\ at \in UNION {[1..n -> Spot] : n \in 0..Stops} /\ origin \in Spot \cup {None}
    /\ greedy = <<>> /\ order = <<>> /\ left = [s \in Stop |-> s]
    /\ i = 1 /\ j = 2 /\ improved = FALSE /\ passes = 1 /\ refined = (Cardinality(Stop) < 4)    \* fewer stay as they are

\* Without a known position the first stop of the list is where the day starts.
Cursor == IF greedy # <<>> THEN at[Last(greedy)] ELSE IF origin # None THEN origin ELSE at[1]
\* What is left is sorted anew before each visit; the sort is stable.
Before(s, t) ==
    LET place(u) == CHOOSE k \in DOMAIN left : left[k] = u
    IN  \/ Far[Cursor, at[s]] < Far[Cursor, at[t]]
        \/ Far[Cursor, at[s]] = Far[Cursor, at[t]] /\ place(s) < place(t)
Visit ==
    /\ left # <<>>
    /\ LET remaining == SetToSortSeq(ToSet(left), Before)
       IN  left' = Tail(remaining) /\ greedy' = Append(greedy, Head(remaining))
    /\ order' = greedy'
    /\ UNCHANGED <<siteVars, loopVars>>

-----------------------------------------------------------------------------
Leg(s, k) ==
    IF k > 1 THEN Far[at[s[k - 1]], at[s[k]]] ELSE IF origin # None THEN Far[origin, at[s[1]]] ELSE 0
TourLength(s) ==
    LET upTo[k \in 0..Len(s)] == IF k = 0 THEN 0 ELSE upTo[k - 1] + Leg(s, k)
    IN  upTo[Len(s)]

Flipped(s, a, b) == [k \in DOMAIN s |-> IF k \in a..b THEN s[a + b - k] ELSE s[k]]
Shorter(s, a, b) == TourLength(Flipped(s, a, b)) < TourLength(s)

\* A flip that shortens the tour is taken at once, and the pass goes on from there.
TryFlip ==
    /\ left = <<>> /\ ~refined /\ i < Len(order)
    /\ IF Shorter(order, i, j) THEN order' = Flipped(order, i, j) /\ improved' = TRUE
       ELSE UNCHANGED <<order, improved>>
    /\ IF j < Len(order) THEN j' = j + 1 /\ UNCHANGED i ELSE i' = i + 1 /\ j' = i + 2
    /\ UNCHANGED <<siteVars, greedy, left, passes, refined>>
EndPass ==
    /\ left = <<>> /\ ~refined /\ i = Len(order)
    /\ IF improved /\ passes < MaxPasses
       THEN passes' = passes + 1 /\ i' = 1 /\ j' = 2 /\ improved' = FALSE /\ UNCHANGED refined
       ELSE refined' = TRUE /\ UNCHANGED <<i, j, improved, passes>>
    /\ UNCHANGED <<siteVars, greedy, order, left>>

Next == Visit \/ TryFlip \/ EndPass

Spec == Init /\ [][Next]_vars

-----------------------------------------------------------------------------
Finished == left = <<>> /\ refined

\* The plan visits every stop once and is never longer than the greedy one on the way; with
\* at most as many stops as the check has, no flip would shorten it further when it ends,
\* so that the cap on the passes takes nothing away.
RouteIsSound ==
    /\ left = <<>> => ToSet(order) = Stop /\ IsInjective(order) /\ TourLength(order) <= TourLength(greedy)
    /\ Finished => ~improved /\ (Len(order) >= 4 => \A a, b \in Stop : a < b => ~Shorter(order, a, b))

\* What the code does not give.  "The start (origin or first stop) stays fixed" (crewline.ts).
FirstStopStays == Finished /\ origin = None => order[1] = greedy[1]
=============================================================================
