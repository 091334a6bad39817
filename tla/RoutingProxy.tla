---------------------------- MODULE RoutingProxy ----------------------------
(* The proxy between the board and its provider of road data (routes/routing.ts), and  *)
(* the address edit of a job that calls the same provider inside a transaction         *)
(* (routes/jobs.ts).  Four endpoints remember answers in memory by the rounded cells   *)
(* of the points they were asked about; the provider is awaited between the miss and   *)
(* the store, so that two callers may pay for one key.  Every answer costs money.      *)
EXTENDS Integers, FiniteSets, SequencesExt

CONSTANTS
    Caller,          \* requests of the API under way
    Asks,            \* what each endpoint is asked: [Kind \cup Metered -> sets of point lists]
    CellOf,          \* the cell a point is rounded to
    Cap,             \* CACHE_MAX_ENTRIES
    Address, None,
    Configured,      \* ORS_API_KEY is set
    MaxAsks,         \* bound on the requests
    MaxFaults        \* bound on restarts and on answers that come too late

Kind    == {"shape", "matrix", "snap", "isochrones"}      \* endpoints with a cache
Metered == {"geocode", "reverse", "optimize"}             \* endpoints without

VARIABLES
    cache,           \* per kind the entries in insertion order: key and the points paid for
    ask,             \* per caller the request under way
    served,          \* the last answer sent: kind, points asked, points paid for
    job,             \* the job's address and the address its coordinates were found for
    answers,         \* per endpoint the answers the proxy has received
    audited,         \* per endpoint the audit events recorded
    uses,            \* history: per kind the keys by last use since the restart
    asks, faults

vars == <<cache, ask, served, job, answers, audited, uses, asks, faults>>

Idle == [pc |-> "idle", kind |-> None, about |-> <<>>]

Init ==
    /\ cache = [k \in Kind |-> <<>>] /\ uses = [k \in Kind |-> <<>>]
    /\ ask = [c \in Caller |-> Idle] /\ served = None
    /\ job \in [address : Address, found : {None}]
    /\ answers = [k \in Kind \cup Metered |-> 0] /\ audited = answers
    /\ asks = 0 /\ faults = 0

-----------------------------------------------------------------------------
\* dedupe: neighbours in one cell are one point.
Dedupe(points) ==
    LET Kept(i) == i = 1 \/ CellOf[points[i]] # CellOf[points[i - 1]]
        kept[i \in 0..Len(points)] ==
            IF i = 0 THEN <<>>
            ELSE IF Kept(i) THEN Append(kept[i - 1], points[i]) ELSE kept[i - 1]
    IN  kept[Len(points)]
Sent(kind, points) == IF kind \in {"shape", "matrix"} THEN Dedupe(points) ELSE points
Refused(kind, points) == kind \in {"shape", "matrix"} /\ Len(Dedupe(points)) < 2

\* Isochrones are remembered by the exact point, the others by cells.
Signature(kind, points) ==
    IF kind = "isochrones" THEN points ELSE [i \in DOMAIN points |-> CellOf[points[i]]]

Entries(kind, key) == {i \in DOMAIN cache[kind] : cache[kind][i].key = key}
Moved(seq, e) == Append(SelectSeq(seq, LAMBDA x : x # e), e)
UsedAgain(kind, key) == [uses EXCEPT ![kind] = Moved(@, key)]

\* Mutant of CacheGet: a hit stays where it is.
CacheGetInPlace(kind, entry) == cache

\* cacheGet: a hit goes to the back.
CacheGet(kind, entry) == [cache EXCEPT ![kind] = Moved(@, entry)]
\* cacheSet: an entry of the same key gives way, the front goes past the cap.
CacheSet(kind, entry) ==
    LET others == SelectSeq(cache[kind], LAMBDA e : e.key # entry.key)
        all    == Append(others, entry)
    IN  [cache EXCEPT ![kind] =
            SubSeq(all, IF Len(all) > Cap THEN Len(all) - Cap + 1 ELSE 1, Len(all))]

-----------------------------------------------------------------------------
Ask(c, kind, points) ==
    /\ ask[c] = Idle /\ asks < MaxAsks
    /\ asks' = asks + 1
    /\ UNCHANGED <<job, answers, audited, faults>>
    /\ LET sent == Sent(kind, points)
           key  == Signature(kind, sent)
           hits == IF kind \in Kind THEN Entries(kind, key) ELSE {}
       IN  \/ /\ Refused(kind, points)                                   \* 400
              /\ UNCHANGED <<cache, uses, ask, served>>
           \/ /\ ~Refused(kind, points) /\ hits # {}
              /\ \E i \in hits :
                    /\ cache' = CacheGet(kind, cache[kind][i])
                    /\ served' = [kind |-> kind, asked |-> sent, paidFor |-> cache[kind][i].points]
              /\ uses' = UsedAgain(kind, key)
              /\ UNCHANGED ask
           \/ /\ ~Refused(kind, points) /\ hits = {} /\ Configured       \* otherwise 503
              /\ ask' = [ask EXCEPT ![c] = [pc |-> "provider", kind |-> kind, about |-> sent]]
              /\ UNCHANGED <<cache, uses, served>>

GetShape(c)      == \E points \in Asks["shape"] : Ask(c, "shape", points)
GetMatrix(c)     == \E points \in Asks["matrix"] : Ask(c, "matrix", points)
PostSnap(c)      == \E points \in Asks["snap"] : Ask(c, "snap", points)
GetIsochrones(c) == \E points \in Asks["isochrones"] : Ask(c, "isochrones", points)
GetGeocode(c)    == \E points \in Asks["geocode"] : Ask(c, "geocode", points)
GetReverse(c)    == \E points \in Asks["reverse"] : Ask(c, "reverse", points)
PostOptimize(c)  == \E points \in Asks["optimize"] : Ask(c, "optimize", points)

\* The answer is stored, audited and sent without a pause.
Answer(c) ==
    LET a == ask[c]  key == Signature(a.kind, a.about)
    IN  /\ a.pc = "provider"
        /\ ask' = [ask EXCEPT ![c] = Idle]
        /\ answers' = [answers EXCEPT ![a.kind] = @ + 1]
        /\ audited' = [audited EXCEPT ![a.kind] = @ + 1]
        /\ served' = [kind |-> a.kind, asked |-> a.about, paidFor |-> a.about]
        /\ IF a.kind \in Kind
           THEN /\ cache' = CacheSet(a.kind, [key |-> key, points |-> a.about])
                /\ uses' = UsedAgain(a.kind, key)
           ELSE UNCHANGED <<cache, uses>>
        /\ UNCHANGED <<job, asks, faults>>

\* The provider refuses, or its answer comes after the timeout.  A refused reverse lookup
\* is audited like an answer.
ProviderFails(c) ==
    LET a == ask[c]
    IN  /\ a.pc = "provider"
        /\ ask' = [ask EXCEPT ![c] = Idle]
        /\ audited' = [audited EXCEPT ![a.kind] = IF a.kind = "reverse" THEN @ + 1 ELSE @]
        /\ faults < MaxFaults /\ faults' = faults + 1
        /\ UNCHANGED <<cache, served, job, answers, uses, asks>>

\* PATCH /jobs/:id: the address is written, the provider is asked and the coordinates are
\* written in one transaction; the row stays locked meanwhile.
EditAddress(c, a) ==
    /\ ask[c] = Idle /\ asks < MaxAsks
    /\ \A d \in Caller : ask[d].pc # "transaction"
    /\ ask' = [ask EXCEPT ![c] = [pc |-> "transaction", kind |-> None, about |-> a]]
    /\ asks' = asks + 1
    /\ UNCHANGED <<cache, served, job, answers, audited, uses, faults>>

\* What the transaction leaves: coordinates of the new address, or none.
Relocated(a, found) == [address |-> a, found |-> IF found THEN a ELSE None]

\* geocodeAddress never fails: it finds the place or it does not.
Geocoded == IF Configured THEN BOOLEAN ELSE {FALSE}
CommitAddress(c) ==
    /\ ask[c].pc = "transaction"
    /\ \E found \in Geocoded : job' = Relocated(ask[c].about, found)
    /\ ask' = [ask EXCEPT ![c] = Idle]
    /\ UNCHANGED <<cache, served, answers, audited, uses, asks, faults>>

\* The provider's timeout is longer than the transaction's: a slow answer undoes the edit.
TransactionExpires(c) ==
    /\ ask[c].pc = "transaction" /\ faults < MaxFaults
    /\ faults' = faults + 1
    /\ ask' = [ask EXCEPT ![c] = Idle]
    /\ UNCHANGED <<cache, served, job, answers, audited, uses, asks>>

Restart ==
    /\ faults < MaxFaults /\ faults' = faults + 1
    /\ cache' = [k \in Kind |-> <<>>] /\ uses' = [k \in Kind |-> <<>>]
    /\ ask' = [c \in Caller |-> Idle]
    /\ UNCHANGED <<served, job, answers, audited, asks>>

Next ==
    \/ \E c \in Caller :
        \/ GetShape(c) \/ GetMatrix(c) \/ PostSnap(c) \/ GetIsochrones(c)
        \/ GetGeocode(c) \/ GetReverse(c) \/ PostOptimize(c)
        \/ Answer(c) \/ ProviderFails(c)
        \/ \E a \in Address : EditAddress(c, a)
        \/ CommitAddress(c) \/ TransactionExpires(c)
    \/ Restart

Spec == Init /\ [][Next]_vars

-----------------------------------------------------------------------------
\* The caches hold exactly the keys used last, however asks, late answers and hits
\* interleave: a key is paid for again only when Cap others were used since, after a
\* restart, or while an earlier ask for it is still with the provider (cacheGet, cacheSet).
KeepsTheLatest ==
    \A k \in Kind :
        [i \in DOMAIN cache[k] |-> cache[k][i].key]
            = SubSeq(uses[k], IF Len(uses[k]) > Cap THEN Len(uses[k]) - Cap + 1 ELSE 1,
                     Len(uses[k]))

\* Whoever paid for it, an answer is one for the points asked, to the rounding of its kind.
AnswersTheAsk ==
    served # None =>
        Signature(served.kind, served.paidFor) = Signature(served.kind, served.asked)

\* Every answer received is audited once and a cached one never (the reverse lookup, which
\* audits refusals too, aside).
SpendIsAudited == \A k \in (Kind \cup Metered) \ {"reverse"} : audited[k] = answers[k]

\* The coordinates of a job are those of its address, or there are none, however edits,
\* failed lookups and expired transactions follow each other (jobs.ts, the address edit).
LocatedByOwnAddress == job.found \in {None, job.address}

\* Cached road answers are the ones used last, belong to the question and are paid for and
\* audited once, and a job is not shown at an address it has left.
RoadDataIsHonest == KeepsTheLatest /\ AnswersTheAsk /\ SpendIsAudited /\ LocatedByOwnAddress

=============================================================================
