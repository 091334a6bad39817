------------------------------- MODULE LiveFeed -------------------------------
(***************************************************************************)
(* The live feed of an HQ console: the stream endpoint with its session    *)
(* checks (apps/api/src/routes/stream.ts), the in-process bus              *)
(* (lib/liveBus.ts), the telemetry of a van (routes/fleet.ts), and the     *)
(* console's socket, pins and 5 s board poll (hq lib/telemetry.ts,         *)
(* stores/boardStore.ts, the useBoardLifecycle hook).                      *)
(*                                                                         *)
(* A frame is sent, carried and applied in one step: a socket keeps order, *)
(* and a frame cut off by its closing is a missed one.  The field app is   *)
(* known by what fleet.ts says of it.                                      *)
(***************************************************************************)
EXTENDS Naturals, FiniteSets

CONSTANTS
    MaxSockets,     \* bound: sockets the console opens
    MaxFixes,       \* bound: position reports of the van
    MaxStatuses,    \* bound: changes of the job's status
    MaxFeedFaults   \* bound: requests lost, sockets cut, sessions unreadable

ASSUME FeedAssumption == {MaxSockets, MaxFixes, MaxStatuses, MaxFeedFaults} \subseteq Nat

Socket == 1 .. MaxSockets

VARIABLES
    session,    \* the Session row is active
    token,      \* the console holds a stream token
    client,     \* the console's end of each socket
    server,     \* the handler's end, and whether its listener is on the bus
    beat,       \* a heartbeat's session check under way
    onShift, sending,   \* the van; its telemetry requests under way
    pin,        \* liveLocations of the console holds the van
    status,     \* the status of the job
    board,      \* the console's copy of it
    data,       \* the payload of the last board poll
    poll,       \* the one a board poll carries
    flagged,    \* the payloads have attention flags, which carry a time
    fixes, changes,                 \* history: reports sent, changes of the status
    missed, unseen,                 \* history: a log-off, a change was not seen
    reordered, cutEarly,            \* history: a log-off overtook, a socket was cut early
    feedFaults

feedVars == <<session, token, client, server, beat>>
vanVars  == <<onShift, sending, pin, fixes, missed, reordered>>
jobVars  == <<status, board, data, poll, flagged, changes, unseen>>
liveVars == <<feedVars, vanVars, jobVars, feedFaults, cutEarly>>

NoPayload == "none"

FeedInit ==
    /\ session = TRUE /\ token = FALSE /\ beat = {}
    /\ client = [n \in Socket |-> "none"] /\ server = [n \in Socket |-> "none"]
    /\ onShift = TRUE /\ sending = {} /\ pin = FALSE /\ fixes = 0
    /\ status = "scheduled" /\ board = "scheduled" /\ data = NoPayload /\ poll = NoPayload /\ flagged \in BOOLEAN
    /\ changes = 0 /\ unseen = FALSE
    /\ feedFaults = 0 /\ missed = FALSE /\ reordered = FALSE /\ cutEarly = {}

\* Listeners on the organization's channel; what reaches the console.
Subscribed == {n \in Socket : server[n] = "feeding"}
Watching   == \E n \in Subscribed : client[n] = "open"

FeedFault == feedFaults < MaxFeedFaults /\ feedFaults' = feedFaults + 1

-----------------------------------------------------------------------------
(* The stream *)

\* connect: the console has no socket; it asks for a token with its session, then opens.
Idle == \A n \in Socket : client[n] # "open"

AskToken ==
    /\ Idle /\ ~ token /\ session /\ token' = TRUE
    /\ UNCHANGED <<session, client, server, beat, vanVars, jobVars, feedFaults, cutEarly>>

Connect(n) ==
    /\ Idle /\ token /\ client[n] = "none" /\ \A k \in 1 .. n - 1 : client[k] # "none"
    /\ client' = [client EXCEPT ![n] = "open"]
    /\ server' = [server EXCEPT ![n] = "checking"]
    /\ token' = FALSE
    /\ UNCHANGED <<session, beat, vanVars, jobVars, feedFaults, cutEarly>>

\* The session row is read before anything is subscribed; an unreadable one refuses.
RefuseSocket(n) ==
    /\ server[n] = "checking" /\ (session => FeedFault)
    /\ ~ session => UNCHANGED feedFaults
    /\ server' = [server EXCEPT ![n] = "ended"]
    /\ client' = [client EXCEPT ![n] = "closed"]
    /\ UNCHANGED <<session, token, beat, vanVars, jobVars, cutEarly>>

\* After the check: subscribe, say hello, start the heartbeat, and only then listen for
\* the close of the socket.
Subscribe(n) ==
    /\ server[n] = "checking" /\ session
    /\ server' = [server EXCEPT ![n] = "feeding"]
    /\ UNCHANGED <<session, token, client, beat, vanVars, jobVars, feedFaults, cutEarly>>

\* Mutant of Ended: nothing listens for the close of the socket.
EndedNot(n) == server

\* The close handler runs if it was there when the socket closed.
Ended(n) == IF server[n] = "feeding" THEN [server EXCEPT ![n] = "ended"] ELSE server

\* The network or the console closes the socket.
CutSocket(n) ==
    /\ client[n] = "open" /\ FeedFault
    /\ client' = [client EXCEPT ![n] = "closed"]
    /\ server' = Ended(n) /\ beat' = IF server[n] = "feeding" THEN beat \ {n} ELSE beat
    /\ cutEarly' = IF server[n] = "checking" THEN cutEarly \union {n} ELSE cutEarly
    /\ UNCHANGED <<session, token, vanVars, jobVars>>

\* The heartbeat reads the session row again; on a dead socket its ping is dropped in
\* silence.
Heartbeat(n) ==
    /\ n \in Subscribed \ beat /\ beat' = beat \union {n}
    /\ UNCHANGED <<session, token, client, server, vanVars, jobVars, feedFaults, cutEarly>>

\* Mutant of EndsFeed: the session is read when the socket is opened, and never again.
EndsFeedNever == FALSE

\* A revoked session closes the socket, which ends the handler if the socket was open; an
\* unreadable row leaves the feed as it is until the next beat.
EndsFeed == ~ session

HeartbeatAnswer(n) ==
    /\ n \in beat /\ beat' = beat \ {n}
    /\ IF EndsFeed
       THEN /\ client' = [client EXCEPT ![n] = "closed"]
            /\ server' = IF client[n] = "open" THEN Ended(n) ELSE server
       ELSE UNCHANGED <<client, server>>
    /\ UNCHANGED <<session, token, vanVars, jobVars, feedFaults, cutEarly>>

HeartbeatFails(n) ==
    /\ n \in beat /\ FeedFault /\ beat' = beat \ {n}
    /\ UNCHANGED <<session, token, client, server, vanVars, jobVars, cutEarly>>

Revoke ==
    /\ session /\ session' = FALSE
    /\ UNCHANGED <<token, client, server, beat, vanVars, jobVars, feedFaults, cutEarly>>

-----------------------------------------------------------------------------
(* The van *)

\* While clocked on the device reports its position; logging off sends a last beacon.
SendFix ==
    /\ onShift /\ fixes < MaxFixes /\ fixes' = fixes + 1
    /\ sending' = sending \union {<<"on", fixes'>>}
    /\ UNCHANGED <<feedVars, onShift, pin, missed, reordered, jobVars, feedFaults, cutEarly>>

LogOff ==
    /\ onShift /\ onShift' = FALSE
    /\ sending' = sending \union {<<"off", fixes + 1>>}
    /\ UNCHANGED <<feedVars, pin, fixes, missed, reordered, jobVars, feedFaults, cutEarly>>

LoseReport(r) ==
    /\ r \in sending /\ FeedFault /\ sending' = sending \ {r}
    /\ missed' = (missed \/ r[1] = "off")
    /\ UNCHANGED <<feedVars, onShift, pin, fixes, reordered, jobVars, cutEarly>>

\* The frame of a report at the console: a log-off clears the pin, a fix sets it.
Applied(r) == r[1] = "on"

\* Requests are handled in any order; each is published once, to whoever listens.
PublishReport(r) ==
    /\ r \in sending /\ sending' = sending \ {r}
    /\ IF Watching
       THEN pin' = Applied(r) /\ UNCHANGED missed
       ELSE UNCHANGED pin /\ missed' = (missed \/ r[1] = "off")
    /\ reordered' = (reordered \/ (r[1] = "off" /\ sending # {r}))
    /\ UNCHANGED <<feedVars, onShift, fixes, jobVars, feedFaults, cutEarly>>

-----------------------------------------------------------------------------
(* The job *)

\* A handler changes the job's status and publishes the frame, which a watching console
\* applies at once.
ChangeStatus ==
    /\ changes < MaxStatuses /\ changes' = changes + 1
    /\ status' = IF status = "scheduled" THEN "in_progress" ELSE "scheduled"
    /\ board' = IF Watching THEN status' ELSE board
    /\ unseen' = (unseen \/ ~ Watching)
    /\ UNCHANGED <<feedVars, vanVars, data, poll, flagged, feedFaults, cutEarly>>

\* GET /api/board, one at a time.
Poll ==
    /\ session /\ poll = NoPayload /\ poll' = status
    /\ UNCHANGED <<feedVars, vanVars, status, board, data, flagged, changes, unseen,
                   feedFaults, cutEarly>>

\* The query keeps its data while the payload stays equal, and the effect that hydrates
\* the board does not run.
Refreshed(p) == data # p \/ flagged

Hydrate ==
    /\ poll # NoPayload
    /\ board' = IF Refreshed(poll) THEN poll ELSE board
    /\ data' = poll /\ poll' = NoPayload
    /\ UNCHANGED <<feedVars, vanVars, status, flagged, changes, unseen, feedFaults, cutEarly>>

StreamStep == \E n \in Socket :
    \/ Connect(n) \/ RefuseSocket(n) \/ Subscribe(n) \/ CutSocket(n)
    \/ Heartbeat(n) \/ HeartbeatAnswer(n) \/ HeartbeatFails(n)

VanStep ==
    \/ SendFix \/ LogOff
    \/ \E r \in sending : LoseReport(r) \/ PublishReport(r)

FeedNext == AskToken \/ StreamStep \/ Revoke \/ VanStep \/ ChangeStatus \/ Poll \/ Hydrate

\* The interval fires as long as the handler lives, its query is answered, and the poll
\* of a mounted board repeats.
Fairness ==
    /\ \A n \in Socket : WF_liveVars(Heartbeat(n)) /\ WF_liveVars(HeartbeatAnswer(n))
                         /\ WF_liveVars(RefuseSocket(n) \/ Subscribe(n))
    /\ WF_liveVars(Poll) /\ WF_liveVars(Hydrate)

FeedSpec == FeedInit /\ [][FeedNext]_liveVars /\ Fairness

-----------------------------------------------------------------------------
(* Properties *)

\* A listener stays on the bus after its socket is gone only if the socket closed while
\* the session was being read, before the close handler was there.
ListenersEndUnlessCutEarly ==
    \A n \in Subscribed : client[n] # "open" => n \in cutEarly

\* A console shows a van that is off shift only while its reports are under way, or after
\* the log-off beacon was lost, missed while no socket was open, or overtook a fix.
PinHasCause == pin /\ ~ onShift => sending # {} \/ missed \/ reordered

FeedIsHonest == ListenersEndUnlessCutEarly /\ PinHasCause

\* The comment of stream.ts: a revoked session's stream is closed on the heartbeat.
RevokedFeedEnds == \A n \in Socket : ~ session ~> ~ (client[n] = "open")

\* However late polls answer and however long no socket is open, the board comes to the
\* job's status while the session lasts: with flags at every poll, and without them
\* unless a change was missed, since a poll that finds the status it had found before
\* the console saw another one does not hydrate the board.
BoardCatchesUp == []<>(board = status \/ ~ session \/ (unseen /\ ~ flagged))

FeedEnds == RevokedFeedEnds /\ BoardCatchesUp

\* stream.ts and telemetry.ts: missed frames are reconciled on reconnect and "never leave
\* stale state"; nothing but a frame sets or clears a pin.
MissedFramesAreReconciled ==
    Watching /\ sending = {} /\ ~ reordered => (pin => onShift)
=============================================================================
