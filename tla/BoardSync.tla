----------------------------- MODULE BoardSync -----------------------------
(***************************************************************************)
(* One HQ console and its server: a dispatcher's moves (features/board/    *)
(* actions.ts, performAssignment) are applied to the board store at once,  *)
(* then sent, or saved in the IndexedDB sync queue when the browser is     *)
(* offline; drains (lib/offline.ts) send what was saved; a poll            *)
(* (features/board/useBoardLifecycle.ts) replaces the board by the         *)
(* server's.                                                               *)
(*                                                                         *)
(* What JavaScript does between two awaits is one step.  IndexedDB serves  *)
(* requests in the order they are made, so what a request reads or writes  *)
(* is settled when it is made, and only what follows it comes later.  The  *)
(* queue survives a reload; everything else of the console does not.  All  *)
(* jobs are open, of one day and one block long: two of them conflict when *)
(* they are at one place.  The session does not expire.                    *)
(***************************************************************************)
EXTENDS Naturals

CONSTANTS
    Job,
    Place,       \* a technician and a block of the board
    None,        \* unassigned; no such thing
    Drain,       \* bound: calls of drainSyncQueue that run at once
    MaxMoves,    \* bound: moves the dispatcher makes, numbered in their order
    MaxChanges,  \* bound: assignments made by other clients
    MaxFaults,   \* bound: outages, reloads, timeouts and server errors
    Flagged      \* some other job needs attention (overdue, say)

Move == 1..MaxMoves

ASSUME BoundAssumption ==
    MaxMoves \in Nat /\ MaxChanges \in Nat /\ MaxFaults \in Nat /\ Flagged \in BOOLEAN
ASSUME NoneAssumption ==
    None \notin Place /\ None \notin Job /\ None \notin Move /\ None \notin {"accepted", "refused"}

VARIABLES
    server,                            \* the server's board
    online,                            \* navigator.onLine, and it is right
    \* the console: the store's jobs and its one rollback snapshot, the query's
    \* data, the poll under way, whether the last one failed
    board, snapshot, data, poll, pollFailed,
    stage, target, stale,              \* performAssignment and enqueueSync by move
    queue,                             \* the sync queue
    dpc, todo, sending, syncDue,       \* drainSyncQueue; a service worker message
    \* requests whose caller has given up, which the server may still handle
    late,
    \* history: the server's answer to a move, the last writer of a job
    answer, writer, faults, changes

consoleVars == <<board, snapshot, data, poll, pollFailed>>
moveVars    == <<stage, target, stale>>
drainVars   == <<dpc, todo, sending, syncDue>>
serverVars  == <<server, answer, writer>>
vars == <<consoleVars, moveVars, queue, drainVars, serverVars, late, online, faults, changes>>

Board  == [Job -> Place \cup {None}]
Stages == {"new", "sent", "accepted", "refused", "add", "saved", "over"}
Empty  == [j \in Job |-> None]
NoTarget == [job |-> None, to |-> None]

\* Every page load drains once.
MountDrain(d) ==
    /\ dpc' = [e \in Drain |-> IF e = d THEN "read" ELSE "idle"]
    /\ todo' = [e \in Drain |-> IF e = d THEN queue' ELSE {}]
    /\ sending' = [e \in Drain |-> None]
    /\ syncDue' = TRUE

Init ==
    /\ server = Empty /\ online = TRUE
    /\ board = Empty /\ snapshot = None /\ data = None /\ poll = None /\ pollFailed = FALSE
    /\ stage = [m \in Move |-> "new"]
    /\ target = [m \in Move |-> NoTarget]
    /\ stale = [m \in Move |-> {}]
    /\ queue = {}
    /\ \E d \in Drain : dpc = [e \in Drain |-> IF e = d THEN "read" ELSE "idle"]
    /\ todo = [d \in Drain |-> {}] /\ sending = [d \in Drain |-> None] /\ syncDue = TRUE
    /\ late = {} /\ answer = [m \in Move |-> None] /\ writer = [j \in Job |-> None]
    /\ faults = 0 /\ changes = 0

Fault == faults < MaxFaults /\ faults' = faults + 1

-----------------------------------------------------------------------------
(* The server: PATCH /jobs/:id/assignment, as one step (Assignment has the   *)
(* rest).  It refuses a place that is taken, and may refuse for any other    *)
(* reason.                                                                   *)

Free(b, j, p) == \A k \in Job \ {j} : b[k] # p

Accept(m) ==
    /\ Free(server, target[m].job, target[m].to)
    /\ server' = [server EXCEPT ![target[m].job] = target[m].to]
    /\ answer' = [answer EXCEPT ![m] = "accepted"]
    /\ writer' = [writer EXCEPT ![target[m].job] = m]

Refuse(m) ==
    /\ answer' = [answer EXCEPT ![m] = IF @ = None THEN "refused" ELSE @]
    /\ UNCHANGED <<server, writer>>

ServerAccepts(m) ==
    /\ stage[m] = "sent"
    /\ Accept(m)
    /\ stage' = [stage EXCEPT ![m] = "accepted"]
    /\ UNCHANGED <<consoleVars, target, stale, queue, drainVars, late, online, faults, changes>>

ServerRefuses(m) ==
    /\ stage[m] = "sent"
    /\ Refuse(m)
    /\ stage' = [stage EXCEPT ![m] = "refused"]
    /\ UNCHANGED <<consoleVars, target, stale, queue, drainVars, late, online, faults, changes>>

\* The server handles, or never gets, a request that nobody waits for.
LateAccepted(m) ==
    /\ m \in late /\ Accept(m)
    /\ late' = late \ {m}
    /\ UNCHANGED <<consoleVars, moveVars, queue, drainVars, online, faults, changes>>

LateDropped(m) ==
    /\ m \in late
    /\ late' = late \ {m}
    /\ UNCHANGED <<consoleVars, moveVars, queue, drainVars, serverVars, online, faults, changes>>

OtherClientAssigns(j, p) ==
    /\ changes < MaxChanges /\ changes' = changes + 1
    /\ Free(server, j, p)
    /\ server' = [server EXCEPT ![j] = p]
    /\ writer' = [writer EXCEPT ![j] = None]
    /\ UNCHANGED <<consoleVars, moveVars, queue, drainVars, answer, late, online, faults>>

-----------------------------------------------------------------------------
(* performAssignment *)

PerformAssignment(m, j, p) ==
    /\ stage[m] = "new" /\ \A n \in Move : n < m => stage[n] # "new"
    /\ data # None /\ Free(board, j, p)
    /\ snapshot' = board
    /\ board' = [board EXCEPT ![j] = p]
    /\ target' = [target EXCEPT ![m] = [job |-> j, to |-> p]]
    /\ stage' = [stage EXCEPT ![m] = IF online THEN "sent" ELSE "add"]
    /\ stale' = [stale EXCEPT ![m] =
                    IF online THEN {} ELSE {n \in queue : target[n].job = j}]
    /\ UNCHANGED <<data, poll, pollFailed, queue, drainVars, serverVars, late,
                   online, faults, changes>>

MoveSucceeds(m) ==
    /\ online /\ stage[m] = "accepted"
    /\ stage' = [stage EXCEPT ![m] = "over"]
    /\ UNCHANGED <<consoleVars, target, stale, queue, drainVars, serverVars, late,
                   online, faults, changes>>

\* The answer is a refusal, the connection is lost, or there is no answer in time.
MoveRollsBack(m) ==
    /\ \/ online /\ stage[m] = "refused" /\ UNCHANGED faults
       \/ ~online /\ stage[m] \in {"sent", "accepted", "refused"} /\ UNCHANGED faults
       \/ online /\ stage[m] \in {"sent", "accepted"} /\ Fault
    /\ board' = snapshot
    /\ late' = IF stage[m] = "sent" THEN late \cup {m} ELSE late
    /\ stage' = [stage EXCEPT ![m] = "over"]
    /\ UNCHANGED <<snapshot, data, poll, pollFailed, target, stale, queue, drainVars,
                   serverVars, online, changes>>

\* enqueueSync: the job's earlier entries have been read; their deletion and the
\* new entry are requested in one go, in the order of the moves.
EnqueueAdd(m) ==
    /\ stage[m] = "add" /\ \A n \in Move : n < m => stage[n] # "add"
    /\ queue' = (queue \ stale[m]) \cup {m}
    /\ stale' = [stale EXCEPT ![m] = {}]
    /\ stage' = [stage EXCEPT ![m] = "saved"]
    /\ UNCHANGED <<consoleVars, target, drainVars, serverVars, late, online, faults, changes>>

-----------------------------------------------------------------------------
(* drainSyncQueue: one getAll, then one request after the other *)

Stop(d) ==
    /\ sending' = [sending EXCEPT ![d] = None]
    /\ todo' = [todo EXCEPT ![d] = {}]
    /\ dpc' = [dpc EXCEPT ![d] = "idle"]

\* The oldest entry of those left is sent, or the drain ends.
SendNext(d, entries) ==
    \/ entries = {} /\ Stop(d)
    \/ \E m \in entries :
          /\ \A n \in entries : m <= n
          /\ sending' = [sending EXCEPT ![d] = m]
          /\ todo' = [todo EXCEPT ![d] = entries \ {m}]
          /\ dpc' = [dpc EXCEPT ![d] = "sent"]

DrainRead(d) ==
    /\ dpc[d] = "read"
    /\ SendNext(d, todo[d])
    /\ UNCHANGED <<consoleVars, moveVars, queue, syncDue, serverVars, late, online, faults, changes>>

\* persistSyncOp reaches the assignment endpoint.
DrainServed(d) ==
    /\ dpc[d] = "sent"
    /\ Accept(sending[d]) \/ Refuse(sending[d])
    /\ dpc' = [dpc EXCEPT ![d] = "answered"]
    /\ UNCHANGED <<consoleVars, moveVars, queue, todo, sending, syncDue, late,
                   online, faults, changes>>

\* Accepted and permanently refused entries leave the queue alike.
DrainAnswered(d) ==
    /\ online /\ dpc[d] = "answered"
    /\ queue' = queue \ {sending[d]}
    /\ SendNext(d, todo[d])
    /\ UNCHANGED <<consoleVars, moveVars, syncDue, serverVars, late, online, faults, changes>>

\* Mutant of DrainBreaks: an entry that could not be sent is dropped like a refused one.
DrainBreaksDrops(d) ==
    /\ dpc[d] \in {"sent", "answered"}
    /\ IF online THEN Fault ELSE UNCHANGED faults
    /\ queue' = queue \ {sending[d]}
    /\ late' = IF dpc[d] = "sent" THEN late \cup {sending[d]} ELSE late
    /\ Stop(d)
    /\ UNCHANGED <<consoleVars, moveVars, syncDue, serverVars, online, changes>>

\* No connection, no answer in time, or a server error: the drain gives up and
\* leaves this entry and the ones behind it for the next drain.
DrainBreaks(d) ==
    /\ dpc[d] \in {"sent", "answered"}
    /\ IF online THEN Fault ELSE UNCHANGED faults
    /\ late' = IF dpc[d] = "sent" THEN late \cup {sending[d]} ELSE late
    /\ Stop(d)
    /\ UNCHANGED <<consoleVars, moveVars, queue, syncDue, serverVars, online, changes>>

Start(d) ==
    /\ dpc[d] = "idle"
    /\ dpc' = [dpc EXCEPT ![d] = "read"]
    /\ todo' = [todo EXCEPT ![d] = queue]

\* The service worker's sync event: registered once per page load, it comes
\* once, when the browser is online.
SyncEvent(d) ==
    /\ online /\ syncDue /\ Start(d)
    /\ syncDue' = FALSE
    /\ UNCHANGED <<consoleVars, moveVars, queue, sending, serverVars, late,
                   online, faults, changes>>

-----------------------------------------------------------------------------
(* The network and the page *)

GoOffline ==
    /\ online /\ Fault
    /\ online' = FALSE
    /\ UNCHANGED <<consoleVars, moveVars, queue, drainVars, serverVars, late, changes>>

\* The browser's online event starts a drain.
GoOnline(d) ==
    /\ ~online /\ Start(d)
    /\ online' = TRUE
    /\ UNCHANGED <<consoleVars, moveVars, queue, sending, syncDue, serverVars, late,
                   faults, changes>>

\* The page is reloaded, or closed and opened again.  Of an enqueueSync under way
\* the deletions may have been done, which are transactions of their own.
Reload(d) ==
    /\ Fault
    /\ board' = Empty /\ snapshot' = None /\ data' = None /\ poll' = None /\ pollFailed' = FALSE
    /\ stage' = [m \in Move |-> IF stage[m] \in {"new", "saved"} THEN stage[m] ELSE "over"]
    /\ stale' = [m \in Move |-> {}]
    /\ \E S \in SUBSET {m \in Move : stage[m] = "add"} :
          queue' = queue \ UNION {stale[m] : m \in S}
    /\ MountDrain(d)
    /\ late' = late \cup {m \in Move : stage[m] = "sent"}
                    \cup {sending[e] : e \in {f \in Drain : dpc[f] = "sent"}}
    /\ UNCHANGED <<target, serverVars, online, changes>>

-----------------------------------------------------------------------------
(* The poll: GET /board, read by the server and received later *)

PollRead ==
    /\ online /\ poll = None
    /\ poll' = server
    /\ UNCHANGED <<board, snapshot, data, pollFailed, moveVars, queue, drainVars, serverVars,
                   late, online, faults, changes>>

\* Attention flags carry the time they were computed.
HasFlags(b) == Flagged \/ \E j \in Job : b[j] = None

\* Mutant of Refreshed: equal boards count as equal payloads.
RefreshedIfChanged(b) == data # b \/ pollFailed

\* The query keeps its data while the payload stays equal, and the effect that
\* fills the store does not run.
Refreshed(b) == data # b \/ HasFlags(b) \/ pollFailed

PollArrives ==
    /\ online /\ poll # None
    /\ board' = IF Refreshed(poll) THEN poll ELSE board
    /\ data' = poll
    /\ poll' = None
    /\ pollFailed' = FALSE
    /\ UNCHANGED <<snapshot, moveVars, queue, drainVars, serverVars, late, online, faults, changes>>

\* The connection is lost under way; the retry waits until it is back.
PollLost ==
    /\ ~online /\ poll # None
    /\ poll' = None
    /\ UNCHANGED <<board, snapshot, data, pollFailed, moveVars, queue, drainVars, serverVars,
                   late, online, faults, changes>>

\* What the effect fills the store with when the query has an error.
Retained == IF data # None THEN data ELSE board

\* The poll and its retry fail: the new error runs the effect with the old data.
PollFails ==
    /\ online /\ poll # None /\ Fault
    /\ board' = Retained
    /\ poll' = None
    /\ pollFailed' = TRUE
    /\ UNCHANGED <<snapshot, data, moveVars, queue, drainVars, serverVars, late, online, changes>>

-----------------------------------------------------------------------------
ServerStep(m) == ServerAccepts(m) \/ ServerRefuses(m)

MoveStep(m) ==
    MoveSucceeds(m) \/ MoveRollsBack(m) \/ EnqueueAdd(m)

DrainStep(d) ==
    DrainRead(d) \/ DrainServed(d) \/ DrainAnswered(d) \/ DrainBreaks(d)

PollStep == PollRead \/ PollArrives \/ PollLost

Next ==
    \/ \E j \in Job, p \in Place :
          OtherClientAssigns(j, p) \/ \E m \in Move : PerformAssignment(m, j, p)
    \/ \E m \in Move : ServerStep(m) \/ MoveStep(m) \/ LateAccepted(m) \/ LateDropped(m)
    \/ \E d \in Drain : DrainStep(d) \/ SyncEvent(d) \/ GoOnline(d) \/ Reload(d)
    \/ GoOffline \/ PollStep \/ PollFails

Spec == Init /\ [][Next]_vars

\* The server answers, continuations run, the poll's timer fires, late requests
\* end, the connection comes back, and the browser sends the sync event.
Fairness ==
    /\ \A m \in Move :
         WF_vars(ServerStep(m)) /\ WF_vars(MoveStep(m)) /\ WF_vars(LateAccepted(m) \/ LateDropped(m))
    /\ \A d \in Drain : WF_vars(DrainStep(d))
    /\ WF_vars(\E d \in Drain : GoOnline(d)) /\ WF_vars(\E d \in Drain : SyncEvent(d))
    /\ WF_vars(PollStep)

FairSpec == Spec /\ Fairness

-----------------------------------------------------------------------------
(* Properties *)

\* Types of the store, the moves, the queue and the drains.
TypeOK ==
    /\ server \in Board /\ board \in Board
    /\ snapshot \in Board \cup {None} /\ data \in Board \cup {None} /\ poll \in Board \cup {None}
    /\ online \in BOOLEAN /\ pollFailed \in BOOLEAN /\ syncDue \in BOOLEAN
    /\ stage \in [Move -> Stages]
    /\ target \in [Move -> {NoTarget} \cup [job : Job, to : Place]]
    /\ stale \in [Move -> SUBSET Move]
    /\ queue \subseteq Move /\ late \subseteq Move
    /\ answer \in [Move -> {None, "accepted", "refused"}]
    /\ dpc \in [Drain -> {"idle", "read", "sent", "answered"}]
    /\ todo \in [Drain -> SUBSET Move]
    /\ sending \in [Drain -> Move \cup {None}]
    /\ writer \in [Job -> Move \cup {None}]
    /\ faults \in Nat /\ changes \in Nat

\* "Each op is deleted only after a successful request" (drainSyncQueue), or a
\* permanent refusal, or when the dispatcher has moved the job again: through
\* outages, reloads and drains side by side a saved move is not lost.
SavedMoveIsKept ==
    \A m \in Move : stage[m] = "saved" =>
        \/ m \in queue \/ answer[m] # None
        \/ \E n \in Move : n > m /\ target[n].job = target[m].job

\* With a fresh payload at every poll the console always comes to show the
\* server's board, whatever rollbacks and late polls have put there.
BoardConverges == <>[](board = server)

\* "Last-Write-Wins per (jobId + op)" (lib/offline.ts): the server never ends up
\* with a saved move of a job when it has taken a newer move of that job.
SavedMoveYields ==
    \A j \in Job :
        writer[j] # None /\ stage[writer[j]] = "saved" =>
            \A m \in Move : answer[m] = "accepted" /\ target[m].job = j => m <= writer[j]

\* "It will sync automatically when you reconnect" (performAssignment): once the
\* connection stays, a saved move leaves the queue.
SavedMoveIsSent ==
    \A m \in Move : stage[m] = "saved" ~> m \notin queue

=============================================================================
