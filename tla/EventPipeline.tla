---------------------------- MODULE EventPipeline ----------------------------
(***************************************************************************)
(* From a committed request to Slack: the requests that write domain       *)
(* events, the outbox worker that turns an event into a delivery row       *)
(* (integrations/slack/SlackAdapter.ts), and the delivery queue that posts *)
(* it.  OutboxWorker and DeliveryQueue run side by side on disjoint tables *)
(* and meet in one step, the adapter's enqueue.                            *)
(*                                                                         *)
(* Both loops of an API instance have the instance's name.  A crash of the *)
(* instance is a crash of each of its loops and calls, one by one.         *)
(***************************************************************************)
EXTENDS Naturals, FiniteSets

CONSTANTS
    Event,         \* business records that report an event
    Delivery, Instance, Caller, None,
    MaxAttempts, BatchSize, MaxFaults

ASSUME RowAssumption == Event \subseteq Nat /\ Delivery \subseteq Nat
ASSUME RunnerAssumption == Instance \cap Caller = {}
ASSUME NoneAssumption == None \notin Event \cup Delivery /\ None \notin Instance \cup Caller
ASSUME BoundAssumption ==
    MaxAttempts \in Nat \ {0} /\ BatchSize \in Nat \ {0} /\ MaxFaults \in Nat

VARIABLES
    \* the business record of each event: none, committed without its event, with
    \* it, or never to be reported
    record,
    \* the outbox (OutboxWorker)
    evStatus, evAttempts, evLease, evLocked,
    evPc, evBatch, evClaimed, evCurrent, evResult, evUp, evTaken, evFaults,
    \* the delivery queue (DeliveryQueue)
    status, attemptCount, leaseId, lockedUntil, due,
    attemptRows, slackDelivered, slackError,
    pc, row, seen, result, todo, up, accepted, faults, retries,
    \* history: the event a delivery row was written for
    origin

outboxVars   == <<evStatus, evAttempts, evLease, evLocked, evPc, evBatch, evClaimed,
                  evCurrent, evResult, evUp, evTaken, evFaults>>
deliveryVars == <<status, attemptCount, leaseId, lockedUntil, due, attemptRows,
                  slackDelivered, slackError, pc, row, seen, result, todo, up,
                  accepted, faults, retries>>
vars == <<record, outboxVars, deliveryVars, origin>>

Outbox == INSTANCE OutboxWorker WITH
    Worker <- Instance,
    status <- evStatus, attempts <- evAttempts, leaseId <- evLease, lockedUntil <- evLocked,
    pc <- evPc, batch <- evBatch, claimed <- evClaimed, current <- evCurrent,
    result <- evResult, up <- evUp, taken <- evTaken, faults <- evFaults

\* SlackAdapter passes no notificationId to enqueueIntegrationDelivery, so no
\* row is linked to its notification; manual retries are left to DeliveryQueue.
Queue == INSTANCE DeliveryQueue WITH
    Worker <- Instance, Linked <- {}, MaxRetries <- 0

Init ==
    /\ record = [e \in Event |-> "none"]
    /\ Outbox!Init
    /\ Queue!Init
    /\ origin = [d \in Delivery |-> None]

-----------------------------------------------------------------------------
\* Mutant of CommitWithEvent: the event is left out of the transaction.
CommitWithoutEvent(e) ==
    /\ record[e] = "none"
    /\ record' = [record EXCEPT ![e] = "reported"]
    /\ UNCHANGED <<outboxVars, deliveryVars, origin>>

\* A notification, a job message or a job completion: the record and its
\* outbox row are one transaction.
CommitWithEvent(e) ==
    /\ record[e] = "none"
    /\ record' = [record EXCEPT ![e] = "reported"]
    /\ Outbox!Emit(e)
    /\ UNCHANGED <<deliveryVars, origin>>

\* A new job: the job commits, and its event is a statement of its own.
CommitJob(e) ==
    /\ record[e] = "none"
    /\ record' = [record EXCEPT ![e] = "committed"]
    /\ UNCHANGED <<outboxVars, deliveryVars, origin>>

AnnounceJob(e) ==
    /\ record[e] = "committed"
    /\ record' = [record EXCEPT ![e] = "reported"]
    /\ Outbox!Emit(e)
    /\ UNCHANGED <<deliveryVars, origin>>

\* The statement fails, or the process dies before it.
AnnounceLost(e) ==
    /\ record[e] = "committed"
    /\ record' = [record EXCEPT ![e] = "unreported"]
    /\ UNCHANGED <<outboxVars, deliveryVars, origin>>

\* SlackAdapter.deliver: rendering, then enqueueIntegrationDelivery.
AdapterEnqueues(w, c, d) ==
    /\ Outbox!RouteTaken(w)
    /\ Queue!Enqueue(c, d)
    /\ origin' = [origin EXCEPT ![d] = evCurrent[w]]
    /\ UNCHANGED record

OutboxStep(w) == Outbox!LoopStep(w) /\ UNCHANGED <<record, deliveryVars, origin>>

OutboxClock(e) == Outbox!LockExpires(e) /\ UNCHANGED <<record, deliveryVars, origin>>

QueueLoop(w) == Queue!LoopStep(w) /\ UNCHANGED <<record, outboxVars, origin>>

QueueRunner(r) == Queue!RunnerStep(r) /\ UNCHANGED <<record, outboxVars, origin>>

QueueClock(d) == Queue!ClockStep(d) /\ UNCHANGED <<record, outboxVars, origin>>

Fault ==
    \/ (\E w \in Instance : Outbox!Fault(w)) /\ UNCHANGED <<record, deliveryVars, origin>>
    \/ Queue!Fault /\ UNCHANGED <<record, outboxVars, origin>>

OutboxWorkerStep(w) ==
    OutboxStep(w) \/ \E c \in Caller, d \in Delivery : AdapterEnqueues(w, c, d)

Next ==
    \/ \E e \in Event :
          CommitWithEvent(e) \/ CommitJob(e) \/ AnnounceJob(e) \/ AnnounceLost(e) \/ OutboxClock(e)
    \/ \E w \in Instance : OutboxWorkerStep(w) \/ QueueLoop(w)
    \/ \E r \in Queue!Runner : QueueRunner(r)
    \/ \E d \in Delivery : QueueClock(d)
    \/ Fault

Spec == Init /\ [][Next]_vars

\* The fairness of the two components; nothing is assumed of requests and faults.
Fairness ==
    /\ \A w \in Instance : WF_vars(OutboxWorkerStep(w)) /\ WF_vars(QueueLoop(w))
    /\ \A e \in Event : WF_vars(OutboxClock(e))
    /\ \A r \in Queue!Runner : WF_vars(QueueRunner(r))
    /\ \A d \in Delivery : WF_vars(QueueClock(d))

FairSpec == Spec /\ Fairness

-----------------------------------------------------------------------------
(* Properties *)

RowsOf(e) == {d \in Delivery : origin[d] = e}

\* How often Slack has shown the message of an event.
Shown(e) == Cardinality(Queue!Posts(RowsOf(e)))

\* Types of both components together with the records and the links.
TypeOK ==
    /\ record \in [Event -> {"none", "committed", "reported", "unreported"}]
    /\ Outbox!TypeOK
    /\ Queue!TypeOK
    /\ origin \in [Delivery -> Event \cup {None}]

\* "A committed notification can never lose its event" (routes/notifications.ts):
\* the event is there with the record, and a completed event has left a delivery
\* row behind.  Only a job may stay without one, as its announcement is best effort.
CommittedKeepsEvent ==
    \A e \in Event :
        /\ record[e] = "reported" <=> evStatus[e] # "absent"
        /\ evStatus[e] = "completed" => RowsOf(e) # {}

\* End to end, Slack shows the message of an event once, and once more at most
\* for every fault in either component; and of an uncommitted record never.
ShownOnceUnlessFaults ==
    \A e \in Event :
        /\ Shown(e) <= 1 + evFaults + faults
        /\ Shown(e) > 0 => record[e] # "none"

\* Together: what was committed keeps its event and is shown once for it, faults aside.
RecordIsShownOnce == CommittedKeepsEvent /\ ShownOnceUnlessFaults

\* The two queues in a row still make the promise of one (DeliveryPromise), event
\* by event: an event is open while its outbox row or one of its deliveries is,
\* delivered for good once Slack has it and a delivery row says so, although a
\* worker that died between the two tables may have left several such rows.
Outcome(e) ==
    IF evStatus[e] = "absent" THEN "absent"
    ELSE IF \E d \in RowsOf(e) : status[d] = "delivered" THEN "delivered"
    ELSE IF \/ evStatus[e] \in {"pending", "processing"}
            \/ \E d \in RowsOf(e) : status[d] \notin Queue!Settled
      THEN "open"
    ELSE "dead_letter"
Posted(e) == \E d \in RowsOf(e) : accepted[d] > 0

Promise == INSTANCE DeliveryPromise WITH
    Delivery <- Event,
    outcome <- [e \in Event |-> Outcome(e)], posted <- [e \in Event |-> Posted(e)]

KeepsPromise == Promise!Spec

\* A reported record is shown in Slack in the end, or a dead letter in one of
\* the two tables tells of it.
Resolved(e) ==
    \/ evStatus[e] = "dead_letter"
    \/ \E d \in RowsOf(e) : status[d] \in {"delivered", "dead_letter"}

EventuallyResolved ==
    \A e \in Event : record[e] = "reported" ~> Resolved(e)

=============================================================================
