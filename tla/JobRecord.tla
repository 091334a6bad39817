----------------------------- MODULE JobRecord -----------------------------
(***************************************************************************)
(* The record of one job: status and completion event, arrival and         *)
(* departure marks, a checklist item, time entries and the payment link    *)
(* (routes/jobs.ts), written by the handlers of the field agent's          *)
(* requests, of Slack (routes/slackEvents.ts) and of Stripe                *)
(* (routes/paymentWebhook.ts).                                             *)
(*                                                                         *)
(* The field agent works offline: it queues its requests and sends them    *)
(* one after the other, each again and again until it is acknowledged.     *)
(* When it gives up waiting, the handler goes on.  A request is its number *)
(* in the order of the requests, which is also the time it reports         *)
(* (occurredAt, completedAt) and its opId.                                 *)
(*                                                                         *)
(* Postgres runs the statements at READ COMMITTED; only the transaction of *)
(* PATCH /jobs/:id holds the row's lock over several of them, and whoever  *)
(* writes the row waits for it.  The job is not deleted.                   *)
(***************************************************************************)
EXTENDS Naturals

CONSTANTS
    Handler,      \* handlers the API runs at once
    Session,      \* Stripe checkout sessions
    None,         \* SQL null
    MaxRequests,  \* bound: requests made
    MaxFaults     \* bound: timeouts of the agent, crashes, failed statements

Request == 1..MaxRequests

ASSUME BoundAssumption == MaxRequests \in Nat /\ MaxFaults \in Nat

Statuses   == {"scheduled", "in_progress", "completed"}
FieldKinds == {"arrived", "departed", "tick", "untick", "clock_in"} \cup Statuses
Kinds      == FieldKinds \cup {"link", "slack"}
Verdicts   == {"processing", "paid", "failed"}

ASSUME NoneAssumption ==
    None \notin Handler /\ None \notin Session /\ None \notin Request /\ None \notin Kinds

VARIABLES
    status, arrivedAt, departedAt,      \* the Job row
    stripeSessionId, paymentStatus,
    completedAt,                        \* the checklist item
    entries, outbox,                    \* time entries by opId; the event is there
    lock,                               \* the handler that holds the row's lock
    kind, acked, waiting,               \* the requests; the field agent
    pc, serves, seen, shouldEmit,       \* the handlers
    stripe, events,                     \* Stripe's sessions, and what it has sent
    quiet, reopened, faults             \* history

paymentVars == <<stripeSessionId, paymentStatus>>
markVars    == <<arrivedAt, departedAt>>
lifeVars    == <<status, outbox, quiet, reopened>>
rowVars     == <<paymentVars, markVars, lifeVars, completedAt, entries>>
agentVars   == <<kind, acked, waiting>>
handlerVars == <<pc, serves, seen, shouldEmit>>
stripeVars  == <<stripe, events>>
vars == <<rowVars, lock, agentVars, handlerVars, stripeVars, faults>>

\* Stripe's events: a session completed, paid or not, and what came of a slow payment.
StripeEvents == [session : Session, type : {"completed", "async_payment_succeeded"},
                 payment_status : {"paid", "unpaid"}]
                \cup [session : Session, type : {"async_payment_failed"},
                      payment_status : {"unpaid"}]

\* A job may be created in any status.
Init ==
    /\ status \in Statuses /\ quiet = (status = "completed") /\ reopened = FALSE
    /\ arrivedAt = None /\ departedAt = None /\ completedAt = None
    /\ stripeSessionId = None /\ paymentStatus = "unpaid"
    /\ entries = {} /\ outbox = FALSE /\ lock = None
    /\ kind = [r \in Request |-> None] /\ acked = {} /\ waiting = None
    /\ pc = [h \in Handler |-> "idle"]
    /\ serves = [h \in Handler |-> None]
    /\ seen = [h \in Handler |-> None] /\ shouldEmit = {}
    /\ stripe = [s \in Session |-> "none"] /\ events = {}
    /\ faults = 0

Fault == faults < MaxFaults /\ faults' = faults + 1

-----------------------------------------------------------------------------
(* Requests and their handlers *)

FieldRequests == {r \in Request : kind[r] \in FieldKinds}

Make(r, k) ==
    /\ kind[r] = None /\ \A q \in Request : q < r => kind[q] # None
    /\ kind' = [kind EXCEPT ![r] = k]

Begin(h, r) ==
    /\ pc[h] = "idle"
    /\ pc' = [pc EXCEPT ![h] = "read"]
    /\ serves' = [serves EXCEPT ![h] = r]
    /\ UNCHANGED <<seen, shouldEmit>>

\* The technician does something; the agent queues it.
Queue(r, k) ==
    /\ Make(r, k)
    /\ UNCHANGED <<rowVars, lock, acked, waiting, handlerVars, stripeVars, faults>>

\* The agent sends its oldest request.
Send(h, r) ==
    /\ waiting = None
    /\ r \in FieldRequests \ acked
    /\ \A q \in FieldRequests \ acked : r <= q
    /\ Begin(h, r)
    /\ waiting' = h
    /\ UNCHANGED <<rowVars, lock, kind, acked, stripeVars, faults>>

Go(h, value) ==
    /\ pc' = [pc EXCEPT ![h] = "write"]
    /\ seen' = [seen EXCEPT ![h] = value]
    /\ UNCHANGED <<serves, shouldEmit, acked, waiting>>

Leave(h) ==
    /\ pc' = [pc EXCEPT ![h] = "idle"]
    /\ serves' = [serves EXCEPT ![h] = None]
    /\ seen' = [seen EXCEPT ![h] = None]
    /\ shouldEmit' = shouldEmit \ {h}
    /\ waiting' = IF waiting = h THEN None ELSE waiting

\* A 2xx answer, which only a waiting agent gets; an error, which it retries.
Acknowledge(h) ==
    /\ Leave(h)
    /\ acked' = IF waiting = h THEN acked \cup {serves[h]} ELSE acked
Fail(h) == Leave(h) /\ UNCHANGED acked

At(h, point, kinds) == pc[h] = point /\ kind[serves[h]] \in kinds
RowIsFree(h) == lock \in {None, h}

-----------------------------------------------------------------------------
(* POST /:id/events: the earliest arrival and the latest departure win *)

Wins(h) ==
    \/ kind[serves[h]] = "arrived" /\ (arrivedAt = None \/ serves[h] < arrivedAt)
    \/ kind[serves[h]] = "departed" /\ (departedAt = None \/ serves[h] > departedAt)

ReadMarks(h) ==
    /\ At(h, "read", {"arrived", "departed"})
    /\ IF Wins(h) THEN Go(h, None) ELSE Acknowledge(h)
    /\ UNCHANGED <<rowVars, lock, kind, stripeVars, faults>>

WriteMark(h) ==
    /\ At(h, "write", {"arrived", "departed"}) /\ RowIsFree(h)
    /\ IF kind[serves[h]] = "arrived"
         THEN arrivedAt' = serves[h] /\ UNCHANGED departedAt
         ELSE departedAt' = serves[h] /\ UNCHANGED arrivedAt
    /\ Acknowledge(h)
    /\ UNCHANGED <<paymentVars, lifeVars, completedAt, entries, lock, kind, stripeVars, faults>>

-----------------------------------------------------------------------------
(* PATCH /:id/checklist-items/:itemId: a completed item keeps its time *)

\* Mutant of NewTime: the request's time is written as it comes.
NewTimeAsSent(h) == IF kind[serves[h]] = "untick" THEN None ELSE serves[h]

NewTime(h) ==
    IF kind[serves[h]] = "untick" THEN None
    ELSE IF completedAt = None THEN serves[h] ELSE completedAt

ReadItem(h) ==
    /\ At(h, "read", {"tick", "untick"})
    /\ Go(h, NewTime(h))
    /\ UNCHANGED <<rowVars, lock, kind, stripeVars, faults>>

WriteItem(h) ==
    /\ At(h, "write", {"tick", "untick"})
    /\ completedAt' = seen[h]
    /\ Acknowledge(h)
    /\ UNCHANGED <<paymentVars, markVars, lifeVars, entries, lock, kind, stripeVars, faults>>

-----------------------------------------------------------------------------
(* POST /:id/time-entries: an opId that is known is acknowledged *)

LookUpEntry(h) ==
    /\ At(h, "read", {"clock_in"})
    /\ IF serves[h] \in entries THEN Acknowledge(h) ELSE Go(h, None)
    /\ UNCHANGED <<rowVars, lock, kind, stripeVars, faults>>

\* The second of two inserts violates the unique key.
CreateEntry(h) ==
    /\ At(h, "write", {"clock_in"})
    /\ IF serves[h] \in entries
         THEN Fail(h) /\ UNCHANGED entries
         ELSE Acknowledge(h) /\ entries' = entries \cup {serves[h]}
    /\ UNCHANGED <<paymentVars, markVars, lifeVars, completedAt, lock, kind, stripeVars, faults>>

-----------------------------------------------------------------------------
(* PATCH /:id with a status, in one transaction, which reads first if it completes *)

SetStatus(s, byPatch) ==
    /\ status' = s
    /\ reopened' = (reopened \/ (status = "completed" /\ s # "completed"))
    /\ quiet' = (quiet \/ (~byPatch /\ s = "completed"))

EmitsEveryTime(h) == kind[serves[h]] = "completed"

\* The event of a completion is written when the job was not completed before.
Emits(h) == kind[serves[h]] = "completed" /\ status # "completed"

ReadStatus(h) ==
    /\ At(h, "read", Statuses)
    /\ pc' = [pc EXCEPT ![h] = "write"]
    /\ shouldEmit' = IF Emits(h) THEN shouldEmit \cup {h} ELSE shouldEmit
    /\ UNCHANGED <<rowVars, lock, agentVars, serves, seen, stripeVars, faults>>

\* updateMany: the new status is seen by others when the transaction commits.
LockRow(h) ==
    /\ At(h, "write", Statuses) /\ lock = None
    /\ lock' = h
    /\ UNCHANGED <<rowVars, agentVars, handlerVars, stripeVars, faults>>

CommitStatus(h) ==
    /\ lock = h
    /\ lock' = None
    /\ IF h \in shouldEmit /\ outbox
         THEN Fail(h) /\ UNCHANGED lifeVars   \* the event's key is taken: all is rolled back
         ELSE /\ SetStatus(kind[serves[h]], TRUE)
              /\ outbox' = (outbox \/ h \in shouldEmit)
              /\ Acknowledge(h)
    /\ UNCHANGED <<paymentVars, markVars, completedAt, entries, kind, stripeVars, faults>>

-----------------------------------------------------------------------------
(* Slack: the accept button and /dispatch-status, one statement each *)

Slack(r) ==
    /\ Make(r, "slack") /\ lock = None
    /\ \/ status = "scheduled" /\ SetStatus("in_progress", FALSE)
       \/ \E s \in Statuses : SetStatus(s, FALSE)
    /\ UNCHANGED <<paymentVars, markVars, completedAt, entries, outbox, lock, acked, waiting,
                   handlerVars, stripeVars, faults>>

-----------------------------------------------------------------------------
(* POST /:id/payment-link, asked for by somebody who does not retry *)

AskForLink(h, r) ==
    /\ Make(r, "link")
    /\ Begin(h, r)
    /\ UNCHANGED <<rowVars, lock, acked, waiting, stripeVars, faults>>

CreateSession(h, s) ==
    /\ At(h, "read", {"link"}) /\ stripe[s] = "none"
    /\ stripe' = [stripe EXCEPT ![s] = "open"]
    /\ Go(h, s)
    /\ UNCHANGED <<rowVars, lock, kind, events, faults>>

WriteLink(h) ==
    /\ At(h, "write", {"link"}) /\ RowIsFree(h)
    /\ stripeSessionId' = seen[h] /\ paymentStatus' = "unpaid"
    /\ Fail(h)
    /\ UNCHANGED <<markVars, lifeVars, completedAt, entries, lock, kind, stripeVars, faults>>

StripeSends(s, type, payment) ==
    events' = events \cup {[session |-> s, type |-> type, payment_status |-> payment]}

\* The customer pays at once or by a slow method, which may fail.
StripeDecides(s) ==
    /\ \/ /\ stripe[s] = "open"
          /\ \/ stripe' = [stripe EXCEPT ![s] = "paid"] /\ StripeSends(s, "completed", "paid")
             \/ /\ stripe' = [stripe EXCEPT ![s] = "processing"]
                /\ StripeSends(s, "completed", "unpaid")
       \/ /\ stripe[s] = "processing"
          /\ \/ /\ stripe' = [stripe EXCEPT ![s] = "paid"]
                /\ StripeSends(s, "async_payment_succeeded", "paid")
             \/ /\ stripe' = [stripe EXCEPT ![s] = "failed"]
                /\ StripeSends(s, "async_payment_failed", "unpaid")
    /\ UNCHANGED <<rowVars, lock, agentVars, handlerVars, faults>>

StatusOf(e) ==
    IF e.type = "async_payment_failed" THEN "failed"
    ELSE IF e.payment_status = "paid" THEN "paid" ELSE "processing"

\* Mutant of Matches: the job is found by its id only.
MatchesJob(e) == stripeSessionId # None

\* updateMany: the job with this session.
Matches(e) == stripeSessionId = e.session

\* An event arrives, in any order and as often as Stripe likes to send it.
Webhook(e) ==
    /\ e \in events /\ lock = None
    /\ paymentStatus' = IF Matches(e) THEN StatusOf(e) ELSE paymentStatus
    /\ UNCHANGED <<stripeSessionId, markVars, lifeVars, completedAt, entries, lock, agentVars,
                   handlerVars, stripeVars, faults>>

-----------------------------------------------------------------------------
(* Faults *)

\* The agent gives up waiting; the handler does not know.
Timeout ==
    /\ waiting # None /\ Fault
    /\ waiting' = None
    /\ UNCHANGED <<rowVars, lock, kind, acked, handlerVars, stripeVars>>

\* The handler dies or its statement fails; its transaction is rolled back.
Crash(h) ==
    /\ pc[h] # "idle" /\ Fault
    /\ Fail(h)
    /\ lock' = IF lock = h THEN None ELSE lock
    /\ UNCHANGED <<rowVars, kind, stripeVars>>

-----------------------------------------------------------------------------
StatusStep(h) == ReadStatus(h) \/ LockRow(h) \/ CommitStatus(h)

HandlerStep(h) ==
    \/ ReadMarks(h) \/ WriteMark(h) \/ ReadItem(h) \/ WriteItem(h)
    \/ LookUpEntry(h) \/ CreateEntry(h) \/ StatusStep(h)
    \/ WriteLink(h)

Next ==
    \/ \E r \in Request :
          \/ \E k \in FieldKinds : Queue(r, k)
          \/ Slack(r)
          \/ \E h \in Handler : Send(h, r) \/ AskForLink(h, r)
    \/ \E h \in Handler :
          HandlerStep(h) \/ Crash(h) \/ \E s \in Session : CreateSession(h, s)
    \/ \E s \in Session : StripeDecides(s)
    \/ \E e \in events : Webhook(e)
    \/ Timeout

Spec == Init /\ [][Next]_vars

\* Handlers run, transactions end, and the agent sends what it has queued.
Fairness ==
    /\ \A h \in Handler : WF_vars(HandlerStep(h) \/ \E s \in Session : CreateSession(h, s))
    /\ WF_vars(\E h \in Handler, r \in Request : Send(h, r))

FairSpec == Spec /\ Fairness

-----------------------------------------------------------------------------
(* Properties *)

\* Types of the job's record, the agent, the handlers and Stripe.
TypeOK ==
    /\ status \in Statuses
    /\ arrivedAt \in Request \cup {None} /\ departedAt \in Request \cup {None}
    /\ completedAt \in Request \cup {None}
    /\ stripeSessionId \in Session \cup {None}
    /\ paymentStatus \in Verdicts \cup {"unpaid"}
    /\ entries \subseteq Request /\ acked \subseteq Request
    /\ outbox \in BOOLEAN /\ quiet \in BOOLEAN /\ reopened \in BOOLEAN
    /\ lock \in Handler \cup {None} /\ waiting \in Handler \cup {None}
    /\ kind \in [Request -> Kinds \cup {None}]
    /\ pc \in [Handler -> {"idle", "read", "write"}]
    /\ serves \in [Handler -> Request \cup {None}]
    /\ seen \in [Handler -> Request \cup Session \cup {None}] /\ shouldEmit \subseteq Handler
    /\ stripe \in [Session -> Verdicts \cup {"none", "open"}]
    /\ events \subseteq StripeEvents
    /\ faults \in Nat

\* "Outbox retries and double-taps can never rewind the record" (POST /:id/events):
\* the arrival is never later than one that was acknowledged, although handlers of
\* abandoned requests still write.
ArrivalIsEarliest ==
    \A r \in acked : kind[r] = "arrived" => arrivedAt # None /\ arrivedAt <= r

\* The same of the departure, which is never earlier than an acknowledged one.
DepartureIsLatest ==
    \A r \in acked : kind[r] = "departed" => departedAt # None /\ departedAt >= r

\* "An offline-queue retry can never corrupt completion evidence" (checklist items)
\* and "replays are safe" (opId of time entries): what was acknowledged is there,
\* with its first time, unless somebody has unticked the item.
EvidenceIsKept ==
    \A r \in acked :
        /\ kind[r] = "clock_in" => r \in entries
        /\ kind[r] = "tick" /\ (\A q \in Request : kind[q] # "untick") =>
              completedAt # None /\ completedAt <= r

\* Together: what was acknowledged to the field stays, however its retries interleave.
AcknowledgedIsKept == ArrivalIsEarliest /\ EvidenceIsKept

\* A job is completed by a request only together with the event that reports it,
\* in whatever order completions meet each other and Slack; only a completion from
\* Slack, or a job created as completed, goes unreported.
CompletionIsReported ==
    status = "completed" => outbox \/ quiet

\* The job shows Stripe's verdict on its present payment link only if Stripe has given
\* it: events that are late, repeated or of an earlier link change nothing.
PaymentIsHonest ==
    /\ paymentStatus \in {"paid", "failed"} =>
          stripeSessionId # None /\ stripe[stripeSessionId] = paymentStatus
    /\ paymentStatus = "processing" =>
          stripeSessionId # None /\ stripe[stripeSessionId] \in Verdicts

\* Together: completions and payments are what events and Stripe say of them.
ReportsAreHonest == CompletionIsReported /\ PaymentIsHonest

\* Every request of the agent is acknowledged in the end, unless a completed job was
\* reopened: its event's key is taken, and the next completion fails for ever.
EventuallyAcknowledged ==
    \A r \in Request : kind[r] \in FieldKinds ~> r \in acked \/ reopened

=============================================================================
