--------------------------- MODULE DeliveryQueue ---------------------------
(***************************************************************************)
(* The integration delivery queue of the API (lib/integrationWorker.ts):   *)
(* rows of the IntegrationDelivery table, claimed under a lease by         *)
(* concurrent invocations of processIntegrationDelivery, posted to the     *)
(* provider, and finished, retried or dead-lettered.                       *)
(*                                                                         *)
(* An invocation ("runner") is either a Worker, the interval loop of one   *)
(* API instance, or a Caller, the fire-and-forget call that                *)
(* enqueueIntegrationDelivery makes for the row it has just created.  One  *)
(* database statement is one step; whatever happens between two awaits of  *)
(* the code can interleave with every other runner.                        *)
(*                                                                         *)
(* Abstractions.  A lease's UUID is the runner that drew it: a runner is   *)
(* sequential and claims a row again only by drawing a new lease, so two   *)
(* live leases never share a name.  Time is seen only through what the     *)
(* guards compare with it: whether nextAttemptAt is due and whether        *)
(* lockedUntil is null, in the future or in the past.                      *)
(***************************************************************************)
EXTENDS Naturals, FiniteSets

CONSTANTS
    Delivery,     \* rows the instance may create, numbered in createdAt order
    Linked,       \* the rows created with a notificationId
    Worker,       \* interval loops, one per API instance
    Caller,       \* background calls started by enqueueIntegrationDelivery
    None,         \* SQL null
    MaxAttempts,  \* MAX_ATTEMPTS
    BatchSize,    \* CLAIM_SIZE
    MaxFaults,    \* bound: crashes, overrun leases and lost answers together
    MaxRetries    \* bound: manual retries

Runner == Worker \cup Caller

ASSUME DeliveryAssumption == Delivery \subseteq Nat /\ Linked \subseteq Delivery
ASSUME RunnerAssumption == Worker \cap Caller = {}
ASSUME NoneAssumption == None \notin Delivery /\ None \notin Runner
ASSUME BoundAssumption ==
    /\ MaxAttempts \in Nat \ {0} /\ BatchSize \in Nat \ {0}
    /\ MaxFaults \in Nat /\ MaxRetries \in Nat

VARIABLES
    \* the IntegrationDelivery rows
    status, attemptCount, leaseId, lockedUntil, due,
    \* IntegrationDeliveryAttempt rows and the linked Notification's two fields
    attemptRows, slackDelivered, slackError,
    \* the runners
    pc, row, seen, result, todo, up,
    \* history: how often the provider accepted a row's message, and how many
    \* faults and manual retries there have been
    accepted, faults, retries

rowVars    == <<status, attemptCount, leaseId, lockedUntil, due>>
recordVars == <<attemptRows, slackDelivered, slackError>>
runnerVars == <<pc, row, seen, result, todo, up>>
ghostVars  == <<accepted, faults, retries>>
vars       == <<rowVars, recordVars, runnerVars, ghostVars>>

Statuses == {"absent", "pending", "processing", "failed", "delivered", "dead_letter"}
Settled  == {"delivered", "dead_letter"}
Results  == {"delivered", "retryable", "permanent"}
AttemptStatuses == {"delivered", "failed", "dead_letter"}
\* A runner at one of these points has claimed its row and not yet written back.
Holding  == {"reread", "route", "finish"}
Points   == {"idle", "claim", "record", "notify"} \cup Holding

\* A recorded attempt's status says how the answer was classified.
RecordedAs(res) ==
    IF res = "delivered" THEN "delivered"
    ELSE IF res = "retryable" THEN "failed"
    ELSE "dead_letter"

Init ==
    /\ status = [d \in Delivery |-> "absent"]
    /\ attemptCount = [d \in Delivery |-> 0]
    /\ leaseId = [d \in Delivery |-> None]
    /\ lockedUntil = [d \in Delivery |-> "null"]
    /\ due = [d \in Delivery |-> TRUE]
    /\ attemptRows = [d \in Delivery |-> {}]
    /\ slackDelivered = [d \in Delivery |-> FALSE]
    /\ slackError = [d \in Delivery |-> FALSE]
    /\ pc = [r \in Runner |-> "idle"]
    /\ row = [r \in Runner |-> None]
    /\ seen = [r \in Runner |-> 0]
    /\ result = [r \in Runner |-> None]
    /\ todo = [w \in Worker |-> {}]
    /\ up = Worker
    /\ accepted = [d \in Delivery |-> 0]
    /\ faults = 0
    /\ retries = 0

-----------------------------------------------------------------------------
(* Where a runner goes when it is done with a row, and when a statement     *)
(* throws: the loop's catch leaves the rest of the batch for the next poll. *)

Release(r) ==
    /\ pc' = [pc EXCEPT ![r] = "idle"]
    /\ row' = [row EXCEPT ![r] = None]
    /\ seen' = [seen EXCEPT ![r] = 0]
    /\ result' = [result EXCEPT ![r] = None]

Done(r) == Release(r) /\ UNCHANGED todo

Abort(r) == Release(r) /\ todo' = [w \in Worker |-> IF w = r THEN {} ELSE todo[w]]

ClaimableOnce(d) ==
    status[d] \in {"pending", "failed"} /\ due[d] /\ lockedUntil[d] # "future"

\* The predicate of the claim's updateMany and of the poll's findMany.
Claimable(d) ==
    \/ status[d] \in {"pending", "failed"} /\ due[d] /\ lockedUntil[d] # "future"
    \/ status[d] = "processing" /\ lockedUntil[d] = "past"

\* The n oldest rows of S: orderBy createdAt asc, take n.
Oldest(S, n) == {d \in S : Cardinality({e \in S : e < d}) < n}

-----------------------------------------------------------------------------
(* Enqueueing and polling *)

Enqueue(c, d) ==
    /\ pc[c] = "idle"
    /\ status[d] = "absent"
    /\ \A e \in Delivery : e < d => status[e] # "absent"
    /\ status' = [status EXCEPT ![d] = "pending"]
    /\ pc' = [pc EXCEPT ![c] = "claim"]
    /\ row' = [row EXCEPT ![c] = d]
    /\ UNCHANGED <<attemptCount, leaseId, lockedUntil, due, recordVars,
                   seen, result, todo, up, ghostVars>>

Poll(w) ==
    /\ w \in up /\ pc[w] = "idle" /\ todo[w] = {}
    /\ \E d \in Delivery : Claimable(d)
    /\ todo' = [todo EXCEPT ![w] = Oldest({d \in Delivery : Claimable(d)}, BatchSize)]
    /\ UNCHANGED <<rowVars, recordVars, pc, row, seen, result, up, ghostVars>>

\* The next row of the batch, skipped if it has been settled since the poll.
NextRow(w, d) ==
    /\ pc[w] = "idle" /\ d \in todo[w]
    /\ \A e \in todo[w] : d <= e
    /\ todo' = [todo EXCEPT ![w] = @ \ {d}]
    /\ IF status[d] \in Settled
         THEN UNCHANGED <<pc, row>>
         ELSE /\ pc' = [pc EXCEPT ![w] = "claim"]
              /\ row' = [row EXCEPT ![w] = d]
    /\ UNCHANGED <<rowVars, recordVars, seen, result, up, ghostVars>>

-----------------------------------------------------------------------------
(* claimDelivery: a conditional update, then a separate read of the row *)

Claim(r) ==
    /\ pc[r] = "claim"
    /\ Claimable(row[r])
    /\ status' = [status EXCEPT ![row[r]] = "processing"]
    /\ attemptCount' = [attemptCount EXCEPT ![row[r]] = @ + 1]
    /\ leaseId' = [leaseId EXCEPT ![row[r]] = r]
    /\ lockedUntil' = [lockedUntil EXCEPT ![row[r]] = "future"]
    /\ pc' = [pc EXCEPT ![r] = "reread"]
    /\ UNCHANGED <<due, recordVars, row, seen, result, todo, up, ghostVars>>

ClaimLost(r) ==
    /\ pc[r] = "claim"
    /\ ~Claimable(row[r])
    /\ Done(r)
    /\ UNCHANGED <<rowVars, recordVars, up, ghostVars>>

\* The row read back is the latest one, which a later claim may have changed;
\* the lease kept is the runner's own.
Reread(r) ==
    /\ pc[r] = "reread"
    /\ seen' = [seen EXCEPT ![r] = attemptCount[row[r]]]
    /\ pc' = [pc EXCEPT ![r] = "route"]
    /\ UNCHANGED <<rowVars, recordVars, row, result, todo, up, ghostVars>>

-----------------------------------------------------------------------------
(* The provider call.  An unparseable payload is "permanent" and a missing  *)
(* router is "retryable", both without a post; a throw is "retryable", and  *)
(* when the provider had accepted the message before the answer was lost    *)
(* that is a fault.                                                         *)

Answer(r, res) ==
    /\ pc[r] = "route"
    /\ result' = [result EXCEPT ![r] = res]
    /\ pc' = [pc EXCEPT ![r] = "finish"]
    /\ UNCHANGED <<rowVars, recordVars, row, seen, todo, up>>

Accept(r) == accepted' = [accepted EXCEPT ![row[r]] = @ + 1]

RouteDelivered(r) ==
    Answer(r, "delivered") /\ Accept(r) /\ UNCHANGED <<faults, retries>>

RouteRefused(r, res) == Answer(r, res) /\ UNCHANGED ghostVars

RouteAnswerLost(r) ==
    /\ faults < MaxFaults
    /\ Answer(r, "retryable")
    /\ Accept(r)
    /\ faults' = faults + 1
    /\ UNCHANGED retries

-----------------------------------------------------------------------------
(* finishDelivery: three writes, none of them in a transaction *)

\* Mutant of Exhausted: off by one.
ExhaustedLate(r) == seen[r] > MaxAttempts

Exhausted(r) == seen[r] >= MaxAttempts

\* Mutant of FinishedStatus: whatever cannot be retried counts as delivered.
FinishedOptimistic(r) ==
    IF result[r] # "retryable" THEN "delivered"
    ELSE IF Exhausted(r) THEN "dead_letter"
    ELSE "failed"

FinishedStatus(r) ==
    IF result[r] = "delivered" THEN "delivered"
    ELSE IF result[r] = "permanent" \/ Exhausted(r) THEN "dead_letter"
    ELSE "failed"

\* Mutant of OwnsLease: the updateMany is keyed by the row alone.
OwnsAnyLease(r) == pc[r] = "finish"

\* The updateMany is keyed by the row and the lease: it matches or it does not.
OwnsLease(r) == leaseId[row[r]] = r

Finish(r) ==
    /\ pc[r] = "finish"
    /\ OwnsLease(r)
    /\ status' = [status EXCEPT ![row[r]] = FinishedStatus(r)]
    /\ due' = [due EXCEPT ![row[r]] = @ /\ FinishedStatus(r) # "failed"]
    /\ leaseId' = [leaseId EXCEPT ![row[r]] = None]
    /\ lockedUntil' = [lockedUntil EXCEPT ![row[r]] = "null"]
    /\ pc' = [pc EXCEPT ![r] = "record"]
    /\ UNCHANGED <<attemptCount, recordVars, row, seen, result, todo, up, ghostVars>>

\* Mutant of FinishStale: a count of zero is not looked at.
FinishStaleGoesOn(r) ==
    /\ pc[r] = "finish"
    /\ ~OwnsLease(r)
    /\ pc' = [pc EXCEPT ![r] = "record"]
    /\ UNCHANGED <<rowVars, recordVars, row, seen, result, todo, up, ghostVars>>

FinishStale(r) ==
    /\ pc[r] = "finish"
    /\ ~OwnsLease(r)
    /\ Done(r)
    /\ UNCHANGED <<rowVars, recordVars, up, ghostVars>>

AttemptNumbers(d) == {a.number : a \in attemptRows[d]}

\* attemptRows is unique on (deliveryId, attemptNumber): a second insert throws.
RecordAttempt(r) ==
    /\ pc[r] = "record"
    /\ IF seen[r] \in AttemptNumbers(row[r])
         THEN Abort(r) /\ UNCHANGED attemptRows
         ELSE /\ attemptRows' = [attemptRows EXCEPT ![row[r]] = @ \cup
                     {[number |-> seen[r], status |-> RecordedAs(result[r])]}]
              /\ pc' = [pc EXCEPT ![r] = "notify"]
              /\ UNCHANGED <<row, seen, result, todo>>
    /\ UNCHANGED <<rowVars, slackDelivered, slackError, up, ghostVars>>

\* A failure writes slackError and leaves slackDelivered as it finds it.
UpdateNotification(r) ==
    /\ pc[r] = "notify"
    /\ IF row[r] \notin Linked
         THEN UNCHANGED <<slackDelivered, slackError>>
         ELSE /\ slackError' = [slackError EXCEPT ![row[r]] = result[r] # "delivered"]
              /\ slackDelivered' = [slackDelivered EXCEPT
                     ![row[r]] = @ \/ result[r] = "delivered"]
    /\ Done(r)
    /\ UNCHANGED <<rowVars, attemptRows, up, ghostVars>>

-----------------------------------------------------------------------------
(* POST /integrations/deliveries/:id/retry: the attempt count is kept *)

\* Mutant of Retry: any settled row is taken.
RetrySettled(d) ==
    /\ retries < MaxRetries
    /\ status[d] \in {"failed"} \cup Settled
    /\ status' = [status EXCEPT ![d] = "pending"]
    /\ due' = [due EXCEPT ![d] = TRUE]
    /\ leaseId' = [leaseId EXCEPT ![d] = None]
    /\ lockedUntil' = [lockedUntil EXCEPT ![d] = "null"]
    /\ retries' = retries + 1
    /\ UNCHANGED <<attemptCount, recordVars, runnerVars, accepted, faults>>

\* Mutant of Retry: the attempts start again from 0.
RetryAfresh(d) ==
    /\ retries < MaxRetries
    /\ status[d] \in {"failed", "dead_letter"}
    /\ status' = [status EXCEPT ![d] = "pending"]
    /\ attemptCount' = [attemptCount EXCEPT ![d] = 0]
    /\ due' = [due EXCEPT ![d] = TRUE]
    /\ leaseId' = [leaseId EXCEPT ![d] = None]
    /\ lockedUntil' = [lockedUntil EXCEPT ![d] = "null"]
    /\ retries' = retries + 1
    /\ UNCHANGED <<recordVars, runnerVars, accepted, faults>>

Retry(d) ==
    /\ retries < MaxRetries
    /\ status[d] \in {"failed", "dead_letter"}
    /\ status' = [status EXCEPT ![d] = "pending"]
    /\ due' = [due EXCEPT ![d] = TRUE]
    /\ leaseId' = [leaseId EXCEPT ![d] = None]
    /\ lockedUntil' = [lockedUntil EXCEPT ![d] = "null"]
    /\ retries' = retries + 1
    /\ UNCHANGED <<attemptCount, recordVars, runnerVars, accepted, faults>>

-----------------------------------------------------------------------------
(* Time, failures and shutdown *)

\* nextAttemptAt passes.
BackoffElapses(d) ==
    /\ status[d] = "failed" /\ ~due[d]
    /\ due' = [due EXCEPT ![d] = TRUE]
    /\ UNCHANGED <<status, attemptCount, leaseId, lockedUntil,
                   recordVars, runnerVars, ghostVars>>

HolderAtWork(d) ==
    \E r \in Runner : leaseId[d] = r /\ row[r] = d /\ pc[r] \in Holding

ExpireLease(d) ==
    /\ lockedUntil[d] = "future"
    /\ lockedUntil' = [lockedUntil EXCEPT ![d] = "past"]
    /\ UNCHANGED <<status, attemptCount, leaseId, due, recordVars, runnerVars,
                   accepted, retries>>

\* The lease of a runner that is gone runs out.
AbandonedLeaseExpires(d) == ~HolderAtWork(d) /\ ExpireLease(d) /\ UNCHANGED faults

\* The lease of a runner still at work runs out: it is slower than LEASE_MS.
LeaseOverrun(d) ==
    /\ HolderAtWork(d) /\ faults < MaxFaults
    /\ ExpireLease(d)
    /\ faults' = faults + 1

\* The process dies, or a statement of the runner throws.
Interrupt(r) ==
    /\ pc[r] # "idle" /\ faults < MaxFaults
    /\ faults' = faults + 1
    /\ Abort(r)
    /\ UNCHANGED <<rowVars, recordVars, up, accepted, retries>>

\* stop(): the loop breaks before the next row and never polls again.  The row
\* in hand is finished unless the process exits first, which is an Interrupt.
\* One instance at least stays up.
Stop(w) ==
    /\ w \in up /\ up # {w}
    /\ up' = up \ {w}
    /\ todo' = [todo EXCEPT ![w] = {}]
    /\ UNCHANGED <<rowVars, recordVars, pc, row, seen, result, ghostVars>>

-----------------------------------------------------------------------------
RunnerStep(r) ==
    \/ Claim(r) \/ ClaimLost(r) \/ Reread(r)
    \/ RouteDelivered(r) \/ RouteRefused(r, "retryable") \/ RouteRefused(r, "permanent")
    \/ Finish(r) \/ FinishStale(r) \/ RecordAttempt(r) \/ UpdateNotification(r)

LoopStep(w) == Poll(w) \/ \E d \in Delivery : NextRow(w, d)

ClockStep(d) == BackoffElapses(d) \/ AbandonedLeaseExpires(d)

Fault ==
    \/ \E r \in Runner : RouteAnswerLost(r) \/ Interrupt(r)
    \/ \E d \in Delivery : LeaseOverrun(d)

Next ==
    \/ \E c \in Caller, d \in Delivery : Enqueue(c, d)
    \/ \E w \in Worker : LoopStep(w) \/ Stop(w)
    \/ \E r \in Runner : RunnerStep(r)
    \/ \E d \in Delivery : ClockStep(d) \/ Retry(d)
    \/ Fault

Spec == Init /\ [][Next]_vars

\* The event loop runs every ready continuation, setInterval keeps firing in an
\* instance that is up, and the clock passes every deadline.  Nothing is assumed
\* of callers, retries, faults and shutdowns.
Fairness ==
    /\ \A r \in Runner : WF_vars(RunnerStep(r))
    /\ \A w \in Worker : WF_vars(LoopStep(w))
    /\ \A d \in Delivery : WF_vars(ClockStep(d))

FairSpec == Spec /\ Fairness

-----------------------------------------------------------------------------
(* Properties *)

\* Types of the rows, the records and the runners of lib/integrationWorker.ts.
TypeOK ==
    /\ status \in [Delivery -> Statuses]
    /\ attemptCount \in [Delivery -> Nat]
    /\ leaseId \in [Delivery -> Runner \cup {None}]
    /\ lockedUntil \in [Delivery -> {"null", "future", "past"}]
    /\ due \in [Delivery -> BOOLEAN]
    /\ attemptRows \in [Delivery -> SUBSET [number : Nat, status : AttemptStatuses]]
    /\ slackDelivered \in [Delivery -> BOOLEAN]
    /\ slackError \in [Delivery -> BOOLEAN]
    /\ pc \in [Runner -> Points]
    /\ row \in [Runner -> Delivery \cup {None}]
    /\ seen \in [Runner -> Nat]
    /\ result \in [Runner -> Results \cup {None}]
    /\ todo \in [Worker -> SUBSET Delivery]
    /\ up \subseteq Worker
    /\ accepted \in [Delivery -> Nat]
    /\ faults \in Nat /\ retries \in Nat

\* A row marked delivered was accepted by the provider at least once: neither a
\* stale runner nor a reclaim can settle a row on an answer nobody received.
DeliveredWasAccepted ==
    \A d \in Delivery : status[d] = "delivered" => accepted[d] > 0

\* The insert into the attempt history never meets the unique key
\* (deliveryId, attemptNumber), although a runner numbers its attempt with a
\* count it read in a statement of its own, after other claims may have moved it.
AttemptNumberIsFresh ==
    \A r \in Runner : pc[r] = "record" => seen[r] \notin AttemptNumbers(row[r])

\* The attempt history never contradicts the row: it knows no attempt that was
\* not claimed, it never runs ahead of an attempt in progress, and its last
\* entry says "delivered" exactly when the row does.
HistoryAgreesWithRow ==
    \A d \in Delivery : \A a \in attemptRows[d] :
        /\ a.number \in 1..attemptCount[d]
        /\ a.number = attemptCount[d] =>
              /\ status[d] # "processing"
              /\ a.status = "delivered" <=> status[d] = "delivered"
        /\ a.number < attemptCount[d] => a.status # "delivered"

\* The messages that the provider has accepted for the rows of D, numbered by row.
Posts(D) == UNION {{d} \X (1..accepted[d]) : d \in D}

\* A message reaches the provider more than once only when a runner died or
\* threw, outlived its lease, or lost the provider's answer: however many rows are
\* counted, they cost together one message more at most for each such fault, as no
\* fault makes two rows repeat ("At-least-once" of lib/slackJobThreads.ts).
DuplicatesOnlyFromFaults ==
    \A D \in SUBSET Delivery :
        IsFiniteSet(D) => Cardinality(Posts(D)) <= Cardinality(D) + faults

\* The claim does not look at MAX_ATTEMPTS, only finishDelivery does: the cap
\* can be passed, but only by reclaims of leases that faults left behind and,
\* as the manual retry keeps the count, by one attempt for each such retry.
CapPassedOnlyByFaultsAndRetries ==
    \A d \in Delivery : attemptCount[d] <= MaxAttempts + faults + retries

\* Together: what a row costs in attempts and in messages is paid for by its faults.
FaultsBoundAttempts == DuplicatesOnlyFromFaults /\ CapPassedOnlyByFaultsAndRetries

\* A notification shown as delivered to Slack belongs to a delivered row, at
\* every point between the three separate writes of finishDelivery.
NotificationIsHonest ==
    \A d \in Delivery : slackDelivered[d] => status[d] = "delivered"

\* Only the runner whose lease is in the row ends an attempt, with the count of
\* its own claim in hand; a dead letter needs a permanent refusal or the last
\* attempt, a retry needs an attempt left.
EndsOwnAttempt ==
    [][\A d \in Delivery :
         status[d] = "processing" /\ status'[d] # "processing" =>
           \E r \in Runner :
             /\ leaseId[d] = r /\ row[r] = d /\ pc[r] = "finish"
             /\ seen[r] = attemptCount[d]
             /\ status'[d] = "dead_letter" =>
                   result[r] = "permanent" \/ attemptCount[d] >= MaxAttempts
             /\ status'[d] = "failed" =>
                   result[r] = "retryable" /\ attemptCount[d] < MaxAttempts]_vars

\* What the queue promises its users (DeliveryPromise): a row stays open until
\* it is settled, as delivered only if the provider has it, and then for good.
Outcome(d) == IF status[d] \in {"pending", "processing", "failed"} THEN "open" ELSE status[d]
Posted(d) == accepted[d] > 0

Promise == INSTANCE DeliveryPromise WITH
    outcome <- [d \in Delivery |-> Outcome(d)], posted <- [d \in Delivery |-> Posted(d)]

KeepsPromise == Promise!Spec

\* Every row that was ever created is settled in the end, through retries,
\* abandoned leases and shutdowns, as long as faults stop.
EventuallySettled ==
    \A d \in Delivery : status[d] # "absent" ~> status[d] \in Settled

=============================================================================
