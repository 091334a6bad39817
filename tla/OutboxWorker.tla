---------------------------- MODULE OutboxWorker ----------------------------
(***************************************************************************)
(* The transactional outbox (lib/domainEventWorker.ts): rows of the        *)
(* DomainEventOutbox table, written in the transaction of the request they *)
(* report, claimed in batches under one lease by the interval loop of      *)
(* every API instance, routed to the adapters and finished.                *)
(*                                                                         *)
(* The lease of a batch is the worker that drew it: a worker is sequential *)
(* and finishes only events of its present batch, which it has claimed     *)
(* with its present lease.  lockedUntil is null, in the future or in the   *)
(* past; a pending row uses it for its backoff.                            *)
(***************************************************************************)
EXTENDS Naturals, FiniteSets

CONSTANTS
    Event,        \* outbox rows the instance may write, in createdAt order
    Worker,       \* interval loops, one per API instance
    None,         \* SQL null
    MaxAttempts,  \* MAX_ATTEMPTS
    BatchSize,    \* CLAIM_SIZE
    MaxFaults     \* bound: crashes and throws, overrun leases

ASSUME EventAssumption == Event \subseteq Nat
ASSUME NoneAssumption == None \notin Event /\ None \notin Worker
ASSUME BoundAssumption ==
    MaxAttempts \in Nat \ {0} /\ BatchSize \in Nat \ {0} /\ MaxFaults \in Nat

VARIABLES
    \* the DomainEventOutbox rows
    status, attempts, leaseId, lockedUntil,
    \* the workers: batch[w] is what the claim returned and is not yet finished
    pc, batch, claimed, current, result, up,
    \* history: how often the adapters took an event, and faults so far
    taken, faults

rowVars    == <<status, attempts, leaseId, lockedUntil>>
workerVars == <<pc, batch, claimed, current, result, up>>
ghostVars  == <<taken, faults>>
vars       == <<rowVars, workerVars, ghostVars>>

Statuses == {"absent", "pending", "processing", "completed", "dead_letter"}
Settled  == {"completed", "dead_letter"}
Results  == {"delivered", "retryable", "permanent"}
Points   == {"idle", "claim", "next", "route", "finish"}

NoClaims == [e \in Event |-> 0]

Init ==
    /\ status = [e \in Event |-> "absent"]
    /\ attempts = [e \in Event |-> 0]
    /\ leaseId = [e \in Event |-> None]
    /\ lockedUntil = [e \in Event |-> "null"]
    /\ pc = [w \in Worker |-> "idle"]
    /\ batch = [w \in Worker |-> {}]
    /\ claimed = [w \in Worker |-> NoClaims]
    /\ current = [w \in Worker |-> None]
    /\ result = [w \in Worker |-> None]
    /\ up = Worker
    /\ taken = [e \in Event |-> 0]
    /\ faults = 0

-----------------------------------------------------------------------------
\* The producer's transaction commits.  createdAt is when it began, so rows may
\* appear out of createdAt order.
Emit(e) ==
    /\ status[e] = "absent"
    /\ status' = [status EXCEPT ![e] = "pending"]
    /\ UNCHANGED <<attempts, leaseId, lockedUntil, workerVars, ghostVars>>

-----------------------------------------------------------------------------
(* runOnce: recover, claim, then one event after the other *)

ExpiredUnlocked(e) == status[e] = "processing" /\ lockedUntil[e] = "null"

Expired(e) == status[e] = "processing" /\ lockedUntil[e] = "past"

\* Mutant of Recover: the lease is left in the row.
RecoverKeepsLease(w) ==
    /\ pc[w] = "idle" /\ w \in up
    /\ status' = [e \in Event |-> IF Expired(e) THEN "pending" ELSE status[e]]
    /\ lockedUntil' = [e \in Event |-> IF Expired(e) THEN "null" ELSE lockedUntil[e]]
    /\ pc' = [pc EXCEPT ![w] = "claim"]
    /\ UNCHANGED <<leaseId, attempts, batch, claimed, current, result, up, ghostVars>>

Recover(w) ==
    /\ pc[w] = "idle" /\ w \in up
    /\ status' = [e \in Event |-> IF Expired(e) THEN "pending" ELSE status[e]]
    /\ leaseId' = [e \in Event |-> IF Expired(e) THEN None ELSE leaseId[e]]
    /\ lockedUntil' = [e \in Event |-> IF Expired(e) THEN "null" ELSE lockedUntil[e]]
    /\ pc' = [pc EXCEPT ![w] = "claim"]
    /\ UNCHANGED <<attempts, batch, claimed, current, result, up, ghostVars>>

\* Mutant of Candidate: finished rows are taken too.
CandidateAny(e) == status[e] # "absent" /\ lockedUntil[e] # "future"

Candidate(e) == status[e] = "pending" /\ lockedUntil[e] # "future"

\* The n oldest events of S: ORDER BY createdAt ASC LIMIT n.
Oldest(S, n) == {e \in S : Cardinality({f \in S : f < e}) < n}

\* claimDomainEvents.  FOR UPDATE SKIP LOCKED makes concurrent claims disjoint,
\* so one statement is one step; it returns the rows as it has updated them.
ClaimBatch(w) ==
    LET rows == Oldest({e \in Event : Candidate(e)}, BatchSize) IN
    /\ pc[w] = "claim"
    /\ status' = [e \in Event |-> IF e \in rows THEN "processing" ELSE status[e]]
    /\ attempts' = [e \in Event |-> IF e \in rows THEN attempts[e] + 1 ELSE attempts[e]]
    /\ leaseId' = [e \in Event |-> IF e \in rows THEN w ELSE leaseId[e]]
    /\ lockedUntil' = [e \in Event |-> IF e \in rows THEN "future" ELSE lockedUntil[e]]
    /\ batch' = [batch EXCEPT ![w] = rows]
    /\ claimed' = [claimed EXCEPT ![w] =
                     [e \in Event |-> IF e \in rows THEN attempts[e] + 1 ELSE 0]]
    /\ pc' = [pc EXCEPT ![w] = IF rows = {} THEN "idle" ELSE "next"]
    /\ UNCHANGED <<current, result, up, ghostVars>>

\* RETURNING promises no order.
NextEvent(w, e) ==
    /\ pc[w] = "next" /\ w \in up /\ e \in batch[w]
    /\ current' = [current EXCEPT ![w] = e]
    /\ batch' = [batch EXCEPT ![w] = @ \ {e}]
    /\ pc' = [pc EXCEPT ![w] = "route"]
    /\ UNCHANGED <<rowVars, claimed, result, up, ghostVars>>

\* The run is over: nothing is left, or stop() was called and what is left of
\* the batch stays leased.
EndRun(w) ==
    /\ pc[w] = "next" /\ (batch[w] = {} \/ w \notin up)
    /\ pc' = [pc EXCEPT ![w] = "idle"]
    /\ batch' = [batch EXCEPT ![w] = {}]
    /\ claimed' = [claimed EXCEPT ![w] = NoClaims]
    /\ UNCHANGED <<rowVars, current, result, up, ghostVars>>

-----------------------------------------------------------------------------
(* processClaimedDomainEvent: an invalid payload and an event no adapter    *)
(* supports are "permanent"; the Slack adapter takes an event by writing an *)
(* IntegrationDelivery row, with nothing that tells a second one apart.     *)

Answer(w, res) ==
    /\ pc[w] = "route"
    /\ result' = [result EXCEPT ![w] = res]
    /\ pc' = [pc EXCEPT ![w] = "finish"]
    /\ UNCHANGED <<rowVars, batch, claimed, current, up, faults>>

RouteTaken(w) ==
    /\ Answer(w, "delivered")
    /\ taken' = [taken EXCEPT ![current[w]] = @ + 1]

RouteRefused(w, res) == Answer(w, res) /\ UNCHANGED taken

\* Mutant of Owns: the lease is not compared.
OwnsAny(w, e) == leaseId[e] = leaseId[e]

Owns(w, e) == leaseId[e] = w

Again(w) == result[w] = "retryable" /\ claimed[w][current[w]] < MaxAttempts

FinishedStatus(w) ==
    IF result[w] = "delivered" THEN "completed" ELSE IF Again(w) THEN "pending" ELSE "dead_letter"

\* finishEvent, whose updateMany is keyed by the event and the lease.
Finish(w) ==
    LET e == current[w] IN
    /\ pc[w] = "finish"
    /\ IF ~Owns(w, e) THEN UNCHANGED <<status, leaseId, lockedUntil>> ELSE
         /\ status' = [status EXCEPT ![e] = FinishedStatus(w)]
         /\ leaseId' = [leaseId EXCEPT ![e] = None]
         /\ lockedUntil' = [lockedUntil EXCEPT ![e] = IF Again(w) THEN "future" ELSE "null"]
    /\ pc' = [pc EXCEPT ![w] = "next"]
    /\ claimed' = [claimed EXCEPT ![w][e] = 0]
    /\ current' = [current EXCEPT ![w] = None]
    /\ result' = [result EXCEPT ![w] = None]
    /\ UNCHANGED <<attempts, batch, up, ghostVars>>

-----------------------------------------------------------------------------
(* Failures, time and shutdown *)

\* The process dies or a statement throws.  The catch of runOnce swallows the
\* error, and the rest of the batch stays leased until the lease runs out.
Interrupt(w) ==
    /\ pc[w] # "idle" /\ faults < MaxFaults
    /\ faults' = faults + 1
    /\ pc' = [pc EXCEPT ![w] = "idle"]
    /\ batch' = [batch EXCEPT ![w] = {}]
    /\ claimed' = [claimed EXCEPT ![w] = NoClaims]
    /\ current' = [current EXCEPT ![w] = None]
    /\ result' = [result EXCEPT ![w] = None]
    /\ UNCHANGED <<rowVars, up, taken>>

InHand(w, e) == e \in batch[w] \/ current[w] = e

HolderAtWork(e) == \E w \in Worker : Owns(w, e) /\ InHand(w, e)

\* lockedUntil of an abandoned event, or the backoff of a pending one, passes.
LockExpires(e) ==
    /\ lockedUntil[e] = "future" /\ ~HolderAtWork(e)
    /\ lockedUntil' = [lockedUntil EXCEPT ![e] = "past"]
    /\ UNCHANGED <<status, attempts, leaseId, workerVars, ghostVars>>

\* A batch takes longer than LEASE_MS: the lease is one for all its events and
\* is never renewed between them.
LeaseOverrun(w) ==
    /\ \E e \in Event : lockedUntil[e] = "future" /\ Owns(w, e) /\ InHand(w, e)
    /\ faults < MaxFaults
    /\ faults' = faults + 1
    /\ lockedUntil' = [e \in Event |-> IF Owns(w, e) THEN "past" ELSE lockedUntil[e]]
    /\ UNCHANGED <<status, attempts, leaseId, workerVars, taken>>

\* stop(): one instance at least stays up.
Stop(w) ==
    /\ w \in up /\ up # {w}
    /\ up' = up \ {w}
    /\ UNCHANGED <<rowVars, pc, batch, claimed, current, result, ghostVars>>

-----------------------------------------------------------------------------
LoopStep(w) ==
    \/ Recover(w) \/ ClaimBatch(w) \/ EndRun(w)
    \/ \E e \in Event : NextEvent(w, e)
    \/ RouteRefused(w, "retryable") \/ RouteRefused(w, "permanent")
    \/ Finish(w)

WorkerStep(w) == LoopStep(w) \/ RouteTaken(w)

Fault(w) == Interrupt(w) \/ LeaseOverrun(w)

Next ==
    \/ \E e \in Event : Emit(e) \/ LockExpires(e)
    \/ \E w \in Worker : WorkerStep(w) \/ Fault(w) \/ Stop(w)

Spec == Init /\ [][Next]_vars

\* setInterval keeps firing in an instance that is up, its continuations run,
\* and the clock passes every deadline.
Fairness ==
    /\ \A w \in Worker : WF_vars(WorkerStep(w))
    /\ \A e \in Event : WF_vars(LockExpires(e))

FairSpec == Spec /\ Fairness

-----------------------------------------------------------------------------
(* Properties *)

\* Types of the rows and workers of lib/domainEventWorker.ts.
TypeOK ==
    /\ status \in [Event -> Statuses]
    /\ attempts \in [Event -> Nat]
    /\ leaseId \in [Event -> Worker \cup {None}]
    /\ lockedUntil \in [Event -> {"null", "future", "past"}]
    /\ pc \in [Worker -> Points]
    /\ batch \in [Worker -> SUBSET Event]
    /\ claimed \in [Worker -> [Event -> Nat]]
    /\ current \in [Worker -> Event \cup {None}]
    /\ result \in [Worker -> Results \cup {None}]
    /\ up \subseteq Worker
    /\ taken \in [Event -> Nat]
    /\ faults \in Nat

\* An event is taken again at most once per fault.
DuplicatesOnlyFromFaults ==
    \A e \in Event : taken[e] <= 1 + faults

\* A worker's own lease on an event in its hands is always of its latest claim:
\* no recovery, reclaim or late finish leaves it with an outdated attempt count.
LeaseIsCurrent ==
    \A w \in Worker, e \in Event :
        InHand(w, e) /\ Owns(w, e) =>
            status[e] = "processing" /\ claimed[w][e] = attempts[e]

\* Together: only faults take an event twice, and no worker holds an outdated lease.
LeasesAreHonest == DuplicatesOnlyFromFaults /\ LeaseIsCurrent

\* The outbox gives its producers the same promise as a delivery gives: a
\* committed event stays open until settled, and is completed only if taken.
Outcome(e) ==
    IF status[e] \in {"pending", "processing"} THEN "open"
    ELSE IF status[e] = "completed" THEN "delivered"
    ELSE status[e]
Posted(e) == taken[e] > 0

Promise == INSTANCE DeliveryPromise WITH
    Delivery <- Event,
    outcome <- [e \in Event |-> Outcome(e)], posted <- [e \in Event |-> Posted(e)]

KeepsPromise == Promise!Spec

\* A settled event is never opened again, by whatever late worker.
SettledForGood ==
    [][\A e \in Event : status[e] \in Settled => status'[e] = status[e]]_vars

\* Every committed event is settled in the end, through retries, abandoned
\* batches and shutdowns, as long as faults stop.
EventuallySettled ==
    \A e \in Event : status[e] # "absent" ~> status[e] \in Settled

=============================================================================
