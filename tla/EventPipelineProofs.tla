------------------------- MODULE EventPipelineProofs -------------------------
(***************************************************************************)
(* Theorems about EventPipeline for every number of events, delivery rows, *)
(* instances, calls, attempts and faults.  A step of the pipeline is a     *)
(* step of each component or leaves it alone, so what OutboxWorkerProofs   *)
(* and DeliveryQueueProofs prove holds of the two tables; the invariant    *)
(* here is about the links between them.                                   *)
(***************************************************************************)
EXTENDS EventPipeline, FiniteSetTheorems, TLAPS

OutboxP == INSTANCE OutboxWorkerProofs WITH
    Worker <- Instance,
    status <- evStatus, attempts <- evAttempts, leaseId <- evLease, lockedUntil <- evLocked,
    pc <- evPc, batch <- evBatch, claimed <- evClaimed, current <- evCurrent,
    result <- evResult, up <- evUp, taken <- evTaken, faults <- evFaults

QueueP == INSTANCE DeliveryQueueProofs WITH
    Worker <- Instance, Linked <- {}, MaxRetries <- 0

-----------------------------------------------------------------------------
(* The steps of the components *)

\* The library's notions are the same in every instance.
LEMMA SameCardinality ==
  \A S : /\ Outbox!Cardinality(S) = Cardinality(S) /\ OutboxP!Cardinality(S) = Cardinality(S)
         /\ Queue!Cardinality(S) = Cardinality(S) /\ QueueP!Cardinality(S) = Cardinality(S)
         /\ QueueP!IsFiniteSet(S) <=> IsFiniteSet(S)
<1> SUFFICES ASSUME NEW S
             PROVE  /\ Outbox!Cardinality(S) = Cardinality(S)
                    /\ OutboxP!Cardinality(S) = Cardinality(S)
                    /\ Queue!Cardinality(S) = Cardinality(S)
                    /\ QueueP!Cardinality(S) = Cardinality(S)
                    /\ QueueP!IsFiniteSet(S) <=> IsFiniteSet(S)
  OBVIOUS
<1>1. Outbox!Cardinality(S) = Cardinality(S)
  BY DEF Outbox!Cardinality, Cardinality
<1>2. OutboxP!Cardinality(S) = Cardinality(S)
  BY DEF OutboxP!Cardinality, Cardinality
<1>3. Queue!Cardinality(S) = Cardinality(S)
  BY DEF Queue!Cardinality, Cardinality
<1>4. QueueP!Cardinality(S) = Cardinality(S)
  BY DEF QueueP!Cardinality, Cardinality
<1>5. QueueP!IsFiniteSet(S) <=> IsFiniteSet(S)
  BY DEF QueueP!IsFiniteSet, IsFiniteSet
<1> QED
  BY <1>1, <1>2, <1>3, <1>4, <1>5

\* The oldest rows of a set are the same in every instance.
LEMMA SameOldest ==
  \A S, n : /\ Outbox!Oldest(S, n) = OutboxP!Oldest(S, n)
            /\ Queue!Oldest(S, n) = QueueP!Oldest(S, n)
<1> SUFFICES ASSUME NEW S, NEW n
             PROVE  /\ Outbox!Oldest(S, n) = OutboxP!Oldest(S, n)
                    /\ Queue!Oldest(S, n) = QueueP!Oldest(S, n)
  OBVIOUS
<1> DEFINE Older(x) == {e \in S : e < x}
<1>1. Outbox!Oldest(S, n) = {x \in S : Outbox!Cardinality(Older(x)) < n}
  BY Zenon DEF Outbox!Oldest
<1>2. OutboxP!Oldest(S, n) = {x \in S : OutboxP!Cardinality(Older(x)) < n}
  BY Zenon DEF OutboxP!Oldest
<1>3. Queue!Oldest(S, n) = {x \in S : Queue!Cardinality(Older(x)) < n}
  BY Zenon DEF Queue!Oldest
<1>4. QueueP!Oldest(S, n) = {x \in S : QueueP!Cardinality(Older(x)) < n}
  BY Zenon DEF QueueP!Oldest
<1> HIDE DEF Older
<1> QED
  BY <1>1, <1>2, <1>3, <1>4, SameCardinality

\* An action of the outbox in EventPipeline is the action of which OutboxWorkerProofs speaks.
LEMMA SameOutboxActions ==
  /\ \A e : Outbox!Emit(e) => OutboxP!Emit(e)
  /\ \A e : Outbox!LockExpires(e) => OutboxP!LockExpires(e)
  /\ \A w : Outbox!LoopStep(w) => OutboxP!LoopStep(w)
  /\ \A w : Outbox!RouteTaken(w) => OutboxP!RouteTaken(w)
  /\ \A w : Outbox!Fault(w) => OutboxP!Fault(w)
<1>1. ASSUME NEW e PROVE Outbox!Emit(e) => OutboxP!Emit(e)
  BY DEF Outbox!Emit, OutboxP!Emit, Outbox!rowVars, OutboxP!rowVars, Outbox!workerVars,
     OutboxP!workerVars, Outbox!ghostVars, OutboxP!ghostVars
<1>2. ASSUME NEW e PROVE Outbox!LockExpires(e) => OutboxP!LockExpires(e)
  BY DEF Outbox!LockExpires, OutboxP!LockExpires, Outbox!HolderAtWork, OutboxP!HolderAtWork,
     Outbox!InHand, OutboxP!InHand, Outbox!Owns, OutboxP!Owns, Outbox!rowVars, OutboxP!rowVars,
     Outbox!workerVars, OutboxP!workerVars, Outbox!ghostVars, OutboxP!ghostVars
<1>3. ASSUME NEW w PROVE Outbox!Recover(w) => OutboxP!Recover(w)
  BY DEF Outbox!Recover, OutboxP!Recover, Outbox!Expired, OutboxP!Expired, Outbox!rowVars,
     OutboxP!rowVars, Outbox!workerVars, OutboxP!workerVars, Outbox!ghostVars,
     OutboxP!ghostVars
<1>4. ASSUME NEW w, Outbox!ClaimBatch(w) PROVE OutboxP!ClaimBatch(w)
  <2>1. {e \in Event : Outbox!Candidate(e)} = {e \in Event : OutboxP!Candidate(e)}
    BY DEF Outbox!Candidate, OutboxP!Candidate
  <2>2. Outbox!Oldest({e \in Event : Outbox!Candidate(e)}, BatchSize)
          = OutboxP!Oldest({e \in Event : OutboxP!Candidate(e)}, BatchSize)
    BY <2>1, SameOldest
  <2> QED
    BY Zenon, <1>4, <2>2
    DEF Outbox!ClaimBatch, OutboxP!ClaimBatch, Outbox!ghostVars, OutboxP!ghostVars
<1>5. ASSUME NEW w PROVE Outbox!EndRun(w) => OutboxP!EndRun(w)
  BY DEF Outbox!EndRun, OutboxP!EndRun, Outbox!NoClaims, OutboxP!NoClaims, Outbox!rowVars,
     OutboxP!rowVars, Outbox!workerVars, OutboxP!workerVars, Outbox!ghostVars,
     OutboxP!ghostVars
<1>6. ASSUME NEW w, NEW e PROVE Outbox!NextEvent(w, e) => OutboxP!NextEvent(w, e)
  BY DEF Outbox!NextEvent, OutboxP!NextEvent, Outbox!rowVars, OutboxP!rowVars,
     Outbox!workerVars, OutboxP!workerVars, Outbox!ghostVars, OutboxP!ghostVars
<1>7. ASSUME NEW w, NEW res PROVE Outbox!RouteRefused(w, res) => OutboxP!RouteRefused(w, res)
  BY DEF Outbox!RouteRefused, OutboxP!RouteRefused, Outbox!Answer, OutboxP!Answer,
     Outbox!rowVars, OutboxP!rowVars, Outbox!workerVars, OutboxP!workerVars, Outbox!ghostVars,
     OutboxP!ghostVars
<1>8. ASSUME NEW w PROVE Outbox!RouteTaken(w) => OutboxP!RouteTaken(w)
  BY DEF Outbox!RouteTaken, OutboxP!RouteTaken, Outbox!Answer, OutboxP!Answer, Outbox!rowVars,
     OutboxP!rowVars, Outbox!workerVars, OutboxP!workerVars, Outbox!ghostVars,
     OutboxP!ghostVars
<1>9. ASSUME NEW w PROVE Outbox!Finish(w) => OutboxP!Finish(w)
  BY DEF Outbox!Finish, OutboxP!Finish, Outbox!FinishedStatus, OutboxP!FinishedStatus,
     Outbox!Again, OutboxP!Again, Outbox!Owns, OutboxP!Owns, Outbox!rowVars, OutboxP!rowVars,
     Outbox!workerVars, OutboxP!workerVars, Outbox!ghostVars, OutboxP!ghostVars
<1>10. ASSUME NEW w PROVE Outbox!Fault(w) => OutboxP!Fault(w)
  BY DEF Outbox!Fault, OutboxP!Fault, Outbox!Interrupt, OutboxP!Interrupt, Outbox!LeaseOverrun,
     OutboxP!LeaseOverrun, Outbox!InHand, OutboxP!InHand, Outbox!Owns, OutboxP!Owns,
     Outbox!NoClaims, OutboxP!NoClaims, Outbox!rowVars, OutboxP!rowVars, Outbox!workerVars,
     OutboxP!workerVars, Outbox!ghostVars, OutboxP!ghostVars
<1> QED
  BY <1>1, <1>2, <1>3, <1>4, <1>5, <1>6, <1>7, <1>8, <1>9, <1>10
  DEF Outbox!LoopStep, OutboxP!LoopStep

\* An action of the queue in EventPipeline is the action of which DeliveryQueueProofs speaks.
LEMMA SameQueueActions ==
  /\ \A c, d : Queue!Enqueue(c, d) => QueueP!Enqueue(c, d)
  /\ \A w : Queue!LoopStep(w) => QueueP!LoopStep(w)
  /\ \A r : Queue!RunnerStep(r) => QueueP!RunnerStep(r)
  /\ \A d : Queue!ClockStep(d) => QueueP!ClockStep(d)
  /\ Queue!Fault => QueueP!Fault
<1>1. ASSUME NEW c, NEW d PROVE Queue!Enqueue(c, d) => QueueP!Enqueue(c, d)
  BY DEF Queue!Enqueue, QueueP!Enqueue, Queue!rowVars, QueueP!rowVars, Queue!recordVars,
     QueueP!recordVars, Queue!runnerVars, QueueP!runnerVars, Queue!ghostVars, QueueP!ghostVars
<1>2. ASSUME NEW w, NEW d PROVE Queue!NextRow(w, d) => QueueP!NextRow(w, d)
  BY DEF Queue!NextRow, QueueP!NextRow, Queue!Settled, QueueP!Settled, Queue!rowVars,
     QueueP!rowVars, Queue!recordVars, QueueP!recordVars, Queue!runnerVars, QueueP!runnerVars,
     Queue!ghostVars, QueueP!ghostVars
<1>3. ASSUME NEW r PROVE Queue!Claim(r) => QueueP!Claim(r)
  BY DEF Queue!Claim, QueueP!Claim, Queue!Claimable, QueueP!Claimable, Queue!rowVars,
     QueueP!rowVars, Queue!recordVars, QueueP!recordVars, Queue!runnerVars, QueueP!runnerVars,
     Queue!ghostVars, QueueP!ghostVars
<1>4. ASSUME NEW r PROVE Queue!ClaimLost(r) => QueueP!ClaimLost(r)
  BY DEF Queue!ClaimLost, QueueP!ClaimLost, Queue!Claimable, QueueP!Claimable, Queue!Done,
     QueueP!Done, Queue!Release, QueueP!Release, Queue!rowVars, QueueP!rowVars,
     Queue!recordVars, QueueP!recordVars, Queue!runnerVars, QueueP!runnerVars, Queue!ghostVars,
     QueueP!ghostVars
<1>5. ASSUME NEW r PROVE Queue!Reread(r) => QueueP!Reread(r)
  BY DEF Queue!Reread, QueueP!Reread, Queue!rowVars, QueueP!rowVars, Queue!recordVars,
     QueueP!recordVars, Queue!runnerVars, QueueP!runnerVars, Queue!ghostVars, QueueP!ghostVars
<1>6. ASSUME NEW r PROVE Queue!RouteDelivered(r) => QueueP!RouteDelivered(r)
  BY DEF Queue!RouteDelivered, QueueP!RouteDelivered, Queue!Answer, QueueP!Answer,
     Queue!Accept, QueueP!Accept, Queue!rowVars, QueueP!rowVars, Queue!recordVars,
     QueueP!recordVars, Queue!runnerVars, QueueP!runnerVars, Queue!ghostVars, QueueP!ghostVars
<1>7. ASSUME NEW r, NEW res PROVE Queue!RouteRefused(r, res) => QueueP!RouteRefused(r, res)
  BY DEF Queue!RouteRefused, QueueP!RouteRefused, Queue!Answer, QueueP!Answer, Queue!rowVars,
     QueueP!rowVars, Queue!recordVars, QueueP!recordVars, Queue!runnerVars, QueueP!runnerVars,
     Queue!ghostVars, QueueP!ghostVars
<1>8. ASSUME NEW r PROVE Queue!Finish(r) => QueueP!Finish(r)
  BY DEF Queue!Finish, QueueP!Finish, Queue!FinishedStatus, QueueP!FinishedStatus,
     Queue!Exhausted, QueueP!Exhausted, Queue!OwnsLease, QueueP!OwnsLease, Queue!rowVars,
     QueueP!rowVars, Queue!recordVars, QueueP!recordVars, Queue!runnerVars, QueueP!runnerVars,
     Queue!ghostVars, QueueP!ghostVars
<1>9. ASSUME NEW r PROVE Queue!FinishStale(r) => QueueP!FinishStale(r)
  BY DEF Queue!FinishStale, QueueP!FinishStale, Queue!OwnsLease, QueueP!OwnsLease, Queue!Done,
     QueueP!Done, Queue!Release, QueueP!Release, Queue!rowVars, QueueP!rowVars,
     Queue!recordVars, QueueP!recordVars, Queue!runnerVars, QueueP!runnerVars, Queue!ghostVars,
     QueueP!ghostVars
<1>10. ASSUME NEW r PROVE Queue!RecordAttempt(r) => QueueP!RecordAttempt(r)
  BY DEF Queue!RecordAttempt, QueueP!RecordAttempt, Queue!AttemptNumbers,
     QueueP!AttemptNumbers, Queue!RecordedAs, QueueP!RecordedAs, Queue!Abort, QueueP!Abort,
     Queue!Release, QueueP!Release, Queue!rowVars, QueueP!rowVars, Queue!recordVars,
     QueueP!recordVars, Queue!runnerVars, QueueP!runnerVars, Queue!ghostVars, QueueP!ghostVars
<1>11. ASSUME NEW r PROVE Queue!UpdateNotification(r) => QueueP!UpdateNotification(r)
  BY DEF Queue!UpdateNotification, QueueP!UpdateNotification, Queue!Done, QueueP!Done,
     Queue!Release, QueueP!Release, Queue!rowVars, QueueP!rowVars, Queue!recordVars,
     QueueP!recordVars, Queue!runnerVars, QueueP!runnerVars, Queue!ghostVars, QueueP!ghostVars
<1>12. ASSUME NEW d PROVE Queue!ClockStep(d) => QueueP!ClockStep(d)
  BY DEF Queue!ClockStep, QueueP!ClockStep, Queue!BackoffElapses, QueueP!BackoffElapses,
     Queue!AbandonedLeaseExpires, QueueP!AbandonedLeaseExpires, Queue!ExpireLease,
     QueueP!ExpireLease, Queue!HolderAtWork, QueueP!HolderAtWork, Queue!Holding,
     QueueP!Holding, Queue!Runner, QueueP!Runner, Queue!rowVars, QueueP!rowVars,
     Queue!recordVars, QueueP!recordVars, Queue!runnerVars, QueueP!runnerVars, Queue!ghostVars,
     QueueP!ghostVars
<1>13. ASSUME NEW w PROVE Queue!Poll(w) => QueueP!Poll(w)
  <2>1. \A d : Queue!Claimable(d) <=> QueueP!Claimable(d)
    BY DEF Queue!Claimable, QueueP!Claimable
  <2>2. {d \in Delivery : Queue!Claimable(d)} = {d \in Delivery : QueueP!Claimable(d)}
    BY <2>1
  <2>3. Queue!Oldest({d \in Delivery : Queue!Claimable(d)}, BatchSize)
          = QueueP!Oldest({d \in Delivery : QueueP!Claimable(d)}, BatchSize)
    BY <2>2, SameOldest
  <2> QED
    BY <2>1, <2>3 DEF Queue!Poll, QueueP!Poll, Queue!rowVars, QueueP!rowVars, Queue!recordVars,
       QueueP!recordVars, Queue!ghostVars, QueueP!ghostVars
<1>14. Queue!Fault => QueueP!Fault
  BY DEF Queue!Fault, QueueP!Fault, Queue!Runner, QueueP!Runner, Queue!RouteAnswerLost,
     QueueP!RouteAnswerLost, Queue!Answer, QueueP!Answer, Queue!Accept, QueueP!Accept,
     Queue!Interrupt, QueueP!Interrupt, Queue!Abort, QueueP!Abort, Queue!Release,
     QueueP!Release, Queue!LeaseOverrun, QueueP!LeaseOverrun, Queue!ExpireLease,
     QueueP!ExpireLease, Queue!HolderAtWork, QueueP!HolderAtWork, Queue!Holding,
     QueueP!Holding, Queue!rowVars, QueueP!rowVars, Queue!recordVars, QueueP!recordVars,
     Queue!runnerVars, QueueP!runnerVars, Queue!ghostVars, QueueP!ghostVars
<1> QED
  BY <1>1, <1>2, <1>3, <1>4, <1>5, <1>6, <1>7, <1>8, <1>9, <1>10, <1>11, <1>12, <1>13, <1>14
  DEF Queue!LoopStep, QueueP!LoopStep, Queue!RunnerStep, QueueP!RunnerStep

-----------------------------------------------------------------------------
(* The components *)

\* The outbox does not see the rest of the pipeline.
LEMMA PipelineRunsOutbox == Spec => OutboxP!Spec
<1>1. Init => OutboxP!Init
  BY DEF Init, Outbox!Init, OutboxP!Init, Outbox!NoClaims, OutboxP!NoClaims
<1>2. [Next]_vars => [OutboxP!Next]_(OutboxP!vars)
  <2> SUFFICES ASSUME [Next]_vars PROVE [OutboxP!Next]_(OutboxP!vars)
    OBVIOUS
  <2>1. CASE UNCHANGED outboxVars
    BY <2>1 DEF outboxVars, OutboxP!vars, OutboxP!rowVars, OutboxP!workerVars, OutboxP!ghostVars
  <2>2. CASE \E e \in Event : Outbox!Emit(e) \/ Outbox!LockExpires(e)
    BY <2>2, SameOutboxActions DEF OutboxP!Next
  <2>3. CASE \E w \in Instance : Outbox!LoopStep(w) \/ Outbox!RouteTaken(w) \/ Outbox!Fault(w)
    BY <2>3, SameOutboxActions DEF OutboxP!Next, OutboxP!WorkerStep
  <2> QED
    BY <2>1, <2>2, <2>3
    DEF Next, vars, CommitWithEvent, CommitJob, AnnounceJob, AnnounceLost, OutboxClock,
        OutboxWorkerStep, OutboxStep, AdapterEnqueues, QueueLoop, QueueRunner, QueueClock, Fault
<1> QED
  BY <1>1, <1>2, PTL DEF Spec, OutboxP!Spec

\* The queue does not see the rest of the pipeline.
LEMMA PipelineRunsQueue == Spec => QueueP!Spec
<1>1. Init => QueueP!Init
  BY DEF Init, Queue!Init, QueueP!Init, Queue!Runner, QueueP!Runner
<1>2. [Next]_vars => [QueueP!Next]_(QueueP!vars)
  <2> SUFFICES ASSUME [Next]_vars PROVE [QueueP!Next]_(QueueP!vars)
    OBVIOUS
  <2>1. CASE UNCHANGED deliveryVars
    BY <2>1 DEF deliveryVars, QueueP!vars, QueueP!rowVars, QueueP!recordVars, QueueP!runnerVars,
       QueueP!ghostVars
  <2>2. CASE \E c \in Caller, d \in Delivery : Queue!Enqueue(c, d)
    BY <2>2, SameQueueActions DEF QueueP!Next
  <2>3. CASE \E w \in Instance : Queue!LoopStep(w)
    BY <2>3, SameQueueActions DEF QueueP!Next
  <2>4. CASE \E r \in Queue!Runner : Queue!RunnerStep(r)
    BY <2>4, SameQueueActions DEF QueueP!Next, Queue!Runner, QueueP!Runner
  <2>5. CASE \E d \in Delivery : Queue!ClockStep(d)
    BY <2>5, SameQueueActions DEF QueueP!Next
  <2>6. CASE Queue!Fault
    BY <2>6, SameQueueActions DEF QueueP!Next
  <2> QED
    BY <2>1, <2>2, <2>3, <2>4, <2>5, <2>6
    DEF Next, vars, CommitWithEvent, CommitJob, AnnounceJob, AnnounceLost, OutboxClock,
        OutboxWorkerStep, OutboxStep, AdapterEnqueues, QueueLoop, QueueRunner, QueueClock, Fault
<1> QED
  BY <1>1, <1>2, PTL DEF Spec, QueueP!Spec

\* What is proved of the components holds of the two tables of the pipeline.
LEMMA ComponentsAreSound ==
  Spec => []( /\ OutboxP!IInv /\ OutboxP!LeasesAreHonest
              /\ QueueP!IInv /\ QueueP!FaultsBoundAttempts)
<1> USE RowAssumption, RunnerAssumption, NoneAssumption, BoundAssumption
<1>1. OutboxP!Spec => []OutboxP!IInv
  BY OutboxP!Invariant
<1>2. OutboxP!Spec => []OutboxP!LeasesAreHonest
  BY OutboxP!LeasesStayHonest
<1>3. QueueP!Spec => []QueueP!IInv
  BY QueueP!Invariant DEF QueueP!Runner
<1>4. QueueP!Spec => []QueueP!FaultsBoundAttempts
  BY QueueP!FaultsBoundCosts DEF QueueP!Runner
<1> QED
  BY <1>1, <1>2, <1>3, <1>4, PipelineRunsOutbox, PipelineRunsQueue, PTL
-----------------------------------------------------------------------------
(* The links between the tables *)

\* An event is there exactly when its record says so.
RecordsMatchEvents ==
    /\ record \in [Event -> {"none", "committed", "reported", "unreported"}]
    /\ \A e \in Event : record[e] = "reported" <=> evStatus[e] # "absent"

\* A row exists exactly when it belongs to an event, which exists too, and only the message
\* of an existing row has been posted.
LinksMatchRows ==
    /\ origin \in [Delivery -> Event \cup {None}]
    /\ \A d \in Delivery :
          /\ origin[d] # None <=> status[d] # "absent"
          /\ origin[d] # None => evStatus[origin[d]] # "absent"
          /\ accepted[d] > 0 => origin[d] # None

\* An event has as many rows as the adapter has taken it times.
TakesLeaveRows ==
    \A e \in Event : IsFiniteSet(RowsOf(e)) /\ Cardinality(RowsOf(e)) = evTaken[e]

LinksInOrder == RecordsMatchEvents /\ LinksMatchRows /\ TakesLeaveRows

ComponentsSound ==
    /\ OutboxP!IInv /\ OutboxP!LeasesAreHonest
    /\ QueueP!IInv /\ QueueP!FaultsBoundAttempts

IInv == ComponentsSound /\ LinksInOrder

\* A step of the outbox other than the two that the pipeline shares with it.
OutboxMoves ==
    \/ \E w \in Instance : OutboxP!LoopStep(w) \/ OutboxP!Fault(w)
    \/ \E e \in Event : OutboxP!LockExpires(e)

\* Such a step writes and deletes no event and takes none; it settles one event that was
\* open, or leaves every event as open as it was.
EventIsOpen(s) == s \in {"pending", "processing"}
LEMMA OutboxMovesOneEvent ==
  ASSUME OutboxP!IInv, OutboxMoves
  PROVE  /\ evTaken' = evTaken
         /\ \/ \A e \in Event : /\ EventIsOpen(evStatus'[e]) <=> EventIsOpen(evStatus[e])
                                /\ evStatus'[e] = "absent" <=> evStatus[e] = "absent"
            \/ \E e \in Event : /\ evStatus[e] = "processing"
                                /\ evStatus'[e] \in {"completed", "dead_letter"}
                                /\ \A f \in Event : f # e => evStatus'[f] = evStatus[f]
<1> DEFINE Same == \A e \in Event : /\ EventIsOpen(evStatus'[e]) <=> EventIsOpen(evStatus[e])
                                    /\ evStatus'[e] = "absent" <=> evStatus[e] = "absent"
           Settles(e) == /\ evStatus[e] = "processing"
                         /\ evStatus'[e] \in {"completed", "dead_letter"}
                         /\ \A f \in Event : f # e => evStatus'[f] = evStatus[f]
<1> USE RowAssumption, NoneAssumption DEF EventIsOpen
<1>1. ASSUME NEW w \in Instance, OutboxP!Recover(w) PROVE evTaken' = evTaken /\ Same
  BY <1>1 DEF OutboxP!Recover, OutboxP!Expired, OutboxP!ghostVars
<1>2. ASSUME NEW w \in Instance, OutboxP!ClaimBatch(w) PROVE evTaken' = evTaken /\ Same
  <2> DEFINE rows == OutboxP!Oldest({e \in Event : OutboxP!Candidate(e)}, BatchSize)
  <2>1. \A e \in rows : evStatus[e] = "pending"
    BY DEF OutboxP!Oldest, OutboxP!Candidate
  <2>2. /\ evStatus' = [e \in Event |-> IF e \in rows THEN "processing" ELSE evStatus[e]]
        /\ evTaken' = evTaken
    BY <1>2 DEF OutboxP!ClaimBatch, OutboxP!ghostVars
  <2> HIDE DEF rows
  <2> QED
    BY <2>1, <2>2
<1>3. ASSUME NEW w \in Instance, OutboxP!Finish(w)
      PROVE  evTaken' = evTaken /\ (Same \/ \E e \in Event : Settles(e))
  <2>1. PICK e \in Event : e = evCurrent[w]
    BY <1>3 DEF OutboxP!Finish, OutboxP!IInv, OutboxP!HandsMatchPoint
  <2>2. evTaken' = evTaken
    BY <1>3 DEF OutboxP!Finish, OutboxP!ghostVars
  <2>3. CASE evStatus' = evStatus
    BY <2>2, <2>3
  <2>4. CASE evLease[e] = w /\ evStatus' = [evStatus EXCEPT ![e] = OutboxP!FinishedStatus(w)]
    <3>1. evStatus[e] = "processing"
      BY <2>4 DEF OutboxP!IInv, OutboxP!LeaseMatchesStatus
    <3>2. evStatus \in [Event -> OutboxP!Statuses]
      BY DEF OutboxP!IInv, OutboxP!TypeOK
    <3> QED
      BY <2>2, <2>4, <3>1, <3>2 DEF OutboxP!FinishedStatus
  <2> QED
    BY <1>3, <2>1, <2>3, <2>4 DEF OutboxP!Finish, OutboxP!Owns
<1>4. ASSUME UNCHANGED <<evStatus, evTaken>> PROVE evTaken' = evTaken /\ Same
  BY <1>4
<1>5. \/ UNCHANGED <<evStatus, evTaken>>
      \/ \E w \in Instance : OutboxP!Recover(w) \/ OutboxP!ClaimBatch(w) \/ OutboxP!Finish(w)
  BY DEF OutboxMoves, OutboxP!LoopStep, OutboxP!EndRun, OutboxP!NextEvent, OutboxP!RouteRefused,
     OutboxP!Answer, OutboxP!Fault, OutboxP!Interrupt, OutboxP!LeaseOverrun,
     OutboxP!LockExpires, OutboxP!rowVars, OutboxP!ghostVars
<1> QED
  BY <1>1, <1>2, <1>3, <1>4, <1>5

\* A step of the queue other than an enqueue.
QueueMoves ==
    \/ \E w \in Instance : QueueP!LoopStep(w)
    \/ \E r \in QueueP!Runner : QueueP!RunnerStep(r)
    \/ \E d \in Delivery : QueueP!ClockStep(d)
    \/ QueueP!Fault

\* Such a step creates and deletes no row; it posts the message of one row, settles one row
\* that was open, as delivered only after a post, or leaves every row as open as it was.
RowIsOpen(s) == s \in {"pending", "processing", "failed"}
RowsAsOpen ==
    /\ accepted' = accepted
    /\ \A d \in Delivery : \/ status'[d] = status[d]
                           \/ RowIsOpen(status'[d]) /\ RowIsOpen(status[d])
RowPosted(d) ==
    /\ status' = status /\ status[d] # "absent" /\ accepted'[d] > 0
    /\ \A x \in Delivery : x # d => accepted'[x] = accepted[x]
RowSettled(d) ==
    /\ accepted' = accepted /\ RowIsOpen(status[d]) /\ status'[d] \in {"delivered", "dead_letter"}
    /\ \A x \in Delivery : x # d => status'[x] = status[x]
    /\ status'[d] = "delivered" => accepted[d] > 0
LEMMA QueueMovesOneRow ==
  ASSUME QueueP!IInv, QueueMoves
  PROVE  RowsAsOpen \/ \E d \in Delivery : RowPosted(d) \/ RowSettled(d)
<1> USE RowAssumption, NoneAssumption DEF QueueP!Runner
<1>t. /\ status \in [Delivery -> QueueP!Statuses] /\ accepted \in [Delivery -> Nat]
      /\ \A r \in QueueP!Runner :
            pc[r] # "idle" => row[r] \in Delivery /\ status[row[r]] # "absent"
  BY DEF QueueP!IInv, QueueP!TypeOK, QueueP!RunnerHasRow
<1>1. ASSUME NEW r \in QueueP!Runner, QueueP!Claim(r) PROVE RowsAsOpen
  BY <1>1, <1>t DEF QueueP!Claim, QueueP!Claimable, QueueP!ghostVars, RowsAsOpen, RowIsOpen
<1>2. ASSUME NEW r \in QueueP!Runner, QueueP!RouteDelivered(r) \/ QueueP!RouteAnswerLost(r)
      PROVE  \E d \in Delivery : RowPosted(d)
  <2>1. PICK d \in Delivery : d = row[r] /\ status[d] # "absent"
    BY <1>2, <1>t DEF QueueP!RouteDelivered, QueueP!RouteAnswerLost, QueueP!Answer
  <2>2. accepted' = [accepted EXCEPT ![d] = @ + 1] /\ status' = status
    BY <1>2, <2>1 DEF QueueP!RouteDelivered, QueueP!RouteAnswerLost, QueueP!Accept,
       QueueP!Answer, QueueP!rowVars
  <2> QED
    BY <1>t, <2>1, <2>2 DEF RowPosted
<1>3. ASSUME NEW r \in QueueP!Runner, QueueP!Finish(r)
      PROVE  RowsAsOpen \/ \E d \in Delivery : RowSettled(d)
  <2>1. PICK d \in Delivery : d = row[r]
    BY <1>3, <1>t DEF QueueP!Finish
  <2>2. status[d] = "processing"
    BY <1>3, <2>1 DEF QueueP!Finish, QueueP!OwnsLease, QueueP!IInv, QueueP!LeaseMatchesStatus
  <2>3. status' = [status EXCEPT ![d] = QueueP!FinishedStatus(r)] /\ accepted' = accepted
    BY <1>3, <2>1 DEF QueueP!Finish, QueueP!ghostVars
  <2>4. CASE QueueP!FinishedStatus(r) = "failed"
    BY <1>t, <2>2, <2>3, <2>4 DEF RowsAsOpen, RowIsOpen
  <2>5. CASE QueueP!FinishedStatus(r) = "dead_letter"
    BY <1>t, <2>2, <2>3, <2>5 DEF RowSettled, RowIsOpen
  <2>6. CASE QueueP!FinishedStatus(r) = "delivered"
    <3>1. accepted[d] > 0
      BY <1>3, <2>1, <2>6
      DEF QueueP!IInv, QueueP!AnswerIsTrue, QueueP!Finish, QueueP!FinishedStatus
    <3> QED
      BY <1>t, <2>2, <2>3, <2>6, <3>1 DEF RowSettled, RowIsOpen
  <2> QED
    BY <2>4, <2>5, <2>6 DEF QueueP!FinishedStatus
<1>4. CASE UNCHANGED <<status, accepted>>
  BY <1>4 DEF RowsAsOpen
<1>5. \/ UNCHANGED <<status, accepted>>
      \/ \E r \in QueueP!Runner : \/ QueueP!Claim(r) \/ QueueP!Finish(r)
                                  \/ QueueP!RouteDelivered(r) \/ QueueP!RouteAnswerLost(r)
  BY DEF QueueMoves, QueueP!RunnerStep, QueueP!LoopStep, QueueP!ClockStep, QueueP!Fault,
     QueueP!Poll, QueueP!NextRow, QueueP!ClaimLost, QueueP!Reread, QueueP!RouteRefused,
     QueueP!Answer, QueueP!FinishStale, QueueP!RecordAttempt, QueueP!UpdateNotification,
     QueueP!BackoffElapses, QueueP!AbandonedLeaseExpires, QueueP!LeaseOverrun,
     QueueP!ExpireLease, QueueP!Interrupt, QueueP!rowVars, QueueP!ghostVars
<1> QED
  BY <1>1, <1>2, <1>3, <1>4, <1>5

\* What the pipeline's steps are for its two components.
LEMMA PipelineSteps ==
  ASSUME Next
  PROVE  \/ \E e \in Event : \/ CommitWithEvent(e) /\ OutboxP!Emit(e)
                             \/ CommitJob(e) \/ AnnounceLost(e)
                             \/ AnnounceJob(e) /\ OutboxP!Emit(e)
         \/ OutboxMoves /\ UNCHANGED <<record, deliveryVars, origin>>
         \/ \E w \in Instance, c \in Caller, d \in Delivery :
               AdapterEnqueues(w, c, d) /\ OutboxP!RouteTaken(w) /\ QueueP!Enqueue(c, d)
         \/ QueueMoves /\ UNCHANGED <<record, outboxVars, origin>>
<1>1. \A r : r \in Queue!Runner <=> r \in QueueP!Runner
  BY DEF Queue!Runner, QueueP!Runner
<1> QED
  BY <1>1, SameOutboxActions, SameQueueActions
  DEF Next, CommitWithEvent, AnnounceJob, OutboxClock, OutboxWorkerStep, OutboxStep,
      AdapterEnqueues, QueueLoop, QueueRunner, QueueClock, Fault, OutboxMoves, QueueMoves

\* An enqueue adds one row to one event that exists, and posts nothing.
LEMMA EnqueueAddsRow ==
  ASSUME IInv, NEW w \in Instance, NEW c \in Caller, NEW d \in Delivery,
         AdapterEnqueues(w, c, d), OutboxP!RouteTaken(w), QueueP!Enqueue(c, d)
  PROVE  \E e \in Event :
            /\ evStatus[e] # "absent" /\ origin[d] = None /\ accepted[d] = 0
            /\ origin' = [origin EXCEPT ![d] = e] /\ evTaken' = [evTaken EXCEPT ![e] = @ + 1]
            /\ status' = [status EXCEPT ![d] = "pending"]
            /\ UNCHANGED <<record, evStatus, accepted>>
<1> USE DEF IInv, ComponentsSound
<1>1. PICK e \in Event : e = evCurrent[w]
  BY DEF OutboxP!RouteTaken, OutboxP!Answer, OutboxP!IInv, OutboxP!HandsMatchPoint
<1>2. evStatus[e] # "absent"
  BY <1>1 DEF OutboxP!IInv, OutboxP!HandsExist, OutboxP!InHand
<1>3. origin[d] = None /\ accepted[d] = 0
  BY DEF QueueP!Enqueue, LinksInOrder, LinksMatchRows, QueueP!IInv, QueueP!TypeOK
<1> QED
  BY <1>1, <1>2, <1>3
  DEF AdapterEnqueues, OutboxP!RouteTaken, OutboxP!Answer, OutboxP!rowVars, QueueP!Enqueue,
      QueueP!ghostVars

\* No step breaks a link.
LEMMA StepKeepsLinks == IInv /\ [Next]_vars => LinksInOrder'
<1> SUFFICES ASSUME IInv, [Next]_vars PROVE LinksInOrder'
  OBVIOUS
<1>t. /\ evStatus \in [Event -> OutboxP!Statuses] /\ evTaken \in [Event -> Nat]
      /\ status \in [Delivery -> QueueP!Statuses] /\ accepted \in [Delivery -> Nat]
  BY DEF IInv, ComponentsSound, OutboxP!IInv, OutboxP!TypeOK, QueueP!IInv, QueueP!TypeOK
<1> USE NoneAssumption
<1>r. ASSUME UNCHANGED <<origin, evTaken>> PROVE TakesLeaveRows'
  BY <1>r DEF IInv, LinksInOrder, TakesLeaveRows, RowsOf
<1>1. ASSUME NEW e \in Event, CommitWithEvent(e) \/ AnnounceJob(e), OutboxP!Emit(e)
      PROVE  LinksInOrder'
  <2>1. /\ record' = [record EXCEPT ![e] = "reported"]
        /\ evStatus' = [evStatus EXCEPT ![e] = "pending"]
        /\ UNCHANGED <<evTaken, status, accepted, origin>>
    BY <1>1 DEF CommitWithEvent, AnnounceJob, OutboxP!Emit, OutboxP!ghostVars, deliveryVars
  <2>2. RecordsMatchEvents'
    BY <1>t, <2>1 DEF IInv, LinksInOrder, RecordsMatchEvents
  <2>3. LinksMatchRows'
    BY <1>t, <2>1 DEF IInv, LinksInOrder, LinksMatchRows
  <2> QED
    BY <1>r, <2>1, <2>2, <2>3 DEF LinksInOrder
<1>2. ASSUME NEW e \in Event, CommitJob(e) \/ AnnounceLost(e) PROVE LinksInOrder'
  <2>1. /\ record[e] # "reported"
        /\ \E s \in {"committed", "unreported"} : record' = [record EXCEPT ![e] = s]
        /\ UNCHANGED <<evStatus, evTaken, status, accepted, origin>>
    BY <1>2 DEF CommitJob, AnnounceLost, outboxVars, deliveryVars
  <2>2. RecordsMatchEvents'
    BY <2>1 DEF IInv, LinksInOrder, RecordsMatchEvents
  <2>3. LinksMatchRows'
    BY <2>1 DEF IInv, LinksInOrder, LinksMatchRows
  <2> QED
    BY <1>r, <2>1, <2>2, <2>3 DEF LinksInOrder
<1>3. ASSUME OutboxMoves, UNCHANGED <<record, deliveryVars, origin>> PROVE LinksInOrder'
  <2>1. evTaken' = evTaken /\ UNCHANGED <<record, status, accepted, origin>>
    BY <1>3, OutboxMovesOneEvent DEF IInv, ComponentsSound, deliveryVars
  <2>2. \A e \in Event : evStatus'[e] = "absent" <=> evStatus[e] = "absent"
    BY <1>3, OutboxMovesOneEvent DEF IInv, ComponentsSound
  <2>3. RecordsMatchEvents'
    BY <2>1, <2>2 DEF IInv, LinksInOrder, RecordsMatchEvents
  <2>4. LinksMatchRows'
    BY <2>1, <2>2 DEF IInv, LinksInOrder, LinksMatchRows
  <2> QED
    BY <1>r, <2>1, <2>3, <2>4 DEF LinksInOrder
<1>4. ASSUME NEW w \in Instance, NEW c \in Caller, NEW d \in Delivery,
             AdapterEnqueues(w, c, d), OutboxP!RouteTaken(w), QueueP!Enqueue(c, d)
      PROVE  LinksInOrder'
  <2>1. PICK e \in Event :
            /\ evStatus[e] # "absent" /\ origin[d] = None /\ accepted[d] = 0
            /\ origin' = [origin EXCEPT ![d] = e] /\ evTaken' = [evTaken EXCEPT ![e] = @ + 1]
            /\ status' = [status EXCEPT ![d] = "pending"]
            /\ UNCHANGED <<record, evStatus, accepted>>
    BY <1>4, EnqueueAddsRow
  <2>2. RecordsMatchEvents'
    BY <2>1 DEF IInv, LinksInOrder, RecordsMatchEvents
  <2>3. LinksMatchRows'
    BY <1>t, <2>1 DEF IInv, LinksInOrder, LinksMatchRows
  <2>4. TakesLeaveRows'
    <3> SUFFICES ASSUME NEW f \in Event
                 PROVE  IsFiniteSet(RowsOf(f)') /\ Cardinality(RowsOf(f)') = evTaken'[f]
      BY DEF TakesLeaveRows
    <3>1. IsFiniteSet(RowsOf(f)) /\ Cardinality(RowsOf(f)) = evTaken[f]
      BY DEF IInv, LinksInOrder, TakesLeaveRows
    <3>2. origin \in [Delivery -> Event \cup {None}]
      BY DEF IInv, LinksInOrder, LinksMatchRows
    <3>3. CASE f # e
      <4>1. RowsOf(f)' = RowsOf(f)
        BY <2>1, <3>2, <3>3 DEF RowsOf
      <4> QED
        BY <1>t, <2>1, <3>1, <3>3, <4>1
    <3>4. CASE f = e
      <4>1. RowsOf(f)' = RowsOf(f) \cup {d} /\ d \notin RowsOf(f)
        BY <2>1, <3>2, <3>4 DEF RowsOf
      <4>2. IsFiniteSet(RowsOf(f)') /\ Cardinality(RowsOf(f)') = Cardinality(RowsOf(f)) + 1
        BY <3>1, <4>1, FS_AddElement
      <4> QED
        BY <1>t, <2>1, <3>1, <3>4, <4>2
    <3> QED
      BY <3>3, <3>4
  <2> QED
    BY <2>2, <2>3, <2>4 DEF LinksInOrder
<1>5. ASSUME QueueMoves, UNCHANGED <<record, outboxVars, origin>> PROVE LinksInOrder'
  <2>1. UNCHANGED <<record, evStatus, evTaken, origin>>
    BY <1>5 DEF outboxVars
  <2>2. RecordsMatchEvents'
    BY <2>1 DEF IInv, LinksInOrder, RecordsMatchEvents
  <2>3. \A d \in Delivery : /\ status'[d] = "absent" <=> status[d] = "absent"
                            /\ accepted'[d] = accepted[d] \/ status[d] # "absent"
    BY <1>5, QueueMovesOneRow
    DEF IInv, ComponentsSound, RowsAsOpen, RowPosted, RowSettled, RowIsOpen
  <2>4. LinksMatchRows'
    BY <2>1, <2>3 DEF IInv, LinksInOrder, LinksMatchRows
  <2> QED
    BY <1>r, <2>1, <2>2, <2>4 DEF LinksInOrder
<1>6. CASE UNCHANGED vars
  <2>1. UNCHANGED <<record, evStatus, evTaken, status, accepted, origin>>
    BY <1>6 DEF vars, outboxVars, deliveryVars
  <2> QED
    BY <1>r, <2>1 DEF IInv, LinksInOrder, RecordsMatchEvents, LinksMatchRows
<1> QED
  BY <1>1, <1>2, <1>3, <1>4, <1>5, <1>6, PipelineSteps

\* Initially no record, no event and no row exists.
LEMMA InitEstablishesLinks == Init => LinksInOrder
<1> SUFFICES ASSUME Init PROVE LinksInOrder
  OBVIOUS
<1>1. /\ record = [e \in Event |-> "none"] /\ origin = [d \in Delivery |-> None]
      /\ evStatus = [e \in Event |-> "absent"] /\ evTaken = [e \in Event |-> 0]
      /\ status = [d \in Delivery |-> "absent"] /\ accepted = [d \in Delivery |-> 0]
  BY DEF Init, Outbox!Init, Queue!Init
<1>2. \A e \in Event : RowsOf(e) = {}
  BY <1>1, NoneAssumption DEF RowsOf
<1> QED
  BY <1>1, <1>2, FS_EmptySet DEF LinksInOrder, RecordsMatchEvents, LinksMatchRows, TakesLeaveRows

\* The invariant holds of the pipeline.
THEOREM Invariant == Spec => []IInv
<1>1. Init => LinksInOrder
  BY InitEstablishesLinks
<1>2. ComponentsSound /\ LinksInOrder /\ [Next]_vars => LinksInOrder'
  BY StepKeepsLinks DEF IInv
<1>3. Spec => []ComponentsSound
  BY ComponentsAreSound DEF ComponentsSound
<1>4. IInv <=> ComponentsSound /\ LinksInOrder
  BY DEF IInv
<1> QED
  BY <1>1, <1>2, <1>3, <1>4, PTL DEF Spec

-----------------------------------------------------------------------------
(* What the pipeline guarantees *)

\* Records, events, rows and links keep their types.
THEOREM TypeCorrect == Spec => []TypeOK
<1>1. OutboxP!TypeOK => Outbox!TypeOK
  BY DEF OutboxP!TypeOK, Outbox!TypeOK, OutboxP!Statuses, Outbox!Statuses, OutboxP!Points,
     Outbox!Points, OutboxP!Results, Outbox!Results
<1>2. QueueP!TypeOK => Queue!TypeOK
  BY DEF QueueP!TypeOK, Queue!TypeOK, QueueP!Statuses, Queue!Statuses, QueueP!Points,
     Queue!Points, QueueP!Holding, Queue!Holding, QueueP!Results, Queue!Results, QueueP!Runner,
     Queue!Runner, QueueP!AttemptStatuses, Queue!AttemptStatuses
<1>3. IInv => TypeOK
  BY <1>1, <1>2 DEF IInv, ComponentsSound, LinksInOrder, RecordsMatchEvents, LinksMatchRows, TypeOK,
     OutboxP!IInv, QueueP!IInv
<1> QED
  BY <1>3, Invariant, PTL

\* Finitely many rows have finitely many posts.
LEMMA PostsAreFinite ==
  ASSUME NEW D \in SUBSET Delivery, IsFiniteSet(D), accepted \in [Delivery -> Nat]
  PROVE  IsFiniteSet(QueueP!Posts(D))
<1> DEFINE PostsOf(d) == {d} \X (1..accepted[d])
           T == {PostsOf(d) : d \in D}
           f == [d \in D |-> PostsOf(d)]
<1>1. f \in Surjection(D, T)
  BY DEF Surjection
<1>2. IsFiniteSet(T)
  BY <1>1, FS_Surjection
<1>3. ASSUME NEW d \in D PROVE IsFiniteSet(PostsOf(d))
  <2>1. IsFiniteSet(1..accepted[d]) /\ IsFiniteSet({d})
    <3>1. accepted[d] \in Int /\ 1 \in Int
      OBVIOUS
    <3> QED
      BY <3>1, FS_Interval, FS_Singleton
  <2> QED
    BY <2>1, FS_Product
<1>4. IsFiniteSet(UNION T)
  BY <1>2, <1>3, FS_UNION
<1>5. QueueP!Posts(D) = UNION T
  BY DEF QueueP!Posts
<1> QED
  BY <1>4, <1>5

\* A reported record keeps its event, a completed event has left a row behind, and Slack is
\* shown the message of an event once, faults aside ("A committed notification can never lose
\* its event", routes/notifications.ts).
THEOREM RecordShownOnce == Spec => []RecordIsShownOnce
<1>1. ASSUME IInv, NEW e \in Event
      PROVE  /\ record[e] = "reported" <=> evStatus[e] # "absent"
             /\ evStatus[e] = "completed" => RowsOf(e) # {}
             /\ Shown(e) <= 1 + evFaults + faults
             /\ Shown(e) > 0 => record[e] # "none"
  <2>1. record[e] = "reported" <=> evStatus[e] # "absent"
    BY <1>1 DEF IInv, LinksInOrder, RecordsMatchEvents
  <2>2. IsFiniteSet(RowsOf(e)) /\ Cardinality(RowsOf(e)) = evTaken[e]
    BY <1>1 DEF IInv, LinksInOrder, TakesLeaveRows
  <2>3. evStatus[e] = "completed" => RowsOf(e) # {}
    <3>1. evStatus[e] = "completed" => evTaken[e] > 0
      BY <1>1 DEF IInv, ComponentsSound, OutboxP!IInv, OutboxP!AnswerIsTrue
    <3> QED
      BY <2>2, <3>1, FS_EmptySet
  <2>4. Shown(e) <= 1 + evFaults + faults
    <3>1. Shown(e) = Cardinality(QueueP!Posts(RowsOf(e)))
      BY DEF Shown, Queue!Posts, QueueP!Posts
    <3>2. RowsOf(e) \in SUBSET Delivery
      BY DEF RowsOf
    <3>3. Cardinality(QueueP!Posts(RowsOf(e))) <= Cardinality(RowsOf(e)) + faults
      BY <1>1, <2>2, <3>2, SameCardinality
      DEF IInv, ComponentsSound, QueueP!FaultsBoundAttempts, QueueP!DuplicatesOnlyFromFaults
    <3>4. evTaken[e] <= 1 + evFaults
      BY <1>1 DEF IInv, ComponentsSound, OutboxP!LeasesAreHonest,
         OutboxP!DuplicatesOnlyFromFaults
    <3>5. /\ evTaken[e] \in Nat /\ evFaults \in Nat /\ faults \in Nat
          /\ Cardinality(QueueP!Posts(RowsOf(e))) \in Nat
      <4>1. evTaken[e] \in Nat /\ evFaults \in Nat /\ faults \in Nat
        BY <1>1 DEF IInv, ComponentsSound, OutboxP!IInv, OutboxP!TypeOK, QueueP!IInv,
           QueueP!TypeOK
      <4> QED
        BY <1>1, <2>2, <3>2, <4>1, PostsAreFinite, FS_CardinalityType
        DEF IInv, ComponentsSound, QueueP!IInv, QueueP!TypeOK
    <3> QED
      BY <2>2, <3>1, <3>3, <3>4, <3>5
  <2>5. Shown(e) > 0 => record[e] # "none"
    <3> SUFFICES ASSUME record[e] = "none" PROVE ~ (Shown(e) > 0)
      OBVIOUS
    <3>1. RowsOf(e) = {}
      BY <1>1, <2>1, NoneAssumption DEF IInv, LinksInOrder, LinksMatchRows, RowsOf
    <3>2. Queue!Posts(RowsOf(e)) = {}
      BY <3>1 DEF Queue!Posts
    <3> QED
      BY <3>2, FS_EmptySet DEF Shown
  <2> QED
    BY <2>1, <2>3, <2>4, <2>5
<1>2. IInv => RecordIsShownOnce
  BY <1>1 DEF RecordIsShownOnce, CommittedKeepsEvent, ShownOnceUnlessFaults
<1> QED
  BY <1>2, Invariant, PTL

-----------------------------------------------------------------------------
(* The pipeline implements the promise.  Create is the commit of an event,  *)
(* Post an accepted message of one of its rows, Settle the end of its last  *)
(* open row or of the event itself, Reopen the row of a worker whose event  *)
(* another one has settled meanwhile.                                       *)

EventIsSame(e) == Outcome(e)' = Outcome(e) /\ Posted(e)' = Posted(e)

\* What the promise allows of one event.
EventMayChange(e) ==
    \/ EventIsSame(e)
    \/ Outcome(e) = "absent" /\ Outcome(e)' = "open" /\ Posted(e)' = Posted(e)
    \/ Outcome(e) # "absent" /\ Outcome(e)' = Outcome(e) /\ Posted(e)' = TRUE
    \/ /\ Outcome(e) = "open" /\ Outcome(e)' \in {"delivered", "dead_letter"}
       /\ Outcome(e)' = "delivered" => Posted(e)
       /\ Posted(e)' = Posted(e)
    \/ Outcome(e) = "dead_letter" /\ Outcome(e)' = "open" /\ Posted(e)' = Posted(e)

\* A step that touches one event at most, as the promise allows, is a step of the promise.
LEMMA OneEventChanges ==
  ASSUME NEW e \in Event, EventMayChange(e), \A f \in Event : f # e => EventIsSame(f)
  PROVE  [Promise!Next]_(Promise!promiseVars)
<1>1. CASE EventIsSame(e)
  BY <1>1 DEF EventIsSame, Promise!promiseVars
<1>2. CASE Outcome(e) = "absent" /\ Outcome(e)' = "open" /\ Posted(e)' = Posted(e)
  <2>1. Promise!Create(e)
    BY <1>2 DEF EventIsSame, Promise!Create
  <2> QED
    BY <2>1 DEF Promise!Next
<1>3. CASE Outcome(e) # "absent" /\ Outcome(e)' = Outcome(e) /\ Posted(e)' = TRUE
  <2>1. Promise!Post(e)
    BY <1>3 DEF EventIsSame, Promise!Post
  <2> QED
    BY <2>1 DEF Promise!Next
<1>4. CASE /\ Outcome(e) = "open" /\ Outcome(e)' \in {"delivered", "dead_letter"}
           /\ Outcome(e)' = "delivered" => Posted(e)
           /\ Posted(e)' = Posted(e)
  <2>1. PICK how \in {"delivered", "dead_letter"} : how = Outcome(e)'
    BY <1>4
  <2>2. Promise!Settle(e, how)
    BY <1>4, <2>1 DEF EventIsSame, Promise!Settle
  <2> QED
    BY <2>2 DEF Promise!Next
<1>5. CASE Outcome(e) = "dead_letter" /\ Outcome(e)' = "open" /\ Posted(e)' = Posted(e)
  <2>1. Promise!Reopen(e)
    BY <1>5 DEF EventIsSame, Promise!Reopen
  <2> QED
    BY <2>1 DEF Promise!Next
<1> QED
  BY <1>1, <1>2, <1>3, <1>4, <1>5 DEF EventMayChange

\* A step that leaves all events alone stutters.
LEMMA NoEventChanges ==
  ASSUME \A e \in Event : EventIsSame(e) PROVE UNCHANGED Promise!promiseVars
  BY DEF EventIsSame, Promise!promiseVars

\* Every step of the pipeline is a step of the promise, or none.
LEMMA StepImplements == IInv /\ [Next]_vars => [Promise!Next]_(Promise!promiseVars)
<1> SUFFICES ASSUME IInv, [Next]_vars PROVE [Promise!Next]_(Promise!promiseVars)
  OBVIOUS
<1>t. /\ evStatus \in [Event -> OutboxP!Statuses] /\ evTaken \in [Event -> Nat]
      /\ status \in [Delivery -> QueueP!Statuses] /\ accepted \in [Delivery -> Nat]
      /\ origin \in [Delivery -> Event \cup {None}]
      /\ \A d \in Delivery : /\ origin[d] # None <=> status[d] # "absent"
                             /\ origin[d] # None => evStatus[origin[d]] # "absent"
  BY DEF IInv, ComponentsSound, OutboxP!IInv, OutboxP!TypeOK, QueueP!IInv, QueueP!TypeOK,
     LinksInOrder, LinksMatchRows
<1> USE NoneAssumption DEF Queue!Settled
<1>s. ASSUME NEW f \in Event, evStatus'[f] = evStatus[f], UNCHANGED <<status, accepted, origin>>
      PROVE  EventIsSame(f)
  BY <1>s DEF EventIsSame, Outcome, Posted, RowsOf
<1>1. ASSUME NEW e \in Event, CommitWithEvent(e) \/ AnnounceJob(e), OutboxP!Emit(e)
      PROVE  [Promise!Next]_(Promise!promiseVars)
  <2>1. /\ evStatus[e] = "absent" /\ evStatus' = [evStatus EXCEPT ![e] = "pending"]
        /\ UNCHANGED <<status, accepted, origin>>
    BY <1>1 DEF CommitWithEvent, AnnounceJob, OutboxP!Emit, deliveryVars
  <2>2. \A f \in Event : f # e => EventIsSame(f)
    BY <1>s, <1>t, <2>1
  <2>3. RowsOf(e) = {} /\ RowsOf(e)' = {}
    BY <1>t, <2>1 DEF RowsOf
  <2>4. Outcome(e) = "absent" /\ Outcome(e)' = "open" /\ Posted(e)' = Posted(e)
    BY <1>t, <2>1, <2>3 DEF Outcome, Posted
  <2> QED
    BY <2>2, <2>4, OneEventChanges DEF EventMayChange
<1>2. ASSUME NEW e \in Event, CommitJob(e) \/ AnnounceLost(e)
      PROVE  UNCHANGED Promise!promiseVars
  <2>1. UNCHANGED <<evStatus, status, accepted, origin>>
    BY <1>2 DEF CommitJob, AnnounceLost, outboxVars, deliveryVars
  <2> QED
    BY <1>s, <2>1, NoEventChanges
<1>3. ASSUME OutboxMoves, UNCHANGED <<record, deliveryVars, origin>>
      PROVE  [Promise!Next]_(Promise!promiseVars)
  <2>1. UNCHANGED <<status, accepted, origin>>
    BY <1>3 DEF deliveryVars
  <2>2. ASSUME NEW f \in Event, EventIsOpen(evStatus'[f]) <=> EventIsOpen(evStatus[f]),
               evStatus'[f] = "absent" <=> evStatus[f] = "absent"
        PROVE  EventIsSame(f)
    BY <2>1, <2>2 DEF EventIsSame, Outcome, Posted, RowsOf, EventIsOpen
  <2>3. CASE \A e \in Event : /\ EventIsOpen(evStatus'[e]) <=> EventIsOpen(evStatus[e])
                              /\ evStatus'[e] = "absent" <=> evStatus[e] = "absent"
    BY <2>2, <2>3, NoEventChanges
  <2>4. ASSUME NEW e \in Event, evStatus[e] = "processing",
               evStatus'[e] \in {"completed", "dead_letter"},
               \A f \in Event : f # e => evStatus'[f] = evStatus[f]
        PROVE  [Promise!Next]_(Promise!promiseVars)
    <3>1. \A f \in Event : f # e => EventIsSame(f)
      BY <1>s, <2>1, <2>4
    <3>2. RowsOf(e)' = RowsOf(e) /\ Posted(e)' = Posted(e)
      BY <2>1 DEF RowsOf, Posted
    <3>3. CASE \E d \in RowsOf(e) : status[d] = "delivered"
      <4>1. Outcome(e) = "delivered" /\ Outcome(e)' = "delivered"
        BY <2>1, <2>4, <3>2, <3>3 DEF Outcome
      <4> QED
        BY <3>1, <3>2, <4>1, OneEventChanges DEF EventMayChange, EventIsSame
    <3>4. CASE ~ \E d \in RowsOf(e) : status[d] = "delivered"
      <4>1. Outcome(e) = "open"
        BY <2>4, <3>4 DEF Outcome
      <4>2. Outcome(e)' \in {"open", "dead_letter"}
        BY <2>1, <2>4, <3>2, <3>4 DEF Outcome
      <4> QED
        BY <3>1, <3>2, <4>1, <4>2, OneEventChanges DEF EventMayChange, EventIsSame
    <3> QED
      BY <3>3, <3>4
  <2> QED
    BY <1>3, <2>3, <2>4, OutboxMovesOneEvent DEF IInv, ComponentsSound
<1>4. ASSUME NEW w \in Instance, NEW c \in Caller, NEW d \in Delivery,
             AdapterEnqueues(w, c, d), OutboxP!RouteTaken(w), QueueP!Enqueue(c, d)
      PROVE  [Promise!Next]_(Promise!promiseVars)
  <2>1. PICK e \in Event :
            /\ evStatus[e] # "absent" /\ origin[d] = None /\ accepted[d] = 0
            /\ origin' = [origin EXCEPT ![d] = e] /\ evTaken' = [evTaken EXCEPT ![e] = @ + 1]
            /\ status' = [status EXCEPT ![d] = "pending"]
            /\ UNCHANGED <<record, evStatus, accepted>>
    BY <1>4, EnqueueAddsRow
  <2>2. ASSUME NEW f \in Event, f # e PROVE EventIsSame(f)
    <3>1. RowsOf(f)' = RowsOf(f) /\ \A x \in RowsOf(f) : status'[x] = status[x]
      BY <1>t, <2>1, <2>2 DEF RowsOf
    <3> QED
      BY <2>1, <3>1 DEF EventIsSame, Outcome, Posted
  <2>3. /\ RowsOf(e)' = RowsOf(e) \cup {d} /\ d \notin RowsOf(e) /\ status'[d] = "pending"
        /\ \A x \in RowsOf(e) : status'[x] = status[x]
    BY <1>t, <2>1 DEF RowsOf
  <2>4. Posted(e)' = Posted(e)
    BY <2>1, <2>3 DEF Posted
  <2>5. IF Outcome(e) = "dead_letter" THEN Outcome(e)' = "open" ELSE Outcome(e)' = Outcome(e)
    BY <2>1, <2>3 DEF Outcome
  <2> QED
    BY <2>2, <2>4, <2>5, OneEventChanges DEF EventMayChange, EventIsSame
<1>5. ASSUME QueueMoves, UNCHANGED <<record, outboxVars, origin>>
      PROVE  [Promise!Next]_(Promise!promiseVars)
  <2>1. UNCHANGED <<evStatus, origin>> /\ \A f \in Event : RowsOf(f)' = RowsOf(f)
    BY <1>5 DEF outboxVars, RowsOf
  <2>2. CASE RowsAsOpen
    <3>1. \A f \in Event : EventIsSame(f)
      BY <2>1, <2>2 DEF RowsAsOpen, RowIsOpen, EventIsSame, Outcome, Posted, RowsOf
    <3> QED
      BY <3>1, NoEventChanges
  <2>3. ASSUME NEW d \in Delivery, RowPosted(d) PROVE [Promise!Next]_(Promise!promiseVars)
    <3>1. PICK e \in Event : e = origin[d] /\ evStatus[e] # "absent"
      BY <1>t, <2>3 DEF RowPosted
    <3>2. ASSUME NEW f \in Event, f # e PROVE EventIsSame(f)
      BY <2>1, <2>3, <3>1, <3>2 DEF RowPosted, EventIsSame, Outcome, Posted, RowsOf
    <3>3. Outcome(e) # "absent" /\ Outcome(e)' = Outcome(e)
      BY <2>1, <2>3, <3>1 DEF RowPosted, Outcome
    <3>4. Posted(e)' = TRUE
      BY <2>1, <2>3, <3>1 DEF RowPosted, Posted, RowsOf
    <3> QED
      BY <3>2, <3>3, <3>4, OneEventChanges DEF EventMayChange
  <2>4. ASSUME NEW d \in Delivery, RowSettled(d) PROVE [Promise!Next]_(Promise!promiseVars)
    <3>1. PICK e \in Event : e = origin[d] /\ evStatus[e] # "absent"
      BY <1>t, <2>4 DEF RowSettled, RowIsOpen
    <3>2. ASSUME NEW f \in Event, f # e PROVE EventIsSame(f)
      BY <2>1, <2>4, <3>1, <3>2 DEF RowSettled, EventIsSame, Outcome, Posted, RowsOf
    <3>3. Posted(e)' = Posted(e)
      BY <2>1, <2>4 DEF RowSettled, Posted
    <3>4. Outcome(e) \in {"delivered", "open"} /\ d \in RowsOf(e)
      BY <2>4, <3>1 DEF RowSettled, RowIsOpen, Outcome, RowsOf
    <3>5. Outcome(e) = "delivered" => Outcome(e)' = "delivered"
      <4> SUFFICES ASSUME Outcome(e) = "delivered" PROVE Outcome(e)' = "delivered"
        OBVIOUS
      <4>1. PICK x \in RowsOf(e) : status[x] = "delivered"
        BY <3>1 DEF Outcome
      <4>2. x \in RowsOf(e)' /\ status'[x] = "delivered"
        BY <2>1, <2>4, <4>1 DEF RowSettled, RowIsOpen, RowsOf
      <4>3. evStatus'[e] # "absent"
        BY <2>1, <3>1
      <4> QED
        BY <4>2, <4>3 DEF Outcome
    <3>6. Outcome(e) = "open" /\ Outcome(e)' = "delivered" => Posted(e)
      <4>1. Outcome(e) = "open" /\ Outcome(e)' = "delivered" => status'[d] = "delivered"
        BY <2>1, <2>4, <3>1 DEF RowSettled, Outcome, RowsOf
      <4> QED
        BY <2>4, <3>4, <4>1 DEF RowSettled, Posted
    <3>7. Outcome(e)' \in {"open", "delivered", "dead_letter"}
      BY <2>1, <3>1 DEF Outcome
    <3> QED
      BY <3>2, <3>3, <3>4, <3>5, <3>6, <3>7, OneEventChanges DEF EventMayChange, EventIsSame
  <2> QED
    BY <1>5, <2>2, <2>3, <2>4, QueueMovesOneRow DEF IInv, ComponentsSound
<1>6. CASE UNCHANGED vars
  <2>1. UNCHANGED <<evStatus, status, accepted, origin>>
    BY <1>6 DEF vars, outboxVars, deliveryVars
  <2> QED
    BY <1>s, <2>1, NoEventChanges
<1> QED
  BY <1>1, <1>2, <1>3, <1>4, <1>5, <1>6, PipelineSteps

\* The two queues in a row keep the promise of one, for any number of events, rows, instances,
\* attempts and faults: no event that was delivered is lost again, and none counts as
\* delivered whose message Slack has not accepted.
THEOREM PipelineKeepsPromise == Spec => KeepsPromise
<1>1. Init => Promise!Init
  <2> SUFFICES ASSUME Init PROVE Promise!Init
    OBVIOUS
  <2>1. /\ origin = [d \in Delivery |-> None] /\ evStatus = [e \in Event |-> "absent"]
    BY DEF Init, Outbox!Init
  <2>2. \A e \in Event : RowsOf(e) = {}
    BY <2>1, NoneAssumption DEF RowsOf
  <2>3. \A e \in Event : Outcome(e) = "absent" /\ Posted(e) = FALSE
    BY <2>1, <2>2 DEF Outcome, Posted
  <2> QED
    BY <2>3, Zenon DEF Promise!Init
<1>2. Spec => Promise!Init /\ [][Promise!Next]_(Promise!promiseVars)
  BY <1>1, StepImplements, Invariant, PTL DEF Spec
<1> QED
  BY <1>2 DEF KeepsPromise, Promise!Spec

=============================================================================
