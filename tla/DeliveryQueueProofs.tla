------------------------ MODULE DeliveryQueueProofs ------------------------
(***************************************************************************)
(* Theorems about DeliveryQueue for every number of rows, runners,         *)
(* attempts, faults and retries.  All of them rest on one inductive        *)
(* invariant, IInv.                                                        *)
(***************************************************************************)
EXTENDS DeliveryQueue, FiniteSetTheorems, TLAPS

-----------------------------------------------------------------------------
(* The inductive invariant *)

\* A row is in progress exactly while it carries a lease and a lock.
LeaseMatchesStatus ==
    \A d \in Delivery :
        /\ status[d] = "processing" <=> leaseId[d] # None
        /\ status[d] = "processing" <=> lockedUntil[d] # "null"
        /\ status[d] = "processing" => attemptCount[d] > 0

\* A runner that is not idle works on a row that exists.
RunnerHasRow ==
    \A r \in Runner : pc[r] # "idle" => row[r] \in Delivery /\ status[row[r]] # "absent"

\* Whatever a loop has polled exists.
PolledRowsExist ==
    \A w \in Worker : \A d \in todo[w] : status[d] # "absent"

\* A runner past its read that still owns the lease read its own claim's count.
LeaseCountIsOwn ==
    \A r \in Runner :
        pc[r] \in {"route", "finish"} /\ OwnsLease(r) => seen[r] = attemptCount[row[r]]

\* What a runner knows of the answer is true of its row.
AnswerIsTrue ==
    \A r \in Runner :
        /\ pc[r] \in {"finish", "record", "notify"} => result[r] \in Results
        /\ pc[r] = "finish" /\ result[r] = "delivered" => accepted[row[r]] > 0
        /\ pc[r] \in {"record", "notify"} /\ result[r] = "delivered"
              => status[row[r]] = "delivered"

\* A number that is about to be recorded belongs to a claim of the past.
NumberIsPast(d, n) ==
    /\ n \in 1..attemptCount[d]
    /\ status[d] = "processing" => n < attemptCount[d]

\* No two runners are about to record the same attempt, none a recorded one.
RecordersAreApart ==
    \A r \in Runner : pc[r] = "record" =>
        /\ NumberIsPast(row[r], seen[r])
        /\ seen[r] \notin AttemptNumbers(row[r])
        /\ \A s \in Runner : s # r /\ pc[s] = "record" /\ row[s] = row[r] => seen[s] # seen[r]

\* The last attempt to be recorded tells what became of the row.
RecordersAgreeWithRow ==
    \A r \in Runner : pc[r] = "record" =>
        /\ result[r] = "delivered" => seen[r] = attemptCount[row[r]]
        /\ status[row[r]] = "delivered" /\ seen[r] = attemptCount[row[r]]
              => result[r] = "delivered"

IInv ==
    /\ TypeOK
    /\ LeaseMatchesStatus
    /\ RunnerHasRow
    /\ PolledRowsExist
    /\ LeaseCountIsOwn
    /\ AnswerIsTrue
    /\ DeliveredWasAccepted
    /\ NotificationIsHonest
    /\ HistoryAgreesWithRow
    /\ RecordersAreApart
    /\ RecordersAgreeWithRow

-----------------------------------------------------------------------------
(* The invariant is inductive *)

\* Initially there are no rows and no runner is at work.
LEMMA InitEstablishesIInv == Init => IInv
  BY BoundAssumption, NoneAssumption
  DEF Init, IInv, TypeOK, Statuses, Points, Runner, LeaseMatchesStatus, RunnerHasRow,
      PolledRowsExist, LeaseCountIsOwn, AnswerIsTrue, DeliveredWasAccepted,
      NotificationIsHonest, HistoryAgreesWithRow, RecordersAreApart,
      RecordersAgreeWithRow

\* Every step keeps the types.
LEMMA StepKeepsTypes == IInv /\ [Next]_vars => TypeOK'
<1> SUFFICES ASSUME IInv, [Next]_vars PROVE TypeOK'
  OBVIOUS
<1> USE DEF IInv, TypeOK
<1>1. ASSUME NEW c \in Caller, NEW d \in Delivery, Enqueue(c, d) PROVE TypeOK'
  BY <1>1 DEF RunnerHasRow, Enqueue, Statuses, Points, recordVars, ghostVars
<1>2. ASSUME NEW w \in Worker, Poll(w) PROVE TypeOK'
  BY <1>2 DEF RunnerHasRow, Poll, Oldest, rowVars, recordVars, ghostVars
<1>3. ASSUME NEW w \in Worker, NEW d \in Delivery, NextRow(w, d) PROVE TypeOK'
  BY <1>3 DEF RunnerHasRow, NextRow, Points, rowVars, recordVars, ghostVars
<1>4. ASSUME NEW r \in Runner, Claim(r) PROVE TypeOK'
  BY <1>4 DEF RunnerHasRow, Claim, Statuses, Points, Holding, Runner, recordVars,
     ghostVars
<1>5. ASSUME NEW r \in Runner, ClaimLost(r) \/ FinishStale(r) PROVE TypeOK'
  BY <1>5 DEF RunnerHasRow, ClaimLost, FinishStale, Done, Release, Points, rowVars,
     recordVars, ghostVars
<1>6. ASSUME NEW r \in Runner, Reread(r) PROVE TypeOK'
  BY <1>6 DEF RunnerHasRow, Reread, Points, Holding, rowVars, recordVars, ghostVars
<1>7. ASSUME NEW r \in Runner, RouteDelivered(r) \/ RouteAnswerLost(r) PROVE TypeOK'
  BY <1>7 DEF RunnerHasRow, RouteDelivered, RouteAnswerLost, Answer, Accept,
     Results, Points, Holding, rowVars, recordVars
<1>8. ASSUME NEW r \in Runner, NEW res \in {"retryable", "permanent"},
              RouteRefused(r, res) PROVE TypeOK'
  BY <1>8 DEF RunnerHasRow, RouteRefused, Answer, Results, Points, Holding, rowVars,
     recordVars, ghostVars
<1>9. ASSUME NEW r \in Runner, Finish(r) PROVE TypeOK'
  BY <1>9 DEF RunnerHasRow, Finish, Statuses, Points, FinishedStatus, recordVars,
     ghostVars
<1>10. ASSUME NEW r \in Runner, RecordAttempt(r) PROVE TypeOK'
  <2>1. RecordedAs(result[r]) \in AttemptStatuses
    BY DEF RecordedAs, AttemptStatuses
  <2>2. row[r] \in Delivery
    BY <1>10 DEF RunnerHasRow, RecordAttempt
  <2>3. attemptRows' \in [Delivery -> SUBSET [number : Nat, status : AttemptStatuses]]
    BY <1>10, <2>1, <2>2 DEF RecordAttempt
  <2> QED
    BY <1>10, <2>3 DEF RecordAttempt, Abort, Release, Points, rowVars, ghostVars
<1>11. ASSUME NEW r \in Runner, UpdateNotification(r) PROVE TypeOK'
  BY <1>11 DEF RunnerHasRow, UpdateNotification, Done, Release, Points, rowVars,
     ghostVars
<1>12. ASSUME NEW r \in Runner, Interrupt(r) PROVE TypeOK'
  BY <1>12 DEF RunnerHasRow, Interrupt, Abort, Release, Points, rowVars, recordVars
<1>13. ASSUME NEW w \in Worker, Stop(w) PROVE TypeOK'
  BY <1>13 DEF RunnerHasRow, Stop, rowVars, recordVars, ghostVars
<1>14. ASSUME NEW d \in Delivery, Retry(d) PROVE TypeOK'
  BY <1>14 DEF RunnerHasRow, Retry, Statuses, recordVars, runnerVars
<1>15. ASSUME NEW d \in Delivery, BackoffElapses(d) PROVE TypeOK'
  BY <1>15 DEF RunnerHasRow, BackoffElapses, recordVars, runnerVars, ghostVars
<1>16. ASSUME NEW d \in Delivery, AbandonedLeaseExpires(d) \/ LeaseOverrun(d) PROVE TypeOK'
  BY <1>16 DEF RunnerHasRow, AbandonedLeaseExpires, LeaseOverrun, ExpireLease,
     recordVars, runnerVars
<1>17. CASE UNCHANGED vars
  BY <1>17 DEF vars, rowVars, recordVars, runnerVars, ghostVars
<1> HIDE DEF IInv, TypeOK
<1> QED
  BY <1>1, <1>2, <1>3, <1>4, <1>5, <1>6, <1>7, <1>8, <1>9, <1>10, <1>11, <1>12,
     <1>13, <1>14, <1>15, <1>16, <1>17 DEF Next, RunnerStep, LoopStep, ClockStep,
     Fault

\* Every step keeps the invariant.  Under each action stand the conjuncts whose
\* variables the action changes; its QED step carries the others over.
LEMMA StepKeepsIInv == IInv /\ [Next]_vars => IInv'
<1> SUFFICES ASSUME IInv, [Next]_vars PROVE IInv'
  OBVIOUS
<1>0. TypeOK'
  BY StepKeepsTypes
<1>1. ASSUME NEW c \in Caller, NEW d \in Delivery, Enqueue(c, d) PROVE IInv'
  <2>1. LeaseMatchesStatus'
    BY <1>1 DEF IInv, TypeOK, LeaseMatchesStatus, Enqueue
  <2>2. RunnerHasRow'
    BY <1>1 DEF IInv, TypeOK, RunnerHasRow, Enqueue
  <2>3. PolledRowsExist'
    BY <1>1 DEF IInv, TypeOK, PolledRowsExist, Enqueue
  <2>4. LeaseCountIsOwn'
    BY <1>1 DEF IInv, TypeOK, LeaseCountIsOwn, OwnsLease, Enqueue
  <2>5. AnswerIsTrue'
    BY <1>1 DEF IInv, TypeOK, AnswerIsTrue, Enqueue, ghostVars
  <2>6. DeliveredWasAccepted'
    BY <1>1 DEF IInv, TypeOK, DeliveredWasAccepted, Enqueue, ghostVars
  <2>7. NotificationIsHonest'
    BY <1>1 DEF IInv, TypeOK, NotificationIsHonest, Enqueue, recordVars
  <2>8. HistoryAgreesWithRow'
    BY <1>1 DEF IInv, TypeOK, HistoryAgreesWithRow, Enqueue, recordVars
  <2>9. RecordersAreApart'
    BY <1>1 DEF IInv, TypeOK, RecordersAreApart, NumberIsPast, AttemptNumbers,
       Enqueue, recordVars
  <2>10. RecordersAgreeWithRow'
    BY <1>1 DEF IInv, TypeOK, RecordersAgreeWithRow, Enqueue
  <2> QED
    BY <1>0, <2>1, <2>2, <2>3, <2>4, <2>5, <2>6, <2>7, <2>8, <2>9, <2>10 DEF IInv
<1>2. ASSUME NEW w \in Worker, Poll(w) PROVE IInv'
  <2>1. PolledRowsExist'
    BY <1>2 DEF IInv, TypeOK, PolledRowsExist, Claimable, Oldest, Poll, rowVars
  <2> QED
    BY <1>0, <1>2, <2>1 DEF IInv, LeaseMatchesStatus, RunnerHasRow, LeaseCountIsOwn,
       AnswerIsTrue, DeliveredWasAccepted, NotificationIsHonest,
       HistoryAgreesWithRow, RecordersAreApart, RecordersAgreeWithRow, OwnsLease,
       NumberIsPast, AttemptNumbers, Poll, rowVars, recordVars, ghostVars
<1>3. ASSUME NEW w \in Worker, NEW d \in Delivery, NextRow(w, d) PROVE IInv'
  <2>1. RunnerHasRow'
    BY <1>3 DEF IInv, TypeOK, RunnerHasRow, PolledRowsExist, NextRow, rowVars
  <2>2. PolledRowsExist'
    BY <1>3 DEF IInv, TypeOK, PolledRowsExist, NextRow, rowVars
  <2>3. LeaseCountIsOwn'
    BY <1>3 DEF IInv, TypeOK, LeaseCountIsOwn, OwnsLease, NextRow, rowVars
  <2>4. AnswerIsTrue'
    BY <1>3 DEF IInv, TypeOK, AnswerIsTrue, NextRow, rowVars, ghostVars
  <2>5. RecordersAreApart'
    BY <1>3 DEF IInv, TypeOK, RecordersAreApart, NumberIsPast, AttemptNumbers,
       NextRow, rowVars, recordVars
  <2>6. RecordersAgreeWithRow'
    BY <1>3 DEF IInv, TypeOK, RecordersAgreeWithRow, NextRow, rowVars
  <2> QED
    BY <1>0, <1>3, <2>1, <2>2, <2>3, <2>4, <2>5, <2>6 DEF IInv, LeaseMatchesStatus,
       DeliveredWasAccepted, NotificationIsHonest, HistoryAgreesWithRow, NextRow,
       rowVars, recordVars, ghostVars
<1>4. ASSUME NEW r \in Runner, Claim(r) PROVE IInv'
  <2>1. LeaseMatchesStatus'
    BY <1>4, NoneAssumption DEF IInv, TypeOK, LeaseMatchesStatus, RunnerHasRow,
       Claim
  <2>2. RunnerHasRow'
    BY <1>4 DEF IInv, TypeOK, RunnerHasRow, Claim
  <2>3. PolledRowsExist'
    BY <1>4 DEF IInv, TypeOK, PolledRowsExist, RunnerHasRow, Claim
  <2>4. LeaseCountIsOwn'
    BY <1>4 DEF IInv, TypeOK, LeaseCountIsOwn, OwnsLease, RunnerHasRow, Claim
  <2>5. AnswerIsTrue'
    BY <1>4 DEF IInv, TypeOK, AnswerIsTrue, Claimable, RunnerHasRow, Claim,
       ghostVars
  <2>6. DeliveredWasAccepted'
    BY <1>4 DEF IInv, TypeOK, DeliveredWasAccepted, RunnerHasRow, Claim, ghostVars
  <2>7. NotificationIsHonest'
    BY <1>4 DEF IInv, TypeOK, NotificationIsHonest, Claimable, RunnerHasRow, Claim,
       recordVars
  <2>8. HistoryAgreesWithRow'
    <3>1. /\ row[r] \in Delivery /\ status[row[r]] # "delivered"
          /\ attemptRows' = attemptRows
          /\ status' = [status EXCEPT ![row[r]] = "processing"]
          /\ attemptCount' = [attemptCount EXCEPT ![row[r]] = @ + 1]
      BY <1>4 DEF IInv, RunnerHasRow, Claim, Claimable, recordVars
    <3>2. ASSUME NEW a \in attemptRows[row[r]]
          PROVE  a.number \in 1..attemptCount[row[r]] /\ a.status # "delivered"
      <4>1. /\ a.number \in 1..attemptCount[row[r]]
            /\ a.number = attemptCount[row[r]] => a.status # "delivered"
            /\ a.number < attemptCount[row[r]] => a.status # "delivered"
        BY <3>1, <3>2 DEF IInv, HistoryAgreesWithRow
      <4>2. attemptCount[row[r]] \in Nat
        BY <3>1 DEF IInv, TypeOK
      <4> QED
        BY <4>1, <4>2
    <3>3. ASSUME NEW d \in Delivery, NEW a \in attemptRows[d]
          PROVE  /\ a.number \in 1..attemptCount'[d]
                 /\ a.number = attemptCount'[d] =>
                       /\ status'[d] # "processing"
                       /\ a.status = "delivered" <=> status'[d] = "delivered"
                 /\ a.number < attemptCount'[d] => a.status # "delivered"
      <4>1. CASE d = row[r]
        BY <3>1, <3>2, <4>1 DEF IInv, TypeOK
      <4>2. CASE d # row[r]
        BY <3>1, <4>2 DEF IInv, TypeOK, HistoryAgreesWithRow
      <4> QED
        BY <4>1, <4>2
    <3> QED
      BY <3>1, <3>3 DEF HistoryAgreesWithRow
  <2>9. RecordersAreApart'
    BY <1>4 DEF IInv, TypeOK, RecordersAreApart, NumberIsPast, AttemptNumbers,
       RunnerHasRow, Claim, recordVars
  <2>10. RecordersAgreeWithRow'
    BY <1>4 DEF IInv, TypeOK, RecordersAgreeWithRow, RunnerHasRow, AnswerIsTrue,
       Claimable, RecordersAreApart, NumberIsPast, Claim
  <2> QED
    BY <1>0, <2>1, <2>2, <2>3, <2>4, <2>5, <2>6, <2>7, <2>8, <2>9, <2>10 DEF IInv
<1>5. ASSUME NEW r \in Runner, ClaimLost(r) \/ FinishStale(r) PROVE IInv'
  <2>1. RunnerHasRow'
    BY <1>5 DEF IInv, TypeOK, RunnerHasRow, ClaimLost, FinishStale, Done, Release,
       rowVars
  <2>2. LeaseCountIsOwn'
    BY <1>5 DEF IInv, TypeOK, LeaseCountIsOwn, OwnsLease, ClaimLost, FinishStale,
       Done, Release, rowVars
  <2>3. AnswerIsTrue'
    BY <1>5 DEF IInv, TypeOK, AnswerIsTrue, ClaimLost, FinishStale, Done, Release,
       rowVars, ghostVars
  <2>4. RecordersAreApart'
    BY <1>5 DEF IInv, TypeOK, RecordersAreApart, NumberIsPast, AttemptNumbers,
       ClaimLost, FinishStale, Done, Release, rowVars, recordVars
  <2>5. RecordersAgreeWithRow'
    BY <1>5 DEF IInv, TypeOK, RecordersAgreeWithRow, ClaimLost, FinishStale, Done,
       Release, rowVars
  <2> QED
    BY <1>0, <1>5, <2>1, <2>2, <2>3, <2>4, <2>5 DEF IInv, LeaseMatchesStatus,
       PolledRowsExist, DeliveredWasAccepted, NotificationIsHonest,
       HistoryAgreesWithRow, ClaimLost, FinishStale, Done, Release, rowVars,
       recordVars, ghostVars
<1>6. ASSUME NEW r \in Runner, Reread(r) PROVE IInv'
  <2>1. RunnerHasRow'
    BY <1>6 DEF IInv, TypeOK, RunnerHasRow, Reread, rowVars
  <2>2. LeaseCountIsOwn'
    BY <1>6 DEF IInv, TypeOK, LeaseCountIsOwn, OwnsLease, Reread, rowVars
  <2>3. AnswerIsTrue'
    BY <1>6 DEF IInv, TypeOK, AnswerIsTrue, Reread, rowVars, ghostVars
  <2>4. RecordersAreApart'
    BY <1>6 DEF IInv, TypeOK, RecordersAreApart, NumberIsPast, AttemptNumbers,
       Reread, rowVars, recordVars
  <2>5. RecordersAgreeWithRow'
    BY <1>6 DEF IInv, TypeOK, RecordersAgreeWithRow, Reread, rowVars
  <2> QED
    BY <1>0, <1>6, <2>1, <2>2, <2>3, <2>4, <2>5 DEF IInv, LeaseMatchesStatus,
       PolledRowsExist, DeliveredWasAccepted, NotificationIsHonest,
       HistoryAgreesWithRow, Reread, rowVars, recordVars, ghostVars
<1>7. ASSUME NEW r \in Runner, RouteDelivered(r) \/ RouteAnswerLost(r) PROVE IInv'
  <2>1. RunnerHasRow'
    BY <1>7 DEF IInv, TypeOK, RunnerHasRow, RouteDelivered, RouteAnswerLost, Answer,
       Accept, rowVars
  <2>2. LeaseCountIsOwn'
    BY <1>7 DEF IInv, TypeOK, LeaseCountIsOwn, OwnsLease, RouteDelivered,
       RouteAnswerLost, Answer, Accept, rowVars
  <2>3. AnswerIsTrue'
    BY <1>7 DEF IInv, TypeOK, AnswerIsTrue, RunnerHasRow, Results, RouteDelivered,
       RouteAnswerLost, Answer, Accept, rowVars
  <2>4. DeliveredWasAccepted'
    <3>1. row[r] \in Delivery
      BY <1>7 DEF IInv, RunnerHasRow, RouteDelivered, RouteAnswerLost, Answer
    <3>2. \A d \in Delivery : accepted'[d] >= accepted[d]
      BY <1>7, <3>1 DEF IInv, TypeOK, RouteDelivered, RouteAnswerLost, Accept
    <3> QED
      BY <1>0, <1>7, <3>2 DEF IInv, TypeOK, DeliveredWasAccepted, RouteDelivered,
         RouteAnswerLost, Answer, rowVars
  <2>5. RecordersAreApart'
    BY <1>7 DEF IInv, TypeOK, RecordersAreApart, NumberIsPast, AttemptNumbers,
       RouteDelivered, RouteAnswerLost, Answer, Accept, rowVars, recordVars
  <2>6. RecordersAgreeWithRow'
    BY <1>7 DEF IInv, TypeOK, RecordersAgreeWithRow, RouteDelivered,
       RouteAnswerLost, Answer, Accept, rowVars
  <2> QED
    BY <1>0, <1>7, <2>1, <2>2, <2>3, <2>4, <2>5, <2>6 DEF IInv, LeaseMatchesStatus,
       PolledRowsExist, NotificationIsHonest, HistoryAgreesWithRow, RouteDelivered,
       RouteAnswerLost, Answer, Accept, rowVars, recordVars
<1>8. ASSUME NEW r \in Runner, NEW res \in {"retryable", "permanent"},
              RouteRefused(r, res) PROVE IInv'
  <2>1. RunnerHasRow'
    BY <1>8 DEF IInv, TypeOK, RunnerHasRow, RouteRefused, Answer, rowVars
  <2>2. LeaseCountIsOwn'
    BY <1>8 DEF IInv, TypeOK, LeaseCountIsOwn, OwnsLease, RouteRefused, Answer,
       rowVars
  <2>3. AnswerIsTrue'
    BY <1>8 DEF IInv, TypeOK, AnswerIsTrue, Results, RouteRefused, Answer, rowVars,
       ghostVars
  <2>4. RecordersAreApart'
    BY <1>8 DEF IInv, TypeOK, RecordersAreApart, NumberIsPast, AttemptNumbers,
       RouteRefused, Answer, rowVars, recordVars
  <2>5. RecordersAgreeWithRow'
    BY <1>8 DEF IInv, TypeOK, RecordersAgreeWithRow, RouteRefused, Answer, rowVars
  <2> QED
    BY <1>0, <1>8, <2>1, <2>2, <2>3, <2>4, <2>5 DEF IInv, LeaseMatchesStatus,
       PolledRowsExist, DeliveredWasAccepted, NotificationIsHonest,
       HistoryAgreesWithRow, RouteRefused, Answer, rowVars, recordVars, ghostVars
<1>9. ASSUME NEW r \in Runner, Finish(r) PROVE IInv'
  <2>1. LeaseMatchesStatus'
    BY <1>9, NoneAssumption DEF IInv, TypeOK, LeaseMatchesStatus, RunnerHasRow,
       OwnsLease, FinishedStatus, Finish
  <2>2. RunnerHasRow'
    BY <1>9 DEF IInv, TypeOK, RunnerHasRow, FinishedStatus, Finish
  <2>3. PolledRowsExist'
    BY <1>9 DEF IInv, TypeOK, PolledRowsExist, FinishedStatus, Finish
  <2>4. LeaseCountIsOwn'
    BY <1>9, NoneAssumption DEF IInv, TypeOK, LeaseCountIsOwn, OwnsLease,
       RunnerHasRow, Finish
  <2>5. AnswerIsTrue'
    BY <1>9, NoneAssumption DEF IInv, TypeOK, AnswerIsTrue, RunnerHasRow,
       LeaseMatchesStatus, OwnsLease, FinishedStatus, Finish, ghostVars
  <2>6. DeliveredWasAccepted'
    BY <1>9 DEF IInv, TypeOK, DeliveredWasAccepted, AnswerIsTrue, FinishedStatus,
       Finish, ghostVars
  <2>7. NotificationIsHonest'
    BY <1>9, NoneAssumption DEF IInv, TypeOK, NotificationIsHonest,
       LeaseMatchesStatus, RunnerHasRow, OwnsLease, FinishedStatus, Finish,
       recordVars
  <2>8. HistoryAgreesWithRow'
    BY <1>9, NoneAssumption DEF IInv, TypeOK, HistoryAgreesWithRow,
       LeaseMatchesStatus, RunnerHasRow, OwnsLease, FinishedStatus, Finish,
       recordVars
  <2>9. RecordersAreApart'
    <3>1. /\ row[r] \in Delivery /\ status[row[r]] = "processing"
          /\ seen[r] = attemptCount[row[r]] /\ seen[r] > 0
      BY <1>9, NoneAssumption
      DEF IInv, TypeOK, RunnerHasRow, LeaseMatchesStatus, LeaseCountIsOwn, Finish, OwnsLease
    <3>2. seen[r] \notin AttemptNumbers(row[r])
      BY <3>1 DEF IInv, TypeOK, HistoryAgreesWithRow, AttemptNumbers
    <3>3. status'[row[r]] # "processing"
      BY <1>9, <3>1 DEF IInv, TypeOK, Finish, FinishedStatus
    <3> QED
      BY <1>9, <3>1, <3>2, <3>3
      DEF IInv, TypeOK, RecordersAreApart, NumberIsPast, AttemptNumbers, Finish, recordVars
  <2>10. RecordersAgreeWithRow'
    BY <1>9, NoneAssumption DEF IInv, TypeOK, RecordersAgreeWithRow, RunnerHasRow,
       LeaseMatchesStatus, LeaseCountIsOwn, RecordersAreApart, NumberIsPast,
       OwnsLease, FinishedStatus, Finish
  <2> QED
    BY <1>0, <2>1, <2>2, <2>3, <2>4, <2>5, <2>6, <2>7, <2>8, <2>9, <2>10 DEF IInv
<1>10. ASSUME NEW r \in Runner, RecordAttempt(r) PROVE IInv'
  <2>1. RunnerHasRow'
    BY <1>10 DEF IInv, TypeOK, RunnerHasRow, RecordAttempt, Abort, Release, rowVars
  <2>2. PolledRowsExist'
    BY <1>10 DEF IInv, TypeOK, PolledRowsExist, RecordAttempt, Abort, Release,
       rowVars
  <2>3. LeaseCountIsOwn'
    BY <1>10 DEF IInv, TypeOK, LeaseCountIsOwn, OwnsLease, RecordAttempt, Abort,
       Release, rowVars
  <2>4. AnswerIsTrue'
    BY <1>10 DEF IInv, TypeOK, AnswerIsTrue, RecordAttempt, Abort, Release, rowVars,
       ghostVars
  <2>5. HistoryAgreesWithRow'
    BY <1>10 DEF IInv, TypeOK, HistoryAgreesWithRow, RecordersAreApart,
       RecordersAgreeWithRow, RunnerHasRow, AnswerIsTrue, NumberIsPast, RecordedAs,
       RecordAttempt, Abort, Release, rowVars
  <2>6. RecordersAreApart'
    <3>1. seen[r] \notin AttemptNumbers(row[r])
      BY <1>10 DEF IInv, RecordersAreApart, RecordAttempt
    <3>2. /\ pc' = [pc EXCEPT ![r] = "notify"]
          /\ UNCHANGED <<row, seen, rowVars>>
          /\ attemptRows' = [attemptRows EXCEPT ![row[r]] = @ \cup
                 {[number |-> seen[r], status |-> RecordedAs(result[r])]}]
      BY <1>10, <3>1 DEF RecordAttempt
    <3>3. ASSUME NEW s \in Runner, pc'[s] = "record"
          PROVE  s # r /\ pc[s] = "record" /\ row[s] \in Delivery
      BY <3>2, <3>3 DEF IInv, TypeOK, RunnerHasRow
    <3>4. ASSUME NEW s \in Runner, pc'[s] = "record"
          PROVE  seen[s] \notin AttemptNumbers(row[s])'
      BY <1>10, <3>2, <3>3, <3>4
      DEF IInv, TypeOK, RecordersAreApart, AttemptNumbers, RecordAttempt
    <3> QED
      BY <3>2, <3>3, <3>4 DEF IInv, RecordersAreApart, NumberIsPast, rowVars
  <2>7. RecordersAgreeWithRow'
    BY <1>10 DEF IInv, TypeOK, RecordersAgreeWithRow, RecordAttempt, Abort, Release,
       rowVars
  <2> QED
    BY <1>0, <1>10, <2>1, <2>2, <2>3, <2>4, <2>5, <2>6, <2>7 DEF IInv,
       LeaseMatchesStatus, DeliveredWasAccepted, NotificationIsHonest,
       RecordAttempt, Abort, Release, rowVars, ghostVars
<1>11. ASSUME NEW r \in Runner, UpdateNotification(r) PROVE IInv'
  <2>1. RunnerHasRow'
    BY <1>11 DEF IInv, TypeOK, RunnerHasRow, UpdateNotification, Done, Release,
       rowVars
  <2>2. LeaseCountIsOwn'
    BY <1>11 DEF IInv, TypeOK, LeaseCountIsOwn, OwnsLease, UpdateNotification, Done,
       Release, rowVars
  <2>3. AnswerIsTrue'
    BY <1>11 DEF IInv, TypeOK, AnswerIsTrue, UpdateNotification, Done, Release,
       rowVars, ghostVars
  <2>4. NotificationIsHonest'
    BY <1>11 DEF IInv, TypeOK, NotificationIsHonest, AnswerIsTrue,
       UpdateNotification, Done, Release, rowVars
  <2>5. RecordersAreApart'
    BY <1>11 DEF IInv, TypeOK, RecordersAreApart, NumberIsPast, AttemptNumbers,
       UpdateNotification, Done, Release, rowVars
  <2>6. RecordersAgreeWithRow'
    BY <1>11 DEF IInv, TypeOK, RecordersAgreeWithRow, UpdateNotification, Done,
       Release, rowVars
  <2> QED
    BY <1>0, <1>11, <2>1, <2>2, <2>3, <2>4, <2>5, <2>6 DEF IInv, LeaseMatchesStatus,
       PolledRowsExist, DeliveredWasAccepted, HistoryAgreesWithRow,
       UpdateNotification, Done, Release, rowVars, ghostVars
<1>12. ASSUME NEW r \in Runner, Interrupt(r) PROVE IInv'
  <2>1. RunnerHasRow'
    BY <1>12 DEF IInv, TypeOK, RunnerHasRow, Interrupt, Abort, Release, rowVars
  <2>2. PolledRowsExist'
    BY <1>12 DEF IInv, TypeOK, PolledRowsExist, Interrupt, Abort, Release, rowVars
  <2>3. LeaseCountIsOwn'
    BY <1>12 DEF IInv, TypeOK, LeaseCountIsOwn, OwnsLease, Interrupt, Abort,
       Release, rowVars
  <2>4. AnswerIsTrue'
    BY <1>12 DEF IInv, TypeOK, AnswerIsTrue, Interrupt, Abort, Release, rowVars
  <2>5. RecordersAreApart'
    BY <1>12 DEF IInv, TypeOK, RecordersAreApart, NumberIsPast, AttemptNumbers,
       Interrupt, Abort, Release, rowVars, recordVars
  <2>6. RecordersAgreeWithRow'
    BY <1>12 DEF IInv, TypeOK, RecordersAgreeWithRow, Interrupt, Abort, Release,
       rowVars
  <2> QED
    BY <1>0, <1>12, <2>1, <2>2, <2>3, <2>4, <2>5, <2>6 DEF IInv, LeaseMatchesStatus,
       DeliveredWasAccepted, NotificationIsHonest, HistoryAgreesWithRow, Interrupt,
       Abort, Release, rowVars, recordVars
<1>13. ASSUME NEW w \in Worker, Stop(w) PROVE IInv'
  <2>1. PolledRowsExist'
    BY <1>13 DEF IInv, TypeOK, PolledRowsExist, Stop, rowVars
  <2> QED
    BY <1>0, <1>13, <2>1 DEF IInv, LeaseMatchesStatus, RunnerHasRow,
       LeaseCountIsOwn, AnswerIsTrue, DeliveredWasAccepted, NotificationIsHonest,
       HistoryAgreesWithRow, RecordersAreApart, RecordersAgreeWithRow, OwnsLease,
       NumberIsPast, AttemptNumbers, Stop, rowVars, recordVars, ghostVars
<1>14. ASSUME NEW d \in Delivery, Retry(d) PROVE IInv'
  <2>1. LeaseMatchesStatus'
    BY <1>14, NoneAssumption DEF IInv, TypeOK, LeaseMatchesStatus, Retry
  <2>2. RunnerHasRow'
    BY <1>14 DEF IInv, TypeOK, RunnerHasRow, Retry, runnerVars
  <2>3. PolledRowsExist'
    BY <1>14 DEF IInv, TypeOK, PolledRowsExist, Retry, runnerVars
  <2>4. LeaseCountIsOwn'
    BY <1>14, NoneAssumption DEF IInv, TypeOK, LeaseCountIsOwn, OwnsLease, Retry,
       runnerVars
  <2>5. AnswerIsTrue'
    BY <1>14 DEF IInv, TypeOK, AnswerIsTrue, Retry, runnerVars
  <2>6. DeliveredWasAccepted'
    BY <1>14 DEF IInv, TypeOK, DeliveredWasAccepted, Retry
  <2>7. NotificationIsHonest'
    BY <1>14 DEF IInv, TypeOK, NotificationIsHonest, Retry, recordVars
  <2>8. HistoryAgreesWithRow'
    BY <1>14 DEF IInv, TypeOK, HistoryAgreesWithRow, Retry, recordVars
  <2>9. RecordersAreApart'
    BY <1>14 DEF IInv, TypeOK, RecordersAreApart, NumberIsPast, AttemptNumbers,
       Retry, recordVars, runnerVars
  <2>10. RecordersAgreeWithRow'
    BY <1>14 DEF IInv, TypeOK, RecordersAgreeWithRow, Retry, runnerVars
  <2> QED
    BY <1>0, <2>1, <2>2, <2>3, <2>4, <2>5, <2>6, <2>7, <2>8, <2>9, <2>10 DEF IInv
<1>15. ASSUME NEW d \in Delivery, BackoffElapses(d) PROVE IInv'
  <2> QED
    BY <1>0, <1>15 DEF IInv, LeaseMatchesStatus, RunnerHasRow, PolledRowsExist,
       LeaseCountIsOwn, AnswerIsTrue, DeliveredWasAccepted, NotificationIsHonest,
       HistoryAgreesWithRow, RecordersAreApart, RecordersAgreeWithRow, OwnsLease,
       NumberIsPast, AttemptNumbers, BackoffElapses, recordVars, runnerVars,
       ghostVars
<1>16. ASSUME NEW d \in Delivery, AbandonedLeaseExpires(d) \/ LeaseOverrun(d) PROVE IInv'
  <2>1. LeaseMatchesStatus'
    BY <1>16 DEF IInv, TypeOK, LeaseMatchesStatus, AbandonedLeaseExpires,
       LeaseOverrun, ExpireLease
  <2> QED
    BY <1>0, <1>16, <2>1 DEF IInv, RunnerHasRow, PolledRowsExist, LeaseCountIsOwn,
       AnswerIsTrue, DeliveredWasAccepted, NotificationIsHonest,
       HistoryAgreesWithRow, RecordersAreApart, RecordersAgreeWithRow, OwnsLease,
       NumberIsPast, AttemptNumbers, AbandonedLeaseExpires, LeaseOverrun,
       ExpireLease, recordVars, runnerVars
<1>17. CASE UNCHANGED vars
  BY <1>0, <1>17 DEF IInv, LeaseMatchesStatus, RunnerHasRow, PolledRowsExist,
     LeaseCountIsOwn, AnswerIsTrue, DeliveredWasAccepted, NotificationIsHonest,
     HistoryAgreesWithRow, RecordersAreApart, RecordersAgreeWithRow, OwnsLease,
     NumberIsPast, AttemptNumbers, vars, rowVars, recordVars, runnerVars, ghostVars
<1> QED
  BY <1>1, <1>2, <1>3, <1>4, <1>5, <1>6, <1>7, <1>8, <1>9, <1>10, <1>11, <1>12,
     <1>13, <1>14, <1>15, <1>16, <1>17 DEF Next, RunnerStep, LoopStep, ClockStep,
     Fault

-----------------------------------------------------------------------------
(* What follows for every behaviour *)

\* The inductive invariant holds in every reachable state of the queue.
THEOREM Invariant == Spec => []IInv
  BY InitEstablishesIInv, StepKeepsIInv, PTL DEF Spec

\* The rows, the records and the runners keep their types.
THEOREM TypeCorrect == Spec => []TypeOK
<1>1. IInv => TypeOK
  BY DEF IInv
<1> QED
  BY <1>1, Invariant, PTL

\* No interleaving of claims, reclaims, late finishes, crashes and manual
\* retries marks a row delivered that the provider never accepted.
THEOREM DeliveredIsAccepted == Spec => []DeliveredWasAccepted
<1>1. IInv => DeliveredWasAccepted
  BY DEF IInv
<1> QED
  BY <1>1, Invariant, PTL

\* finishDelivery's insert never violates the unique key of the attempt history.
THEOREM AttemptNumbersAreFresh == Spec => []AttemptNumberIsFresh
<1>1. IInv => AttemptNumberIsFresh
  BY DEF IInv, RecordersAreApart, AttemptNumberIsFresh
<1> QED
  BY <1>1, Invariant, PTL

\* A notification never claims a Slack delivery its row does not confirm.
THEOREM NotificationsAreHonest == Spec => []NotificationIsHonest
<1>1. IInv => NotificationIsHonest
  BY DEF IInv
<1> QED
  BY <1>1, Invariant, PTL

\* The attempt history never contradicts the row it belongs to.
THEOREM HistoriesAgree == Spec => []HistoryAgreesWithRow
<1>1. IInv => HistoryAgreesWithRow
  BY DEF IInv
<1> QED
  BY <1>1, Invariant, PTL

\* Only the owner of the lease ends an attempt, on its own count and answer.
THEOREM AttemptsEndByTheirOwner == Spec => EndsOwnAttempt
<1> DEFINE Ends(d) ==
      status[d] = "processing" /\ status'[d] # "processing" =>
        \E r \in Runner :
          /\ leaseId[d] = r /\ row[r] = d /\ pc[r] = "finish"
          /\ seen[r] = attemptCount[d]
          /\ status'[d] = "dead_letter" =>
                result[r] = "permanent" \/ attemptCount[d] >= MaxAttempts
          /\ status'[d] = "failed" =>
                result[r] = "retryable" /\ attemptCount[d] < MaxAttempts
<1>1. ASSUME IInv, Next, NEW d \in Delivery, status[d] = "processing", status'[d] # "processing"
      PROVE  Ends(d)
  <2>1. PICK r \in Runner : Finish(r)
    BY <1>1 DEF Next, RunnerStep, LoopStep, ClockStep, Fault, IInv, TypeOK, Enqueue,
       Poll, NextRow, Claim, ClaimLost, Reread, RouteDelivered, RouteRefused,
       RouteAnswerLost, Answer, FinishStale, RecordAttempt, UpdateNotification, Retry,
       BackoffElapses, AbandonedLeaseExpires, LeaseOverrun, ExpireLease, Interrupt, Stop,
       rowVars
  <2>2. row[r] = d /\ leaseId[d] = r
    BY <1>1, <2>1 DEF IInv, TypeOK, Finish, OwnsLease
  <2>3. seen[r] = attemptCount[d] /\ result[r] \in Results
    BY <1>1, <2>1, <2>2 DEF IInv, LeaseCountIsOwn, AnswerIsTrue, OwnsLease, Finish
  <2>4. status'[d] = FinishedStatus(r)
    BY <1>1, <2>1, <2>2 DEF IInv, TypeOK, Finish
  <2>5. attemptCount[d] \in Nat /\ MaxAttempts \in Nat
    BY <1>1, BoundAssumption DEF IInv, TypeOK
  <2>6. /\ status'[d] = "dead_letter" => result[r] = "permanent" \/ attemptCount[d] >= MaxAttempts
        /\ status'[d] = "failed" => result[r] = "retryable" /\ attemptCount[d] < MaxAttempts
    BY <2>3, <2>4, <2>5 DEF FinishedStatus, Exhausted, Results
  <2> QED
    BY <2>1, <2>2, <2>3, <2>6 DEF Finish
<1>2. IInv /\ [Next]_vars => [\A d \in Delivery : Ends(d)]_vars
  BY <1>1 DEF vars
<1> QED
  BY <1>2, Invariant, PTL DEF Spec, EndsOwnAttempt

-----------------------------------------------------------------------------
(* The queue implements the promise.  Create is Enqueue, Post is an answer   *)
(* after the provider accepted the message, Settle is a Finish that is not a *)
(* retry, Reopen a manual Retry; every other step stutters.                  *)

\* Initially no row exists and nothing has been posted.
LEMMA InitImplements == Init => Promise!Init
<1> SUFFICES ASSUME Init PROVE Promise!Init
  OBVIOUS
<1>1. \A d \in Delivery : Outcome(d) = "absent"
  BY DEF Init, Outcome
<1>2. \A d \in Delivery : Posted(d) = FALSE
  BY DEF Init, Posted
<1> QED
  BY <1>1, <1>2, Zenon DEF Promise!Init

\* A step that leaves status and accepted alone changes nothing the promise sees.
LEMMA QuietStepStutters ==
  ASSUME UNCHANGED <<status, accepted>>
  PROVE  UNCHANGED Promise!promiseVars
  BY DEF Promise!promiseVars, Outcome, Posted

\* Every step of the queue is a step of the promise, or none.
LEMMA StepImplements == IInv /\ [Next]_vars => [Promise!Next]_(Promise!promiseVars)
<1> SUFFICES ASSUME IInv, [Next]_vars PROVE [Promise!Next]_(Promise!promiseVars)
  OBVIOUS
<1>1. ASSUME NEW c \in Caller, NEW d \in Delivery, Enqueue(c, d) PROVE Promise!Create(d)
  BY <1>1 DEF IInv, TypeOK, Enqueue, Promise!Create, Outcome, Posted, ghostVars
<1>2. ASSUME NEW r \in Runner, Claim(r) PROVE UNCHANGED Promise!promiseVars
  BY <1>2 DEF IInv, TypeOK, RunnerHasRow, Claim, Claimable, Promise!promiseVars, Outcome,
     Posted, ghostVars
<1>3. ASSUME NEW r \in Runner, RouteDelivered(r) \/ RouteAnswerLost(r)
      PROVE  Promise!Post(row[r])
  <2>1. row[r] \in Delivery /\ status[row[r]] # "absent"
    BY <1>3 DEF IInv, RunnerHasRow, RouteDelivered, RouteAnswerLost, Answer
  <2>2. accepted' = [accepted EXCEPT ![row[r]] = @ + 1] /\ status' = status
    BY <1>3 DEF RouteDelivered, RouteAnswerLost, Accept, Answer, rowVars
  <2>3. \A d \in Delivery : (accepted'[d] > 0) = IF d = row[r] THEN TRUE ELSE accepted[d] > 0
    <3>1. accepted[row[r]] \in Nat
      BY <2>1 DEF IInv, TypeOK
    <3>2. accepted'[row[r]] = accepted[row[r]] + 1
      BY <2>1, <2>2 DEF IInv, TypeOK
    <3>3. accepted'[row[r]] > 0
      BY <3>1, <3>2
    <3>4. \A d \in Delivery : d # row[r] => accepted'[d] = accepted[d]
      BY <2>1, <2>2 DEF IInv, TypeOK
    <3> QED
      BY <3>3, <3>4, Zenon
  <2>4. [d \in Delivery |-> Posted(d)]' = [[d \in Delivery |-> Posted(d)] EXCEPT ![row[r]] = TRUE]
    BY <2>3, Zenon DEF Posted
  <2>5. [d \in Delivery |-> Outcome(d)]' = [d \in Delivery |-> Outcome(d)]
    BY <2>2 DEF Outcome
  <2>6. Outcome(row[r]) # "absent"
    BY <2>1 DEF Outcome
  <2> QED
    BY <2>1, <2>4, <2>5, <2>6, Zenon DEF Promise!Post
<1>4. ASSUME NEW r \in Runner, Finish(r)
      PROVE  \/ UNCHANGED Promise!promiseVars
             \/ \E how \in {"delivered", "dead_letter"} : Promise!Settle(row[r], how)
  <2>1. row[r] \in Delivery /\ status[row[r]] = "processing"
    BY <1>4, NoneAssumption DEF IInv, RunnerHasRow, LeaseMatchesStatus, Finish, OwnsLease
  <2>2. status' = [status EXCEPT ![row[r]] = FinishedStatus(r)] /\ accepted' = accepted
    BY <1>4 DEF Finish, ghostVars
  <2>3. CASE FinishedStatus(r) = "failed"
    BY <2>1, <2>2, <2>3 DEF IInv, TypeOK, Promise!promiseVars, Outcome, Posted
  <2>4. CASE FinishedStatus(r) = "dead_letter"
    <3>1. Promise!Settle(row[r], "dead_letter")
      BY <2>1, <2>2, <2>4 DEF IInv, TypeOK, Promise!Settle, Outcome, Posted
    <3> QED
      BY <3>1
  <2>5. CASE FinishedStatus(r) = "delivered"
    <3>1. accepted[row[r]] > 0
      BY <1>4, <2>5 DEF IInv, AnswerIsTrue, Finish, FinishedStatus
    <3>2. Promise!Settle(row[r], "delivered")
      BY <2>1, <2>2, <2>5, <3>1 DEF IInv, TypeOK, Promise!Settle, Outcome, Posted
    <3> QED
      BY <3>2
  <2> QED
    BY <2>3, <2>4, <2>5 DEF FinishedStatus
<1>5. ASSUME NEW d \in Delivery, Retry(d)
      PROVE  UNCHANGED Promise!promiseVars \/ Promise!Reopen(d)
  BY <1>5 DEF IInv, TypeOK, Retry, Promise!promiseVars, Promise!Reopen, Outcome, Posted
<1>6. ASSUME UNCHANGED <<status, accepted>> PROVE UNCHANGED Promise!promiseVars
  BY <1>6, QuietStepStutters
<1>7. \/ UNCHANGED <<status, accepted>>
      \/ \E c \in Caller, d \in Delivery : Enqueue(c, d)
      \/ \E d \in Delivery : Retry(d)
      \/ \E r \in Runner : \/ Claim(r) \/ Finish(r)
                            \/ RouteDelivered(r) \/ RouteAnswerLost(r)
  BY DEF Next, RunnerStep, LoopStep, ClockStep, Fault, Poll, NextRow, ClaimLost, Reread,
     RouteRefused, Answer, FinishStale, RecordAttempt, UpdateNotification, BackoffElapses,
     AbandonedLeaseExpires, LeaseOverrun, ExpireLease, Interrupt, Stop, vars, rowVars, ghostVars
<1>8. ASSUME NEW r \in Runner, pc[r] # "idle" PROVE row[r] \in Delivery
  BY <1>8 DEF IInv, RunnerHasRow
<1> QED
  BY <1>1, <1>2, <1>3, <1>4, <1>5, <1>6, <1>7, <1>8
  DEF Promise!Next, Finish, RouteDelivered, RouteAnswerLost, Answer

\* The queue keeps the promise of DeliveryPromise, for any number of rows, runners,
\* attempts, faults and manual retries.
THEOREM QueueKeepsPromise == Spec => KeepsPromise
<1>1. Spec => Promise!Init /\ [][Promise!Next]_(Promise!promiseVars)
  BY InitImplements, StepImplements, Invariant, PTL DEF Spec
<1> QED
  BY <1>1 DEF KeepsPromise, Promise!Spec

-----------------------------------------------------------------------------
(* What faults cost *)

\* A runner's lease is in force.
Fresh(r, d) == leaseId[d] = r /\ lockedUntil[d] = "future"

\* Runners that may still post the row's message without a lease in force.
Strays(d) == {r \in Runner : row[r] = d /\ pc[r] \in {"reread", "route"} /\ ~Fresh(r, d)}

\* The message may be posted once more without another fault, unless the row is delivered or
\* a runner with a lease in force has had it taken.
PostedInTime(d) ==
    \E r \in Runner : Fresh(r, d) /\ row[r] = d /\ pc[r] = "finish" /\ result[r] = "delivered"
IsPosted(d) == status[d] = "delivered" \/ PostedInTime(d)

\* What a row has cost and may still cost without another fault: the messages posted, one
\* for each stray, and the one to come.
Costs(d) ==
    {<<"posted", n>> : n \in 1..accepted[d]} \cup {<<"stray", r>> : r \in Strays(d)}
    \cup {<<"due", None>> : x \in {d} \cap {e \in Delivery : ~IsPosted(e)}}
CostsOf(D) == UNION {{d} \X Costs(d) : d \in D}

\* One message for each row is free, and every other cost is paid for by a fault.
PostsPaidFor ==
    \A D \in SUBSET Delivery :
        IsFiniteSet(D) =>
            IsFiniteSet(CostsOf(D)) /\ Cardinality(CostsOf(D)) <= Cardinality(D) + faults

\* The row may be claimed once more without another fault or retry: it is open, or the
\* runner that claimed it is gone or out of its lease.
ToClaim(d) ==
    IF \/ status[d] \in {"absent", "pending", "failed"}
       \/ status[d] = "processing" /\ (lockedUntil[d] = "past" \/ ~HolderAtWork(d))
      THEN 1 ELSE 0

\* Each claim beyond the cap is paid for by a fault or by a retry.
ClaimsPaidFor(d) == attemptCount[d] + ToClaim(d) <= MaxAttempts + faults + retries

CostsArePaidFor == PostsPaidFor /\ \A d \in Delivery : ClaimsPaidFor(d)

\* Claims stay paid for by a step that claims nothing and takes nobody's row away.
LEMMA NoMoreClaims ==
  ASSUME TypeOK, TypeOK', NEW d \in Delivery, ClaimsPaidFor(d),
         attemptCount'[d] + ToClaim(d)' + faults + retries
             <= attemptCount[d] + ToClaim(d) + faults' + retries'
  PROVE  ClaimsPaidFor(d)'
<1>1. /\ attemptCount[d] \in Nat /\ attemptCount'[d] \in Nat
      /\ faults \in Nat /\ faults' \in Nat /\ retries \in Nat /\ retries' \in Nat
  BY DEF TypeOK
<1>2. ToClaim(d) \in Nat /\ ToClaim(d)' \in Nat
  BY DEF ToClaim
<1> QED
  BY <1>1, <1>2, BoundAssumption DEF ClaimsPaidFor

\* The cap on attempts is passed only by what faults and retries pay for.
LEMMA StepKeepsClaimsPaidFor ==
  ASSUME IInv, [Next]_vars, NEW d \in Delivery, ClaimsPaidFor(d)
  PROVE  ClaimsPaidFor(d)'
<1>0. TypeOK /\ TypeOK'
  BY StepKeepsTypes DEF IInv
<1>t. /\ attemptCount[d] \in Nat /\ faults \in Nat /\ retries \in Nat
      /\ ToClaim(d) \in {0, 1} /\ ToClaim(d)' \in {0, 1}
  BY <1>0 DEF TypeOK, ToClaim
<1> USE NoneAssumption DEF IInv, TypeOK
<1>q. ASSUME UNCHANGED <<attemptCount, faults, retries>>, ToClaim(d)' <= ToClaim(d)
      PROVE  ClaimsPaidFor(d)'
  BY <1>0, <1>t, <1>q, NoMoreClaims
<1>r. ASSUME UNCHANGED <<status, leaseId, lockedUntil>>, HolderAtWork(d) => HolderAtWork(d)',
             UNCHANGED <<attemptCount, faults, retries>>
      PROVE  ClaimsPaidFor(d)'
  <2>1. ToClaim(d)' <= ToClaim(d)
    BY <1>r DEF ToClaim
  <2> QED
    BY <1>q, <1>r, <2>1
<1>f. ASSUME faults' = faults + 1, UNCHANGED <<attemptCount, retries>> PROVE ClaimsPaidFor(d)'
  BY <1>0, <1>t, <1>f, NoMoreClaims
<1>1. ASSUME NEW c \in Caller, NEW e \in Delivery, Enqueue(c, e) PROVE ClaimsPaidFor(d)'
  <2>1. HolderAtWork(d) => HolderAtWork(d)'
    BY <1>1 DEF Enqueue, HolderAtWork, Holding, Runner
  <2>2. ToClaim(d)' <= ToClaim(d)
    BY <1>1, <2>1 DEF Enqueue, ToClaim
  <2> QED
    BY <1>1, <1>q, <2>2 DEF Enqueue, ghostVars
<1>2. ASSUME NEW w \in Worker, Poll(w) \/ Stop(w) PROVE ClaimsPaidFor(d)'
  <2>1. HolderAtWork(d) => HolderAtWork(d)'
    BY <1>2 DEF Poll, Stop, HolderAtWork, rowVars
  <2> QED
    BY <1>2, <1>r, <2>1 DEF Poll, Stop, rowVars, ghostVars
<1>3. ASSUME NEW w \in Worker, NEW e \in Delivery, NextRow(w, e) PROVE ClaimsPaidFor(d)'
  <2>1. HolderAtWork(d) => HolderAtWork(d)'
    BY <1>3 DEF NextRow, HolderAtWork, Holding, Runner, rowVars
  <2> QED
    BY <1>3, <1>r, <2>1 DEF NextRow, rowVars, ghostVars
<1>4. ASSUME NEW r \in Runner, Claim(r) PROVE ClaimsPaidFor(d)'
  <2>1. row[r] \in Delivery /\ UNCHANGED <<faults, retries>>
    BY <1>4 DEF Claim, RunnerHasRow, ghostVars
  <2>2. CASE row[r] = d
    <3>1. ToClaim(d) = 1 /\ attemptCount'[d] = attemptCount[d] + 1
      BY <1>4, <2>1, <2>2 DEF Claim, Claimable, ToClaim
    <3>2. /\ leaseId'[d] = r /\ row'[r] = d /\ pc'[r] = "reread"
          /\ status'[d] = "processing" /\ lockedUntil'[d] = "future"
      BY <1>4, <2>1, <2>2 DEF Claim
    <3>3. HolderAtWork(d)'
      BY <3>2 DEF HolderAtWork, Holding
    <3>4. ToClaim(d)' = 0
      BY <3>2, <3>3 DEF ToClaim
    <3> QED
      BY <1>0, <1>t, <2>1, <3>1, <3>4, NoMoreClaims
  <2>3. CASE row[r] # d
    <3>1. HolderAtWork(d) => HolderAtWork(d)'
      BY <1>4, <2>1, <2>3 DEF Claim, HolderAtWork, Holding
    <3>2. ToClaim(d)' <= ToClaim(d) /\ attemptCount'[d] = attemptCount[d]
      BY <1>4, <2>1, <2>3, <3>1 DEF Claim, ToClaim
    <3> QED
      BY <1>0, <1>t, <2>1, <3>2, NoMoreClaims
  <2> QED
    BY <2>2, <2>3
<1>5. ASSUME NEW r \in Runner, ClaimLost(r) \/ FinishStale(r) PROVE ClaimsPaidFor(d)'
  <2>1. HolderAtWork(d) => HolderAtWork(d)'
    BY <1>5 DEF ClaimLost, FinishStale, OwnsLease, Done, Release, HolderAtWork, Holding, rowVars
  <2> QED
    BY <1>5, <1>r, <2>1 DEF ClaimLost, FinishStale, rowVars, ghostVars
<1>6. ASSUME NEW r \in Runner, Reread(r) PROVE ClaimsPaidFor(d)'
  <2>1. HolderAtWork(d) => HolderAtWork(d)'
    BY <1>6 DEF Reread, HolderAtWork, Holding, rowVars
  <2> QED
    BY <1>6, <1>r, <2>1 DEF Reread, rowVars, ghostVars
<1>7. ASSUME NEW r \in Runner, NEW res, Answer(r, res), UNCHANGED <<faults, retries>>
      PROVE  ClaimsPaidFor(d)'
  <2>1. HolderAtWork(d) => HolderAtWork(d)'
    BY <1>7 DEF Answer, HolderAtWork, Holding, rowVars
  <2> QED
    BY <1>7, <1>r, <2>1 DEF Answer, rowVars
<1>8. ASSUME NEW r \in Runner, Finish(r) PROVE ClaimsPaidFor(d)'
  <2>1. row[r] \in Delivery /\ UNCHANGED <<attemptCount, faults, retries>>
    BY <1>8 DEF Finish, RunnerHasRow, ghostVars
  <2>2. CASE row[r] = d
    <3>1. seen[r] = attemptCount[d] /\ status'[d] = FinishedStatus(r)
      BY <1>8, <2>1, <2>2 DEF Finish, LeaseCountIsOwn
    <3>2. CASE FinishedStatus(r) = "failed"
      <4>1. attemptCount[d] < MaxAttempts
        BY <1>t, <3>1, <3>2, BoundAssumption DEF FinishedStatus, Exhausted
      <4>2. attemptCount'[d] + ToClaim(d)' <= MaxAttempts + faults' + retries'
        BY <1>t, <2>1, <4>1, BoundAssumption
      <4> QED
        BY <4>2 DEF ClaimsPaidFor
    <3>3. CASE FinishedStatus(r) # "failed"
      <4>1. ToClaim(d)' = 0
        BY <3>1, <3>3 DEF FinishedStatus, ToClaim
      <4> QED
        BY <1>q, <1>t, <2>1, <4>1
    <3> QED
      BY <3>2, <3>3
  <2>3. CASE row[r] # d
    <3>1. HolderAtWork(d) => HolderAtWork(d)'
      BY <1>8, <2>1, <2>3 DEF Finish, HolderAtWork
    <3>2. ToClaim(d)' <= ToClaim(d)
      BY <1>8, <2>1, <2>3, <3>1 DEF Finish, ToClaim
    <3> QED
      BY <1>q, <2>1, <3>2
  <2> QED
    BY <2>2, <2>3
<1>9. ASSUME NEW r \in Runner, RecordAttempt(r) \/ UpdateNotification(r) PROVE ClaimsPaidFor(d)'
  <2>1. \A s \in Runner : s # r => pc'[s] = pc[s] /\ row'[s] = row[s]
    BY <1>9 DEF RecordAttempt, UpdateNotification, Abort, Done, Release
  <2>2. pc[r] \notin Holding /\ UNCHANGED rowVars
    BY <1>9 DEF RecordAttempt, UpdateNotification, Holding
  <2>3. HolderAtWork(d) => HolderAtWork(d)'
    BY <2>1, <2>2 DEF HolderAtWork, rowVars
  <2> QED
    BY <1>9, <1>r, <2>2, <2>3 DEF RecordAttempt, UpdateNotification, rowVars, ghostVars
<1>10. ASSUME NEW e \in Delivery, Retry(e) PROVE ClaimsPaidFor(d)'
  BY <1>0, <1>10, <1>t, NoMoreClaims DEF Retry
<1>11. ASSUME NEW e \in Delivery, BackoffElapses(e) PROVE ClaimsPaidFor(d)'
  <2>1. HolderAtWork(d) => HolderAtWork(d)'
    BY <1>11 DEF BackoffElapses, HolderAtWork, runnerVars
  <2> QED
    BY <1>11, <1>r, <2>1 DEF BackoffElapses, ghostVars
<1>12. ASSUME NEW e \in Delivery, AbandonedLeaseExpires(e) PROVE ClaimsPaidFor(d)'
  <2>1. HolderAtWork(d) <=> HolderAtWork(d)'
    BY <1>12 DEF AbandonedLeaseExpires, ExpireLease, HolderAtWork, runnerVars
  <2>2. ToClaim(d)' <= ToClaim(d)
    BY <1>12, <2>1 DEF AbandonedLeaseExpires, ExpireLease, ToClaim, LeaseMatchesStatus
  <2> QED
    BY <1>12, <1>q, <2>2 DEF AbandonedLeaseExpires, ExpireLease
<1>13. ASSUME NEW r \in Runner, RouteAnswerLost(r) \/ Interrupt(r) PROVE ClaimsPaidFor(d)'
  BY <1>13, <1>f DEF RouteAnswerLost, Answer, Interrupt, rowVars
<1>14. ASSUME NEW e \in Delivery, LeaseOverrun(e) PROVE ClaimsPaidFor(d)'
  BY <1>14, <1>f DEF LeaseOverrun, ExpireLease
<1>15. ASSUME UNCHANGED vars PROVE ClaimsPaidFor(d)'
  <2>1. HolderAtWork(d) => HolderAtWork(d)'
    BY <1>15 DEF HolderAtWork, vars, rowVars, runnerVars
  <2> QED
    BY <1>15, <1>r, <2>1 DEF vars, rowVars, ghostVars
<1>16. ASSUME NEW r \in Runner,
              RouteDelivered(r) \/ RouteRefused(r, "retryable") \/ RouteRefused(r, "permanent")
       PROVE  ClaimsPaidFor(d)'
  BY <1>7, <1>16 DEF RouteDelivered, RouteRefused, ghostVars
<1> QED
  BY <1>1, <1>2, <1>3, <1>4, <1>5, <1>6, <1>8, <1>9, <1>10, <1>11, <1>12, <1>13, <1>14, <1>15,
     <1>16 DEF Next, RunnerStep, LoopStep, ClockStep, Fault

\* What a step adds to the costs of the rows: nothing; one cost of one row in exchange for
\* another of the same row; or one cost for a fault.
CostsNothing(d) == Costs(d)' \subseteq Costs(d)
OthersCostNothing(e) == \A d \in Delivery : d # e => CostsNothing(d)
StepIsPaidFor ==
    \/ faults' = faults /\ \A d \in Delivery : CostsNothing(d)
    \/ \E e \in Delivery : \E x \in Costs(e) : \E y \in Costs(e)' :
          /\ faults' = faults /\ OthersCostNothing(e)
          /\ Costs(e)' \subseteq (Costs(e) \ {x}) \cup {y}
    \/ \E e \in Delivery : \E y :
          /\ faults' = faults + 1 /\ OthersCostNothing(e)
          /\ Costs(e)' \subseteq Costs(e) \cup {y}

\* Costs of several rows are costs of one of them.
LEMMA CostsOfRows ==
  \A D, z : z \in CostsOf(D) <=> \E d \in D : \E c \in Costs(d) : z = <<d, c>>
  BY DEF CostsOf

\* The rows as a whole stay paid for.
LEMMA PaidStepKeepsPostsPaidFor ==
  ASSUME TypeOK, StepIsPaidFor, PostsPaidFor
  PROVE  PostsPaidFor'
<1> SUFFICES ASSUME NEW D \in SUBSET Delivery, IsFiniteSet(D)
             PROVE  IsFiniteSet(CostsOf(D)') /\ Cardinality(CostsOf(D)') <= Cardinality(D) + faults'
  BY DEF PostsPaidFor
<1> DEFINE C == CostsOf(D)
<1>0. /\ IsFiniteSet(C) /\ Cardinality(C) <= Cardinality(D) + faults
      /\ Cardinality(C) \in Nat /\ Cardinality(D) \in Nat /\ faults \in Nat
  BY FS_CardinalityType DEF PostsPaidFor, TypeOK
<1>a. \A z : z \in C' <=> \E d \in D : \E c \in Costs(d)' : z = <<d, c>>
  BY DEF CostsOf
<1>b. \A z : z \in C <=> \E d \in D : \E c \in Costs(d) : z = <<d, c>>
  BY CostsOfRows
<1> HIDE DEF C
<1>1. CASE faults' = faults /\ \A d \in Delivery : CostsNothing(d)
  <2>1. C' \subseteq C
    BY <1>a, <1>b, <1>1 DEF CostsNothing
  <2> QED
    BY <1>0, <1>1, <2>1, FS_Subset, FS_CardinalityType DEF C
<1>2. ASSUME NEW e \in Delivery, NEW x \in Costs(e), NEW y, faults' = faults,
             OthersCostNothing(e), Costs(e)' \subseteq (Costs(e) \ {x}) \cup {y}
      PROVE  IsFiniteSet(C') /\ Cardinality(C') <= Cardinality(D) + faults'
  <2>1. CASE e \notin D
    <3>1. C' \subseteq C
      BY <1>a, <1>b, <1>2, <2>1 DEF CostsNothing, OthersCostNothing
    <3> QED
      BY <1>0, <1>2, <3>1, FS_Subset, FS_CardinalityType
  <2>2. CASE e \in D
    <3> DEFINE R == C \ {<<e, x>>}
    <3>1. C' \subseteq R \cup {<<e, y>>}
      BY <1>a, <1>b, <1>2, <2>2 DEF CostsNothing, OthersCostNothing
    <3>2. <<e, x>> \in C
      BY <1>b, <1>2, <2>2
    <3>3. IsFiniteSet(R) /\ Cardinality(R) = Cardinality(C) - 1
      BY <1>0, <3>2, FS_RemoveElement
    <3> HIDE DEF R
    <3>4. /\ IsFiniteSet(R \cup {<<e, y>>})
          /\ Cardinality(R \cup {<<e, y>>})
               = IF <<e, y>> \in R THEN Cardinality(R) ELSE Cardinality(R) + 1
      BY <3>3, FS_AddElement
    <3>5. /\ IsFiniteSet(C') /\ Cardinality(C') <= Cardinality(R \cup {<<e, y>>})
          /\ Cardinality(C') \in Nat /\ Cardinality(R \cup {<<e, y>>}) \in Nat
      BY <3>1, <3>4, FS_Subset, FS_CardinalityType
    <3> QED
      BY <1>0, <1>2, <3>3, <3>4, <3>5
  <2> QED
    BY <2>1, <2>2
<1>3. ASSUME NEW e \in Delivery, NEW y, faults' = faults + 1, OthersCostNothing(e),
             Costs(e)' \subseteq Costs(e) \cup {y}
      PROVE  IsFiniteSet(C') /\ Cardinality(C') <= Cardinality(D) + faults'
  <2>1. C' \subseteq C \cup {<<e, y>>}
    BY <1>a, <1>b, <1>3 DEF CostsNothing, OthersCostNothing
  <2>2. /\ IsFiniteSet(C \cup {<<e, y>>})
        /\ Cardinality(C \cup {<<e, y>>})
             = IF <<e, y>> \in C THEN Cardinality(C) ELSE Cardinality(C) + 1
    BY <1>0, FS_AddElement
  <2>3. /\ IsFiniteSet(C') /\ Cardinality(C') <= Cardinality(C \cup {<<e, y>>})
        /\ Cardinality(C') \in Nat
    BY <2>1, <2>2, FS_Subset, FS_CardinalityType
  <2> QED
    BY <1>0, <1>3, <2>2, <2>3
<1> QED
  BY <1>1, <1>2, <1>3 DEF StepIsPaidFor, C

\* Every post that is not the first of its row is paid for.
LEMMA StepsArePaidFor == IInv /\ [Next]_vars => StepIsPaidFor
<1> SUFFICES ASSUME IInv, [Next]_vars PROVE StepIsPaidFor
  OBVIOUS
<1>0. TypeOK /\ TypeOK'
  BY StepKeepsTypes DEF IInv
<1> USE NoneAssumption
<1>q. ASSUME NEW d \in Delivery, Strays(d)' \subseteq Strays(d), accepted'[d] = accepted[d],
             IsPosted(d) => IsPosted(d)'
      PROVE  CostsNothing(d)
  BY <1>q DEF CostsNothing, Costs
<1>1. ASSUME NEW c \in Caller, NEW e \in Delivery, Enqueue(c, e) PROVE StepIsPaidFor
  <2>1. ASSUME NEW d \in Delivery PROVE CostsNothing(d)
    <3>1. Strays(d)' \subseteq Strays(d)
      BY <1>1 DEF IInv, TypeOK, Enqueue, Strays, Fresh
    <3>2. PostedInTime(d) => PostedInTime(d)'
      BY <1>1 DEF IInv, TypeOK, Enqueue, PostedInTime, Fresh
    <3> QED
      BY <1>1, <1>q, <3>1, <3>2 DEF IsPosted, IInv, TypeOK, Enqueue, ghostVars
  <2> QED
    BY <1>1, <2>1 DEF StepIsPaidFor, Enqueue, ghostVars
<1>2. ASSUME NEW w \in Worker, Poll(w) \/ Stop(w) PROVE StepIsPaidFor
  <2>1. ASSUME NEW d \in Delivery PROVE CostsNothing(d)
    BY <1>2, <1>q DEF Poll, Stop, Strays, IsPosted, PostedInTime, Fresh, rowVars, ghostVars
  <2> QED
    BY <1>2, <2>1 DEF StepIsPaidFor, Poll, Stop, ghostVars
<1>3. ASSUME NEW w \in Worker, NEW e \in Delivery, NextRow(w, e) PROVE StepIsPaidFor
  <2>1. ASSUME NEW d \in Delivery PROVE CostsNothing(d)
    <3>1. Strays(d)' \subseteq Strays(d)
      BY <1>3 DEF IInv, TypeOK, NextRow, Strays, Fresh, rowVars
    <3>2. PostedInTime(d) => PostedInTime(d)'
      BY <1>3 DEF IInv, TypeOK, NextRow, PostedInTime, Fresh, rowVars
    <3> QED
      BY <1>3, <1>q, <3>1, <3>2 DEF IsPosted, NextRow, rowVars, ghostVars
  <2> QED
    BY <1>3, <2>1 DEF StepIsPaidFor, NextRow, ghostVars
<1>4. ASSUME NEW r \in Runner, Claim(r) PROVE StepIsPaidFor
  <2>1. ASSUME NEW d \in Delivery PROVE CostsNothing(d)
    <3>1. row[r] \in Delivery /\ Claimable(row[r])
      BY <1>4 DEF IInv, Claim, RunnerHasRow
    <3>2. row[r] = d => \A s \in Runner : ~ Fresh(s, d)
      BY <3>1 DEF IInv, LeaseMatchesStatus, Claimable, Fresh
    <3>3. Strays(d)' \subseteq Strays(d)
      BY <1>4, <3>1, <3>2 DEF IInv, TypeOK, Claim, Strays, Fresh
    <3>4. PostedInTime(d) => PostedInTime(d)'
      BY <1>4, <3>1, <3>2 DEF IInv, TypeOK, Claim, PostedInTime, Fresh
    <3>5. status[d] = "delivered" => status'[d] = "delivered"
      BY <1>4, <3>1 DEF IInv, TypeOK, Claim, Claimable
    <3> QED
      BY <1>4, <1>q, <3>3, <3>4, <3>5 DEF IsPosted, Claim, ghostVars
  <2> QED
    BY <1>4, <2>1 DEF StepIsPaidFor, Claim, ghostVars
<1>5. ASSUME NEW r \in Runner, ClaimLost(r) \/ FinishStale(r) PROVE StepIsPaidFor
  <2>1. ASSUME NEW d \in Delivery PROVE CostsNothing(d)
    <3>1. Strays(d)' \subseteq Strays(d)
      BY <1>5 DEF IInv, TypeOK, ClaimLost, FinishStale, Done, Release, Strays, Fresh, rowVars
    <3>2. PostedInTime(d) => PostedInTime(d)'
      BY <1>5 DEF IInv, TypeOK, ClaimLost, FinishStale, OwnsLease, Done, Release, PostedInTime,
         Fresh, rowVars
    <3> QED
      BY <1>5, <1>q, <3>1, <3>2 DEF IsPosted, ClaimLost, FinishStale, rowVars, ghostVars
  <2> QED
    BY <1>5, <2>1 DEF StepIsPaidFor, ClaimLost, FinishStale, ghostVars
<1>6. ASSUME NEW r \in Runner, Reread(r) PROVE StepIsPaidFor
  <2>1. ASSUME NEW d \in Delivery PROVE CostsNothing(d)
    <3>1. Strays(d)' \subseteq Strays(d)
      BY <1>6 DEF IInv, TypeOK, Reread, Strays, Fresh, rowVars
    <3>2. PostedInTime(d) => PostedInTime(d)'
      BY <1>6 DEF IInv, TypeOK, Reread, PostedInTime, Fresh, rowVars
    <3> QED
      BY <1>6, <1>q, <3>1, <3>2 DEF IsPosted, Reread, rowVars, ghostVars
  <2> QED
    BY <1>6, <2>1 DEF StepIsPaidFor, Reread, ghostVars
\* The message is posted, with or without an answer that arrives.
<1>7. ASSUME NEW r \in Runner, NEW res, Answer(r, res), Accept(r),
             \/ res = "delivered" /\ faults' = faults
             \/ faults' = faults + 1
      PROVE  StepIsPaidFor
  <2>0. PICK e \in Delivery, n \in Nat : e = row[r] /\ n = accepted[e] + 1
    BY <1>0, <1>7 DEF IInv, TypeOK, RunnerHasRow, Answer
  <2>1. /\ pc[r] = "route" /\ pc' = [pc EXCEPT ![r] = "finish"]
        /\ result' = [result EXCEPT ![r] = res]
        /\ accepted' = [accepted EXCEPT ![e] = @ + 1] /\ UNCHANGED <<rowVars, row>>
    BY <1>7, <2>0 DEF Answer, Accept
  <2>2. ASSUME NEW d \in Delivery PROVE Strays(d)' \subseteq Strays(d)
    BY <2>1 DEF IInv, TypeOK, Strays, Fresh, rowVars
  <2>3. ASSUME NEW d \in Delivery PROVE IsPosted(d) => IsPosted(d)'
    BY <2>1 DEF IInv, TypeOK, IsPosted, PostedInTime, Fresh, rowVars
  <2>4. OthersCostNothing(e)
    <3> SUFFICES ASSUME NEW d \in Delivery, d # e PROVE CostsNothing(d)
      BY DEF OthersCostNothing
    <3>1. accepted'[d] = accepted[d]
      BY <1>0, <2>1 DEF TypeOK
    <3> QED
      BY <1>q, <2>2, <2>3, <3>1
  <2>5. accepted[e] \in Nat /\ accepted'[e] = accepted[e] + 1
    BY <1>0, <2>1 DEF TypeOK
  <2>6. /\ Costs(e)' \subseteq Costs(e) \cup {<<"posted", n>>}
        /\ <<"posted", n>> \in Costs(e)'
    <3>1. 1..accepted'[e] = (1..accepted[e]) \cup {n} /\ n \in 1..accepted'[e]
      BY <2>0, <2>5
    <3>2. Strays(e)' \subseteq Strays(e) /\ (IsPosted(e) => IsPosted(e)')
      BY <2>2, <2>3
    <3> QED
      BY <3>1, <3>2 DEF Costs
  <2>7. CASE faults' = faults + 1
    BY <2>4, <2>6, <2>7 DEF StepIsPaidFor
  <2>8. CASE res = "delivered" /\ faults' = faults /\ Fresh(r, e)
    <3>1. ~ PostedInTime(e) /\ status[e] = "processing"
      BY <2>0, <2>1, <2>8 DEF IInv, LeaseMatchesStatus, PostedInTime, Fresh
    <3>2. PostedInTime(e)'
      BY <1>0, <2>0, <2>1, <2>8 DEF TypeOK, PostedInTime, Fresh, rowVars
    <3>3. <<"due", None>> \in Costs(e) /\ <<"due", None>> \notin Costs(e)'
      BY <3>1, <3>2 DEF Costs, IsPosted
    <3>4. Costs(e)' \subseteq (Costs(e) \ {<<"due", None>>}) \cup {<<"posted", n>>}
      BY <2>6, <3>3
    <3> QED
      BY <2>4, <2>6, <2>8, <3>3, <3>4 DEF StepIsPaidFor
  <2>9. CASE res = "delivered" /\ faults' = faults /\ ~ Fresh(r, e)
    <3>1. r \in Strays(e) /\ r \notin Strays(e)'
      BY <1>0, <2>0, <2>1, <2>9 DEF TypeOK, Strays
    <3>2. <<"stray", r>> \in Costs(e) /\ <<"stray", r>> \notin Costs(e)'
      BY <3>1 DEF Costs
    <3>3. Costs(e)' \subseteq (Costs(e) \ {<<"stray", r>>}) \cup {<<"posted", n>>}
      BY <2>6, <3>2
    <3> QED
      BY <2>4, <2>6, <2>9, <3>2, <3>3 DEF StepIsPaidFor
  <2> QED
    BY <1>7, <2>7, <2>8, <2>9
<1>8. ASSUME NEW r \in Runner, RouteDelivered(r) \/ RouteAnswerLost(r) PROVE StepIsPaidFor
  BY <1>7, <1>8 DEF RouteDelivered, RouteAnswerLost
<1>9. ASSUME NEW r \in Runner, NEW res, RouteRefused(r, res) PROVE StepIsPaidFor
  <2>1. ASSUME NEW d \in Delivery PROVE CostsNothing(d)
    <3>1. Strays(d)' \subseteq Strays(d)
      BY <1>9 DEF IInv, TypeOK, RouteRefused, Answer, Strays, Fresh, rowVars
    <3>2. PostedInTime(d) => PostedInTime(d)'
      BY <1>9 DEF IInv, TypeOK, RouteRefused, Answer, PostedInTime, Fresh, rowVars
    <3> QED
      BY <1>9, <1>q, <3>1, <3>2 DEF IsPosted, RouteRefused, Answer, rowVars, ghostVars
  <2> QED
    BY <1>9, <2>1 DEF StepIsPaidFor, RouteRefused, ghostVars
<1>10. ASSUME NEW r \in Runner, Finish(r) PROVE StepIsPaidFor
  <2>1. ASSUME NEW d \in Delivery PROVE CostsNothing(d)
    <3>1. row[r] \in Delivery /\ pc[r] = "finish" /\ leaseId[row[r]] = r
      BY <1>10 DEF IInv, RunnerHasRow, Finish, OwnsLease
    <3>2. Strays(d)' \subseteq Strays(d)
      BY <1>10, <3>1 DEF IInv, TypeOK, Finish, Strays, Fresh
    <3>3. CASE row[r] # d
      <4>1. PostedInTime(d) => PostedInTime(d)'
        BY <1>10, <3>1, <3>3 DEF IInv, TypeOK, Finish, PostedInTime, Fresh
      <4>2. status'[d] = status[d]
        BY <1>10, <3>1, <3>3 DEF IInv, TypeOK, Finish
      <4> QED
        BY <1>10, <1>q, <3>2, <4>1, <4>2 DEF IsPosted, Finish, ghostVars
    <3>4. CASE row[r] = d
      <4>1. status[d] = "processing" /\ status'[d] = FinishedStatus(r)
        BY <1>10, <3>1, <3>4 DEF IInv, TypeOK, LeaseMatchesStatus, Finish
      <4>2. PostedInTime(d) => FinishedStatus(r) = "delivered"
        BY <3>1, <3>4 DEF PostedInTime, Fresh, FinishedStatus
      <4> QED
        BY <1>10, <1>q, <3>2, <4>1, <4>2 DEF IsPosted, Finish, ghostVars
    <3> QED
      BY <3>3, <3>4
  <2> QED
    BY <1>10, <2>1 DEF StepIsPaidFor, Finish, ghostVars
<1>11. ASSUME NEW r \in Runner, RecordAttempt(r) \/ UpdateNotification(r) PROVE StepIsPaidFor
  <2>1. ASSUME NEW d \in Delivery PROVE CostsNothing(d)
    <3>1. /\ \A s \in Runner : s # r => pc'[s] = pc[s] /\ row'[s] = row[s] /\ result'[s] = result[s]
          /\ pc'[r] \in {"idle", "notify"}
      BY <1>11 DEF IInv, TypeOK, RecordAttempt, UpdateNotification, Abort, Done, Release
    <3>2. pc[r] \in {"record", "notify"} /\ UNCHANGED <<rowVars, accepted, faults>>
      BY <1>11 DEF RecordAttempt, UpdateNotification, ghostVars
    <3>3. Strays(d)' \subseteq Strays(d)
      BY <3>1, <3>2 DEF Strays, Fresh, rowVars
    <3>4. PostedInTime(d) => PostedInTime(d)'
      BY <3>1, <3>2 DEF PostedInTime, Fresh, rowVars
    <3> QED
      BY <1>q, <3>2, <3>3, <3>4 DEF IsPosted, rowVars
  <2> QED
    BY <1>11, <2>1 DEF StepIsPaidFor, RecordAttempt, UpdateNotification, ghostVars
<1>12. ASSUME NEW e \in Delivery, Retry(e) PROVE StepIsPaidFor
  <2>1. ASSUME NEW d \in Delivery PROVE CostsNothing(d)
    <3>1. ~ \E r \in Runner : Fresh(r, e)
      BY <1>12 DEF IInv, LeaseMatchesStatus, Retry, Fresh
    <3>2. Strays(d)' \subseteq Strays(d)
      BY <1>12, <3>1 DEF IInv, TypeOK, Retry, Strays, Fresh, runnerVars
    <3>3. PostedInTime(d) => PostedInTime(d)'
      BY <1>12, <3>1 DEF IInv, TypeOK, Retry, PostedInTime, Fresh, runnerVars
    <3> QED
      BY <1>12, <1>q, <3>2, <3>3 DEF IsPosted, IInv, TypeOK, Retry
  <2> QED
    BY <1>12, <2>1 DEF StepIsPaidFor, Retry
<1>13. ASSUME NEW e \in Delivery, BackoffElapses(e) PROVE StepIsPaidFor
  <2>1. ASSUME NEW d \in Delivery PROVE CostsNothing(d)
    BY <1>13, <1>q DEF BackoffElapses, Strays, IsPosted, PostedInTime, Fresh, runnerVars, ghostVars
  <2> QED
    BY <1>13, <2>1 DEF StepIsPaidFor, BackoffElapses, ghostVars
<1>14. ASSUME NEW e \in Delivery, AbandonedLeaseExpires(e) PROVE StepIsPaidFor
  <2>1. ASSUME NEW d \in Delivery PROVE CostsNothing(d)
    <3>1. /\ ~ HolderAtWork(e) /\ lockedUntil' = [lockedUntil EXCEPT ![e] = "past"]
          /\ UNCHANGED <<status, leaseId, runnerVars, accepted, faults>>
      BY <1>14 DEF AbandonedLeaseExpires, ExpireLease
    <3>2. Strays(d)' \subseteq Strays(d)
      BY <3>1 DEF IInv, TypeOK, Strays, Fresh, HolderAtWork, Holding, runnerVars
    <3>3. PostedInTime(d) => PostedInTime(d)'
      BY <3>1 DEF IInv, TypeOK, PostedInTime, Fresh, HolderAtWork, Holding, runnerVars
    <3> QED
      BY <1>q, <3>1, <3>2, <3>3 DEF IsPosted
  <2> QED
    BY <1>14, <2>1 DEF StepIsPaidFor, AbandonedLeaseExpires, ExpireLease
<1>15. ASSUME NEW r \in Runner, Interrupt(r) PROVE StepIsPaidFor
  <2>0. PICK e \in Delivery : e = row[r]
    BY <1>15 DEF IInv, RunnerHasRow, Interrupt
  <2>1. /\ faults' = faults + 1
        /\ pc' = [pc EXCEPT ![r] = "idle"] /\ row' = [row EXCEPT ![r] = None]
        /\ result' = [result EXCEPT ![r] = None] /\ UNCHANGED <<rowVars, accepted>>
    BY <1>15 DEF Interrupt, Abort, Release
  <2>2. ASSUME NEW d \in Delivery PROVE Strays(d)' \subseteq Strays(d)
    BY <2>1 DEF IInv, TypeOK, Strays, Fresh, rowVars
  <2>3. OthersCostNothing(e)
    <3> SUFFICES ASSUME NEW d \in Delivery, d # e PROVE CostsNothing(d)
      BY DEF OthersCostNothing
    <3>1. IsPosted(d) => IsPosted(d)'
      BY <2>0, <2>1 DEF IInv, TypeOK, IsPosted, PostedInTime, Fresh, rowVars
    <3> QED
      BY <1>q, <2>1, <2>2, <3>1
  <2>4. Costs(e)' \subseteq Costs(e) \cup {<<"due", None>>}
    BY <2>1, <2>2 DEF Costs
  <2> QED
    BY <2>1, <2>3, <2>4 DEF StepIsPaidFor
<1>16. ASSUME NEW e \in Delivery, LeaseOverrun(e) PROVE StepIsPaidFor
  <2>1. /\ faults' = faults + 1 /\ lockedUntil' = [lockedUntil EXCEPT ![e] = "past"]
        /\ UNCHANGED <<status, leaseId, runnerVars, accepted>>
    BY <1>16 DEF LeaseOverrun, ExpireLease
  <2>2. PICK r \in Runner : leaseId[e] = r
    BY <1>16 DEF LeaseOverrun, HolderAtWork
  <2>3. OthersCostNothing(e)
    <3> SUFFICES ASSUME NEW d \in Delivery, d # e PROVE CostsNothing(d)
      BY DEF OthersCostNothing
    <3>1. Strays(d)' \subseteq Strays(d) /\ (IsPosted(d) => IsPosted(d)')
      BY <2>1 DEF IInv, TypeOK, Strays, IsPosted, PostedInTime, Fresh, runnerVars
    <3> QED
      BY <1>q, <2>1, <3>1
\* Its holder had the message taken, or may still post it.
  <2>4. CASE PostedInTime(e)
    <3>1. Strays(e)' \subseteq Strays(e)
      BY <2>1, <2>4 DEF IInv, TypeOK, Strays, PostedInTime, Fresh, runnerVars
    <3>2. Costs(e)' \subseteq Costs(e) \cup {<<"due", None>>}
      BY <2>1, <3>1 DEF Costs
    <3> QED
      BY <2>1, <2>3, <3>2 DEF StepIsPaidFor
  <2>5. CASE ~ PostedInTime(e)
    <3>1. Strays(e)' \subseteq Strays(e) \cup {r}
      BY <2>1, <2>2 DEF IInv, TypeOK, Strays, Fresh, runnerVars
    <3>2. IsPosted(e) => IsPosted(e)'
      BY <2>1, <2>5 DEF IsPosted
    <3>3. Costs(e)' \subseteq Costs(e) \cup {<<"stray", r>>}
      BY <2>1, <3>1, <3>2 DEF Costs
    <3> QED
      BY <2>1, <2>3, <3>3 DEF StepIsPaidFor
  <2> QED
    BY <2>4, <2>5
<1>17. CASE UNCHANGED vars
  <2>1. ASSUME NEW d \in Delivery PROVE CostsNothing(d)
    BY <1>17, <1>q DEF vars, Strays, IsPosted, PostedInTime, Fresh, rowVars, runnerVars, ghostVars
  <2> QED
    BY <1>17, <2>1 DEF StepIsPaidFor, vars, ghostVars
<1> QED
  BY <1>1, <1>2, <1>3, <1>4, <1>5, <1>6, <1>8, <1>9, <1>10, <1>11, <1>12, <1>13, <1>14, <1>15,
     <1>16, <1>17 DEF Next, RunnerStep, LoopStep, ClockStep, Fault

\* Initially each row may cost one message.
LEMMA InitIsPaidFor == Init => CostsArePaidFor
<1> SUFFICES ASSUME Init PROVE CostsArePaidFor
  OBVIOUS
<1>1. ASSUME NEW D \in SUBSET Delivery, IsFiniteSet(D)
      PROVE  IsFiniteSet(CostsOf(D)) /\ Cardinality(CostsOf(D)) <= Cardinality(D) + faults
  <2>1. ASSUME NEW d \in D PROVE Costs(d) = {<<"due", None>>}
    <3>1. Strays(d) = {} /\ 1..accepted[d] = {} /\ ~ IsPosted(d)
      BY <2>1, NoneAssumption DEF Init, Strays, IsPosted, PostedInTime, Fresh
    <3> QED
      BY <3>1 DEF Costs
  <2>2. CostsOf(D) = D \X {<<"due", None>>}
    BY <2>1 DEF CostsOf
  <2>3. IsFiniteSet({<<"due", None>>}) /\ Cardinality({<<"due", None>>}) = 1
    BY FS_Singleton
  <2>4. IsFiniteSet(CostsOf(D)) /\ Cardinality(CostsOf(D)) = Cardinality(D) * 1
    BY <1>1, <2>2, <2>3, FS_Product
  <2> QED
    BY <1>1, <2>4, FS_CardinalityType DEF Init
<1>2. ASSUME NEW d \in Delivery PROVE ClaimsPaidFor(d)
  <2>1. faults = 0 /\ retries = 0 /\ ToClaim(d) \in {0, 1} /\ attemptCount[d] = 0
    BY DEF Init, ToClaim
  <2> QED
    BY <2>1, BoundAssumption DEF ClaimsPaidFor
<1> QED
  BY <1>1, <1>2 DEF CostsArePaidFor, PostsPaidFor

\* Posted messages are among the costs.
LEMMA PostsAreCosts ==
  ASSUME NEW D \in SUBSET Delivery, IsFiniteSet(CostsOf(D))
  PROVE  IsFiniteSet(Posts(D)) /\ Cardinality(Posts(D)) <= Cardinality(CostsOf(D))
<1> DEFINE f == [z \in Posts(D) |-> <<z[1], <<"posted", z[2]>>>>]
<1>1. \A z \in Posts(D) :
          /\ z = <<z[1], z[2]>> /\ z[1] \in D /\ z[2] \in 1..accepted[z[1]]
  BY DEF Posts
<1>2. \A z \in Posts(D) : f[z] \in CostsOf(D)
  BY <1>1 DEF CostsOf, Costs
<1>3. f \in Injection(Posts(D), CostsOf(D))
  BY <1>1, <1>2 DEF Injection, IsInjective
<1> QED
  BY <1>3, FS_Injection

\* The rows together cost one message more at most for each fault, and each row one attempt
\* beyond the cap for each fault and each manual retry ("At-least-once" of
\* lib/slackJobThreads.ts).
THEOREM FaultsBoundCosts == Spec => []FaultsBoundAttempts
<1>1. IInv /\ CostsArePaidFor /\ [Next]_vars => CostsArePaidFor'
  <2> SUFFICES ASSUME IInv, CostsArePaidFor, [Next]_vars PROVE CostsArePaidFor'
    OBVIOUS
  <2>1. PostsPaidFor'
    BY StepsArePaidFor, PaidStepKeepsPostsPaidFor DEF IInv, CostsArePaidFor
  <2> QED
    BY <2>1, StepKeepsClaimsPaidFor DEF CostsArePaidFor
<1>2. IInv /\ CostsArePaidFor => DuplicatesOnlyFromFaults
  <2> SUFFICES ASSUME IInv, PostsPaidFor, NEW D \in SUBSET Delivery, IsFiniteSet(D)
               PROVE  Cardinality(Posts(D)) <= Cardinality(D) + faults
    BY DEF DuplicatesOnlyFromFaults, CostsArePaidFor
  <2>1. IsFiniteSet(CostsOf(D)) /\ Cardinality(CostsOf(D)) <= Cardinality(D) + faults
    BY DEF PostsPaidFor
  <2>2. Cardinality(Posts(D)) <= Cardinality(CostsOf(D)) /\ IsFiniteSet(Posts(D))
    BY <2>1, PostsAreCosts
  <2>3. /\ Cardinality(Posts(D)) \in Nat /\ Cardinality(CostsOf(D)) \in Nat
        /\ Cardinality(D) \in Nat /\ faults \in Nat
    BY <2>1, <2>2, FS_CardinalityType DEF IInv, TypeOK
  <2> QED
    BY <2>1, <2>2, <2>3
<1>3. IInv /\ CostsArePaidFor => CapPassedOnlyByFaultsAndRetries
  <2> SUFFICES ASSUME IInv, NEW d \in Delivery, ClaimsPaidFor(d)
               PROVE  attemptCount[d] <= MaxAttempts + faults + retries
    BY DEF CapPassedOnlyByFaultsAndRetries, CostsArePaidFor
  <2>1. /\ ToClaim(d) \in Nat /\ attemptCount[d] \in Nat /\ faults \in Nat /\ retries \in Nat
    BY DEF IInv, TypeOK, ToClaim
  <2> QED
    BY <2>1, BoundAssumption DEF ClaimsPaidFor
<1> QED
  BY <1>1, <1>2, <1>3, InitIsPaidFor, Invariant, PTL DEF Spec, FaultsBoundAttempts
=============================================================================
