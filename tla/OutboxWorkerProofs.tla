------------------------- MODULE OutboxWorkerProofs -------------------------
(***************************************************************************)
(* Theorems about OutboxWorker for every number of events, workers,        *)
(* attempts and faults, and every size of a batch.  All of them rest on    *)
(* one inductive invariant, IInv.                                          *)
(***************************************************************************)
EXTENDS OutboxWorker, FiniteSetTheorems, TLAPS

-----------------------------------------------------------------------------
(* The inductive invariant *)

\* An event is in progress exactly while it carries a lease.
LeaseMatchesStatus == \A e \in Event : status[e] = "processing" <=> leaseId[e] # None

\* A worker has events in hand only between its claim and the end of its run, one of them
\* at a time, and an answer only for that one.
HandsMatchPoint ==
    \A w \in Worker :
        /\ pc[w] \in {"idle", "claim"} => batch[w] = {}
        /\ pc[w] \in {"route", "finish"} => current[w] \in Event /\ current[w] \notin batch[w]
        /\ pc[w] \notin {"route", "finish"} => current[w] = None
        /\ pc[w] = "finish" => result[w] \in Results

\* Whatever is in hand has been committed.
HandsExist == \A w \in Worker, e \in Event : InHand(w, e) => status[e] # "absent"

\* What a worker knows of the adapters is true of its event, and completed events were taken.
AnswerIsTrue ==
    /\ \A w \in Worker :
          pc[w] = "finish" /\ result[w] = "delivered" => taken[current[w]] > 0
    /\ \A e \in Event : status[e] = "completed" => taken[e] > 0

\* A worker's lease is in force.
Fresh(w, e) == Owns(w, e) /\ lockedUntil[e] = "future"

\* Workers that may still hand the event to the adapters without a lease in force.
Strays(e) ==
    {w \in Worker : (e \in batch[w] \/ (current[w] = e /\ pc[w] = "route")) /\ ~Fresh(w, e)}

\* The event may be taken once more without another fault: it is open, and no worker with
\* a lease in force has had it taken.
TakenInTime(e) ==
    \E w \in Worker : Fresh(w,
    e) /\ current[w] = e /\ pc[w] = "finish" /\ result[w] = "delivered"
ToTake(e) == IF status[e] \in Settled \/ TakenInTime(e) THEN 0 ELSE 1

\* Each stray is paid for by a fault, and so is each event that is open again although an
\* adapter has taken it.
TakesArePaidFor ==
    \A e \in Event :
        /\ IsFiniteSet(Strays(e))
        /\ taken[e] + Cardinality(Strays(e)) + ToTake(e) <= 1 + faults

IInv ==
    /\ TypeOK
    /\ LeaseMatchesStatus
    /\ HandsMatchPoint
    /\ HandsExist
    /\ AnswerIsTrue
    /\ LeaseIsCurrent
    /\ TakesArePaidFor

-----------------------------------------------------------------------------
(* The invariant is inductive *)

\* A batch is made of candidates.
LEMMA OldestAreMembers == \A S, n : Oldest(S, n) \subseteq S
  BY DEF Oldest

\* Every step keeps the types.
LEMMA StepKeepsTypes == IInv /\ [Next]_vars => TypeOK'
<1> SUFFICES ASSUME IInv, [Next]_vars PROVE TypeOK'
  OBVIOUS
<1> USE DEF IInv, TypeOK
<1>1. ASSUME NEW e \in Event, Emit(e) \/ LockExpires(e) PROVE TypeOK'
  BY <1>1 DEF Emit, LockExpires, Statuses, workerVars, ghostVars
<1>2. ASSUME NEW w \in Worker, Recover(w) PROVE TypeOK'
  BY <1>2 DEF Recover, Statuses, Points, ghostVars
<1>3. ASSUME NEW w \in Worker, ClaimBatch(w) PROVE TypeOK'
  <2> DEFINE rows == Oldest({e \in Event : Candidate(e)}, BatchSize)
  <2>1. rows \subseteq Event
    BY OldestAreMembers
  <2> HIDE DEF rows
  <2>2. /\ status' = [e \in Event |-> IF e \in rows THEN "processing" ELSE status[e]]
        /\ attempts' = [e \in Event |-> IF e \in rows THEN attempts[e] + 1 ELSE attempts[e]]
        /\ leaseId' = [e \in Event |-> IF e \in rows THEN w ELSE leaseId[e]]
        /\ lockedUntil' = [e \in Event |-> IF e \in rows THEN "future" ELSE lockedUntil[e]]
        /\ batch' = [batch EXCEPT ![w] = rows]
        /\ claimed' = [claimed EXCEPT ![w] =
                         [e \in Event |-> IF e \in rows THEN attempts[e] + 1 ELSE 0]]
        /\ pc' = [pc EXCEPT ![w] = IF rows = {} THEN "idle" ELSE "next"]
        /\ UNCHANGED <<current, result, up, ghostVars>>
    BY <1>3 DEF ClaimBatch, rows
  <2>3. [e \in Event |-> IF e \in rows THEN attempts[e] + 1 ELSE 0] \in [Event -> Nat]
    OBVIOUS
  <2>4. claimed' \in [Worker -> [Event -> Nat]]
    BY <2>2, <2>3
  <2> QED
    BY <2>1, <2>2, <2>4 DEF Statuses, Points, ghostVars
<1>4. ASSUME NEW w \in Worker, NEW e \in Event, NextEvent(w, e) PROVE TypeOK'
  BY <1>4 DEF NextEvent, Points, rowVars, ghostVars
<1>5. ASSUME NEW w \in Worker, EndRun(w) PROVE TypeOK'
  BY <1>5 DEF EndRun, NoClaims, Points, rowVars, ghostVars
<1>6. ASSUME NEW w \in Worker, RouteTaken(w) PROVE TypeOK'
  BY <1>6 DEF HandsMatchPoint, RouteTaken, Answer, Results, Points, rowVars
<1>7. ASSUME NEW w \in Worker, NEW res \in {"retryable", "permanent"}, RouteRefused(w, res)
      PROVE  TypeOK'
  BY <1>7 DEF RouteRefused, Answer, Results, Points, rowVars
<1>8. ASSUME NEW w \in Worker, Finish(w) PROVE TypeOK'
  <2>1. claimed' = [claimed EXCEPT ![w][current[w]] = 0] /\ current[w] \in Event
    BY <1>8 DEF HandsMatchPoint, Finish
  <2>2. claimed' \in [Worker -> [Event -> Nat]]
    BY <2>1
  <2> QED
    BY <1>8, <2>1, <2>2 DEF Finish, FinishedStatus, Statuses, Points, ghostVars
<1>9. ASSUME NEW w \in Worker, Interrupt(w) PROVE TypeOK'
  BY <1>9 DEF Interrupt, NoClaims, Points, rowVars
<1>10. ASSUME NEW w \in Worker, LeaseOverrun(w) PROVE TypeOK'
  BY <1>10 DEF LeaseOverrun, workerVars
<1>11. ASSUME NEW w \in Worker, Stop(w) PROVE TypeOK'
  BY <1>11 DEF Stop, rowVars, ghostVars
<1>12. CASE UNCHANGED vars
  BY <1>12 DEF vars, rowVars, workerVars, ghostVars
<1> HIDE DEF IInv, TypeOK
<1> QED
  BY <1>1, <1>2, <1>3, <1>4, <1>5, <1>6, <1>7, <1>8, <1>9, <1>10, <1>11, <1>12
  DEF Next, WorkerStep, LoopStep, Fault

\* What the leases and the hands of the workers have to do with the rows.
LeasesInOrder ==
    LeaseMatchesStatus /\ HandsMatchPoint /\ HandsExist /\ AnswerIsTrue /\ LeaseIsCurrent

LEMMA StepKeepsLeases == IInv /\ [Next]_vars => LeasesInOrder'
<1> SUFFICES ASSUME IInv, [Next]_vars PROVE LeasesInOrder'
  OBVIOUS
<1> USE NoneAssumption
<1>1. ASSUME NEW e \in Event, Emit(e) \/ LockExpires(e) PROVE LeasesInOrder'
  <2>1. LeaseMatchesStatus'
    BY <1>1 DEF IInv, TypeOK, LeaseMatchesStatus, Emit, LockExpires, workerVars, ghostVars
  <2>2. HandsMatchPoint'
    BY <1>1 DEF IInv, TypeOK, HandsMatchPoint, Points, Results, Emit, LockExpires, workerVars,
         ghostVars
  <2>3. HandsExist'
    BY <1>1 DEF IInv, TypeOK, HandsExist, HandsMatchPoint, InHand, Emit, LockExpires,
         workerVars, ghostVars
  <2>4. AnswerIsTrue'
    BY <1>1 DEF IInv, TypeOK, AnswerIsTrue, HandsMatchPoint, HandsExist, InHand, Results, Emit,
         LockExpires, workerVars, ghostVars
  <2>5. LeaseIsCurrent'
    BY <1>1 DEF IInv, TypeOK, LeaseIsCurrent, LeaseMatchesStatus, HandsMatchPoint, HandsExist,
         InHand, Owns, Emit, LockExpires, workerVars, ghostVars
  <2> QED
    BY <2>1, <2>2, <2>3, <2>4, <2>5 DEF LeasesInOrder
<1>2. ASSUME NEW w \in Worker, Recover(w) PROVE LeasesInOrder'
  <2>1. LeaseMatchesStatus'
    BY <1>2 DEF IInv, TypeOK, LeaseMatchesStatus, Recover, Expired, ghostVars
  <2>2. HandsMatchPoint'
    BY <1>2 DEF IInv, TypeOK, HandsMatchPoint, Points, Results, Recover, Expired, ghostVars
  <2>3. HandsExist'
    BY <1>2 DEF IInv, TypeOK, HandsExist, HandsMatchPoint, InHand, Recover, Expired, ghostVars
  <2>4. AnswerIsTrue'
    BY <1>2 DEF IInv, TypeOK, AnswerIsTrue, HandsMatchPoint, HandsExist, InHand, Results,
         Recover, Expired, ghostVars
  <2>5. LeaseIsCurrent'
    BY <1>2 DEF IInv, TypeOK, LeaseIsCurrent, LeaseMatchesStatus, HandsMatchPoint, HandsExist,
         InHand, Owns, Recover, Expired, ghostVars
  <2> QED
    BY <2>1, <2>2, <2>3, <2>4, <2>5 DEF LeasesInOrder
<1>3. ASSUME NEW w \in Worker, ClaimBatch(w) PROVE LeasesInOrder'
  <2> DEFINE rows == Oldest({e \in Event : Candidate(e)}, BatchSize)
  <2>1. rows \subseteq Event /\ \A e \in rows : status[e] = "pending"
    BY OldestAreMembers DEF Candidate
  <2> HIDE DEF rows
  <2>2. /\ pc[w] = "claim"
        /\ status' = [e \in Event |-> IF e \in rows THEN "processing" ELSE status[e]]
        /\ attempts' = [e \in Event |-> IF e \in rows THEN attempts[e] + 1 ELSE attempts[e]]
        /\ leaseId' = [e \in Event |-> IF e \in rows THEN w ELSE leaseId[e]]
        /\ batch' = [batch EXCEPT ![w] = rows]
        /\ claimed' = [claimed EXCEPT ![w] =
                         [e \in Event |-> IF e \in rows THEN attempts[e] + 1 ELSE 0]]
        /\ pc' = [pc EXCEPT ![w] = IF rows = {} THEN "idle" ELSE "next"]
        /\ UNCHANGED <<current, result, taken>>
    BY <1>3 DEF ClaimBatch, rows, ghostVars
  <2>3. LeaseMatchesStatus'
    BY <2>1, <2>2 DEF IInv, TypeOK, LeaseMatchesStatus
  <2>4. HandsMatchPoint'
    BY <2>1, <2>2 DEF IInv, TypeOK, HandsMatchPoint
  <2>5. HandsExist'
    BY <2>1, <2>2 DEF IInv, TypeOK, HandsExist, HandsMatchPoint, InHand
  <2>6. AnswerIsTrue'
    BY <2>1, <2>2 DEF IInv, TypeOK, AnswerIsTrue
  <2>7. LeaseIsCurrent'
    BY <2>1, <2>2 DEF IInv, TypeOK, LeaseIsCurrent, LeaseMatchesStatus, HandsMatchPoint,
         InHand, Owns
  <2> QED
    BY <2>3, <2>4, <2>5, <2>6, <2>7 DEF LeasesInOrder
<1>4. ASSUME NEW w \in Worker, NEW e \in Event, NextEvent(w, e) PROVE LeasesInOrder'
  <2>1. LeaseMatchesStatus'
    BY <1>4 DEF IInv, TypeOK, LeaseMatchesStatus, NextEvent, rowVars, ghostVars
  <2>2. HandsMatchPoint'
    BY <1>4 DEF IInv, TypeOK, HandsMatchPoint, Points, Results, NextEvent, rowVars, ghostVars
  <2>3. HandsExist'
    BY <1>4 DEF IInv, TypeOK, HandsExist, HandsMatchPoint, InHand, NextEvent, rowVars, ghostVars
  <2>4. AnswerIsTrue'
    BY <1>4 DEF IInv, TypeOK, AnswerIsTrue, HandsMatchPoint, HandsExist, InHand, Results,
         NextEvent, rowVars, ghostVars
  <2>5. LeaseIsCurrent'
    BY <1>4 DEF IInv, TypeOK, LeaseIsCurrent, LeaseMatchesStatus, HandsMatchPoint, HandsExist,
         InHand, Owns, NextEvent, rowVars, ghostVars
  <2> QED
    BY <2>1, <2>2, <2>3, <2>4, <2>5 DEF LeasesInOrder
<1>5. ASSUME NEW w \in Worker, EndRun(w) PROVE LeasesInOrder'
  <2>1. LeaseMatchesStatus'
    BY <1>5 DEF IInv, TypeOK, LeaseMatchesStatus, EndRun, NoClaims, rowVars, ghostVars
  <2>2. HandsMatchPoint'
    BY <1>5 DEF IInv, TypeOK, HandsMatchPoint, Points, Results, EndRun, NoClaims, rowVars,
         ghostVars
  <2>3. HandsExist'
    BY <1>5 DEF IInv, TypeOK, HandsExist, HandsMatchPoint, InHand, EndRun, NoClaims, rowVars,
         ghostVars
  <2>4. AnswerIsTrue'
    BY <1>5 DEF IInv, TypeOK, AnswerIsTrue, HandsMatchPoint, HandsExist, InHand, Results,
         EndRun, NoClaims, rowVars, ghostVars
  <2>5. LeaseIsCurrent'
    BY <1>5 DEF IInv, TypeOK, LeaseIsCurrent, LeaseMatchesStatus, HandsMatchPoint, HandsExist,
         InHand, Owns, EndRun, NoClaims, rowVars, ghostVars
  <2> QED
    BY <2>1, <2>2, <2>3, <2>4, <2>5 DEF LeasesInOrder
<1>6. ASSUME NEW w \in Worker, RouteTaken(w) PROVE LeasesInOrder'
  <2>1. LeaseMatchesStatus'
    BY <1>6 DEF IInv, TypeOK, LeaseMatchesStatus, RouteTaken, Answer, rowVars
  <2>2. HandsMatchPoint'
    BY <1>6 DEF IInv, TypeOK, HandsMatchPoint, Points, Results, RouteTaken, Answer, rowVars
  <2>3. HandsExist'
    BY <1>6 DEF IInv, TypeOK, HandsExist, HandsMatchPoint, InHand, RouteTaken, Answer, rowVars
  <2>4. AnswerIsTrue'
    BY <1>6 DEF IInv, TypeOK, AnswerIsTrue, HandsMatchPoint, HandsExist, InHand, Results,
         RouteTaken, Answer, rowVars
  <2>5. LeaseIsCurrent'
    BY <1>6 DEF IInv, TypeOK, LeaseIsCurrent, LeaseMatchesStatus, HandsMatchPoint, HandsExist,
         InHand, Owns, RouteTaken, Answer, rowVars
  <2> QED
    BY <2>1, <2>2, <2>3, <2>4, <2>5 DEF LeasesInOrder
<1>7. ASSUME NEW w \in Worker, NEW res \in {"retryable", "permanent"}, RouteRefused(w, res)
       PROVE  LeasesInOrder'
  <2>1. LeaseMatchesStatus'
    BY <1>7 DEF IInv, TypeOK, LeaseMatchesStatus, RouteRefused, Answer, rowVars
  <2>2. HandsMatchPoint'
    BY <1>7 DEF IInv, TypeOK, HandsMatchPoint, Points, Results, RouteRefused, Answer, rowVars
  <2>3. HandsExist'
    BY <1>7 DEF IInv, TypeOK, HandsExist, HandsMatchPoint, InHand, RouteRefused, Answer, rowVars
  <2>4. AnswerIsTrue'
    BY <1>7 DEF IInv, TypeOK, AnswerIsTrue, HandsMatchPoint, HandsExist, InHand, Results,
         RouteRefused, Answer, rowVars
  <2>5. LeaseIsCurrent'
    BY <1>7 DEF IInv, TypeOK, LeaseIsCurrent, LeaseMatchesStatus, HandsMatchPoint, HandsExist,
         InHand, Owns, RouteRefused, Answer, rowVars
  <2> QED
    BY <2>1, <2>2, <2>3, <2>4, <2>5 DEF LeasesInOrder
<1>8. ASSUME NEW w \in Worker, Finish(w) PROVE LeasesInOrder'
  <2>1. LeaseMatchesStatus'
    BY <1>8 DEF IInv, TypeOK, LeaseMatchesStatus, Finish, FinishedStatus, Owns, ghostVars
  <2>2. HandsMatchPoint'
    BY <1>8 DEF IInv, TypeOK, HandsMatchPoint, Points, Results, Finish, FinishedStatus, Owns,
         ghostVars
  <2>3. HandsExist'
    BY <1>8 DEF IInv, TypeOK, HandsExist, HandsMatchPoint, InHand, Finish, FinishedStatus,
         Owns, ghostVars
  <2>4. AnswerIsTrue'
    BY <1>8 DEF IInv, TypeOK, AnswerIsTrue, HandsMatchPoint, HandsExist, InHand, Results,
         Finish, FinishedStatus, Owns, ghostVars
  <2>5. LeaseIsCurrent'
    BY <1>8 DEF IInv, TypeOK, LeaseIsCurrent, LeaseMatchesStatus, HandsMatchPoint, HandsExist,
         InHand, Owns, Finish, FinishedStatus, ghostVars
  <2> QED
    BY <2>1, <2>2, <2>3, <2>4, <2>5 DEF LeasesInOrder
<1>9. ASSUME NEW w \in Worker, Interrupt(w) PROVE LeasesInOrder'
  <2>1. LeaseMatchesStatus'
    BY <1>9 DEF IInv, TypeOK, LeaseMatchesStatus, Interrupt, NoClaims, rowVars
  <2>2. HandsMatchPoint'
    BY <1>9 DEF IInv, TypeOK, HandsMatchPoint, Points, Results, Interrupt, NoClaims, rowVars
  <2>3. HandsExist'
    BY <1>9 DEF IInv, TypeOK, HandsExist, HandsMatchPoint, InHand, Interrupt, NoClaims, rowVars
  <2>4. AnswerIsTrue'
    BY <1>9 DEF IInv, TypeOK, AnswerIsTrue, HandsMatchPoint, HandsExist, InHand, Results,
         Interrupt, NoClaims, rowVars
  <2>5. LeaseIsCurrent'
    BY <1>9 DEF IInv, TypeOK, LeaseIsCurrent, LeaseMatchesStatus, HandsMatchPoint, HandsExist,
         InHand, Owns, Interrupt, NoClaims, rowVars
  <2> QED
    BY <2>1, <2>2, <2>3, <2>4, <2>5 DEF LeasesInOrder
<1>10. ASSUME NEW w \in Worker, LeaseOverrun(w) \/ Stop(w) PROVE LeasesInOrder'
  <2>1. LeaseMatchesStatus'
    BY <1>10 DEF IInv, TypeOK, LeaseMatchesStatus, LeaseOverrun, Stop, rowVars, workerVars,
         ghostVars
  <2>2. HandsMatchPoint'
    BY <1>10 DEF IInv, TypeOK, HandsMatchPoint, Points, Results, LeaseOverrun, Stop, rowVars,
         workerVars, ghostVars
  <2>3. HandsExist'
    BY <1>10 DEF IInv, TypeOK, HandsExist, HandsMatchPoint, InHand, LeaseOverrun, Stop,
         rowVars, workerVars, ghostVars
  <2>4. AnswerIsTrue'
    BY <1>10 DEF IInv, TypeOK, AnswerIsTrue, HandsMatchPoint, HandsExist, InHand, Results,
         LeaseOverrun, Stop, rowVars, workerVars, ghostVars
  <2>5. LeaseIsCurrent'
    BY <1>10 DEF IInv, TypeOK, LeaseIsCurrent, LeaseMatchesStatus, HandsMatchPoint, HandsExist,
         InHand, Owns, LeaseOverrun, Stop, rowVars, workerVars, ghostVars
  <2> QED
    BY <2>1, <2>2, <2>3, <2>4, <2>5 DEF LeasesInOrder
<1>11. CASE UNCHANGED vars
  BY <1>11 DEF IInv, LeasesInOrder, LeaseMatchesStatus, HandsMatchPoint, HandsExist,
       AnswerIsTrue,
     LeaseIsCurrent, InHand, Owns, vars, rowVars, workerVars, ghostVars
<1> QED
  BY <1>1, <1>2, <1>3, <1>4, <1>5, <1>6, <1>7, <1>8, <1>9, <1>10, <1>11
  DEF Next, WorkerStep, LoopStep, Fault

\* What one event owes to faults.
PaidFor(e) ==
    /\ IsFiniteSet(Strays(e))
    /\ taken[e] + Cardinality(Strays(e)) + ToTake(e) <= 1 + faults

\* A step that leaves at most the strays that were there owes at most what it adds to the
\* other terms.
LEMMA FewerStrays ==
  ASSUME TypeOK, TypeOK', NEW e \in Event, PaidFor(e), Strays(e)' \subseteq Strays(e),
         taken'[e] + ToTake(e)' + faults <= taken[e] + ToTake(e) + faults'
  PROVE  PaidFor(e)'
<1>1. /\ IsFiniteSet(Strays(e)') /\ Cardinality(Strays(e)') <= Cardinality(Strays(e))
      /\ Cardinality(Strays(e)') \in Nat /\ Cardinality(Strays(e)) \in Nat
  BY FS_Subset, FS_CardinalityType DEF PaidFor
<1>2. taken[e] \in Nat /\ taken'[e] \in Nat /\ faults \in Nat /\ faults' \in Nat
  BY DEF TypeOK
<1>3. ToTake(e) \in Nat /\ ToTake(e)' \in Nat
  BY DEF ToTake
<1> QED
  BY <1>1, <1>2, <1>3 DEF PaidFor

\* A stray whose event is taken is one no longer.
LEMMA StrayTakes ==
  ASSUME TypeOK, TypeOK', NEW e \in Event, NEW w \in Strays(e), PaidFor(e),
         Strays(e)' \subseteq Strays(e) \ {w},
         taken'[e] = taken[e] + 1, ToTake(e)' = ToTake(e), faults' = faults
  PROVE  PaidFor(e)'
<1>1. /\ IsFiniteSet(Strays(e) \ {w}) /\ Cardinality(Strays(e) \ {w}) = Cardinality(Strays(e)) - 1
      /\ Cardinality(Strays(e)) \in Nat
  BY FS_RemoveElement, FS_CardinalityType DEF PaidFor
<1>2. /\ IsFiniteSet(Strays(e)') /\ Cardinality(Strays(e)') <= Cardinality(Strays(e) \ {w})
      /\ Cardinality(Strays(e)') \in Nat
  BY <1>1, FS_Subset, FS_CardinalityType
<1>3. taken[e] \in Nat /\ faults \in Nat
  BY DEF TypeOK
<1>4. ToTake(e) \in Nat
  BY DEF ToTake
<1> QED
  BY <1>1, <1>2, <1>3, <1>4 DEF PaidFor

\* A fault makes one stray at most.
LEMMA OneMoreStray ==
  ASSUME TypeOK, TypeOK', NEW e \in Event, NEW w \in Worker, PaidFor(e),
         Strays(e)' \subseteq Strays(e) \cup {w},
         taken'[e] + ToTake(e)' <= taken[e] + ToTake(e), faults' = faults + 1
  PROVE  PaidFor(e)'
<1>1. /\ IsFiniteSet(Strays(e) \cup {w})
      /\ Cardinality(Strays(e) \cup {w}) <= Cardinality(Strays(e)) + 1
      /\ Cardinality(Strays(e)) \in Nat
  <2>1. IsFiniteSet(Strays(e)) /\ Cardinality(Strays(e)) \in Nat
    BY FS_CardinalityType DEF PaidFor
  <2>2. /\ IsFiniteSet(Strays(e) \cup {w})
        /\ Cardinality(Strays(e) \cup {w})
             = IF w \in Strays(e) THEN Cardinality(Strays(e)) ELSE Cardinality(Strays(e)) + 1
    BY <2>1, FS_AddElement
  <2> QED
    BY <2>1, <2>2
<1>2. /\ IsFiniteSet(Strays(e)') /\ Cardinality(Strays(e)') <= Cardinality(Strays(e) \cup {w})
      /\ Cardinality(Strays(e)') \in Nat /\ Cardinality(Strays(e) \cup {w}) \in Nat
  BY <1>1, FS_Subset, FS_CardinalityType
<1>3. taken[e] \in Nat /\ taken'[e] \in Nat /\ faults \in Nat
  BY DEF TypeOK
<1>4. ToTake(e) \in Nat /\ ToTake(e)' \in Nat
  BY DEF ToTake
<1> QED
  BY <1>1, <1>2, <1>3, <1>4 DEF PaidFor

\* Every take that is not the first of its event stays paid for.
LEMMA StepKeepsTakesPaidFor == IInv /\ [Next]_vars => TakesArePaidFor'
<1> SUFFICES ASSUME IInv, [Next]_vars, NEW e \in Event PROVE PaidFor(e)'
  BY DEF TakesArePaidFor, PaidFor
<1>0. TypeOK /\ TypeOK' /\ PaidFor(e)
  BY StepKeepsTypes DEF IInv, TakesArePaidFor, PaidFor
<1>t. /\ taken[e] \in Nat /\ faults \in Nat
      /\ ToTake(e) \in {0, 1} /\ ToTake(e)' \in {0, 1}
  BY <1>0 DEF TypeOK, ToTake
<1> USE NoneAssumption
<1> DEFINE Quiet == Strays(e)' \subseteq Strays(e) /\ ToTake(e)' <= ToTake(e)
<1>q. ASSUME Quiet, UNCHANGED ghostVars PROVE PaidFor(e)'
  <2>1. taken'[e] + ToTake(e)' + faults <= taken[e] + ToTake(e) + faults'
    BY <1>q, <1>t DEF ghostVars
  <2> QED
    BY <1>0, <1>q, <2>1, FewerStrays
<1>1. ASSUME NEW f \in Event, Emit(f) PROVE PaidFor(e)'
  <2>1. Quiet
    BY <1>1 DEF IInv, TypeOK, Emit, Strays, ToTake, TakenInTime, Fresh, Owns, Settled,
         workerVars
  <2> QED
    BY <1>1, <1>q, <2>1 DEF Emit
<1>2. ASSUME NEW f \in Event, LockExpires(f) PROVE PaidFor(e)'
  <2>1. Strays(e)' \subseteq Strays(e)
    BY <1>2 DEF IInv, TypeOK, LockExpires, HolderAtWork, InHand, Strays, Fresh, Owns, workerVars
  <2>2. TakenInTime(e) = TakenInTime(e)'
    BY <1>2 DEF IInv, TypeOK, LockExpires, HolderAtWork, InHand, TakenInTime, Fresh, Owns,
         workerVars
  <2>3. ToTake(e)' <= ToTake(e)
    BY <1>2, <2>2 DEF LockExpires, ToTake
  <2> QED
    BY <1>2, <1>q, <2>1, <2>3 DEF LockExpires
<1>3. ASSUME NEW w \in Worker, Recover(w) PROVE PaidFor(e)'
  <2>1. Strays(e)' \subseteq Strays(e)
    BY <1>3 DEF IInv, TypeOK, Recover, Expired, HandsMatchPoint, Strays, Fresh, Owns
  <2>2. TakenInTime(e) = TakenInTime(e)'
    BY <1>3 DEF IInv, TypeOK, Recover, Expired, TakenInTime, Fresh, Owns
  <2>3. ToTake(e)' <= ToTake(e)
    BY <1>3, <2>2 DEF IInv, TypeOK, Recover, Expired, ToTake, Settled
  <2> QED
    BY <1>3, <1>q, <2>1, <2>3 DEF Recover
<1>4. ASSUME NEW w \in Worker, ClaimBatch(w) PROVE PaidFor(e)'
  <2> DEFINE rows == Oldest({d \in Event : Candidate(d)}, BatchSize)
  <2>1. rows \subseteq Event /\ \A d \in rows : status[d] = "pending"
    BY OldestAreMembers DEF Candidate
  <2> HIDE DEF rows
  <2>2. /\ pc[w] = "claim"
        /\ status' = [d \in Event |-> IF d \in rows THEN "processing" ELSE status[d]]
        /\ leaseId' = [d \in Event |-> IF d \in rows THEN w ELSE leaseId[d]]
        /\ lockedUntil' = [d \in Event |-> IF d \in rows THEN "future" ELSE lockedUntil[d]]
        /\ batch' = [batch EXCEPT ![w] = rows]
        /\ pc' = [pc EXCEPT ![w] = IF rows = {} THEN "idle" ELSE "next"]
        /\ UNCHANGED <<current, result, taken, faults>>
    BY <1>4 DEF ClaimBatch, rows, ghostVars
  <2>3. e \in rows => leaseId[e] = None
    BY <2>1 DEF IInv, LeaseMatchesStatus
  <2>4. Strays(e)' \subseteq Strays(e)
    BY <2>1, <2>2, <2>3 DEF IInv, TypeOK, Strays, Fresh, Owns
  <2>5. TakenInTime(e)' = TakenInTime(e)
    BY <2>1, <2>2, <2>3 DEF IInv, TypeOK, HandsMatchPoint, TakenInTime, Fresh, Owns
  <2>6. ToTake(e)' <= ToTake(e)
    BY <2>1, <2>2, <2>5 DEF IInv, TypeOK, ToTake, Settled
  <2> QED
    BY <2>2, <1>q, <2>4, <2>6 DEF ghostVars
<1>5. ASSUME NEW w \in Worker, NEW f \in Event, NextEvent(w, f) PROVE PaidFor(e)'
  <2>1. Strays(e)' \subseteq Strays(e)
    BY <1>5 DEF IInv, TypeOK, NextEvent, Strays, Fresh, Owns, rowVars
  <2>2. TakenInTime(e)' = TakenInTime(e)
    BY <1>5 DEF IInv, TypeOK, HandsMatchPoint, NextEvent, TakenInTime, Fresh, Owns, rowVars
  <2>3. ToTake(e)' <= ToTake(e)
    BY <1>5, <2>2 DEF NextEvent, ToTake, rowVars
  <2> QED
    BY <1>5, <1>q, <2>1, <2>3 DEF NextEvent
<1>6. ASSUME NEW w \in Worker, EndRun(w) PROVE PaidFor(e)'
  <2>1. Strays(e)' \subseteq Strays(e)
    BY <1>6 DEF IInv, TypeOK, EndRun, Strays, Fresh, Owns, rowVars
  <2>2. TakenInTime(e)' = TakenInTime(e)
    BY <1>6 DEF IInv, TypeOK, EndRun, TakenInTime, Fresh, Owns, rowVars
  <2>3. ToTake(e)' <= ToTake(e)
    BY <1>6, <2>2 DEF EndRun, ToTake, rowVars
  <2> QED
    BY <1>6, <1>q, <2>1, <2>3 DEF EndRun
<1>7. ASSUME NEW w \in Worker, RouteTaken(w) PROVE PaidFor(e)'
  <2>1. /\ pc[w] = "route" /\ pc' = [pc EXCEPT ![w] = "finish"]
        /\ current[w] \in Event /\ current[w] \notin batch[w]
        /\ result' = [result EXCEPT ![w] = "delivered"]
        /\ taken' = [taken EXCEPT ![current[w]] = @ + 1]
        /\ UNCHANGED <<rowVars, batch, current, faults>>
    BY <1>7 DEF IInv, HandsMatchPoint, RouteTaken, Answer
  <2>2. CASE current[w] # e
    <3>1. Strays(e)' \subseteq Strays(e)
      BY <2>1, <2>2 DEF IInv, TypeOK, Strays, Fresh, Owns, rowVars
    <3>2. TakenInTime(e)' = TakenInTime(e)
      BY <2>1, <2>2 DEF IInv, TypeOK, TakenInTime, Fresh, Owns, rowVars
    <3>3. ToTake(e)' = ToTake(e) /\ taken'[e] = taken[e] /\ faults' = faults
      BY <2>1, <2>2, <3>2 DEF IInv, TypeOK, ToTake, rowVars
    <3> QED
      BY <1>0, <1>t, <3>1, <3>3, FewerStrays
  <2>3. CASE current[w] = e /\ Fresh(w, e)
    <3>1. Strays(e)' \subseteq Strays(e)
      BY <2>1, <2>3 DEF IInv, TypeOK, Strays, Fresh, Owns, rowVars
    <3>2. ~TakenInTime(e) /\ TakenInTime(e)'
      BY <2>1, <2>3 DEF IInv, TypeOK, TakenInTime, Fresh, Owns, rowVars
    <3>3. status[e] = "processing"
      BY <2>3 DEF IInv, LeaseMatchesStatus, Fresh, Owns
    <3>4. ToTake(e) = 1 /\ ToTake(e)' = 0 /\ taken'[e] = taken[e] + 1 /\ faults' = faults
      BY <1>0, <2>1, <2>3, <3>2, <3>3 DEF TypeOK, ToTake, Settled
    <3> QED
      BY <1>0, <1>t, <3>1, <3>4, FewerStrays
  <2>4. CASE current[w] = e /\ ~Fresh(w, e)
    <3>1. w \in Strays(e) /\ Strays(e)' \subseteq Strays(e) \ {w}
      BY <2>1, <2>4 DEF IInv, TypeOK, Strays, Fresh, Owns, rowVars
    <3>2. TakenInTime(e)' = TakenInTime(e)
      BY <2>1, <2>4 DEF IInv, TypeOK, TakenInTime, Fresh, Owns, rowVars
    <3>3. ToTake(e)' = ToTake(e) /\ taken'[e] = taken[e] + 1 /\ faults' = faults
      BY <1>0, <2>1, <2>4, <3>2 DEF TypeOK, ToTake, rowVars
    <3> QED
      BY <1>0, <3>1, <3>3, StrayTakes
  <2> QED
    BY <2>2, <2>3, <2>4
<1>8. ASSUME NEW w \in Worker, NEW res \in {"retryable", "permanent"}, RouteRefused(w, res)
      PROVE  PaidFor(e)'
  <2>1. Strays(e)' \subseteq Strays(e)
    BY <1>8 DEF IInv, TypeOK, RouteRefused, Answer, Strays, Fresh, Owns, rowVars
  <2>2. TakenInTime(e)' = TakenInTime(e)
    BY <1>8 DEF IInv, TypeOK, RouteRefused, Answer, TakenInTime, Fresh, Owns, rowVars
  <2>3. ToTake(e)' <= ToTake(e)
    BY <1>8, <2>2 DEF RouteRefused, Answer, ToTake, rowVars
  <2> QED
    BY <1>8, <1>q, <2>1, <2>3 DEF RouteRefused, Answer, ghostVars
<1>9. ASSUME NEW w \in Worker, Finish(w) PROVE PaidFor(e)'
  <2>1. Strays(e)' \subseteq Strays(e)
    BY <1>9 DEF IInv, TypeOK, HandsMatchPoint, Finish, Strays, Fresh, Owns
  <2>2. ToTake(e)' <= ToTake(e)
    <3>1. pc[w] = "finish" /\ current[w] \in Event /\ result[w] \in Results
      BY <1>9 DEF IInv, HandsMatchPoint, Finish
    <3>2. CASE current[w] # e \/ ~Owns(w, e)
      <4>1. TakenInTime(e)' = TakenInTime(e) /\ status'[e] = status[e]
        BY <1>9, <3>1, <3>2 DEF IInv, TypeOK, Finish, TakenInTime, Fresh, Owns
      <4> QED
        BY <4>1, <1>t DEF ToTake
    <3>3. CASE current[w] = e /\ Owns(w, e) /\ result[w] = "retryable"
      <4>1. ~TakenInTime(e) /\ status[e] = "processing"
        BY <3>1, <3>3 DEF IInv, LeaseMatchesStatus, TakenInTime, Fresh, Owns
      <4> QED
        BY <4>1, <1>t DEF ToTake, Settled
    <3>4. CASE current[w] = e /\ Owns(w, e) /\ result[w] # "retryable"
      <4>1. status'[e] \in Settled
        BY <1>9, <3>1, <3>4 DEF IInv, TypeOK, Finish, FinishedStatus, Again, Settled
      <4> QED
        BY <4>1, <1>t DEF ToTake
    <3> QED
      BY <3>2, <3>3, <3>4
  <2> QED
    BY <1>9, <1>q, <2>1, <2>2 DEF Finish
<1>10. ASSUME NEW w \in Worker, Interrupt(w) PROVE PaidFor(e)'
  <2>1. Strays(e)' \subseteq Strays(e)
    BY <1>10 DEF IInv, TypeOK, Interrupt, Strays, Fresh, Owns, rowVars
  <2>2. faults' = faults + 1 /\ taken' = taken
    BY <1>10 DEF Interrupt
  <2> QED
    BY <1>0, <1>t, <2>1, <2>2, FewerStrays
<1>11. ASSUME NEW w \in Worker, LeaseOverrun(w) PROVE PaidFor(e)'
  <2>1. /\ faults' = faults + 1 /\ taken' = taken
        /\ lockedUntil' = [f \in Event |-> IF Owns(w, f) THEN "past" ELSE lockedUntil[f]]
        /\ UNCHANGED <<status, leaseId, workerVars>>
    BY <1>11 DEF LeaseOverrun
  <2>2. CASE TakenInTime(e) /\ Owns(w, e)
    <3>1. Strays(e)' \subseteq Strays(e)
      BY <2>1, <2>2 DEF IInv, TypeOK, HandsMatchPoint, TakenInTime, Strays, Fresh, Owns,
           workerVars
    <3> QED
      BY <1>0, <1>t, <2>1, <3>1, FewerStrays
  <2>3. CASE ~TakenInTime(e) \/ ~Owns(w, e)
    <3>1. Strays(e)' \subseteq Strays(e) \cup {w}
      BY <2>1 DEF IInv, TypeOK, Strays, Fresh, Owns, workerVars
    <3>2. TakenInTime(e) => TakenInTime(e)'
      BY <2>1, <2>3 DEF IInv, TypeOK, TakenInTime, Fresh, Owns, workerVars
    <3>3. ToTake(e)' <= ToTake(e)
      BY <1>t, <2>1, <3>2 DEF ToTake
    <3> QED
      BY <1>0, <1>t, <2>1, <3>1, <3>3, OneMoreStray
  <2> QED
    BY <2>2, <2>3
<1>12. ASSUME NEW w \in Worker, Stop(w) PROVE PaidFor(e)'
  <2>1. Quiet
    BY <1>12, <1>t DEF Stop, Strays, ToTake, TakenInTime, Fresh, Owns, rowVars
  <2> QED
    BY <1>12, <1>q, <2>1 DEF Stop
<1>13. CASE UNCHANGED vars
  <2>1. Quiet
    BY <1>13, <1>t DEF vars, Strays, ToTake, TakenInTime, Fresh, Owns, rowVars, workerVars
  <2> QED
    BY <1>13, <1>q, <2>1 DEF vars
<1> QED
  BY <1>1, <1>2, <1>3, <1>4, <1>5, <1>6, <1>7, <1>8, <1>9, <1>10, <1>11, <1>12, <1>13
  DEF Next, WorkerStep, LoopStep, Fault

\* The initial state, where nothing has been committed.
LEMMA InitEstablishesIInv == Init => IInv
<1> SUFFICES ASSUME Init PROVE IInv
  OBVIOUS
<1>1. TypeOK
  BY BoundAssumption DEF Init, TypeOK, Statuses, Points, Results, NoClaims
<1>2. LeaseMatchesStatus /\ HandsMatchPoint
  BY DEF Init, LeaseMatchesStatus, HandsMatchPoint
<1>3. HandsExist /\ LeaseIsCurrent
  BY NoneAssumption DEF Init, HandsExist, LeaseIsCurrent, InHand
<1>4. AnswerIsTrue
  BY DEF Init, AnswerIsTrue
<1>5. TakesArePaidFor
  <2> SUFFICES ASSUME NEW e \in Event PROVE PaidFor(e)
    BY DEF TakesArePaidFor, PaidFor
  <2>1. Strays(e) = {}
    BY DEF Init, Strays
  <2>2. ToTake(e) \in {0, 1} /\ taken[e] = 0 /\ faults = 0
    BY DEF Init, ToTake
  <2> QED
    BY <2>1, <2>2, FS_EmptySet DEF PaidFor
<1> QED
  BY <1>1, <1>2, <1>3, <1>4, <1>5 DEF IInv

\* IInv holds in every reachable state of the outbox.
THEOREM Invariant == Spec => []IInv
<1>1. IInv /\ [Next]_vars => IInv'
  BY StepKeepsTypes, StepKeepsLeases, StepKeepsTakesPaidFor DEF IInv, LeasesInOrder
<1> QED
  BY <1>1, InitEstablishesIInv, PTL DEF Spec

-----------------------------------------------------------------------------
(* The properties *)

\* Rows and workers of lib/domainEventWorker.ts keep their types.
THEOREM TypeCorrect == Spec => []TypeOK
<1>1. IInv => TypeOK
  BY DEF IInv
<1> QED
  BY <1>1, Invariant, PTL

\* An event is taken again at most once per fault, and a worker's own lease on an event in
\* its hands is of its latest claim: for every number of workers, events and faults.
THEOREM LeasesStayHonest == Spec => []LeasesAreHonest
<1>1. ASSUME IInv, NEW e \in Event PROVE taken[e] <= 1 + faults
  <2>1. IsFiniteSet(Strays(e)) /\ taken[e] + Cardinality(Strays(e)) + ToTake(e) <= 1 + faults
    BY <1>1 DEF IInv, TakesArePaidFor
  <2>2. Cardinality(Strays(e)) \in Nat
    BY <2>1, FS_CardinalityType
  <2>3. ToTake(e) \in Nat /\ taken[e] \in Nat /\ faults \in Nat
    BY <1>1 DEF IInv, TypeOK, ToTake
  <2> QED
    BY <2>1, <2>2, <2>3
<1>2. IInv => LeasesAreHonest
  BY <1>1 DEF IInv, LeasesAreHonest, DuplicatesOnlyFromFaults
<1> QED
  BY <1>2, Invariant, PTL

\* A settled event is never opened again, by whatever late worker: who finishes an event
\* owns its lease, and a settled event has none.
THEOREM SettledStaysSettled == Spec => SettledForGood
<1>1. ASSUME IInv, Next, NEW e \in Event, status[e] \in Settled PROVE status'[e] = status[e]
  <2>1. ASSUME NEW w \in Worker, ClaimBatch(w) PROVE status'[e] = status[e]
    BY <1>1, <2>1, OldestAreMembers DEF IInv, TypeOK, ClaimBatch, Candidate, Settled
  <2>2. ASSUME NEW w \in Worker, Finish(w) PROVE status'[e] = status[e]
    BY <1>1, <2>2, NoneAssumption
    DEF IInv, TypeOK, LeaseMatchesStatus, HandsMatchPoint, Finish, Owns, Settled
  <2>3. ASSUME NEW w \in Worker, Recover(w) PROVE status'[e] = status[e]
    BY <1>1, <2>3 DEF IInv, TypeOK, Recover, Expired, Settled
  <2>4. ASSUME NEW f \in Event, Emit(f) PROVE status'[e] = status[e]
    BY <1>1, <2>4 DEF IInv, TypeOK, Emit, Settled
  <2>5. \/ \E w \in Worker : ClaimBatch(w) \/ Finish(w) \/ Recover(w)
        \/ \E f \in Event : Emit(f)
        \/ UNCHANGED status
    BY <1>1 DEF Next, WorkerStep, LoopStep, Fault, NextEvent, EndRun, RouteTaken, RouteRefused,
       Answer, Interrupt, LockExpires, LeaseOverrun, Stop, rowVars
  <2> QED
    BY <2>1, <2>2, <2>3, <2>4, <2>5
<1>2. IInv /\ [Next]_vars => [\A e \in Event : status[e] \in Settled => status'[e] = status[e]]_vars
  BY <1>1
<1> QED
  BY <1>2, Invariant, PTL DEF Spec, SettledForGood

-----------------------------------------------------------------------------
(* The outbox implements the promise.  Create is Emit, Post an adapter that   *)
(* takes the event, Settle a Finish that is not a retry; every other step     *)
(* stutters, and nothing is ever reopened.                                    *)

\* Initially nothing has been committed and nothing taken.
LEMMA InitImplements == Init => Promise!Init
<1> SUFFICES ASSUME Init PROVE Promise!Init
  OBVIOUS
<1>1. \A e \in Event : Outcome(e) = "absent"
  BY DEF Init, Outcome
<1>2. \A e \in Event : Posted(e) = FALSE
  BY DEF Init, Posted
<1> QED
  BY <1>1, <1>2, Zenon DEF Promise!Init

\* Every step of the outbox is a step of the promise, or none.
LEMMA StepImplements == IInv /\ [Next]_vars => [Promise!Next]_(Promise!promiseVars)
<1> SUFFICES ASSUME IInv, [Next]_vars PROVE [Promise!Next]_(Promise!promiseVars)
  OBVIOUS
<1>1. ASSUME NEW e \in Event, Emit(e) PROVE Promise!Create(e)
  BY <1>1 DEF IInv, TypeOK, Emit, Promise!Create, Outcome, Posted, ghostVars
<1>2. ASSUME NEW w \in Worker, Recover(w) PROVE UNCHANGED Promise!promiseVars
  BY <1>2 DEF IInv, TypeOK, Recover, Expired, Promise!promiseVars, Outcome, Posted, ghostVars
<1>3. ASSUME NEW w \in Worker, ClaimBatch(w) PROVE UNCHANGED Promise!promiseVars
  <2> DEFINE rows == Oldest({d \in Event : Candidate(d)}, BatchSize)
  <2>1. \A d \in rows : status[d] = "pending"
    BY OldestAreMembers DEF Candidate
  <2> HIDE DEF rows
  <2>2. /\ status' = [d \in Event |-> IF d \in rows THEN "processing" ELSE status[d]]
        /\ taken' = taken
    BY <1>3 DEF ClaimBatch, rows, ghostVars
  <2> QED
    BY <2>1, <2>2 DEF IInv, TypeOK, Promise!promiseVars, Outcome, Posted
<1>4. ASSUME NEW w \in Worker, RouteTaken(w) PROVE Promise!Post(current[w])
  <2>1. current[w] \in Event /\ status[current[w]] # "absent"
    BY <1>4 DEF IInv, HandsMatchPoint, HandsExist, InHand, RouteTaken, Answer
  <2>2. taken' = [taken EXCEPT ![current[w]] = @ + 1] /\ status' = status
    BY <1>4 DEF RouteTaken, Answer, rowVars
  <2>3. \A d \in Event : (taken'[d] > 0) = IF d = current[w] THEN TRUE ELSE taken[d] > 0
    <3>1. taken'[current[w]] = taken[current[w]] + 1 /\ taken[current[w]] \in Nat
      BY <2>1, <2>2 DEF IInv, TypeOK
    <3>2. taken'[current[w]] > 0
      BY <3>1
    <3>3. \A d \in Event : d # current[w] => taken'[d] = taken[d]
      BY <2>1, <2>2 DEF IInv, TypeOK
    <3> QED
      BY <3>2, <3>3, Zenon
  <2>4. [d \in Event |-> Posted(d)]' = [[d \in Event |-> Posted(d)] EXCEPT ![current[w]] = TRUE]
    BY <2>3, Zenon DEF Posted
  <2>5. [d \in Event |-> Outcome(d)]' = [d \in Event |-> Outcome(d)]
    BY <2>2 DEF Outcome
  <2>6. Outcome(current[w]) # "absent"
    BY <2>1 DEF Outcome
  <2> QED
    BY <2>1, <2>4, <2>5, <2>6, Zenon DEF Promise!Post
<1>5. ASSUME NEW w \in Worker, Finish(w)
      PROVE  \/ UNCHANGED Promise!promiseVars
             \/ \E how \in {"delivered", "dead_letter"} : Promise!Settle(current[w], how)
  <2>1. current[w] \in Event /\ taken' = taken
    BY <1>5 DEF IInv, HandsMatchPoint, Finish, ghostVars
  <2>2. CASE ~Owns(w, current[w])
    BY <1>5, <2>1, <2>2 DEF Finish, Promise!promiseVars, Outcome, Posted
  <2>3. CASE Owns(w, current[w])
    <3>1. /\ status[current[w]] = "processing"
          /\ status' = [status EXCEPT ![current[w]] = FinishedStatus(w)]
      BY <1>5, <2>1, <2>3, NoneAssumption DEF IInv, LeaseMatchesStatus, Finish, Owns
    <3>2. CASE FinishedStatus(w) = "pending"
      BY <2>1, <3>1, <3>2 DEF IInv, TypeOK, Promise!promiseVars, Outcome, Posted
    <3>3. CASE FinishedStatus(w) = "dead_letter"
      <4>1. Promise!Settle(current[w], "dead_letter")
        BY <2>1, <3>1, <3>3 DEF IInv, TypeOK, Promise!Settle, Outcome, Posted
      <4> QED
        BY <4>1
    <3>4. CASE FinishedStatus(w) = "completed"
      <4>1. taken[current[w]] > 0
        BY <1>5, <3>4 DEF IInv, AnswerIsTrue, Finish, FinishedStatus
      <4>2. Promise!Settle(current[w], "delivered")
        BY <2>1, <3>1, <3>4, <4>1 DEF IInv, TypeOK, Promise!Settle, Outcome, Posted
      <4> QED
        BY <4>2
    <3> QED
      BY <3>2, <3>3, <3>4 DEF FinishedStatus
  <2> QED
    BY <2>2, <2>3
<1>6. ASSUME UNCHANGED <<status, taken>> PROVE UNCHANGED Promise!promiseVars
  BY <1>6 DEF Promise!promiseVars, Outcome, Posted
<1>7. \/ UNCHANGED <<status, taken>>
      \/ \E e \in Event : Emit(e)
      \/ \E w \in Worker : Recover(w) \/ ClaimBatch(w) \/ RouteTaken(w) \/ Finish(w)
  BY DEF Next, WorkerStep, LoopStep, Fault, NextEvent, EndRun, RouteRefused, Answer, Interrupt,
     LockExpires, LeaseOverrun, Stop, vars, rowVars, workerVars, ghostVars
<1>8. ASSUME NEW w \in Worker, RouteTaken(w) \/ Finish(w) PROVE current[w] \in Event
  BY <1>8 DEF IInv, HandsMatchPoint, RouteTaken, Answer, Finish
<1> QED
  BY <1>1, <1>2, <1>3, <1>4, <1>5, <1>6, <1>7, <1>8 DEF Promise!Next

\* The outbox keeps the promise of DeliveryPromise, for any number of events, workers,
\* attempts and faults.
THEOREM OutboxKeepsPromise == Spec => KeepsPromise
<1>1. Spec => Promise!Init /\ [][Promise!Next]_(Promise!promiseVars)
  BY InitImplements, StepImplements, Invariant, PTL DEF Spec
<1> QED
  BY <1>1 DEF KeepsPromise, Promise!Spec

=============================================================================
