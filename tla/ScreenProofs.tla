---------------------------- MODULE ScreenProofs ----------------------------
(***************************************************************************)
(* Theorems about the console's screens.  The sync queue of the board      *)
(* keeps what it has saved, for every number of jobs, places, moves and    *)
(* drains; the map draws and frames what it says it does, for all crews,   *)
(* boards, trails, themes and days; the crew board fits its payload and    *)
(* the vans, for all teams, visits, clocks and blocks; and the screens of  *)
(* the team catch up, for all members, invites and consoles.  Their        *)
(* invariants: IInv, LinesInv, StageInv, CrewInv, RosterInv, JoiningInv.   *)
(***************************************************************************)
EXTENDS BoardSync, MapStage, CrewBoard, Roster, WellFoundedInduction,
        FiniteSetTheorems, TLAPS

\* The moves begin in their order.
InOrder == \A m, n \in Move : m < n /\ stage[m] = "new" => stage[n] = "new"

\* A move has a target from its beginning, and no target before.
TargetIsSet ==
    \A m \in Move :
        /\ stage[m] = "new" => target[m] = NoTarget
        /\ stage[m] # "new" => target[m] \in [job : Job, to : Place]

\* Only saved moves are in the queue.
QueueIsSaved == \A m \in queue : stage[m] = "saved"

\* What an enqueueSync under way is about to delete is older and of its job.
StaleIsOlder ==
    \A m \in Move : \A n \in stale[m] :
        stage[m] = "add" /\ stage[n] = "saved" /\ n < m /\ target[n].job = target[m].job

\* A drain works on saved moves, and an answered drain's move has its answer.
DrainHasMove ==
    \A d \in Drain :
        /\ \A m \in todo[d] : stage[m] = "saved"
        /\ dpc[d] \in {"sent", "answered"} =>
              sending[d] \in Move /\ stage[sending[d]] = "saved"
        /\ dpc[d] = "answered" => answer[sending[d]] # None

\* Only requests that were made can arrive late.
LateWasSent == \A m \in late : stage[m] # "new"

\* A move that may be rolled back has left a snapshot.
SnapshotIsTaken ==
    \A m \in Move : stage[m] \in {"sent", "accepted", "refused"} => snapshot \in Board

\* The inductive invariant.
IInv ==
    /\ TypeOK
    /\ InOrder /\ TargetIsSet /\ QueueIsSaved /\ StaleIsOlder
    /\ DrainHasMove /\ LateWasSent /\ SnapshotIsTaken
    /\ SavedMoveIsKept

-----------------------------------------------------------------------------
LEMMA InitHolds == Init => IInv
<1> SUFFICES ASSUME Init PROVE IInv
    OBVIOUS
<1> USE NoneAssumption DEF Init
<1>1. TypeOK
    BY DEF TypeOK, Board, Empty, Stages, Move
<1>2. InOrder /\ TargetIsSet /\ QueueIsSaved /\ StaleIsOlder
    BY DEF InOrder, TargetIsSet, QueueIsSaved, StaleIsOlder
<1>3. DrainHasMove /\ LateWasSent /\ SnapshotIsTaken /\ SavedMoveIsKept
    BY DEF DrainHasMove, LateWasSent, SnapshotIsTaken, SavedMoveIsKept
<1> QED
    BY <1>1, <1>2, <1>3 DEF IInv

\* Any answer of the server leaves the answers that are there.
LEMMA AnswersStay ==
    ASSUME TypeOK, NEW m \in Move, target[m] \in [job : Job, to : Place],
           Accept(m) \/ Refuse(m)
    PROVE  /\ server' \in Board
           /\ answer' \in [Move -> {None, "accepted", "refused"}]
           /\ writer' \in [Job -> Move \cup {None}]
           /\ answer'[m] # None
           /\ \A n \in Move : answer[n] # None => answer'[n] # None
<1> USE NoneAssumption DEF TypeOK, Board
<1>1. CASE Accept(m)
    BY <1>1 DEF Accept
<1>2. CASE Refuse(m)
    BY <1>2 DEF Refuse
<1> QED
    BY <1>1, <1>2

-----------------------------------------------------------------------------
(* Steps that leave the moves and the queue alone *)

\* What the invariant says of moves and drains survives when only answers come in.
LEMMA AnswersOnly ==
    ASSUME IInv, TypeOK', UNCHANGED <<stage, target, stale, queue, dpc, todo, sending, snapshot>>,
           late' \subseteq late, \A n \in Move : answer[n] # None => answer'[n] # None
    PROVE  IInv'
<1> USE DEF IInv
<1>1. InOrder' /\ TargetIsSet' /\ QueueIsSaved' /\ StaleIsOlder'
    BY DEF InOrder, TargetIsSet, QueueIsSaved, StaleIsOlder
<1>2. DrainHasMove' /\ LateWasSent'
    BY DEF DrainHasMove, LateWasSent, TypeOK
<1>3. SnapshotIsTaken' /\ SavedMoveIsKept'
    BY DEF SnapshotIsTaken, SavedMoveIsKept
<1> QED
    BY <1>1, <1>2, <1>3

LEMMA OthersStep ==
    ASSUME IInv, NEW j \in Job, NEW p \in Place, OtherClientAssigns(j, p)
    PROVE  IInv'
<1> USE DEF OtherClientAssigns, consoleVars, moveVars, drainVars
<1>1. TypeOK'
    BY DEF IInv, TypeOK, Board
<1> QED
    BY <1>1, AnswersOnly

LEMMA LateStep ==
    ASSUME IInv, NEW m \in Move, LateAccepted(m) \/ LateDropped(m)
    PROVE  IInv'
<1> USE DEF consoleVars, moveVars, drainVars
<1>1. target[m] \in [job : Job, to : Place]
    BY DEF IInv, LateWasSent, TargetIsSet, LateAccepted, LateDropped
<1>2. CASE LateAccepted(m)
  <2> USE <1>2 DEF LateAccepted
  <2>1. TypeOK'
    BY <1>1, AnswersStay DEF IInv, TypeOK
  <2>2. \A n \in Move : answer[n] # None => answer'[n] # None
    BY <1>1, AnswersStay DEF IInv
  <2> QED
    BY <2>1, <2>2, AnswersOnly
<1>3. CASE LateDropped(m)
  <2> USE <1>3 DEF LateDropped, serverVars
  <2>1. TypeOK'
    BY DEF IInv, TypeOK
  <2> QED
    BY <2>1, AnswersOnly
<1> QED
    BY <1>2, <1>3

LEMMA PollHolds ==
    ASSUME IInv, PollStep \/ PollFails
    PROVE  IInv'
<1> USE DEF moveVars, drainVars, serverVars
<1>1. TypeOK'
  <2> USE DEF IInv, TypeOK
  <2>1. CASE PollRead
    BY <2>1 DEF PollRead
  <2>2. CASE PollArrives
    BY <2>2 DEF PollArrives
  <2>3. CASE PollLost
    BY <2>3 DEF PollLost
  <2>4. CASE PollFails
    BY <2>4 DEF PollFails, Fault, Retained
  <2> QED
    BY <2>1, <2>2, <2>3, <2>4 DEF PollStep
<1>2. UNCHANGED <<stage, target, stale, queue, dpc, todo, sending, snapshot, late, answer>>
    BY DEF PollStep, PollRead, PollArrives, PollLost, PollFails
<1> QED
    BY <1>1, <1>2, AnswersOnly

LEMMA OutageStep ==
    ASSUME IInv, GoOffline
    PROVE  IInv'
<1> USE DEF GoOffline, Fault, consoleVars, moveVars, drainVars, serverVars
<1>1. online' \in BOOLEAN
    OBVIOUS
<1>2. TypeOK'
    BY <1>1 DEF IInv, TypeOK
<1> QED
    BY <1>2, AnswersOnly

-----------------------------------------------------------------------------
(* The moves *)

LEMMA PerformStep ==
    ASSUME IInv, NEW m \in Move, NEW j \in Job, NEW p \in Place, PerformAssignment(m, j, p)
    PROVE  IInv'
<1> USE NoneAssumption DEF PerformAssignment, drainVars, serverVars
<1>1. TypeOK'
    BY DEF IInv, TypeOK, Board, Stages
<1>2. target[m] = NoTarget /\ target'[m] = [job |-> j, to |-> p]
    BY DEF IInv, TypeOK, TargetIsSet
<1>3. InOrder' /\ TargetIsSet'
    BY <1>2 DEF IInv, TypeOK, InOrder, TargetIsSet
<1>4. QueueIsSaved' /\ LateWasSent'
    BY DEF IInv, TypeOK, QueueIsSaved, LateWasSent
<1>5. StaleIsOlder'
  <2>1. \A n \in Move : stage[n] = "saved" => n < m /\ stage'[n] = "saved" /\ target'[n] = target[n]
    BY DEF IInv, TypeOK, InOrder, Move
  <2>2. \A n \in stale'[m] : stage[n] = "saved" /\ stage'[m] = "add" /\ target[n].job = j
    BY DEF IInv, TypeOK, QueueIsSaved
  <2>3. \A k \in Move \ {m} : stale'[k] = stale[k] /\ stage'[k] = stage[k] /\ target'[k] = target[k]
    BY DEF IInv, TypeOK
  <2> QED
    BY <1>1, <1>2, <2>1, <2>2, <2>3 DEF IInv, TypeOK, StaleIsOlder
<1>6. DrainHasMove'
    BY DEF IInv, TypeOK, DrainHasMove
<1>7. SnapshotIsTaken'
    BY DEF IInv, TypeOK, SnapshotIsTaken
<1>8. SavedMoveIsKept'
    BY <1>2 DEF IInv, TypeOK, SavedMoveIsKept, TargetIsSet, NoTarget
<1> QED
    BY <1>1, <1>3, <1>4, <1>5, <1>6, <1>7, <1>8 DEF IInv

\* A request ends for its caller: its move goes on to be answered or over.
LEMMA RequestEnds ==
    ASSUME IInv, TypeOK', NEW m \in Move, NEW s \in {"accepted", "refused", "over"},
           stage[m] \in {"sent", "accepted", "refused"},
           stage' = [stage EXCEPT ![m] = s], late' \subseteq late \cup {m},
           UNCHANGED <<target, stale, queue, dpc, todo, sending, snapshot>>,
           \A n \in Move : answer[n] # None => answer'[n] # None
    PROVE  IInv'
<1>1. stage \in [Move -> Stages] /\ queue \subseteq Move /\ stale \in [Move -> SUBSET Move]
      /\ todo \in [Drain -> SUBSET Move] /\ late \subseteq Move
    BY DEF IInv, TypeOK
<1>2. \A n \in Move \ {m} : stage'[n] = stage[n]
    BY <1>1
<1>3. stage'[m] = s
    BY <1>1
<1>4. \A n \in Move : /\ stage'[n] = "new" <=> stage[n] = "new"
                      /\ stage'[n] = "saved" <=> stage[n] = "saved"
                      /\ stage'[n] = "add" <=> stage[n] = "add"
                      /\ stage'[n] \in {"sent", "accepted", "refused"} =>
                            stage[n] \in {"sent", "accepted", "refused"}
    BY <1>2, <1>3
<1>5. InOrder' /\ TargetIsSet'
    BY <1>4 DEF IInv, InOrder, TargetIsSet
<1>6. QueueIsSaved' /\ StaleIsOlder'
    BY <1>1, <1>4 DEF IInv, QueueIsSaved, StaleIsOlder
<1>7. DrainHasMove'
    BY <1>1, <1>4 DEF IInv, DrainHasMove
<1>8. LateWasSent'
    BY <1>1, <1>4 DEF IInv, LateWasSent
<1>9. SnapshotIsTaken' /\ SavedMoveIsKept'
    BY <1>4 DEF IInv, SnapshotIsTaken, SavedMoveIsKept
<1> QED
    BY <1>5, <1>6, <1>7, <1>8, <1>9 DEF IInv

LEMMA ServerStepHolds ==
    ASSUME IInv, NEW m \in Move, ServerStep(m)
    PROVE  IInv'
<1> USE DEF consoleVars, drainVars
<1>1. stage[m] = "sent" /\ target[m] \in [job : Job, to : Place]
    BY DEF IInv, TargetIsSet, ServerStep, ServerAccepts, ServerRefuses
<1>2. Accept(m) \/ Refuse(m)
    BY DEF ServerStep, ServerAccepts, ServerRefuses
<1>3. \A n \in Move : answer[n] # None => answer'[n] # None
    BY <1>1, <1>2, AnswersStay DEF IInv
<1>4. PICK s \in {"accepted", "refused"} : stage' = [stage EXCEPT ![m] = s]
    BY DEF ServerStep, ServerAccepts, ServerRefuses
<1>5. UNCHANGED <<consoleVars, target, stale, queue, drainVars, late, online, faults, changes>>
    BY DEF ServerStep, ServerAccepts, ServerRefuses
<1>6. TypeOK'
    BY <1>1, <1>2, <1>4, <1>5, AnswersStay DEF IInv, TypeOK, Stages
<1> QED
    BY <1>1, <1>3, <1>4, <1>5, <1>6, RequestEnds

LEMMA MoveEnds ==
    ASSUME IInv, NEW m \in Move, MoveSucceeds(m) \/ MoveRollsBack(m)
    PROVE  IInv'
<1> USE DEF drainVars, serverVars
<1>1. CASE MoveSucceeds(m)
  <2> USE <1>1 DEF MoveSucceeds, consoleVars
  <2>1. TypeOK'
      BY DEF IInv, TypeOK, Stages
  <2> QED
      BY <2>1, RequestEnds
<1>2. CASE MoveRollsBack(m)
  <2> USE <1>2 DEF MoveRollsBack
  <2>1. stage[m] \in {"sent", "accepted", "refused"}
      OBVIOUS
  <2>2. snapshot \in Board
      BY <2>1 DEF IInv, SnapshotIsTaken
  <2>3. faults' \in Nat
      BY DEF IInv, TypeOK, Fault
  <2>4. TypeOK'
      BY <2>2, <2>3 DEF IInv, TypeOK, Stages
  <2>5. late' \subseteq late \cup {m}
      OBVIOUS
  <2>6. /\ stage' = [stage EXCEPT ![m] = "over"]
        /\ UNCHANGED <<target, stale, queue, dpc, todo, sending, snapshot, answer>>
      OBVIOUS
  <2> QED
      BY <2>1, <2>4, <2>5, <2>6, RequestEnds
<1> QED
    BY <1>1, <1>2

LEMMA EnqueueStep ==
    ASSUME IInv, NEW m \in Move, EnqueueAdd(m)
    PROVE  IInv'
<1> USE DEF EnqueueAdd, consoleVars, drainVars, serverVars
<1>1. TypeOK'
    BY DEF IInv, TypeOK, Stages
<1>2. stage'[m] = "saved" /\ stale'[m] = {} /\ m \in queue'
    BY DEF IInv, TypeOK
<1>3. \A n \in Move \ {m} : stage'[n] = stage[n] /\ stale'[n] = stale[n]
    BY DEF IInv, TypeOK
<1>4. InOrder' /\ TargetIsSet'
    BY <1>2, <1>3 DEF IInv, InOrder, TargetIsSet
<1>5. QueueIsSaved'
    BY <1>1, <1>2, <1>3 DEF IInv, TypeOK, QueueIsSaved
<1>6. StaleIsOlder'
  <2> SUFFICES ASSUME NEW k \in Move, NEW n \in stale'[k]
               PROVE  stage'[k] = "add" /\ stage'[n] = "saved" /\ n < k
                      /\ target'[n].job = target'[k].job
    BY DEF StaleIsOlder
  <2>1. k # m /\ n \in stale[k]
    BY <1>2, <1>3
  <2>2. stage[k] = "add" /\ stage[n] = "saved" /\ n < k /\ target[n].job = target[k].job
    BY <2>1 DEF IInv, StaleIsOlder
  <2>3. n \in Move /\ n # m
    BY <2>1, <2>2 DEF IInv, TypeOK
  <2> QED
    BY <1>3, <2>1, <2>2, <2>3
<1>7. DrainHasMove'
    BY <1>2, <1>3 DEF IInv, TypeOK, DrainHasMove
<1>8. LateWasSent' /\ SnapshotIsTaken'
    BY <1>2, <1>3 DEF IInv, TypeOK, LateWasSent, SnapshotIsTaken
<1>9. SavedMoveIsKept'
  <2> SUFFICES ASSUME NEW n \in Move, stage'[n] = "saved", n \notin queue', answer[n] = None
               PROVE  \E k \in Move : k > n /\ target[k].job = target[n].job
    BY DEF SavedMoveIsKept
  <2>1. stage[n] = "saved" /\ n # m
    BY <1>2, <1>3
  <2>2. CASE n \in stale[m]
    <3>1. n < m /\ target[n].job = target[m].job
      BY <2>2 DEF IInv, StaleIsOlder
    <3>2. m > n
      BY <3>1 DEF Move
    <3> QED
      BY <3>1, <3>2
  <2>3. CASE n \notin stale[m]
    BY <2>1, <2>3 DEF IInv, SavedMoveIsKept
  <2> QED
    BY <2>2, <2>3
<1> QED
    BY <1>1, <1>4, <1>5, <1>6, <1>7, <1>8, <1>9 DEF IInv

-----------------------------------------------------------------------------
(* The drains *)

\* A step of the drains that takes only answered moves from the queue.
LEMMA DrainsOnly ==
    ASSUME IInv, TypeOK', DrainHasMove', UNCHANGED <<stage, target, stale, snapshot>>,
           queue' \subseteq queue, \A m \in queue \ queue' : answer'[m] # None,
           \A m \in late' \ late : stage[m] = "saved",
           \A m \in Move : answer[m] # None => answer'[m] # None
    PROVE  IInv'
<1>1. InOrder' /\ TargetIsSet' /\ StaleIsOlder' /\ SnapshotIsTaken'
    BY DEF IInv, InOrder, TargetIsSet, StaleIsOlder, SnapshotIsTaken
<1>2. QueueIsSaved' /\ LateWasSent'
    BY DEF IInv, QueueIsSaved, LateWasSent
<1>3. SavedMoveIsKept'
    BY DEF IInv, SavedMoveIsKept
<1> QED
    BY <1>1, <1>2, <1>3 DEF IInv

\* The drain's next entry is a saved one when all its entries are.
LEMMA NextIsSaved ==
    ASSUME IInv, NEW d \in Drain, SendNext(d, todo[d]), UNCHANGED <<stage, answer>>
    PROVE  /\ dpc' \in [Drain -> {"idle", "read", "sent", "answered"}]
           /\ todo' \in [Drain -> SUBSET Move]
           /\ sending' \in [Drain -> Move \cup {None}]
           /\ DrainHasMove'
<1> USE DEF IInv, TypeOK
<1>1. CASE Stop(d)
    BY <1>1 DEF Stop, DrainHasMove
<1>2. CASE ~Stop(d)
  <2>1. PICK m \in todo[d] : /\ sending' = [sending EXCEPT ![d] = m]
                             /\ todo' = [todo EXCEPT ![d] = todo[d] \ {m}]
                             /\ dpc' = [dpc EXCEPT ![d] = "sent"]
    BY <1>2 DEF SendNext
  <2>2. m \in Move /\ stage[m] = "saved"
    BY <2>1 DEF DrainHasMove
  <2>3. \A e \in Drain \ {d} : dpc'[e] = dpc[e] /\ todo'[e] = todo[e] /\ sending'[e] = sending[e]
    BY <2>1
  <2>4. dpc'[d] = "sent" /\ todo'[d] \subseteq todo[d] /\ sending'[d] = m
    BY <2>1
  <2>5. DrainHasMove'
    BY <2>2, <2>3, <2>4 DEF DrainHasMove
  <2> QED
    BY <2>1, <2>2, <2>5
<1> QED
    BY <1>1, <1>2

LEMMA DrainStepHolds ==
    ASSUME IInv, NEW d \in Drain, DrainStep(d)
    PROVE  IInv'
<1> USE DEF consoleVars, moveVars
<1>1. CASE DrainRead(d)
  <2> USE <1>1 DEF DrainRead, serverVars
  <2>1. TypeOK'
    BY NextIsSaved DEF IInv, TypeOK
  <2>2. DrainHasMove'
    BY NextIsSaved
  <2> QED
    BY <2>1, <2>2, DrainsOnly
<1>2. CASE DrainServed(d)
  <2> USE <1>2 DEF DrainServed
  <2>1. sending[d] \in Move /\ stage[sending[d]] = "saved"
    BY DEF IInv, DrainHasMove
  <2>2. target[sending[d]] \in [job : Job, to : Place]
    BY <2>1 DEF IInv, TargetIsSet
  <2>3. /\ answer'[sending[d]] # None
        /\ \A n \in Move : answer[n] # None => answer'[n] # None
    BY <2>1, <2>2, AnswersStay DEF IInv
  <2>4. TypeOK'
    BY <2>1, <2>2, AnswersStay DEF IInv, TypeOK
  <2>5. DrainHasMove'
    BY <2>1, <2>3 DEF IInv, TypeOK, DrainHasMove
  <2> QED
    BY <2>3, <2>4, <2>5, DrainsOnly
<1>3. CASE DrainAnswered(d)
  <2> USE <1>3 DEF DrainAnswered, serverVars
  <2>1. TypeOK'
    BY NextIsSaved DEF IInv, TypeOK
  <2>2. DrainHasMove'
    BY NextIsSaved
  <2>3. answer[sending[d]] # None
    BY DEF IInv, DrainHasMove
  <2> QED
    BY <2>1, <2>2, <2>3, DrainsOnly
<1>4. CASE DrainBreaks(d)
  <2> USE <1>4 DEF DrainBreaks, serverVars, Stop
  <2>1. sending[d] \in Move /\ stage[sending[d]] = "saved"
    BY DEF IInv, DrainHasMove
  <2>2. faults' \in Nat
    BY DEF IInv, TypeOK, Fault
  <2>3. TypeOK'
    BY <2>1, <2>2 DEF IInv, TypeOK
  <2>4. DrainHasMove'
    BY DEF IInv, TypeOK, DrainHasMove
  <2> QED
    BY <2>1, <2>3, <2>4, DrainsOnly
<1> QED
    BY <1>1, <1>2, <1>3, <1>4 DEF DrainStep

LEMMA StartHolds ==
    ASSUME IInv, NEW d \in Drain, SyncEvent(d) \/ GoOnline(d)
    PROVE  IInv'
<1> USE DEF consoleVars, moveVars, serverVars
<1>1. Start(d) /\ UNCHANGED <<consoleVars, moveVars, queue, sending, serverVars, late, faults, changes>>
    BY DEF SyncEvent, GoOnline
<1>2. online' \in BOOLEAN
    BY DEF IInv, TypeOK, SyncEvent, GoOnline
<1>3. syncDue' \in BOOLEAN
    BY DEF IInv, TypeOK, SyncEvent, GoOnline
<1>4. TypeOK'
    BY <1>1, <1>2, <1>3 DEF IInv, TypeOK, Start
<1>5. DrainHasMove'
    BY <1>1 DEF IInv, TypeOK, DrainHasMove, Start, QueueIsSaved
<1> QED
    BY <1>1, <1>4, <1>5, DrainsOnly

-----------------------------------------------------------------------------
LEMMA ReloadStep ==
    ASSUME IInv, NEW d \in Drain, Reload(d)
    PROVE  IInv'
<1> USE DEF serverVars
<1>1. PICK S \in SUBSET {m \in Move : stage[m] = "add"} :
         queue' = queue \ UNION {stale[m] : m \in S}
    BY DEF Reload
<1>2. stage' = [m \in Move |-> IF stage[m] \in {"new", "saved"} THEN stage[m] ELSE "over"]
    BY DEF Reload
<1>3. /\ board' = Empty /\ snapshot' = None /\ data' = None /\ poll' = None /\ pollFailed' = FALSE
      /\ stale' = [m \in Move |-> {}]
      /\ UNCHANGED <<target, server, answer, writer, online, changes>>
    BY DEF Reload
<1>4. /\ dpc' = [e \in Drain |-> IF e = d THEN "read" ELSE "idle"]
      /\ todo' = [e \in Drain |-> IF e = d THEN queue' ELSE {}]
      /\ sending' = [e \in Drain |-> None]
      /\ syncDue' = TRUE
    BY DEF Reload, MountDrain
<1>5. late' = late \cup {m \in Move : stage[m] = "sent"}
                   \cup {sending[e] : e \in {f \in Drain : dpc[f] = "sent"}}
    BY DEF Reload
<1>6. faults' \in Nat
    BY DEF IInv, TypeOK, Reload, Fault
<1>7. queue' \subseteq queue
    BY <1>1
<1>8. late' \subseteq Move /\ \A m \in late' : stage[m] # "new"
    BY <1>5 DEF IInv, TypeOK, LateWasSent, DrainHasMove
<1>9. TypeOK'
  <2>1. stage' \in [Move -> Stages]
    BY <1>2 DEF IInv, TypeOK, Stages
  <2>2. board' \in Board
    BY <1>3 DEF Empty, Board
  <2> QED
    BY <2>1, <2>2, <1>3, <1>4, <1>6, <1>7, <1>8 DEF IInv, TypeOK
<1>10. InOrder' /\ TargetIsSet' /\ QueueIsSaved' /\ StaleIsOlder'
    BY <1>2, <1>3, <1>7 DEF IInv, TypeOK, InOrder, TargetIsSet, QueueIsSaved, StaleIsOlder
<1>11. DrainHasMove'
    BY <1>2, <1>4, <1>7 DEF IInv, TypeOK, DrainHasMove, QueueIsSaved
<1>12. LateWasSent' /\ SnapshotIsTaken'
    BY <1>2, <1>8 DEF LateWasSent, SnapshotIsTaken
<1>13. SavedMoveIsKept'
  <2> SUFFICES ASSUME NEW n \in Move, stage'[n] = "saved", n \notin queue', answer[n] = None
               PROVE  \E k \in Move : k > n /\ target[k].job = target[n].job
    BY <1>3 DEF SavedMoveIsKept
  <2>1. stage[n] = "saved"
    BY <1>2
  <2>2. CASE n \in queue
    <3>1. PICK m \in S : n \in stale[m]
      BY <1>1, <2>2
    <3>2. m \in Move /\ n < m /\ target[n].job = target[m].job
      BY <3>1 DEF IInv, StaleIsOlder
    <3>3. m > n
      BY <3>2 DEF Move
    <3> QED
      BY <3>2, <3>3
  <2>3. CASE n \notin queue
    BY <2>1, <2>3 DEF IInv, SavedMoveIsKept
  <2> QED
    BY <2>2, <2>3
<1> QED
    BY <1>9, <1>10, <1>11, <1>12, <1>13 DEF IInv

LEMMA NextHolds == IInv /\ [Next]_vars => IInv'
<1> SUFFICES ASSUME IInv, [Next]_vars PROVE IInv'
    OBVIOUS
<1>1. CASE \E j \in Job, p \in Place : OtherClientAssigns(j, p)
    BY <1>1, OthersStep
<1>2. CASE \E j \in Job, p \in Place, m \in Move : PerformAssignment(m, j, p)
    BY <1>2, PerformStep
<1>3. CASE \E m \in Move : ServerStep(m)
    BY <1>3, ServerStepHolds
<1>4. CASE \E m \in Move : MoveStep(m)
    BY <1>4, MoveEnds, EnqueueStep DEF MoveStep
<1>5. CASE \E m \in Move : LateAccepted(m) \/ LateDropped(m)
    BY <1>5, LateStep
<1>6. CASE \E d \in Drain : DrainStep(d)
    BY <1>6, DrainStepHolds
<1>7. CASE \E d \in Drain : SyncEvent(d) \/ GoOnline(d)
    BY <1>7, StartHolds
<1>8. CASE \E d \in Drain : Reload(d)
    BY <1>8, ReloadStep
<1>9. CASE GoOffline
    BY <1>9, OutageStep
<1>10. CASE PollStep \/ PollFails
    BY <1>10, PollHolds
<1>11. CASE UNCHANGED vars
  <2> USE <1>11 DEF vars, consoleVars, moveVars, drainVars, serverVars
  <2>1. TypeOK'
    BY DEF IInv, TypeOK
  <2> QED
    BY <2>1, AnswersOnly
<1> QED
    BY <1>1, <1>2, <1>3, <1>4, <1>5, <1>6, <1>7, <1>8, <1>9, <1>10, <1>11 DEF Next

-----------------------------------------------------------------------------
\* The inductive invariant holds of the console and its server at all times.
THEOREM Invariant == Spec => []IInv
    BY InitHolds, NextHolds, PTL DEF Spec

\* Types of the store, the moves, the queue and the drains (BoardSync, TypeOK).
THEOREM TypeCorrect == Spec => []TypeOK
<1>1. IInv => TypeOK
    BY DEF IInv
<1> QED
    BY <1>1, Invariant, PTL

\* "Each op is deleted only after a successful request" (lib/offline.ts): with any
\* number of drains side by side, of outages, reloads and timeouts, an entry of the
\* sync queue goes only when the server has answered it or a newer move of its job
\* has been made.
THEOREM SavedMovesAreKept == Spec => []SavedMoveIsKept
<1>1. IInv => SavedMoveIsKept
    BY DEF IInv
<1> QED
    BY <1>1, Invariant, PTL

-----------------------------------------------------------------------------
(* RoadLines: the inductive invariant *)

\* What a batch has been told of a chain is in the cache, or on record as missing.
BatchesAreTold ==
    /\ fired \in Nat /\ DOMAIN batches \subseteq 1..fired
    /\ \A i \in DOMAIN batches : \A c \in DOMAIN batches[i] :
          /\ batches[i][c] \in {"wait", "road", "null"}
          /\ batches[i][c] = "road" => c \in shapeCache
          /\ batches[i][c] = "null" => c \in roadless

LinesInv ==
    /\ BatchesAreTold /\ EveryChainIsAsked /\ SolidIsRoad /\ SnapFollowsTrail
    /\ shapes \subseteq DOMAIN sources

LEMMA LinesStart == LinesInit => LinesInv
<1> SUFFICES ASSUME LinesInit PROVE LinesInv
  OBVIOUS
<1>1. DOMAIN batches = {} /\ DOMAIN sources = {}
  BY DEF LinesInit, NoChains
<1>2. EveryChainIsAsked
  <2>1. timer = (Chains # {})
    BY DEF LinesInit
  <2>2. \A c \in Chains : timer
    BY <2>1
  <2> QED
    BY <2>2 DEF EveryChainIsAsked
<1>3. BatchesAreTold /\ SolidIsRoad /\ SnapFollowsTrail /\ shapes \subseteq DOMAIN sources
  BY <1>1 DEF LinesInit, BatchesAreTold, SolidIsRoad, SnapFollowsTrail
<1> QED
  BY <1>2, <1>3 DEF LinesInv

\* Of some firings one is the latest.
LEMMA LatestExists ==
  ASSUME NEW n \in Nat, NEW S \in SUBSET (1..n), S # {}
  PROVE  Latest(S) \in S
<1> DEFINE T == {n - s : s \in S}
<1>1. T \subseteq Nat /\ T # {}
  <2>1. \A s \in S : n - s \in Nat
    OBVIOUS
  <2> QED
    BY <2>1
<1>2. PICK t \in T : \A u \in T : <<u, t>> \notin OpToRel(<, Nat)
  BY <1>1, NatLessThanWellFounded, WFMin
<1>3. PICK x \in S : t = n - x
  OBVIOUS
<1>4. ASSUME NEW s \in S PROVE s <= x
  <2>1. n - s \in T /\ n - s \in Nat /\ t \in Nat
    BY <1>1
  <2>2. ~(n - s < t)
    BY <1>2, <2>1 DEF OpToRel
  <2>3. s \in Int /\ x \in Int /\ n \in Int
    OBVIOUS
  <2> HIDE DEF T
  <2> QED
    BY <1>3, <2>2, <2>3
<1> QED
  BY <1>3, <1>4 DEF Latest

\* A landing labels what it was told, and what it does not land still waits.
LEMMA LandKeeps ==
  ASSUME LinesInv, NEW all, Land(all), fired' \in Nat, DOMAIN all \subseteq 1..fired',
         \A i \in DOMAIN all : \A c \in DOMAIN all[i] :
            /\ all[i][c] \in {"wait", "road", "null"}
            /\ all[i][c] = "road" => c \in shapeCache'
            /\ all[i][c] = "null" => c \in roadless',
         shapeCache \subseteq shapeCache', roadless \subseteq roadless'
  PROVE  /\ BatchesAreTold' /\ SolidIsRoad' /\ SnapFollowsTrail'
         /\ shapes' \subseteq DOMAIN sources' /\ DOMAIN sources \subseteq DOMAIN sources'
         /\ \A i \in DOMAIN all : \A c \in DOMAIN all[i] :
               c \in DOMAIN sources' \/ \E k \in DOMAIN batches' : c \in DOMAIN batches'[k]
<1> DEFINE done    == {i \in DOMAIN all : Settled(all[i])}
           With(c) == {i \in done : c \in DOMAIN all[i]}
           told    == UNION {DOMAIN all[i] : i \in done}
<1>1. /\ batches' = [i \in DOMAIN all \ done |-> all[i]]
      /\ shapes' = shapes \cup {c \in told : \E i \in With(c) : all[i][c] = "road"}
      /\ sources' = [c \in DOMAIN sources \cup told |->
                        IF c \in told THEN Label(all[Latest(With(c))][c]) ELSE sources[c]]
      /\ snap' = IF sources' # sources THEN Nowhere ELSE snap
      /\ vanTrail' = vanTrail
  BY DEF Land
<1>2. BatchesAreTold'
  BY <1>1 DEF BatchesAreTold
<1>3. SnapFollowsTrail'
  BY <1>1 DEF LinesInv, SnapFollowsTrail
<1>4. shapes' \subseteq DOMAIN sources' /\ DOMAIN sources' = DOMAIN sources \cup told
  BY <1>1 DEF LinesInv
<1>5. ASSUME NEW c \in told
      PROVE  /\ Latest(With(c)) \in With(c) /\ sources'[c] = Label(all[Latest(With(c))][c])
             /\ all[Latest(With(c))][c] \in {"road", "null"}
  <2>1. With(c) # {} /\ With(c) \subseteq 1..fired'
    OBVIOUS
  <2>2. Latest(With(c)) \in With(c)
    BY <2>1, LatestExists
  <2>3. sources'[c] = Label(all[Latest(With(c))][c])
    BY <1>1, <1>5
  <2>4. ASSUME NEW i \in With(c) PROVE all[i][c] \in {"road", "null"}
    BY <2>4 DEF Settled
  <2> HIDE DEF With
  <2> QED
    BY <2>2, <2>3, <2>4
<1>6. \A c \in DOMAIN sources \ told : sources'[c] = sources[c]
  BY <1>1
<1>7. SolidIsRoad'
  <2>1. ASSUME NEW c \in DOMAIN sources', sources'[c] = "road" PROVE c \in shapes'
    <3>1. CASE c \in told
      <4>1. all[Latest(With(c))][c] = "road" /\ Latest(With(c)) \in With(c)
        BY <1>5, <2>1, <3>1 DEF Label
      <4> QED
        BY <1>1, <3>1, <4>1
    <3>2. CASE c \notin told
      BY <1>1, <1>4, <1>6, <2>1, <3>2 DEF LinesInv, SolidIsRoad
    <3> QED
      BY <3>1, <3>2
  <2>2. ASSUME NEW c \in shapes' PROVE sources'[c] = "road" \/ c \in roadless'
    <3>1. CASE c \in told
      <4>1. CASE all[Latest(With(c))][c] = "road"
        BY <1>5, <3>1, <4>1 DEF Label
      <4>2. CASE all[Latest(With(c))][c] = "null"
        BY <1>5, <3>1, <4>2
      <4> QED
        BY <1>5, <3>1, <4>1, <4>2
    <3>2. CASE c \notin told
      BY <1>1, <1>6, <2>2, <3>2 DEF LinesInv, SolidIsRoad
    <3> QED
      BY <3>1, <3>2
  <2>3. shapes' \subseteq shapeCache'
    <3>1. ASSUME NEW c \in told, NEW i \in With(c), all[i][c] = "road" PROVE c \in shapeCache'
      BY <3>1
    <3> QED
      BY <1>1, <3>1 DEF LinesInv, SolidIsRoad
  <2> QED
    BY <2>1, <2>2, <2>3 DEF SolidIsRoad
<1>8. ASSUME NEW i \in DOMAIN all, NEW c \in DOMAIN all[i]
      PROVE  c \in DOMAIN sources' \/ \E k \in DOMAIN batches' : c \in DOMAIN batches'[k]
  <2>1. CASE i \in done
    BY <1>4, <2>1
  <2>2. CASE i \notin done
    BY <1>1, <2>2
  <2> QED
    BY <2>1, <2>2
<1> QED
  BY <1>2, <1>3, <1>4, <1>7, <1>8

LEMMA ShapeSettles ==
  ASSUME LinesInv, NEW c \in DOMAIN inflight, NEW outcome \in {"road", "null"},
         Settle(c, outcome), shapeCache \subseteq shapeCache', roadless \subseteq roadless',
         outcome = "road" => c \in shapeCache', outcome = "null" => c \in roadless'
  PROVE  LinesInv'
<1> DEFINE all == [i \in DOMAIN batches |->
                     [d \in DOMAIN batches[i] |->
                        IF d = c /\ batches[i][d] = "wait" THEN outcome ELSE batches[i][d]]]
<1>1. Land(all) /\ timer' = timer /\ fired' = fired
  BY DEF Settle
<1>2. DOMAIN all = DOMAIN batches
      /\ \A i \in DOMAIN batches :
            /\ DOMAIN all[i] = DOMAIN batches[i]
            /\ \A d \in DOMAIN batches[i] :
                  all[i][d] = IF d = c /\ batches[i][d] = "wait" THEN outcome ELSE batches[i][d]
  OBVIOUS
<1> HIDE DEF all
<1>3. \A i \in DOMAIN all : \A d \in DOMAIN all[i] :
            /\ all[i][d] \in {"wait", "road", "null"}
            /\ all[i][d] = "road" => d \in shapeCache'
            /\ all[i][d] = "null" => d \in roadless'
  BY <1>2 DEF LinesInv, BatchesAreTold
<1>4. fired' \in Nat /\ DOMAIN all \subseteq 1..fired'
  BY <1>1, <1>2 DEF LinesInv, BatchesAreTold
<1>5. /\ BatchesAreTold' /\ SolidIsRoad' /\ SnapFollowsTrail'
      /\ shapes' \subseteq DOMAIN sources' /\ DOMAIN sources \subseteq DOMAIN sources'
      /\ \A i \in DOMAIN all : \A d \in DOMAIN all[i] :
            d \in DOMAIN sources' \/ \E k \in DOMAIN batches' : d \in DOMAIN batches'[k]
  BY <1>1, <1>3, <1>4, LandKeeps
<1>6. Chains' = Chains
  BY <1>1 DEF Land, Chains
<1>7. EveryChainIsAsked'
  BY <1>1, <1>2, <1>5, <1>6 DEF LinesInv, EveryChainIsAsked
<1> QED
  BY <1>5, <1>7 DEF LinesInv

LEMMA DebounceFires ==
  ASSUME LinesInv, FireDebounce
  PROVE  LinesInv'
<1> DEFINE asks == [c \in Chains |-> Fetched(c)]
           all == [i \in DOMAIN batches \cup {fired'} |-> IF i = fired' THEN asks ELSE batches[i]]
<1>1. Land(all) /\ fired' = fired + 1 /\ shapeCache' = shapeCache
      /\ roadless' = roadless \cup {c \in Chains : Fetched(c) = "null"}
  BY DEF FireDebounce
<1>2. \A c \in Chains : /\ Fetched(c) \in {"wait", "road", "null"}
                        /\ Fetched(c) = "road" => c \in shapeCache
  BY DEF Fetched
<1>3. fired' \in Nat /\ DOMAIN all = DOMAIN batches \cup {fired'} /\ DOMAIN all \subseteq 1..fired'
  BY <1>1 DEF LinesInv, BatchesAreTold
<1>4. all[fired'] = asks /\ \A i \in DOMAIN batches : all[i] \in {asks, batches[i]}
  OBVIOUS
<1>5. DOMAIN asks = Chains /\ \A c \in Chains : asks[c] = Fetched(c)
  OBVIOUS
<1> HIDE DEF all, asks
<1>6. \A i \in DOMAIN all : \A d \in DOMAIN all[i] :
            /\ all[i][d] \in {"wait", "road", "null"}
            /\ all[i][d] = "road" => d \in shapeCache'
            /\ all[i][d] = "null" => d \in roadless'
  <2>1. \A d \in DOMAIN asks :
            /\ asks[d] \in {"wait", "road", "null"}
            /\ asks[d] = "road" => d \in shapeCache'
            /\ asks[d] = "null" => d \in roadless'
    BY <1>1, <1>2, <1>5
  <2>2. \A i \in DOMAIN batches : \A d \in DOMAIN batches[i] :
            /\ batches[i][d] \in {"wait", "road", "null"}
            /\ batches[i][d] = "road" => d \in shapeCache'
            /\ batches[i][d] = "null" => d \in roadless'
    BY <1>1 DEF LinesInv, BatchesAreTold
  <2> QED
    BY <1>3, <1>4, <2>1, <2>2
<1>7. /\ BatchesAreTold' /\ SolidIsRoad' /\ SnapFollowsTrail'
      /\ shapes' \subseteq DOMAIN sources' /\ DOMAIN sources \subseteq DOMAIN sources'
      /\ \A i \in DOMAIN all : \A d \in DOMAIN all[i] :
            d \in DOMAIN sources' \/ \E k \in DOMAIN batches' : d \in DOMAIN batches'[k]
  BY <1>1, <1>3, <1>6, LandKeeps
<1>8. Chains' = Chains
  BY <1>1 DEF Land, Chains
<1>9. EveryChainIsAsked'
  BY <1>3, <1>4, <1>5, <1>7, <1>8 DEF EveryChainIsAsked
<1> QED
  BY <1>7, <1>9 DEF LinesInv

LEMMA LinesSteps == LinesInv /\ [LinesNext]_lineVars => LinesInv'
<1> SUFFICES ASSUME LinesInv, [LinesNext]_lineVars PROVE LinesInv'
  OBVIOUS
<1> USE DEF roadVars, trailVars
<1>1. ASSUME NEW p, NEW o, Rearm(p, o), UNCHANGED trailVars PROVE LinesInv'
  <2>1. Chains' = In(RenderChains(p, o)) /\ Chains = In(RenderChains(plans, origin))
    BY <1>1 DEF Rearm, Chains
  <2>2. UNCHANGED <<batches, sources>>
    BY <1>1 DEF Rearm
  <2>3. ASSUME RenderChains(p, o) = RenderChains(plans, origin) PROVE EveryChainIsAsked'
    <3>1. timer' = timer /\ Chains' = Chains
      BY <1>1, <2>1, <2>3 DEF Rearm
    <3> QED
      BY <2>2, <3>1 DEF EveryChainIsAsked, LinesInv
  <2>4. ASSUME RenderChains(p, o) # RenderChains(plans, origin) PROVE EveryChainIsAsked'
    <3>1. timer' = (RenderChains(p, o) # << >>)
      BY <1>1, <2>4 DEF Rearm
    <3>2. RenderChains(p, o) = << >> => Chains' = {}
      BY <2>1 DEF In
    <3> QED
      BY <3>1, <3>2 DEF EveryChainIsAsked
  <2>5. EveryChainIsAsked'
    BY <2>3, <2>4
  <2> QED
    BY <1>1, <2>5 DEF Rearm, LinesInv, BatchesAreTold, SolidIsRoad, SnapFollowsTrail
<1>2. CASE UNCHANGED trailVars /\ (ChangeBoard \/ \E t \in Tech : PingLine(t))
  BY <1>1, <1>2 DEF ChangeBoard, PingLine
<1>3. CASE FireDebounce
  BY <1>3, DebounceFires
<1>4. ASSUME NEW c \in DOMAIN inflight, ShapeLands(c) \/ ShapeMissing(c) PROVE LinesInv'
  BY <1>4, ShapeSettles DEF ShapeLands, ShapeMissing
<1>5. ASSUME NEW c \in DOMAIN inflight, RetryShape(c) PROVE LinesInv'
  BY <1>5 DEF RetryShape, LinesInv, BatchesAreTold, EveryChainIsAsked, SolidIsRoad,
     SnapFollowsTrail, Chains
<1>6. CASE ChangeTrail \/ AskSnap \/ SnapLands
  BY <1>6 DEF ChangeTrail, AskSnap, SnapLands, LinesInv, BatchesAreTold, EveryChainIsAsked,
     SolidIsRoad, SnapFollowsTrail, Chains
<1>7. CASE UNCHANGED lineVars
  BY <1>7 DEF lineVars, LinesInv, BatchesAreTold, EveryChainIsAsked, SolidIsRoad,
     SnapFollowsTrail, Chains
<1> QED
  BY <1>2, <1>3, <1>4, <1>5, <1>6, <1>7 DEF LinesNext

\* In every reachable state of the lines, what a batch was told of a chain is cached or on
\* record, and what was labelled or is waited for covers the chains on the map.
THEOREM LinesInvariant == LinesSpec => []LinesInv
<1>1. LinesInit => LinesInv
  BY LinesStart
<1>2. LinesInv /\ [LinesNext]_lineVars => LinesInv'
  BY LinesSteps
<1> QED
  BY <1>1, <1>2, PTL DEF LinesSpec

-----------------------------------------------------------------------------
(* MapStage: the inductive invariant *)

Rungs == [style : 1..Styles[theme], pass : 1..Passes]
Earlier(r, s) == r.pass < s.pass \/ (r.pass = s.pass /\ r.style < s.style)

\* The ladder is climbed in order: what has failed is what comes before the rung tried.
LadderInOrder ==
    /\ theme \in Theme /\ rung \in Rungs
    /\ ~mapError => failedRungs = {r \in Rungs : Earlier(r, rung)}
    /\ lateErrors \in Nat

\* A ready map with nothing selected has framed the day shown, and shows the region only if
\* that day was framed while empty or the map was remounted.
DayIsFramed ==
    /\ day \in Day
    /\ Ready /\ selected = Unselected /\ job = Unselected => fittedDay = day
    /\ fittedDay # Unselected /\ camera = Region /\ ~remounted => fittedDay \in spent

StageInv ==
    /\ LadderInOrder /\ LadderIsHonest /\ ShellsFollowSelection /\ DayIsFramed /\ ~recentered

LEMMA StageStarts == StageInit => StageInv
<1> SUFFICES ASSUME StageInit PROVE StageInv
  OBVIOUS
<1> USE StageAssumption DEF StageInit
<1>1. rung \in Rungs /\ \A r \in Rungs : ~Earlier(r, rung)
  BY DEF Rungs, FirstRung, Earlier
<1>2. LadderInOrder /\ LadderIsHonest
  BY <1>1 DEF LadderInOrder, LadderIsHonest
<1>3. ShellsFollowSelection /\ DayIsFramed
  BY DEF ShellsFollowSelection, DayIsFramed, Ready
<1> QED
  BY <1>2, <1>3 DEF StageInv

\* The rung after a rung, and what comes before it.
LEMMA NextRung ==
  ASSUME theme \in Theme, rung \in Rungs
  PROVE  LET next == Advance(rung, Styles[theme])
         IN  /\ next # Unselected => next \in Rungs
             /\ next # Unselected =>
                   {r \in Rungs : Earlier(r, next)} = {r \in Rungs : Earlier(r, rung)} \cup {rung}
             /\ next = Unselected => {r \in Rungs : Earlier(r, rung)} \cup {rung} = Rungs
<1> DEFINE n == Styles[theme]
           next == Advance(rung, n)
<1>1. n \in Nat \ {0} /\ Passes \in Nat \ {0}
  BY StageAssumption
<1>2. rung.style \in 1..n /\ rung.pass \in 1..Passes /\ rung = [style |-> rung.style, pass |-> rung.pass]
  BY DEF Rungs
<1>3. \A r \in Rungs : r.style \in 1..n /\ r.pass \in 1..Passes
                       /\ r = [style |-> r.style, pass |-> r.pass]
  BY DEF Rungs
<1>4. CASE rung.style < n
  <2>1. next = [style |-> rung.style + 1, pass |-> rung.pass]
    BY <1>2, <1>4 DEF Advance, Rungs
  <2>2. next.style = rung.style + 1 /\ next.pass = rung.pass /\ next \in Rungs
    BY <1>1, <1>2, <1>4, <2>1 DEF Rungs
  <2>3. next # Unselected
    BY <1>1, <1>2, <2>1, StageAssumption
  <2> HIDE DEF next, n
  <2>4. \A r \in Rungs : Earlier(r, next) <=> Earlier(r, rung) \/ r = rung
    BY <1>1, <1>2, <1>3, <2>2 DEF Earlier
  <2> QED
    BY <2>2, <2>3, <2>4 DEF next, n
<1>5. CASE ~(rung.style < n) /\ rung.pass < Passes
  <2>1. next = [style |-> 1, pass |-> rung.pass + 1]
    BY <1>2, <1>5 DEF Advance
  <2>2. next.style = 1 /\ next.pass = rung.pass + 1 /\ next \in Rungs
    BY <1>1, <1>2, <1>5, <2>1 DEF Rungs
  <2>3. next # Unselected
    BY <1>1, <1>2, <2>1, StageAssumption
  <2> HIDE DEF next, n
  <2>4. \A r \in Rungs : Earlier(r, next) <=> Earlier(r, rung) \/ r = rung
    BY <1>1, <1>2, <1>3, <1>5, <2>2 DEF Earlier
  <2> QED
    BY <2>2, <2>3, <2>4 DEF next, n
<1>6. CASE ~(rung.style < n) /\ ~(rung.pass < Passes)
  <2>1. next = Unselected
    BY <1>6 DEF Advance
  <2> HIDE DEF next, n
  <2>2. \A r \in Rungs : Earlier(r, rung) \/ r = rung
    BY <1>1, <1>2, <1>3, <1>6 DEF Earlier
  <2> QED
    BY <2>1, <2>2 DEF next, n
<1> QED
  BY <1>4, <1>5, <1>6

\* What is true of the camera stays true when the map is remounted, and when it is framed.
LEMMA RemountKeepsDay ==
  ASSUME DayIsFramed, RemountMap, UNCHANGED shownVars, Ready' => Ready
  PROVE  DayIsFramed'
  BY DEF DayIsFramed, RemountMap, shownVars

LEMMA FrameKeepsDay ==
  ASSUME DayIsFramed, NEW d \in Day, NEW v, NEW j, NEW at, Frame(Ready', d, v, j, at),
         remounted' = remounted, day' = d, selected' = v, job' = j
  PROVE  DayIsFramed'
<1>1. /\ fittedDay' = IF FitDay(Ready', d, v, j) THEN d ELSE fittedDay
      /\ spent' = IF FitDay(Ready', d, v, j) /\ at[d] = {} THEN spent \cup {d} ELSE spent
  BY DEF Frame
<1>2. Ready' /\ selected' = Unselected /\ job' = Unselected => fittedDay' = day'
  BY <1>1 DEF FitDay
<1>3. ASSUME fittedDay' # Unselected, camera' = Region, ~remounted' PROVE fittedDay' \in spent'
  <2>1. camera' \in {<<"job", j>>, <<"day", d>>, <<"van", v>>, camera}
    BY DEF Frame
  <2>2. camera = Region /\ ~(FitDay(Ready', d, v, j) /\ at[d] # {})
    <3>1. \A x : <<"job", x>> # Region /\ <<"day", x>> # Region /\ <<"van", x>> # Region
      BY DEF Region
    <3>2. camera = Region
      BY <1>3, <2>1, <3>1
    <3>3. FitDay(Ready', d, v, j) => ~PanJob(Ready', d, j, at)
      BY DEF FitDay, PanJob
    <3> QED
      BY <1>3, <3>1, <3>2, <3>3 DEF Frame
  <2>3. CASE FitDay(Ready', d, v, j)
    BY <1>1, <2>2, <2>3
  <2>4. CASE ~FitDay(Ready', d, v, j)
    BY <1>1, <1>3, <2>2, <2>4 DEF DayIsFramed
  <2> QED
    BY <2>3, <2>4
<1> QED
  BY <1>2, <1>3 DEF DayIsFramed

\* A candidate that fails makes room for the next, or for the error.
LEMMA ClimbKeeps ==
  ASSUME StageInv, NEW loaded, Climb(loaded), ~mapError, loaded \in {FALSE, styleLoaded},
         loaded => lateErrors' > 0, lateErrors' \in Nat
  PROVE  StageInv'
<1> DEFINE next == Advance(rung, Styles[theme])
<1>1. /\ theme' = theme /\ failedRungs' = failedRungs \cup {rung} /\ styleLoaded' = loaded
      /\ UNCHANGED <<shownVars, reachVars>>
  BY DEF Climb
<1>2. /\ next # Unselected => rung' = next /\ mapError' = mapError /\ RemountMap
      /\ next = Unselected => rung' = rung /\ mapError' = TRUE /\ UNCHANGED cameraVars
  BY DEF Climb
<1>3. /\ next # Unselected => next \in Rungs
      /\ next # Unselected =>
            {r \in Rungs : Earlier(r, next)} = {r \in Rungs : Earlier(r, rung)} \cup {rung}
      /\ next = Unselected => {r \in Rungs : Earlier(r, rung)} \cup {rung} = Rungs
  BY NextRung DEF StageInv, LadderInOrder
<1>4. Rungs' = Rungs /\ failedRungs = {r \in Rungs : Earlier(r, rung)}
  BY <1>1 DEF Rungs, StageInv, LadderInOrder
<1> HIDE DEF next
<1>5. LadderInOrder'
  <2>1. ~mapError' => rung' = next /\ next # Unselected
    BY <1>2
  <2>2. ~mapError' => failedRungs' = {r \in Rungs' : Earlier(r, rung')}
    BY <1>1, <1>3, <1>4, <2>1
  <2> QED
    BY <1>1, <1>2, <1>3, <1>4, <2>2 DEF LadderInOrder, StageInv
<1>6. LadderIsHonest'
  <2>1. mapError' => failedRungs' = Rungs'
    BY <1>1, <1>2, <1>3, <1>4
  <2> QED
    BY <1>1, <2>1 DEF LadderIsHonest, Rungs
<1>7. DayIsFramed' /\ recentered' = recentered
  <2>1. CASE next # Unselected
    <3>1. Ready' => Ready
      BY <1>1, <1>2, <2>1 DEF Ready
    <3>2. RemountMap
      BY <1>2, <2>1
    <3> QED
      BY <1>1, <3>1, <3>2, RemountKeepsDay DEF StageInv, RemountMap
  <2>2. CASE next = Unselected
    BY <1>1, <1>2, <2>2 DEF DayIsFramed, StageInv, Ready, cameraVars, shownVars
  <2> QED
    BY <2>1, <2>2
<1>8. ShellsFollowSelection'
  BY <1>1 DEF ShellsFollowSelection, StageInv, Key, ReachKey, shownVars, reachVars
<1> QED
  BY <1>5, <1>6, <1>7, <1>8 DEF StageInv

LEMMA ResetKeeps ==
  ASSUME StageInv, NEW t \in Theme, Reset(t)
  PROVE  StageInv'
<1>1. /\ theme' = t /\ rung' = FirstRung /\ failedRungs' = {} /\ ~styleLoaded' /\ ~mapError'
      /\ lateErrors' = lateErrors /\ UNCHANGED <<shownVars, reachVars>> /\ RemountMap
  BY DEF Reset
<1>2. rung' \in Rungs' /\ \A r \in Rungs' : ~Earlier(r, rung')
  <2>1. Styles[t] \in Nat \ {0} /\ Passes \in Nat \ {0}
    BY StageAssumption
  <2>2. Rungs' = [style : 1..Styles[t], pass : 1..Passes]
    BY <1>1 DEF Rungs
  <2>3. rung'.style = 1 /\ rung'.pass = 1 /\ rung' \in Rungs'
    BY <1>1, <2>1, <2>2 DEF FirstRung
  <2>4. \A r \in Rungs' : r.style \in 1..Styles[t] /\ r.pass \in 1..Passes
    BY <2>2
  <2> QED
    BY <2>1, <2>3, <2>4 DEF Earlier
<1>3. LadderInOrder' /\ LadderIsHonest'
  BY <1>1, <1>2 DEF LadderInOrder, LadderIsHonest, StageInv
<1>4. DayIsFramed' /\ recentered' = recentered
  BY <1>1, RemountKeepsDay DEF StageInv, Ready, RemountMap
<1>5. ShellsFollowSelection'
  BY <1>1 DEF ShellsFollowSelection, StageInv, Key, ReachKey, shownVars, reachVars
<1> QED
  BY <1>3, <1>4, <1>5 DEF StageInv

\* What the dispatcher and the polls select leaves the ladder alone.
LEMMA ShowKeeps ==
  ASSUME StageInv, NEW d \in Day, NEW v, NEW j, NEW at, Show(d, v, j, at)
  PROVE  LadderInOrder' /\ LadderIsHonest' /\ DayIsFramed'
<1>1. UNCHANGED <<ladderVars, remounted>> /\ day' = d /\ selected' = v /\ job' = j
      /\ Frame(Ready, d, v, j, at)
  BY DEF Show
<1>2. LadderInOrder' /\ LadderIsHonest' /\ Ready' = Ready
  BY <1>1 DEF StageInv, LadderInOrder, LadderIsHonest, Ready, ladderVars, Rungs
<1>3. DayIsFramed'
  BY <1>1, <1>2, FrameKeepsDay DEF StageInv
<1> QED
  BY <1>2, <1>3

LEMMA ReachFollows ==
  ASSUME NEW j, NEW at, NEW m, Reach(j, at, m), job' = j, located' = at, minutes' = m
  PROVE  ShellsFollowSelection'
<1>1. Key' = ReachKey(j, at, m)
  BY DEF Key, ReachKey
<1> QED
  BY <1>1 DEF Reach, ShellsFollowSelection

LEMMA StageSteps == StageInv /\ [StageNext]_stageVars => StageInv'
<1> SUFFICES ASSUME StageInv, [StageNext]_stageVars PROVE StageInv'
  OBVIOUS
<1>1. CASE StyleLoads
  <2>1. LadderInOrder' /\ LadderIsHonest' /\ recentered' = recentered
    BY <1>1 DEF StyleLoads, StageInv, LadderInOrder, LadderIsHonest, Rungs, cameraVars
  <2>2. ShellsFollowSelection'
    BY <1>1 DEF StyleLoads, StageInv, ShellsFollowSelection, Key, ReachKey, shownVars, reachVars
  <2>3. CASE styleLoaded
    BY <1>1, <2>1, <2>2, <2>3 DEF StyleLoads, StageInv, DayIsFramed, Ready, cameraVars, shownVars
  <2>4. CASE ~styleLoaded
    <3>1. /\ Frame(TRUE, day, selected, job, located) /\ remounted' = remounted
          /\ day' = day /\ selected' = selected /\ job' = job /\ day \in Day
      BY <1>1, <2>4 DEF StyleLoads, shownVars, StageInv, DayIsFramed
    <3>2. Ready' = TRUE
      BY <1>1 DEF StyleLoads, Ready
    <3>3. Frame(Ready', day, selected, job, located)
      BY <3>1, <3>2
    <3>4. DayIsFramed'
      BY <3>1, <3>3, FrameKeepsDay DEF StageInv
    <3> QED
      BY <2>1, <2>2, <3>4 DEF StageInv
  <2> QED
    BY <2>3, <2>4
<1>2. CASE TimeOut
  BY <1>2, ClimbKeeps DEF TimeOut, StageInv, LadderInOrder
<1>3. CASE FatalError
  <2>1. ~mapError /\ Climb(styleLoaded) /\ lateErrors \in Nat
    BY <1>3 DEF FatalError, StageInv, LadderInOrder
  <2>2. lateErrors' \in Nat /\ (styleLoaded => lateErrors' > 0)
    <3>1. CASE mounted
      BY <1>3, <2>1, <3>1 DEF FatalError
    <3>2. CASE ~mounted
      BY <1>3, <2>1, <3>2 DEF FatalError, StageInv, LadderIsHonest
    <3> QED
      BY <3>1, <3>2
  <2> QED
    BY <2>1, <2>2, ClimbKeeps
<1>4. CASE ChangeTheme \/ RetryMap
  BY <1>4, ResetKeeps DEF ChangeTheme, RetryMap, StageInv, LadderInOrder
<1>5. CASE ChangeDay \/ SelectVan
  <2>1. PICK d \in Day : \E v : Show(d, v, job, located) /\ UNCHANGED <<recentered, reachVars>>
    BY <1>5 DEF ChangeDay, SelectVan, StageInv, DayIsFramed
  <2>2. PICK v : Show(d, v, job, located) /\ UNCHANGED <<recentered, reachVars>>
    BY <2>1
  <2>3. ShellsFollowSelection'
    BY <2>2 DEF Show, StageInv, ShellsFollowSelection, Key, ReachKey, reachVars
  <2> QED
    BY <2>2, <2>3, ShowKeeps DEF StageInv
<1>6. CASE SelectJob
  <2>1. PICK j : /\ Show(day, selected, j, located) /\ Reach(j, located, minutes)
                 /\ UNCHANGED <<minutes, recentered>>
    BY <1>6 DEF SelectJob
  <2>2. day \in Day /\ job' = j /\ located' = located
    BY <2>1 DEF StageInv, DayIsFramed, Show
  <2>3. ShellsFollowSelection'
    BY <2>1, <2>2, ReachFollows
  <2> QED
    BY <2>1, <2>2, <2>3, ShowKeeps DEF StageInv
<1>7. CASE StagePoll
  <2>1. PICK at : /\ Show(day, selected, job, at) /\ Reach(job, at, minutes)
                  /\ UNCHANGED minutes
    BY <1>7 DEF StagePoll
  <2>2. day \in Day /\ job' = job /\ located' = at /\ Frame(Ready, day, selected, job, at)
    BY <2>1 DEF StageInv, DayIsFramed, Show
  <2>3. ShellsFollowSelection'
    BY <2>1, <2>2, ReachFollows
  <2>4. ~recentered'
    <3>1. recentered' = (recentered \/ (camera' # camera
                            /\ camera' \in {<<"job", pannedJob>>, <<"van", fittedVan>>}))
      BY <1>7 DEF StagePoll
    <3>2. \/ camera' = <<"job", job>> /\ pannedJob # job
          \/ camera' = <<"day", day>>
          \/ camera' = <<"van", selected>> /\ fittedVan # selected
          \/ camera' = camera
      BY <2>2 DEF Frame, FitVan, PanJob
    <3>3. \A x, y : /\ <<"job", x>> = <<"job", y>> => x = y
                    /\ <<"van", x>> = <<"van", y>> => x = y
                    /\ <<"day", x>> # <<"job", y>> /\ <<"day", x>> # <<"van", y>>
                    /\ <<"job", x>> # <<"van", y>>
      OBVIOUS
    <3> QED
      BY <3>1, <3>2, <3>3 DEF StageInv
  <2> QED
    BY <2>1, <2>2, <2>3, <2>4, ShowKeeps DEF StageInv
<1>8. CASE ToggleReach
  <2>1. /\ UNCHANGED <<ladderVars, cameraVars, shownVars>>
        /\ minutes' = ~minutes /\ Reach(job, located, ~minutes)
    BY <1>8 DEF ToggleReach
  <2>2. ShellsFollowSelection'
    BY <2>1, ReachFollows DEF shownVars
  <2> QED
    BY <2>1, <2>2 DEF StageInv, LadderInOrder, LadderIsHonest, DayIsFramed, Ready, Rungs,
       ladderVars, cameraVars, shownVars
<1>9. CASE ReachLands \/ ReachFails
  <2>1. UNCHANGED <<ladderVars, cameraVars, shownVars, minutes>>
    BY <1>9 DEF ReachLands, ReachFails
  <2>2. ShellsFollowSelection'
    BY <1>9 DEF ReachLands, ReachFails, StageInv, ShellsFollowSelection, Key, ReachKey, shownVars
  <2> QED
    BY <2>1, <2>2 DEF StageInv, LadderInOrder, LadderIsHonest, DayIsFramed, Ready, Rungs,
       ladderVars, cameraVars, shownVars
<1>10. CASE UNCHANGED stageVars
  BY <1>10 DEF StageInv, LadderInOrder, LadderIsHonest, DayIsFramed, Ready, Rungs,
     ShellsFollowSelection, Key, ReachKey, stageVars, ladderVars, cameraVars, shownVars, reachVars
<1> QED
  BY <1>1, <1>2, <1>3, <1>4, <1>5, <1>6, <1>7, <1>8, <1>9, <1>10 DEF StageNext

\* In every reachable state of the stage, the rungs that failed are those before the one
\* tried, and the day that is framed is the day shown.
THEOREM StageInvariant == StageSpec => []StageInv
<1>1. StageInit => StageInv
  BY StageStarts
<1>2. StageInv /\ [StageNext]_stageVars => StageInv'
  BY StageSteps
<1> QED
  BY <1>1, <1>2, PTL DEF StageSpec

LEMMA StageInvIsCalm == StageInv => StageIsHonest
<1> SUFFICES ASSUME StageInv PROVE StageIsHonest
  OBVIOUS
<1>1. day # Unselected
  BY StageAssumption DEF StageInv, DayIsFramed
<1>2. CameraIsCalm
  BY <1>1 DEF StageInv, DayIsFramed, CameraIsCalm
<1> QED
  BY <1>2 DEF StageInv, StageIsHonest

\* The map draws and frames what it says it does, in every behaviour (MapLibreView.tsx,
\* roadShape.ts, basemapLadder.ts and MapSurface.tsx).
THEOREM MapStaysHonest == MapSpec => []MapIsHonest
<1>1. LinesInv /\ StageInv => MapIsHonest
  BY StageInvIsCalm DEF LinesInv, MapIsHonest, LinesAreHonest
<1> QED
  BY <1>1, LinesInvariant, StageInvariant, PTL DEF MapSpec

-----------------------------------------------------------------------------
(* CrewBoard: division, and what it makes of times *)

\* Division by a positive number: q is at most n \div d when q * d is at most n.
LEMMA DivFloor ==
  ASSUME NEW n \in Int, NEW d \in Nat \ {0}
  PROVE  /\ n \div d \in Int
         /\ \A q \in Int : d * q <= n <=> q <= n \div d
<1>1. n \div d \in Int /\ d * (n \div d) <= n /\ n < d * (n \div d) + d
  BY SMT
<1> DEFINE f == n \div d
<1> HIDE DEF f
<1>2. f \in Int /\ d * f <= n /\ n < d * f + d
  BY <1>1 DEF f
<1>3. ASSUME NEW q \in Int PROVE d * q <= n <=> q <= f
  <2>1. CASE q <= f
    <3>1. d * q <= d * f
      BY <1>2, <2>1
    <3> QED
      BY <1>2, <2>1, <3>1
  <2>2. CASE q >= f + 1
    <3>1. d * q >= d * (f + 1) /\ d * (f + 1) = d * f + d
      BY <1>2, <2>2
    <3> QED
      BY <1>2, <2>2, <3>1
  <2> QED
    BY <1>2, <2>1, <2>2
<1> QED
  BY <1>2, <1>3 DEF f

LEMMA DivGrows ==
  ASSUME NEW m \in Int, NEW n \in Int, m <= n, NEW d \in Nat \ {0}
  PROVE  m \div d <= n \div d
<1>1. m \div d \in Int /\ d * (m \div d) <= m
  BY DivFloor
<1>2. d * (m \div d) \in Int
  BY <1>1
<1>3. d * (m \div d) <= n
  BY <1>1, <1>2
<1> QED
  BY <1>1, <1>3, DivFloor

\* Times of one day are in the order of their wall clocks, and as far apart.
LEMMA SameDayClocks ==
  ASSUME NEW m \in Nat, NEW n \in Nat, DayOf(m) = DayOf(n)
  PROVE  /\ WallClock(m) \in Int /\ WallClock(n) \in Int
         /\ WallClock(n) - WallClock(m) = n - m
<1>1. DayLength \in Nat \ {0}
  BY CrewAssumption
<1>2. \A t \in Nat : t % DayLength \in Int /\ t = (DayLength * (t \div DayLength)) + (t % DayLength)
  BY <1>1, SMT
<1>3. DayLength * (m \div DayLength) \in Int /\ m \div DayLength = n \div DayLength
  BY <1>1, DivFloor DEF DayOf
<1> DEFINE f == DayLength * (m \div DayLength)
<1>4. m = f + (m % DayLength) /\ n = f + (n % DayLength) /\ f \in Int
  BY <1>2, <1>3
<1> HIDE DEF f
<1> QED
  BY <1>2, <1>4 DEF WallClock

\* Rounding to blocks keeps the order, and two parts are at most one block more than the whole.
LEMMA BlocksGrow ==
  ASSUME NEW m \in Int, NEW n \in Int, m <= n
  PROVE  InBlocks(m) \in Int /\ InBlocks(n) \in Int /\ InBlocks(m) <= InBlocks(n)
<1>1. 2 * m + BlockLength \in Int /\ 2 * n + BlockLength \in Int
      /\ 2 * m + BlockLength <= 2 * n + BlockLength /\ 2 * BlockLength \in Nat \ {0}
  BY CrewAssumption
<1> QED
  BY <1>1, DivFloor, DivGrows DEF InBlocks

LEMMA BlocksAdd ==
  ASSUME NEW m \in Int, NEW n \in Int
  PROVE  InBlocks(m) + InBlocks(n) <= InBlocks(m + n) + 1
<1> DEFINE d == 2 * BlockLength
           a == InBlocks(m)
           b == InBlocks(n)
           c == InBlocks(m + n)
<1>1. d \in Nat \ {0} /\ BlockLength \in Nat /\ d = 2 * BlockLength
  BY CrewAssumption
<1>2. a \in Int /\ b \in Int /\ c \in Int
  BY BlocksGrow
<1>3. d * a <= 2 * m + BlockLength /\ d * b <= 2 * n + BlockLength
  <2>1. \A t \in Int : 2 * t + BlockLength \in Int
    BY <1>1
  <2> HIDE DEF d
  <2>2. \A t \in Int : d * ((2 * t + BlockLength) \div d) <= 2 * t + BlockLength
    BY <1>1, <2>1, DivFloor
  <2> QED
    BY <2>2 DEF InBlocks, d
<1>4. \A q \in Int : d * q <= 2 * (m + n) + BlockLength => q <= c
  BY <1>1, DivFloor DEF InBlocks
<1> HIDE DEF a, b, c, d
<1>5. d * (a + b - 1) = d * a + d * b - d
  BY <1>1, <1>2
<1>6. d * a \in Int /\ d * b \in Int
  BY <1>1, <1>2
<1>7. d * (a + b - 1) <= 2 * (m + n) + BlockLength
  BY <1>1, <1>3, <1>5, <1>6
<1>8. a + b - 1 <= c
  BY <1>2, <1>4, <1>7
<1> QED
  BY <1>2, <1>8 DEF a, b, c

Slots == [start : Nat, end : Nat \cup {Unknown}]

\* A place is on the board, and a later start is not placed earlier.
LEMMA PlacesInOrder ==
  ASSUME NEW s \in Slots, NEW n \in Slots, DayOf(s.start) = DayOf(n.start), s.start <= n.start
  PROVE  /\ StartBlock(s) \in 0..(Blocks - 1) /\ StartBlock(n) \in 0..(Blocks - 1)
         /\ StartBlock(s) <= StartBlock(n)
<1> DEFINE a == WallClock(s.start) - DayStart
           c == WallClock(n.start) - DayStart
<1>1. a \in Int /\ c \in Int /\ a <= c
  BY SameDayClocks, CrewAssumption DEF Slots
<1> HIDE DEF a, c
<1>2. InBlocks(a) \in Int /\ InBlocks(c) \in Int /\ InBlocks(a) <= InBlocks(c)
  BY <1>1, BlocksGrow
<1>3. StartBlock(s) = Clamp(InBlocks(a), 0, Blocks - 1)
      /\ StartBlock(n) = Clamp(InBlocks(c), 0, Blocks - 1)
  BY DEF StartBlock, a, c
<1>4. Blocks \in Nat \ {0}
  BY CrewAssumption
<1> QED
  BY <1>2, <1>3, <1>4 DEF Clamp

LEMMA SpanIsShort ==
  ASSUME NEW s \in Slots
  PROVE  SpanBlocks(s) \in Int
<1>1. StartBlock(s) \in Int /\ Blocks \in Nat
  BY PlacesInOrder, CrewAssumption DEF Slots
<1>2. CASE s.end # Unknown /\ WallClock(s.end) > WallClock(s.start)
  <2>1. s.end \in Nat /\ s.start \in Nat
    BY <1>2 DEF Slots
  <2>2. WallClock(s.end) \in Int /\ WallClock(s.start) \in Int
    BY <2>1, SameDayClocks
  <2>3. InBlocks(WallClock(s.end) - WallClock(s.start)) \in Int
    BY <2>2, BlocksGrow
  <2> QED
    BY <1>1, <1>2, <2>3 DEF SpanBlocks, Clamp
<1>3. CASE ~(s.end # Unknown /\ WallClock(s.end) > WallClock(s.start))
  BY <1>3 DEF SpanBlocks
<1> QED
  BY <1>2, <1>3

\* What begins on the board day reaches into the first block of what follows it, at most.
LEMMA PlacesTouch ==
  ASSUME NEW s \in Slots, NEW n \in Slots, s.end # Unknown, s.start <= s.end, s.end <= n.start,
         DayOf(s.start) = DayOf(s.end), DayOf(s.end) = DayOf(n.start),
         WallClock(s.start) >= DayStart
  PROVE  StartBlock(s) + SpanBlocks(s) <= StartBlock(n) + 1
<1> DEFINE a == WallClock(s.start) - DayStart
           b == WallClock(s.end) - WallClock(s.start)
           c == WallClock(n.start) - DayStart
           A == InBlocks(a)
           B == InBlocks(b)
           C == InBlocks(c)
<1>1. s.start \in Nat /\ s.end \in Nat /\ n.start \in Nat /\ s.start <= n.start
  BY DEF Slots
<1>2. /\ WallClock(s.start) \in Int /\ WallClock(s.end) \in Int /\ WallClock(n.start) \in Int
      /\ WallClock(s.end) - WallClock(s.start) = s.end - s.start
      /\ WallClock(n.start) - WallClock(s.end) = n.start - s.end
  BY <1>1, SameDayClocks
<1>3. a \in Int /\ b \in Int /\ c \in Int /\ a >= 0 /\ b >= 0 /\ a + b <= c
  BY <1>1, <1>2, CrewAssumption
<1>4. Blocks \in Nat \ {0}
  BY CrewAssumption
<1>5. StartBlock(s) = Clamp(A, 0, Blocks - 1) /\ StartBlock(n) = Clamp(C, 0, Blocks - 1)
  BY DEF StartBlock
<1>6. SpanBlocks(s) = 1 \/ SpanBlocks(s) = Clamp(B, 1, Blocks - StartBlock(s))
  BY DEF SpanBlocks
<1>7. StartBlock(s) <= StartBlock(n)
      /\ StartBlock(s) \in 0..(Blocks - 1) /\ StartBlock(n) \in 0..(Blocks - 1)
  BY <1>1, PlacesInOrder
<1> HIDE DEF a, b, c
<1>8. A \in Int /\ B \in Int /\ C \in Int /\ A >= 0 /\ A + B <= C + 1
  <2>1. A \in Int /\ B \in Int /\ C \in Int /\ InBlocks(0) <= A /\ InBlocks(0) \in Int
    BY <1>3, BlocksGrow
  <2>2. InBlocks(0) >= 0
    <3>1. BlockLength \in Nat \ {0} /\ 2 * 0 + BlockLength = BlockLength
          /\ 2 * BlockLength \in Nat \ {0} /\ (2 * BlockLength) * 0 <= BlockLength
      BY CrewAssumption
    <3> QED
      BY <3>1, DivFloor DEF InBlocks
  <2>3. A + B <= InBlocks(a + b) + 1
    BY <1>3, BlocksAdd
  <2>4. InBlocks(a + b) <= C /\ InBlocks(a + b) \in Int
    BY <1>3, BlocksGrow
  <2> HIDE DEF A, B, C
  <2> QED
    BY <2>1, <2>2, <2>3, <2>4
<1> HIDE DEF A, B, C
<1> QED
  BY <1>4, <1>5, <1>6, <1>7, <1>8 DEF Clamp

-----------------------------------------------------------------------------
(* CrewBoard: the inductive invariant *)

VisitRow == [staff : Member \cup {Unknown}, slot : VisitSlot]
PlaceRow == [start : Int, span : Int, day : Int]
ShownRow == [row : Member \cup {Unknown}, place : PlaceRow, running : BOOLEAN,
             status : {"scheduled", "active", "complete", "unassigned"}]
FixRow   == [from : Member, site : Site, presence : {"on_job", "on_break"}]

Distinct(s) == \A i, k \in 1..Len(s) : s[i] = s[k] => i = k

CrewTyped ==
    /\ roster \in Seq(Member) /\ Distinct(roster)
    /\ visits \in [CrewJob -> VisitRow \cup {Unknown}]
    /\ read \in [CrewJob -> VisitRow \cup {Unknown}]
    /\ state \in [CrewJob -> {"scheduled", "in_progress", "completed"}]
    /\ techs \in Seq(Member) /\ Len(techs) <= Cardinality(Member)
    /\ shown \in [CrewJob -> ShownRow \cup {Unknown}]
    /\ van \in [Member -> Vans \cup {Unknown}]
    /\ pins \in [Vans -> FixRow \cup {Unknown}]
    /\ trail \in [Vans -> Seq(FixRow)] /\ \A v \in Vans : Len(trail[v]) <= TrailCap

\* A flag is of jobs that are shown, and true of what is shown of them.
FlagHolds(f, j, k) ==
    /\ shown[j] \in ShownRow /\ shown[k] \in ShownRow
    /\ \/ f = <<"unassigned", <<j>>>> /\ shown[j].row = Unknown
       \/ f = <<"overdue", <<j>>>> /\ (shown[j].status # "complete" \/ j \in heard)
       \/ /\ f = <<"travel_buffer", <<j, k>>>>
          /\ shown[j].row = shown[k].row /\ shown[j].place.day = shown[k].place.day
          /\ shown[j].place.start <= shown[k].place.start
FlagsHold == \A f \in flags : \E j, k \in CrewJob : FlagHolds(f, j, k)

\* Until somebody leaves, the board's technicians are the first of the roster, and until a
\* device has another's van, a van and its pin are those of its place on the roster.
VansAgree ==
    ~shuffled =>
        /\ Len(techs) <= Len(roster) /\ \A i \in 1..Len(techs) : techs[i] = roster[i]
        /\ misfits = {} =>
              /\ \A m \in Member : van[m] # Unknown => van[m] \in 1..Len(roster) /\ roster[van[m]] = m
              /\ \A v \in Vans : pins[v] # Unknown =>
                    /\ v \in 1..Len(roster) /\ pins[v].from = roster[v] /\ van[roster[v]] = v
                    /\ Last(trail[v]) = pins[v] /\ roster[v] \in crewOnShift \cup unheard

CrewInv == CrewTyped /\ FlagsHold /\ RowsFit /\ VansAgree

\* A roster without repetition is no longer than there are members.
LEMMA RosterFits ==
  ASSUME NEW s \in Seq(Member), Distinct(s)
  PROVE  Len(s) <= Cardinality(Member)
<1>1. s \in Injection(1..Len(s), Member)
  <2>1. s \in [1..Len(s) -> Member]
    OBVIOUS
  <2> QED
    BY <2>1 DEF Distinct, Injection, IsInjective
<1>2. Cardinality(1..Len(s)) = Len(s)
  <2>1. Len(s) \in Nat /\ Len(s) \in Int /\ 1 \in Int
    OBVIOUS
  <2>2. Cardinality(1..Len(s)) = IF 1 > Len(s) THEN 0 ELSE Len(s) - 1 + 1
    BY <2>1, FS_Interval
  <2> QED
    BY <2>1, <2>2
<1> QED
  BY <1>1, <1>2, FS_Injection, CrewAssumption

LEMMA CrewStarts == CrewInit => CrewInv
<1> SUFFICES ASSUME CrewInit PROVE CrewInv
  OBVIOUS
<1> USE DEF CrewInit
<1>1. roster \in Seq(Member) /\ Distinct(roster)
  BY CrewAssumption DEF Distinct
<1>2. CrewTyped
  <2>1. Cardinality(Member) \in Nat
    BY CrewAssumption, FS_CardinalityType
  <2>2. trail \in [Vans -> Seq(FixRow)] /\ \A v \in Vans : Len(trail[v]) <= TrailCap
    BY CrewAssumption
  <2>3. techs \in Seq(Member) /\ Len(techs) <= Cardinality(Member)
    BY <2>1
  <2> QED
    BY <1>1, <2>2, <2>3 DEF CrewTyped
<1>3. RowsFit
  BY DEF RowsFit, Rows
<1>4. VansAgree
  <2>1. \A m \in Member : van[m] = Unknown
    OBVIOUS
  <2>2. \A v \in Vans : pins[v] = Unknown
    OBVIOUS
  <2>3. Len(techs) = 0 /\ Len(roster) \in Nat
    BY <1>1
  <2> QED
    BY <2>1, <2>2, <2>3 DEF VansAgree
<1> QED
  BY <1>2, <1>3, <1>4 DEF CrewInv, FlagsHold

-----------------------------------------------------------------------------
(* CrewBoard: a payload becomes a board *)

LEMMA LeastExists ==
  ASSUME NEW S \in SUBSET Nat, S # {}
  PROVE  \E h \in S : \A k \in S : h <= k
<1>1. PICK h \in S : \A k \in S : <<k, h>> \notin OpToRel(<, Nat)
  BY NatLessThanWellFounded, WFMin
<1>2. ASSUME NEW k \in S PROVE h <= k
  <2>1. h \in Nat /\ k \in Nat
    OBVIOUS
  <2>2. ~(k < h)
    BY <1>1, <2>1 DEF OpToRel
  <2> QED
    BY <2>1, <2>2
<1> QED
  BY <1>2

\* The row of a job is that of a member of its assignee's name.
LEMMA RowIsOfItsName ==
  ASSUME CrewTyped, NEW j \in CrewJob
  PROVE  /\ TechForJob(j) \in Member \cup {Unknown}
         /\ TechForJob(j) # Unknown =>
               /\ Staffed(j) /\ TechForJob(j) \in ToSet(roster)
               /\ NameOf[TechForJob(j)] = NameOf[visits[j].staff]
<1> DEFINE m == visits[j].staff
           S == Namesakes(m)
           i == CHOOSE h \in S : \A k \in S : h <= k
<1>1. roster \in Seq(Member) /\ DOMAIN roster = 1..Len(roster) /\ Len(roster) \in Nat
  BY DEF CrewTyped
<1>2. CASE TechForJob(j) = Unknown
  BY <1>2
<1>3. CASE Staffed(j) /\ m \in ToSet(roster) /\ TechForJob(j) = m
  BY <1>1, <1>3 DEF ToSet
<1>4. CASE Staffed(j) /\ S # {} /\ TechForJob(j) = roster[i]
  <2>1. S \subseteq 1..Len(roster) /\ S \subseteq Nat
    BY <1>1 DEF Namesakes
  <2> HIDE DEF S
  <2>3. \E h \in S : \A k \in S : h <= k
    BY <1>4, <2>1, LeastExists
  <2>4. i \in S
    BY <2>3
  <2>5. i \in 1..Len(roster) /\ NameOf[roster[i]] = NameOf[m]
    BY <2>1, <2>4 DEF S, Namesakes
  <2> HIDE DEF i
  <2> QED
    BY <1>1, <1>4, <2>5 DEF ToSet
<1> QED
  BY <1>2, <1>3, <1>4 DEF TechForJob

LEMMA VisitHasSlot ==
  ASSUME CrewTyped, NEW j \in CrewJob, visits[j] # Unknown
  PROVE  visits[j] \in VisitRow /\ visits[j].slot \in Slots
  BY CrewAssumption DEF CrewTyped, VisitRow, Slots

LEMMA AdaptedIsRow ==
  ASSUME CrewTyped, NEW j \in CrewJob, NEW now \in Clock
  PROVE  Adapted(j, now) \in ShownRow
<1>1. Placed(j, now) \in PlaceRow
  <2>1. \A t \in Nat : DayOf(t) \in Int
    BY DivFloor, CrewAssumption DEF DayOf
  <2>2. CASE visits[j] = Unknown
    <3>1. ((j - 1) * 5) % 16 \in Int
      BY CrewAssumption DEF CrewJob
    <3> QED
      BY <2>1, <2>2, <3>1, CrewAssumption DEF Placed, PlaceRow
  <2>3. CASE visits[j] # Unknown
    <3>1. visits[j].slot \in Slots
      BY <2>3, VisitHasSlot
    <3>2. StartBlock(visits[j].slot) \in Int /\ SpanBlocks(visits[j].slot) \in Int
      BY <3>1, PlacesInOrder, SpanIsShort DEF Slots
    <3>3. DayOf(visits[j].slot.start) \in Int
      BY <2>1, <3>1 DEF Slots
    <3> QED
      BY <2>3, <3>2, <3>3 DEF Placed, PlaceRow
  <2> QED
    BY <2>2, <2>3
<1>2. BoardStatus(state[j]) \in {"scheduled", "active", "complete"}
  BY DEF BoardStatus, CrewTyped
<1> QED
  BY <1>1, <1>2, RowIsOfItsName DEF Adapted, ShownRow

\* What a payload flags is true of the board made of it.
LEMMA FlagsAreTrue ==
  ASSUME CrewTyped, NEW now \in Clock, NEW f \in NeedsAttention(Listed, now),
         NEW cards, \A j \in Listed : cards[j] = Adapted(j, now)
  PROVE  \E j, k \in CrewJob :
            /\ cards[j] \in ShownRow /\ cards[k] \in ShownRow
            /\ \/ f = <<"unassigned", <<j>>>> /\ cards[j].row = Unknown
               \/ f = <<"overdue", <<j>>>> /\ cards[j].status # "complete"
               \/ /\ f = <<"travel_buffer", <<j, k>>>>
                  /\ cards[j].row = cards[k].row /\ cards[j].place.day = cards[k].place.day
                  /\ cards[j].place.start <= cards[k].place.start
<1>1. \A j \in Listed : j \in CrewJob /\ cards[j] \in ShownRow /\ cards[j] = Adapted(j, now)
  BY AdaptedIsRow DEF Listed
<1>2. ASSUME NEW j \in Listed, f = <<"overdue", <<j>>>>, IsStillOpen(j)
      PROVE  cards[j].status # "complete"
  <2>1. BoardStatus(state[j]) # "complete" /\ state[j] # "completed"
    BY <1>1, <1>2 DEF BoardStatus, CrewTyped, IsStillOpen
  <2> QED
    <3>1. cards[j] = Adapted(j, now)
      BY <1>1
    <3>2. Adapted(j, now).status \in {BoardStatus(state[j]), "unassigned"}
      BY DEF Adapted
    <3> QED
      BY <2>1, <3>1, <3>2
<1>3. ASSUME NEW j \in Listed, ~Staffed(j) PROVE cards[j].row = Unknown
  <2>1. cards[j] = Adapted(j, now) /\ TechForJob(j) = Unknown
    BY <1>1, <1>3 DEF TechForJob
  <2> QED
    BY <2>1 DEF Adapted
<1>4. ASSUME NEW j \in Listed, NEW k \in Listed, Tight(Listed, j, k)
      PROVE  /\ cards[j].row = cards[k].row /\ cards[j].place.day = cards[k].place.day
             /\ cards[j].place.start <= cards[k].place.start
  <2>1. /\ Staffed(j) /\ Staffed(k) /\ visits[j].staff = visits[k].staff /\ SameDay(j, k)
        /\ visits[j].slot.start <= visits[k].slot.start
    <3>1. /\ Staffed(j) /\ Staffed(k) /\ visits[j].staff = visits[k].staff /\ SameDay(j, k)
          /\ \/ visits[j].slot.start < visits[k].slot.start
             \/ visits[j].slot.start = visits[k].slot.start
      BY <1>4 DEF Tight, Consecutive, Before
    <3>2. visits[j].slot.start \in Nat /\ visits[k].slot.start \in Nat
      BY <1>1, <3>1, VisitHasSlot DEF Staffed, Slots
    <3> QED
      BY <3>1, <3>2
  <2>2. visits[j] # Unknown /\ visits[k] # Unknown /\ visits[j].slot \in Slots /\ visits[k].slot \in Slots
    BY <1>1, <2>1, VisitHasSlot DEF Staffed
  <2>3. TechForJob(j) = TechForJob(k)
    BY <2>1 DEF TechForJob
  <2>4. StartBlock(visits[j].slot) <= StartBlock(visits[k].slot)
    BY <2>1, <2>2, PlacesInOrder DEF SameDay
  <2> QED
    <3>1. cards[j] = Adapted(j, now) /\ cards[k] = Adapted(k, now)
      BY <1>1
    <3>2. cards[j].row = TechForJob(j) /\ cards[k].row = TechForJob(k)
      BY <3>1 DEF Adapted
    <3>3. /\ cards[j].place = Placed(j, now) /\ cards[k].place = Placed(k, now)
      BY <3>1 DEF Adapted
    <3> QED
      BY <2>1, <2>2, <2>3, <2>4, <3>2, <3>3 DEF Placed, SameDay
<1>5. \/ \E j \in Listed : f = <<"overdue", <<j>>>> /\ IsStillOpen(j)
      \/ \E j \in Listed : f = <<"unassigned", <<j>>>> /\ ~Staffed(j)
      \/ \E j, k \in Listed : f = <<"travel_buffer", <<j, k>>>> /\ Tight(Listed, j, k)
  <2>1. \/ \E j \in Listed : f = <<"overdue", <<j>>>> /\ IsStillOpen(j)
        \/ \E j \in Listed : f = <<"unassigned", <<j>>>> /\ ~Staffed(j)
        \/ \E p \in Listed \X Listed : f = <<"travel_buffer", p>> /\ Tight(Listed, p[1], p[2])
    BY DEF NeedsAttention
  <2>2. \A p \in Listed \X Listed : p[1] \in Listed /\ p[2] \in Listed /\ p = <<p[1], p[2]>>
    OBVIOUS
  <2> QED
    BY <2>1, <2>2
<1> QED
  BY <1>1, <1>2, <1>3, <1>4, <1>5

LEMMA PollKeeps ==
  ASSUME CrewInv, NEW now \in Clock, PollBoard(now)
  PROVE  CrewInv'
<1>1. /\ techs' = roster /\ read' = visits /\ heard' = {} /\ flags' = NeedsAttention(Listed, now)
      /\ shown' = [j \in CrewJob |-> IF j \in Listed THEN Adapted(j, now) ELSE Unknown]
      /\ UNCHANGED <<recordVars, crewVanVars, shuffled>>
  BY DEF PollBoard
<1>2. CrewTyped
  BY DEF CrewInv
<1>3. \A j \in Listed : j \in CrewJob /\ Adapted(j, now) \in ShownRow /\ shown'[j] = Adapted(j, now)
  BY <1>1, <1>2, AdaptedIsRow DEF Listed
<1>4. CrewTyped'
  <2>1. shown' \in [CrewJob -> ShownRow \cup {Unknown}]
    BY <1>1, <1>3
  <2>2. Len(roster) <= Cardinality(Member)
    BY <1>2, RosterFits DEF CrewTyped
  <2> QED
    BY <1>1, <1>2, <2>1, <2>2 DEF CrewTyped, recordVars, crewVanVars
<1>5. FlagsHold'
  <2>1. ASSUME NEW f \in flags' PROVE \E j, k \in CrewJob : FlagHolds(f, j, k)'
    <3>1. f \in NeedsAttention(Listed, now)
      BY <1>1
    <3>2. \E j, k \in CrewJob :
            /\ shown'[j] \in ShownRow /\ shown'[k] \in ShownRow
            /\ \/ f = <<"unassigned", <<j>>>> /\ shown'[j].row = Unknown
               \/ f = <<"overdue", <<j>>>> /\ shown'[j].status # "complete"
               \/ /\ f = <<"travel_buffer", <<j, k>>>>
                  /\ shown'[j].row = shown'[k].row /\ shown'[j].place.day = shown'[k].place.day
                  /\ shown'[j].place.start <= shown'[k].place.start
      BY <1>2, <1>3, <3>1, FlagsAreTrue
    <3> QED
      BY <3>2 DEF FlagHolds
  <2> QED
    BY <2>1 DEF FlagsHold
<1>6. RowsFit'
  <2>1. ASSUME NEW j \in Rows'
        PROVE  /\ j \in CrewJob /\ read'[j] = visits[j] /\ visits[j] # Unknown
               /\ visits[j].slot \in Slots /\ shown'[j] = Adapted(j, now)
               /\ shown'[j].place.start = StartBlock(visits[j].slot)
               /\ shown'[j].place.span = SpanBlocks(visits[j].slot)
               /\ shown'[j].row = TechForJob(j)
    <3>1. j \in Listed /\ j \in CrewJob /\ read'[j] = visits[j] /\ visits[j] # Unknown
      BY <1>1 DEF Rows
    <3>2. visits[j].slot \in Slots
      BY <1>2, <3>1, VisitHasSlot
    <3> QED
      BY <1>3, <3>1, <3>2 DEF Adapted, Placed
  <2>2. ASSUME NEW j \in Rows', shown'[j].row # Unknown
        PROVE  /\ shown'[j].row \in ToSet(techs')
               /\ NameOf[shown'[j].row] = NameOf[read'[j].staff]
    BY <1>1, <1>2, <2>1, <2>2, RowIsOfItsName
  <2>3. ASSUME NEW j \in Rows', NEW k \in Rows', NEW s, NEW n,
               s = read'[j].slot, n = read'[k].slot,
               s.end # Unknown, s.start <= s.end, s.end <= n.start,
               DayOf(s.start) = DayOf(s.end), DayOf(s.end) = DayOf(n.start)
        PROVE  /\ shown'[j].place.start <= shown'[k].place.start
               /\ WallClock(s.start) >= DayStart =>
                     shown'[j].place.start + shown'[j].place.span <= shown'[k].place.start + 1
    <3>1. s \in Slots /\ n \in Slots
      BY <2>1, <2>3
    <3>2. shown'[j].place.start = StartBlock(s) /\ shown'[j].place.span = SpanBlocks(s)
          /\ shown'[k].place.start = StartBlock(n)
      BY <2>1, <2>3
    <3>3. s.start <= n.start /\ DayOf(s.start) = DayOf(n.start)
      BY <2>3, <3>1 DEF Slots
    <3>4. StartBlock(s) <= StartBlock(n)
      BY <3>1, <3>3, PlacesInOrder
    <3>5. WallClock(s.start) >= DayStart => StartBlock(s) + SpanBlocks(s) <= StartBlock(n) + 1
      BY <2>3, <3>1, PlacesTouch
    <3> QED
      BY <3>2, <3>4, <3>5
  <2> QED
    BY <2>2, <2>3 DEF RowsFit
<1>7. VansAgree'
  BY <1>1, <1>2 DEF VansAgree, CrewInv, CrewTyped, recordVars, crewVanVars
<1> QED
  BY <1>4, <1>5, <1>6, <1>7 DEF CrewInv

-----------------------------------------------------------------------------
(* CrewBoard: the other steps *)

\* A status frame changes the status and nothing that a row is placed by.
LEMMA ToldKeeps ==
  ASSUME CrewInv, NEW j \in CrewJob, Told(j),
         state'[j] \in {"scheduled", "in_progress", "completed"}
  PROVE  /\ UNCHANGED <<techs, read>> /\ shown' \in [CrewJob -> ShownRow \cup {Unknown}]
         /\ FlagsHold' /\ RowsFit'
<1>1. UNCHANGED <<techs, flags, read>>
  BY DEF Told, boardVars
<1>2. CASE UNCHANGED boardVars
  BY <1>2 DEF boardVars, CrewInv, CrewTyped, FlagsHold, FlagHolds, RowsFit, Rows
<1>3. CASE /\ shown[j] # Unknown /\ heard' = heard \cup {j}
           /\ shown' = [shown EXCEPT ![j].status = BoardStatus(state'[j]),
                                     ![j].running = state'[j] = "in_progress"]
  <2>1. shown \in [CrewJob -> ShownRow \cup {Unknown}] /\ shown[j] \in ShownRow
    BY <1>3 DEF CrewInv, CrewTyped
  <2>2. BoardStatus(state'[j]) \in {"scheduled", "active", "complete"}
    BY DEF BoardStatus
  <2>3. /\ shown' \in [CrewJob -> ShownRow \cup {Unknown}] /\ shown'[j] \in ShownRow
        /\ shown'[j].row = shown[j].row /\ shown'[j].place = shown[j].place
        /\ \A k \in CrewJob : k # j => shown'[k] = shown[k]
    <3>1. shown'[j] = [shown[j] EXCEPT !.status = BoardStatus(state'[j]),
                                       !.running = state'[j] = "in_progress"]
      BY <1>3, <2>1
    <3>2. (state'[j] = "in_progress") \in BOOLEAN
      OBVIOUS
    <3>3. shown'[j] \in ShownRow /\ shown'[j].row = shown[j].row
          /\ shown'[j].place = shown[j].place
      BY <2>1, <2>2, <3>1, <3>2 DEF ShownRow
    <3>4. DOMAIN shown' = CrewJob /\ \A k \in CrewJob : k # j => shown'[k] = shown[k]
      BY <1>3, <2>1
    <3>5. shown' = [k \in CrewJob |-> shown'[k]]
      BY <1>3, <2>1
    <3> QED
      BY <2>1, <3>3, <3>4, <3>5
  <2>4. ASSUME NEW f \in flags, NEW h \in CrewJob, NEW k \in CrewJob, FlagHolds(f, h, k)
        PROVE  FlagHolds(f, h, k)'
    <3>1. /\ shown'[h] \in ShownRow /\ shown'[k] \in ShownRow
          /\ shown'[h].row = shown[h].row /\ shown'[k].row = shown[k].row
          /\ shown'[h].place = shown[h].place /\ shown'[k].place = shown[k].place
      BY <2>3, <2>4 DEF FlagHolds
    <3>2. shown[h].status # "complete" \/ h \in heard =>
              shown'[h].status # "complete" \/ h \in heard'
      BY <1>3, <2>3
    <3> QED
      BY <2>4, <3>1, <3>2 DEF FlagHolds
  <2>5. FlagsHold'
    BY <1>1, <2>4 DEF CrewInv, FlagsHold
  <2>6. \A k \in Rows' : k \in Rows /\ shown'[k].row = shown[k].row
                         /\ shown'[k].place = shown[k].place /\ read'[k] = read[k]
    BY <1>1, <1>3, <2>3 DEF Rows
  <2>7. RowsFit'
    BY <1>1, <2>6 DEF CrewInv, RowsFit
  <2> QED
    BY <1>1, <2>3, <2>5, <2>7
<1> QED
  BY <1>1, <1>2, <1>3 DEF Told

LEMMA PlaceIsTheirs ==
  ASSUME CrewTyped, NEW m \in ToSet(roster)
  PROVE  PlaceOf(roster, m) \in 1..Len(roster) /\ roster[PlaceOf(roster, m)] = m
<1>1. \E i \in 1..Len(roster) : roster[i] = m
  BY DEF ToSet, CrewTyped
<1> QED
  BY <1>1 DEF PlaceOf

LEMMA JoinKeeps ==
  ASSUME CrewInv, NEW m \in Member, Join(m)
  PROVE  CrewInv'
<1>1. /\ m \notin ToSet(roster) /\ roster' = Append(roster, m)
      /\ UNCHANGED <<visits, state, boardVars, crewVanVars, shuffled>>
  BY DEF Join
<1>2. roster \in Seq(Member) /\ Len(roster) \in Nat
  BY DEF CrewInv, CrewTyped
<1>3. /\ roster' \in Seq(Member) /\ Len(roster') = Len(roster) + 1
      /\ \A i \in 1..Len(roster) : roster'[i] = roster[i]
      /\ roster'[Len(roster) + 1] = m
  BY <1>1, <1>2
<1>4. Distinct(roster')
  <2>1. \A i \in 1..Len(roster) : roster[i] # m
    BY <1>1, <1>2 DEF ToSet
  <2>2. \A i, k \in 1..Len(roster) : roster[i] = roster[k] => i = k
    BY DEF Distinct, CrewInv, CrewTyped
  <2>3. \A i \in 1..Len(roster') : i \in 1..Len(roster) \/ i = Len(roster) + 1
    BY <1>2, <1>3
  <2>4. ASSUME NEW i \in 1..Len(roster'), NEW k \in 1..Len(roster'), roster'[i] = roster'[k]
        PROVE  i = k
    BY <1>3, <2>1, <2>2, <2>3, <2>4
  <2> QED
    BY <2>4 DEF Distinct
<1>5. CrewTyped'
  BY <1>1, <1>3, <1>4 DEF CrewInv, CrewTyped, boardVars, crewVanVars
<1>6. FlagsHold' /\ RowsFit'
  BY <1>1 DEF CrewInv, boardVars, FlagsHold, FlagHolds, RowsFit, Rows
<1>7. VansAgree'
  <2> SUFFICES ASSUME ~shuffled' PROVE VansAgree'
    BY DEF VansAgree
  <2>1. ~shuffled /\ UNCHANGED <<techs, misfits, van, pins, trail, crewOnShift, unheard>>
    BY <1>1 DEF boardVars, crewVanVars
  <2>2. techs \in Seq(Member) /\ Len(techs) \in Nat
    BY DEF CrewInv, CrewTyped
  <2> QED
    BY <1>2, <1>3, <2>1, <2>2 DEF VansAgree, CrewInv
<1> QED
  BY <1>5, <1>6, <1>7 DEF CrewInv

LEMMA LeaveKeeps ==
  ASSUME CrewInv, NEW m \in Member, LeaveCompany(m)
  PROVE  CrewInv'
<1> DEFINE i == PlaceOf(roster, m)
<1>1. /\ m \in ToSet(roster) /\ roster' = RemoveAt(roster, i) /\ shuffled' = TRUE
      /\ UNCHANGED <<visits, state, boardVars, van, pins, trail, misfits, unheard>>
  BY DEF LeaveCompany
<1>2. roster \in Seq(Member) /\ Len(roster) \in Nat /\ i \in 1..Len(roster)
  BY <1>1, PlaceIsTheirs DEF CrewInv, CrewTyped
<1> HIDE DEF i
<1>3. /\ roster' \in Seq(Member) /\ Len(roster') = Len(roster) - 1
      /\ \A k \in 1..Len(roster') : roster'[k] = IF k < i THEN roster[k] ELSE roster[k + 1]
  <2> DEFINE a == SubSeq(roster, 1, i - 1)
             b == SubSeq(roster, i + 1, Len(roster))
  <2>1. roster' = a \o b
    BY <1>1 DEF RemoveAt
  <2>2. /\ a \in Seq(Member) /\ Len(a) = i - 1
        /\ \A k \in 1..(i - 1) : a[k] = roster[k]
    BY <1>2
  <2>3. /\ b \in Seq(Member) /\ Len(b) = Len(roster) - i
        /\ \A k \in 1..(Len(roster) - i) : b[k] = roster[i + k]
    BY <1>2
  <2> HIDE DEF a, b
  <2>4. /\ a \o b \in Seq(Member) /\ Len(a \o b) = Len(roster) - 1
        /\ \A k \in 1..(Len(roster) - 1) :
              (a \o b)[k] = IF k <= Len(a) THEN a[k] ELSE b[k - Len(a)]
    <3>1. Len(a) \in Nat /\ Len(b) \in Nat /\ Len(a) + Len(b) = Len(roster) - 1
      BY <1>2, <2>2, <2>3
    <3>2. a \o b \in Seq(Member) /\ Len(a \o b) = Len(a) + Len(b)
      BY <2>2, <2>3
    <3>3. \A k \in 1..(Len(a) + Len(b)) :
              (a \o b)[k] = IF k <= Len(a) THEN a[k] ELSE b[k - Len(a)]
      BY <2>2, <2>3
    <3> QED
      BY <3>1, <3>2, <3>3
  <2>5. ASSUME NEW k \in 1..(Len(roster) - 1)
        PROVE  (a \o b)[k] = IF k < i THEN roster[k] ELSE roster[k + 1]
    <3>1. CASE k < i
      BY <1>2, <2>2, <2>4, <3>1
    <3>2. CASE ~(k < i)
      <4>1. k - Len(a) \in 1..(Len(roster) - i) /\ i + (k - Len(a)) = k + 1
        BY <1>2, <2>2, <3>2
      <4> QED
        BY <1>2, <2>2, <2>3, <2>4, <3>2, <4>1
    <3> QED
      BY <3>1, <3>2
  <2> QED
    BY <2>1, <2>4, <2>5
<1>4. Distinct(roster')
  <2>1. \A h, k \in 1..Len(roster) : roster[h] = roster[k] => h = k
    BY DEF Distinct, CrewInv, CrewTyped
  <2>2. \A k \in 1..Len(roster') :
            k \in 1..Len(roster) /\ k + 1 \in 1..Len(roster) /\ k \in Int
    BY <1>2, <1>3
  <2>3. ASSUME NEW h \in 1..Len(roster'), NEW k \in 1..Len(roster'), roster'[h] = roster'[k]
        PROVE  h = k
    <3>1. CASE h < i /\ k < i
      BY <1>3, <2>1, <2>2, <2>3, <3>1
    <3>2. CASE ~(h < i) /\ ~(k < i)
      BY <1>3, <2>1, <2>2, <2>3, <3>2
    <3>3. CASE h < i /\ ~(k < i)
      <4>1. h = k + 1
        BY <1>3, <2>1, <2>2, <2>3, <3>3
      <4> QED
        BY <1>2, <2>2, <3>3, <4>1
    <3>4. CASE ~(h < i) /\ k < i
      <4>1. h + 1 = k
        BY <1>3, <2>1, <2>2, <2>3, <3>4
      <4> QED
        BY <1>2, <2>2, <3>4, <4>1
    <3> QED
      BY <3>1, <3>2, <3>3, <3>4
  <2> QED
    BY <2>3 DEF Distinct
<1>5. CrewTyped'
  BY <1>1, <1>3, <1>4 DEF CrewInv, CrewTyped, boardVars
<1>6. FlagsHold' /\ RowsFit'
  BY <1>1 DEF CrewInv, boardVars, FlagsHold, FlagHolds, RowsFit, Rows
<1> QED
  BY <1>1, <1>5, <1>6 DEF CrewInv, VansAgree

\* The newest fixes of a trail end with the one just added.
LEMMA TrailKeepsNewest ==
  ASSUME NEW s \in Seq(FixRow), Len(s) <= TrailCap, NEW fix \in FixRow
  PROVE  /\ Newest(Append(s, fix)) \in Seq(FixRow) /\ Len(Newest(Append(s, fix))) <= TrailCap
         /\ Last(Newest(Append(s, fix))) = fix
<1>1. /\ Append(s, fix) \in Seq(FixRow) /\ Len(Append(s, fix)) = Len(s) + 1
      /\ Append(s, fix)[Len(s) + 1] = fix /\ Len(s) \in Nat
  OBVIOUS
<1>2. TrailCap \in Nat \ {0}
  BY CrewAssumption
<1> DEFINE t == Append(s, fix)
<1> HIDE DEF t
<1>3. CASE Len(t) > TrailCap
  <2>1. /\ Tail(t) \in Seq(FixRow) /\ Len(Tail(t)) = Len(t) - 1
        /\ \A k \in 1..(Len(t) - 1) : Tail(t)[k] = t[k + 1]
    BY <1>1, <1>2, <1>3 DEF t
  <2> QED
    BY <1>1, <1>2, <1>3, <2>1 DEF Newest, Last, t
<1>4. CASE ~(Len(t) > TrailCap)
  BY <1>1, <1>2, <1>4 DEF Newest, Last, t
<1> QED
  BY <1>3, <1>4

LEMMA PingKeeps ==
  ASSUME CrewInv, NEW m \in Member, NEW v \in Vans, NEW site \in Site,
         NEW presence \in {"on_job", "on_break"}, Ping(m, v, site, presence)
  PROVE  CrewInv'
<1> DEFINE fix == [from |-> m, site |-> site, presence |-> presence]
<1>1. /\ m \in ToSet(roster) /\ van[m] \in {Unknown, v}
      /\ van' = [van EXCEPT ![m] = v] /\ crewOnShift' = crewOnShift \cup {m}
      /\ misfits' = IF v = PlaceOf(roster, m) THEN misfits ELSE misfits \cup {m}
      /\ \/ /\ pins' = [pins EXCEPT ![v] = fix]
            /\ trail' = [trail EXCEPT ![v] = Newest(Append(@, fix))]
         \/ UNCHANGED <<pins, trail>>
      /\ UNCHANGED <<recordVars, boardVars, unheard, shuffled>>
  BY DEF Ping
<1>2. fix \in FixRow /\ fix.from = m
  BY DEF FixRow
<1> HIDE DEF fix
<1>3. /\ trail[v] \in Seq(FixRow) /\ Len(trail[v]) <= TrailCap
      /\ pins \in [Vans -> FixRow \cup {Unknown}] /\ trail \in [Vans -> Seq(FixRow)]
      /\ van \in [Member -> Vans \cup {Unknown}]
  BY DEF CrewInv, CrewTyped
<1> DEFINE newest == Newest(Append(trail[v], fix))
<1>4. newest \in Seq(FixRow) /\ Len(newest) <= TrailCap /\ Last(newest) = fix
  BY <1>2, <1>3, TrailKeepsNewest
<1> HIDE DEF newest
<1>5. \/ /\ pins' = [pins EXCEPT ![v] = fix] /\ trail' = [trail EXCEPT ![v] = newest]
      \/ UNCHANGED <<pins, trail>>
  BY <1>1, <1>3 DEF newest
<1>6. CrewTyped'
  <2>1. /\ van' \in [Member -> Vans \cup {Unknown}] /\ pins' \in [Vans -> FixRow \cup {Unknown}]
        /\ trail' \in [Vans -> Seq(FixRow)] /\ \A w \in Vans : Len(trail'[w]) <= TrailCap
    <3>1. \A w \in Vans : Len(trail[w]) <= TrailCap
      BY DEF CrewInv, CrewTyped
    <3>2. CASE UNCHANGED <<pins, trail>>
      BY <1>1, <1>3, <3>1, <3>2
    <3>3. CASE pins' = [pins EXCEPT ![v] = fix] /\ trail' = [trail EXCEPT ![v] = newest]
      <4>1. \A w \in Vans : trail'[w] = IF w = v THEN newest ELSE trail[w]
        BY <1>3, <3>3
      <4> QED
        BY <1>1, <1>2, <1>3, <1>4, <3>1, <3>3, <4>1
    <3> QED
      BY <1>5, <3>2, <3>3
  <2> QED
    BY <1>1, <2>1 DEF CrewInv, CrewTyped, recordVars, boardVars
<1>7. FlagsHold' /\ RowsFit'
  BY <1>1 DEF CrewInv, boardVars, FlagsHold, FlagHolds, RowsFit, Rows
<1>8. VansAgree'
  <2>1. ASSUME ~shuffled', misfits' = {}
        PROVE  /\ \A n \in Member : van'[n] # Unknown => van'[n] \in 1..Len(roster) /\ roster[van'[n]] = n
               /\ \A w \in Vans : pins'[w] # Unknown =>
                    /\ w \in 1..Len(roster) /\ pins'[w].from = roster[w] /\ van'[roster[w]] = w
                    /\ Last(trail'[w]) = pins'[w] /\ roster[w] \in crewOnShift' \cup unheard'
    <3>1. misfits = {} /\ ~shuffled /\ v = PlaceOf(roster, m)
      BY <1>1, <2>1
    <3>2. v \in 1..Len(roster) /\ roster[v] = m
      BY <1>1, <3>1, PlaceIsTheirs DEF CrewInv
    <3>3. /\ \A n \in Member : van[n] # Unknown => van[n] \in 1..Len(roster) /\ roster[van[n]] = n
          /\ \A w \in Vans : pins[w] # Unknown =>
                /\ w \in 1..Len(roster) /\ pins[w].from = roster[w] /\ van[roster[w]] = w
                /\ Last(trail[w]) = pins[w] /\ roster[w] \in crewOnShift \cup unheard
      BY <3>1 DEF CrewInv, VansAgree
    <3>4. van'[m] = v /\ \A n \in Member : n # m => van'[n] = van[n]
      BY <1>1, <1>3
    <3>5. \A w \in 1..Len(roster) : roster[w] \in Member
      BY DEF CrewInv, CrewTyped
    <3>6. \A w \in 1..Len(roster) : roster[w] = m => w = v
      BY <3>2 DEF CrewInv, CrewTyped, Distinct
    <3>7. ASSUME NEW w \in Vans, pins'[w] # Unknown
          PROVE  /\ w \in 1..Len(roster) /\ pins'[w].from = roster[w] /\ van'[roster[w]] = w
                 /\ Last(trail'[w]) = pins'[w] /\ roster[w] \in crewOnShift' \cup unheard'
      <4>1. CASE pins'[w] = pins[w] /\ trail'[w] = trail[w]
        BY <1>1, <3>3, <3>4, <3>5, <3>6, <3>7, <4>1
      <4>2. CASE w = v /\ pins'[w] = fix /\ trail'[w] = newest
        BY <1>1, <1>2, <1>4, <3>2, <3>4, <4>2
      <4> QED
        BY <1>3, <1>5, <4>1, <4>2
    <3> QED
      BY <3>2, <3>3, <3>4, <3>7
  <2>2. UNCHANGED <<roster, techs, shuffled>>
    BY <1>1 DEF recordVars, boardVars
  <2> QED
    BY <2>1, <2>2 DEF VansAgree, CrewInv
<1> QED
  BY <1>6, <1>7, <1>8 DEF CrewInv

LEMMA LogOffKeeps ==
  ASSUME CrewInv, NEW m \in Member, LogOffVan(m)
  PROVE  CrewInv'
<1>1. /\ crewOnShift' = crewOnShift \ {m}
      /\ \/ pins' = [pins EXCEPT ![van[m]] = Unknown] /\ UNCHANGED unheard
         \/ unheard' = unheard \cup {m} /\ UNCHANGED pins
      /\ UNCHANGED <<recordVars, boardVars, van, trail, misfits, shuffled>>
  BY DEF LogOffVan
<1>2. pins \in [Vans -> FixRow \cup {Unknown}]
  BY DEF CrewInv, CrewTyped
<1>3. pins' \in [Vans -> FixRow \cup {Unknown}]
      /\ \A w \in Vans : pins'[w] # Unknown => pins'[w] = pins[w]
  BY <1>1, <1>2
<1>4. CrewTyped'
  BY <1>1, <1>3 DEF CrewInv, CrewTyped, recordVars, boardVars
<1>5. FlagsHold' /\ RowsFit'
  BY <1>1 DEF CrewInv, boardVars, FlagsHold, FlagHolds, RowsFit, Rows
<1>6. ASSUME ~shuffled, misfits = {}, NEW w \in Vans, pins'[w] # Unknown
      PROVE  /\ w \in 1..Len(roster) /\ pins'[w].from = roster[w] /\ van[roster[w]] = w
             /\ Last(trail[w]) = pins'[w] /\ roster[w] \in crewOnShift' \cup unheard'
  <2>1. /\ pins'[w] = pins[w] /\ w \in 1..Len(roster) /\ pins[w].from = roster[w]
        /\ van[roster[w]] = w /\ Last(trail[w]) = pins[w] /\ roster[w] \in crewOnShift \cup unheard
    BY <1>3, <1>6 DEF CrewInv, VansAgree
  <2>2. CASE roster[w] = m
    <3>1. ~(pins' = [pins EXCEPT ![van[m]] = Unknown])
      BY <1>2, <1>6, <2>1, <2>2
    <3> QED
      BY <1>1, <2>1, <2>2, <3>1
  <2>3. CASE roster[w] # m
    BY <1>1, <2>1, <2>3
  <2> QED
    BY <2>2, <2>3
<1>7. VansAgree'
  BY <1>1, <1>6 DEF VansAgree, CrewInv, recordVars, boardVars
<1> QED
  BY <1>4, <1>5, <1>7 DEF CrewInv

LEMMA CrewSteps == CrewInv /\ [CrewNext]_crewVars => CrewInv'
<1> SUFFICES ASSUME CrewInv, [CrewNext]_crewVars PROVE CrewInv'
  OBVIOUS
<1>1. ASSUME NEW now \in Clock, PollBoard(now) PROVE CrewInv'
  BY <1>1, PollKeeps
<1>2. ASSUME NEW j \in CrewJob, NEW m \in Member \cup {Unknown}, NEW s \in VisitSlot, Plan(j, m, s)
      PROVE  CrewInv'
  <2>1. visits' = [visits EXCEPT ![j] = [staff |-> m, slot |-> s]]
        /\ UNCHANGED <<roster, state, boardVars, crewVanVars, shuffled>>
    BY <1>2 DEF Plan
  <2>2. visits' \in [CrewJob -> VisitRow \cup {Unknown}]
    BY <2>1 DEF CrewInv, CrewTyped, VisitRow
  <2>3. CrewTyped'
    BY <2>1, <2>2 DEF CrewInv, CrewTyped, boardVars, crewVanVars
  <2> QED
    BY <2>1, <2>3 DEF CrewInv, FlagsHold, FlagHolds, RowsFit, Rows, VansAgree, boardVars, crewVanVars
<1>3. ASSUME NEW j \in CrewJob, NEW s \in {"scheduled", "in_progress", "completed"}, SetStatus(j, s)
      PROVE  CrewInv'
  <2>1. state' = [state EXCEPT ![j] = s] /\ Told(j)
        /\ UNCHANGED <<roster, visits, crewVanVars, shuffled>>
    BY <1>3 DEF SetStatus
  <2>2. state' \in [CrewJob -> {"scheduled", "in_progress", "completed"}]
    BY <2>1 DEF CrewInv, CrewTyped
  <2>3. /\ UNCHANGED <<techs, read>> /\ shown' \in [CrewJob -> ShownRow \cup {Unknown}]
        /\ FlagsHold' /\ RowsFit'
    BY <2>1, <2>2, ToldKeeps
  <2>4. CrewTyped'
    BY <2>1, <2>2, <2>3 DEF CrewInv, CrewTyped, crewVanVars
  <2>5. VansAgree'
    BY <2>1, <2>3 DEF CrewInv, VansAgree, crewVanVars
  <2> QED
    BY <2>3, <2>4, <2>5 DEF CrewInv
<1>4. ASSUME NEW j \in CrewJob, ClockOn(j) \/ ClockOff(j) \/ Reopen(j) PROVE CrewInv'
  <2>1. UNCHANGED <<roster, visits, state, boardVars, crewVanVars, shuffled>>
    BY <1>4 DEF ClockOn, ClockOff, Reopen
  <2> QED
    BY <2>1 DEF CrewInv, CrewTyped, FlagsHold, FlagHolds, RowsFit, Rows, VansAgree, boardVars,
       crewVanVars
<1>5. ASSUME NEW m \in Member, Join(m) \/ LeaveCompany(m) \/ LogOffVan(m) PROVE CrewInv'
  BY <1>5, JoinKeeps, LeaveKeeps, LogOffKeeps
<1>6. ASSUME NEW m \in Member, NEW v \in Vans, NEW site \in Site, NEW p \in {"on_job", "on_break"},
             Ping(m, v, site, p)
      PROVE  CrewInv'
  BY <1>6, PingKeeps
<1>7. CASE UNCHANGED crewVars
  BY <1>7 DEF CrewInv, CrewTyped, FlagsHold, FlagHolds, RowsFit, Rows, VansAgree, crewVars,
     recordVars, boardVars, crewVanVars
<1> QED
  BY <1>1, <1>2, <1>3, <1>4, <1>5, <1>6, <1>7 DEF CrewNext

\* In every reachable state of the crew board, flags hold of what is shown, rows fit the
\* payload, and until somebody leaves, vans and pins are those of the places on the roster.
THEOREM CrewInvariant == CrewSpec => []CrewInv
<1>1. CrewInit => CrewInv
  BY CrewStarts
<1>2. CrewInv /\ [CrewNext]_crewVars => CrewInv'
  BY CrewSteps
<1> QED
  BY <1>1, <1>2, PTL DEF CrewSpec

LEMMA CrewInvIsHonest == CrewInv => CrewBoardIsHonest
<1> SUFFICES ASSUME CrewInv PROVE CrewBoardIsHonest
  OBVIOUS
<1>1. FlagsFit
  <2> SUFFICES ASSUME NEW f \in flags
               PROVE  LET j == f[2][1]
                      IN  CASE f[1] = "unassigned" -> shown[j].row = Unknown
                            [] f[1] = "overdue" -> shown[j].status # "complete" \/ j \in heard
                            [] f[1] = "travel_buffer" ->
                                  LET k == f[2][2]
                                  IN  /\ shown[j].row = shown[k].row
                                      /\ shown[j].place.day = shown[k].place.day
                                      /\ shown[j].place.start <= shown[k].place.start
    BY DEF FlagsFit
  <2>1. PICK j \in CrewJob, k \in CrewJob : FlagHolds(f, j, k)
    BY DEF CrewInv, FlagsHold
  <2>2. CASE f = <<"unassigned", <<j>>>> /\ shown[j].row = Unknown
    <3>1. f[1] = "unassigned" /\ f[2][1] = j
      BY <2>2
    <3> QED
      BY <2>2, <3>1
  <2>3. CASE f = <<"overdue", <<j>>>> /\ (shown[j].status # "complete" \/ j \in heard)
    <3>1. f[1] = "overdue" /\ f[2][1] = j
      BY <2>3
    <3> QED
      BY <2>3, <3>1
  <2>4. CASE /\ f = <<"travel_buffer", <<j, k>>>>
             /\ shown[j].row = shown[k].row /\ shown[j].place.day = shown[k].place.day
             /\ shown[j].place.start <= shown[k].place.start
    <3>1. f[1] = "travel_buffer" /\ f[2][1] = j /\ f[2][2] = k
      BY <2>4
    <3> QED
      BY <2>4, <3>1
  <2> QED
    BY <2>1, <2>2, <2>3, <2>4 DEF FlagHolds
<1>2. VansFit
  <2> SUFFICES ASSUME NEW i \in 1..Len(techs), ~shuffled, misfits = {}, PinOf(i) # Unknown
               PROVE  /\ PinOf(i).from = techs[i] /\ Last(trail[i]) = PinOf(i)
                      /\ Len(trail[i]) <= TrailCap /\ techs[i] \in crewOnShift \cup unheard
    BY DEF VansFit, ArrivedJobs, InFlight
  <2>1. techs \in Seq(Member) /\ Len(techs) \in Nat /\ Len(techs) <= Cardinality(Member)
    BY DEF CrewInv, CrewTyped
  <2>2. i \in Vans
    BY <2>1, CrewAssumption, FS_CardinalityType DEF Vans
  <2>3. techs[i] = roster[i]
    BY DEF CrewInv, VansAgree
  <2> QED
    BY <2>2, <2>3 DEF CrewInv, CrewTyped, VansAgree, PinOf
<1> QED
  BY <1>1, <1>2 DEF CrewInv, CrewBoardIsHonest

\* The flags, rows and markers of the crew board are those of the payload and of the vans
\* (board.ts, needsAttention.ts, adapter.ts, CrewTree.tsx), in every behaviour.
THEOREM CrewBoardStaysHonest == CrewSpec => []CrewBoardIsHonest
  BY CrewInvariant, CrewInvIsHonest, PTL

-----------------------------------------------------------------------------
(* Roster: the inductive invariant *)

\* What the screen holds and what is under way.
RosterTypes ==
    /\ skills \subseteq Skill /\ rank \in Rank /\ member \in BOOLEAN
    /\ cache \in {Void} \cup MemberRow /\ fetch \in {Void, Requested} \cup FetchedRow
    /\ DOMAIN save = Slot /\ rosterFaults \in Nat

SavesFit ==
    \A s \in Slot : save[s] # Void =>
        /\ save[s] \in SaveRow
        /\ save[s].kind = "skills" => save[s].value \subseteq Skill
        /\ save[s].kind = "role" => save[s].value \in Rank

\* Unless something has changed that no later read has seen, the last read, shown or about
\* to be, is what the API holds.
ReadIsRow ==
    rosterBehind = {} /\ fetch # Requested => Row = (IF fetch = Void THEN cache ELSE fetch.row)

\* A change of the screen's own that no read has seen is about to be asked for.
Unseen(s) == save[s] # Void /\ save[s].at = "done" /\ save[s].kind # "signout"
OwnIsAsked ==
    "own" \in rosterBehind /\ page = "roster" => fetch = Requested \/ \E s \in Slot : Unseen(s)

\* A console whose own session is gone is about to hear that it signed itself out.
DeadIsTold ==
    Here \notin devices =>
        \/ page = "login" \/ rosterFaults > 0
        \/ revoking # Void /\ revoking.device = Here /\ revoking.at = "done"

RevokeFits == revoking # Void => revoking \in RevokeRow

RosterInv ==
    /\ RosterTypes /\ SavesFit /\ ReadIsRow /\ OwnIsAsked /\ DeadIsTold /\ RevokeFits

LEMMA RosterStarts == RosterInit => RosterInv
  BY RosterAssumption DEF RosterInit, RosterInv, RosterTypes, SavesFit, ReadIsRow, OwnIsAsked,
     DeadIsTold, RevokeFits, Row, Idle, MemberRow

\* A mutation starts with a value of its kind.
LEMMA SaveStarts ==
  ASSUME RosterInv, NEW kind \in {"skills", "role", "remove", "signout"}, NEW value,
         value \in (SUBSET Skill) \cup Rank,
         kind = "skills" => value \subseteq Skill, kind = "role" => value \in Rank,
         StartSave(kind, value), UNCHANGED rosterFaults
  PROVE  RosterInv'
<1> DEFINE row == [kind |-> kind, value |-> value, at |-> "asked"]
<1> USE DEF RosterInv, StartSave, memberVars
<1>1. row \in SaveRow
  BY DEF SaveRow
<1>2. DOMAIN save' = Slot /\ save'["shown"] = row /\ save["shown"] = Void
      /\ save'["left"] = save["left"]
  BY DEF RosterTypes, Slot
<1>3. RosterTypes'
  BY <1>2 DEF RosterTypes
<1>4. SavesFit'
  BY <1>1, <1>2 DEF SavesFit, Slot
<1>5. ReadIsRow' /\ DeadIsTold' /\ RevokeFits'
  BY DEF ReadIsRow, DeadIsTold, RevokeFits, Row
<1>6. \A s \in Slot : Unseen(s) => Unseen(s)'
  BY <1>2 DEF Unseen, Slot
<1>7. OwnIsAsked'
  BY <1>6 DEF OwnIsAsked
<1> QED
  BY <1>3, <1>4, <1>5, <1>7

\* Serving a mutation changes the row, and says so.
LEMMA SaveIsServed ==
  ASSUME RosterInv, NEW s \in Slot, ServeSave(s)
  PROVE  RosterInv'
<1> USE RosterAssumption DEF RosterInv, ServeSave, RosterQuiet
<1>1. PICK granted \in SaveAnswers(save[s].kind) :
          /\ save' = [save EXCEPT ![s].at = IF granted THEN "done" ELSE "refused"]
          /\ skills' = IF granted /\ save[s].kind = "skills" THEN save[s].value ELSE skills
          /\ rank' = IF granted /\ save[s].kind = "role" THEN save[s].value ELSE rank
          /\ member' = (member /\ ~(granted /\ save[s].kind = "remove"))
          /\ rosterBehind' = IF granted /\ save[s].kind # "signout"
                             THEN rosterBehind \cup {"own"} ELSE rosterBehind
  OBVIOUS
<1>2. save[s] \in SaveRow /\ save[s] # Void /\ granted \in BOOLEAN
  BY <1>1 DEF SavesFit, SaveAnswers, RosterTypes
<1>3. /\ save'[s] \in SaveRow /\ save'[s] # Void
      /\ save'[s].kind = save[s].kind /\ save'[s].value = save[s].value
      /\ granted => save'[s].at = "done"
      /\ \A r \in Slot \ {s} : save'[r] = save[r]
      /\ DOMAIN save' = Slot
  BY <1>1, <1>2 DEF SaveRow, RosterTypes
<1>4. RosterTypes'
  BY <1>1, <1>2, <1>3 DEF RosterTypes, SavesFit
<1>5. SavesFit'
  BY <1>3 DEF SavesFit
<1>6. ReadIsRow'
  <2>1. CASE granted /\ save[s].kind # "signout"
    BY <1>1, <2>1 DEF ReadIsRow
  <2>2. CASE ~(granted /\ save[s].kind # "signout")
    <3>1. skills' = skills /\ rank' = rank /\ member' = member
      BY <1>1, <2>2 DEF RosterTypes
    <3> QED
      BY <1>1, <2>2, <3>1 DEF ReadIsRow, Row
  <2> QED
    BY <2>1, <2>2
<1>7. OwnIsAsked'
  <2>1. CASE granted /\ save[s].kind # "signout"
    BY <1>3, <2>1 DEF OwnIsAsked, Unseen
  <2>2. CASE ~(granted /\ save[s].kind # "signout")
    <3>1. \A r \in Slot : Unseen(r) => Unseen(r)'
      BY <1>3 DEF Unseen
    <3> QED
      BY <1>1, <2>2, <3>1 DEF OwnIsAsked
  <2> QED
    BY <2>1, <2>2
<1>8. DeadIsTold' /\ RevokeFits'
  BY DEF DeadIsTold, RevokeFits
<1> QED
  BY <1>4, <1>5, <1>6, <1>7, <1>8

\* A mutation that ends leaves the other one, and what it has changed is asked for.
LEMMA SaveEnds ==
  ASSUME RosterInv, NEW s \in Slot, SaveLands(s) \/ SaveUnheard(s)
  PROVE  RosterInv'
<1> USE RosterAssumption DEF RosterInv, memberVars
<1>1. save[s] # Void /\ save' = [save EXCEPT ![s] = Void]
  BY DEF SaveLands, SaveUnheard
<1>2. /\ save'[s] = Void /\ \A r \in Slot \ {s} : save'[r] = save[r]
      /\ DOMAIN save' = Slot
  BY <1>1 DEF RosterTypes
<1>3. RosterTypes'
  BY <1>2 DEF RosterTypes, SaveLands, SaveUnheard, RosterFault, RosterQuiet, RosterRefetched
<1>4. SavesFit'
  BY <1>2 DEF SavesFit
<1>5. ReadIsRow'
  BY DEF ReadIsRow, SaveLands, SaveUnheard, RosterRefetched, Row
<1>6. OwnIsAsked'
  <2>1. CASE SaveLands(s)
    <3>1. \A r \in Slot \ {s} : Unseen(r) => Unseen(r)'
      BY <1>2 DEF Unseen
    <3> QED
      BY <2>1, <3>1 DEF OwnIsAsked, Unseen, SaveLands, RosterRefetched
  <2>2. CASE SaveUnheard(s)
    BY <2>2 DEF OwnIsAsked, SaveUnheard
  <2> QED
    BY <2>1, <2>2
<1>7. DeadIsTold' /\ RevokeFits'
  BY DEF DeadIsTold, RevokeFits, SaveLands, SaveUnheard, RosterFault, RosterQuiet, RosterTypes
<1> QED
  BY <1>3, <1>4, <1>5, <1>6, <1>7

\* The steps of the team screen.
LEMMA RosterSteps == RosterInv /\ [RosterNext]_rosterVars => RosterInv'
<1> SUFFICES ASSUME RosterInv, [RosterNext]_rosterVars PROVE RosterInv'
  OBVIOUS
<1> USE DEF RosterInv, memberVars, screenVars, Click, RosterAct, RosterFault, RosterQuiet
<1>1. ASSUME NEW k \in Skill, AddSkill(k) \/ RemoveSkill(k) PROVE RosterInv'
  <2>1. cache \in MemberRow
    BY <1>1 DEF AddSkill, RemoveSkill, RosterTypes
  <2>2. cache.skills \cup {k} \subseteq Skill /\ cache.skills \ {k} \subseteq Skill
    BY <2>1 DEF MemberRow
  <2> QED
    BY <1>1, <2>2, SaveStarts DEF AddSkill, RemoveSkill
<1>2. ASSUME NEW r \in Rank, ChangeRole(r) PROVE RosterInv'
  <2>1. StartSave("role", r) /\ UNCHANGED rosterFaults
    BY <1>2 DEF ChangeRole
  <2> QED
    BY <2>1, SaveStarts
<1>3. CASE RemoveMember \/ SignOutMember
  BY <1>3, SaveStarts DEF RemoveMember, SignOutMember
<1>4. CASE AskConfirm \/ DropConfirm
  BY <1>4 DEF AskConfirm, DropConfirm, RosterTypes, SavesFit, ReadIsRow, OwnIsAsked, Unseen,
     DeadIsTold, RevokeFits, Row
<1>5. CASE OtherConsoleEdits
  BY <1>5 DEF OtherConsoleEdits, RosterTypes, SavesFit, ReadIsRow, OwnIsAsked, Unseen,
     DeadIsTold, RevokeFits
<1>6. ASSUME NEW s \in Slot, ServeSave(s) \/ SaveLands(s) \/ SaveUnheard(s) PROVE RosterInv'
  BY <1>6, SaveIsServed, SaveEnds
<1>7. CASE Remount
  <2>1. /\ save'["shown"] = Void /\ save'["left"] \in {save["left"], save["shown"]}
        /\ save["left"] # Void => save'["left"] = save["left"] /\ save["shown"] = Void
        /\ save["left"] = Void => save'["left"] = save["shown"]
        /\ DOMAIN save' = Slot
    BY <1>7 DEF Remount, Slot
  <2>2. fetch' = fetch \/ fetch' = Requested
    BY <1>7 DEF Remount
  <2>3. RosterTypes'
    BY <1>7, <2>1, <2>2 DEF Remount, RosterTypes
  <2>4. SavesFit'
    BY <2>1 DEF SavesFit, Slot
  <2>5. ReadIsRow' /\ DeadIsTold' /\ RevokeFits'
    BY <1>7, <2>2 DEF Remount, ReadIsRow, DeadIsTold, RevokeFits, Row
  <2>6. OwnIsAsked'
    <3>1. ASSUME NEW s \in Slot, Unseen(s) PROVE Unseen("left")'
      BY <2>1, <3>1 DEF Unseen, Slot
    <3> QED
      BY <1>7, <2>2, <3>1 DEF Remount, OwnIsAsked, Slot
  <2> QED
    BY <2>3, <2>4, <2>5, <2>6
<1>8. CASE ServeFetch
  <2>1. Row \in MemberRow \cup {Void} /\ fetch' = [at |-> "served", row |-> Row]
    BY <1>8 DEF ServeFetch, Row, RosterTypes, MemberRow
  <2>2. fetch' \in FetchedRow /\ fetch' # Void /\ fetch'.row = Row
    BY <2>1, RosterAssumption DEF FetchedRow
  <2> QED
    BY <1>8, <2>2 DEF ServeFetch, RosterTypes, SavesFit, ReadIsRow, OwnIsAsked, DeadIsTold,
       RevokeFits, Row
<1>9. CASE FetchLands
  <2>1. fetch \in FetchedRow /\ fetch # Void
    BY <1>9 DEF FetchLands, RosterTypes
  <2>2. fetch.row \in MemberRow \cup {Void}
    BY <2>1 DEF FetchedRow
  <2>3. fetch # Requested /\ cache' = fetch.row /\ fetch' = Void /\ Void # Requested
    BY <1>9, RosterAssumption DEF FetchLands
  <2>4. OwnIsAsked'
    BY <1>9, <2>3 DEF FetchLands, OwnIsAsked, Unseen
  <2>5. ReadIsRow'
    BY <1>9, <2>1, <2>3 DEF FetchLands, ReadIsRow, Row
  <2> QED
    BY <1>9, <2>2, <2>4, <2>5 DEF FetchLands, RosterTypes, SavesFit, DeadIsTold, RevokeFits
<1>10. CASE FetchFails
  BY <1>10 DEF FetchFails, RosterTypes, SavesFit, ReadIsRow, OwnIsAsked, DeadIsTold, RevokeFits
<1>11. ASSUME NEW d \in Device, AskRevoke(d) PROVE RosterInv'
  <2>1. revoking' \in RevokeRow
    BY <1>11 DEF AskRevoke, RevokeRow
  <2> QED
    BY <1>11, <2>1 DEF AskRevoke, RosterTypes, SavesFit, ReadIsRow, OwnIsAsked, Unseen,
       DeadIsTold, RevokeFits, Row
<1>12. ASSUME NEW d \in Device, OtherDeviceSignsOut(d) PROVE RosterInv'
  BY <1>12 DEF OtherDeviceSignsOut, RosterTypes, SavesFit, ReadIsRow, OwnIsAsked, Unseen,
     DeadIsTold, RevokeFits, Row
<1>13. CASE ServeRevoke
  <2>1. revoking \in RevokeRow /\ revoking # Void /\ revoking.at = "asked"
    BY <1>13 DEF ServeRevoke, RevokeFits
  <2>2. /\ revoking' \in RevokeRow /\ revoking'.device = revoking.device
        /\ {revoking.device, Here} \subseteq devices => revoking'.at = "done"
    BY <1>13, <2>1 DEF ServeRevoke, RevokeRow
  <2>3. revoking' # Void
    BY <2>2, RosterAssumption
  <2>4. DeadIsTold'
    BY <1>13, <2>1, <2>2, <2>3 DEF ServeRevoke, DeadIsTold
  <2> QED
    BY <1>13, <2>2, <2>4 DEF ServeRevoke, RosterTypes, SavesFit, ReadIsRow, OwnIsAsked, Unseen,
       RevokeFits, Row
<1>14. CASE RevokeLands
  BY <1>14 DEF RevokeLands, Leaves, RosterTypes, SavesFit, ReadIsRow, OwnIsAsked, Unseen,
     DeadIsTold, RevokeFits, Row
<1>15. CASE RevokeLost
  BY <1>15 DEF RevokeLost, RosterTypes, SavesFit, ReadIsRow, OwnIsAsked, Unseen, DeadIsTold,
     RevokeFits, Row
<1>16. CASE ServeList \/ ListLands
  BY <1>16 DEF ServeList, ListLands, RosterTypes, SavesFit, ReadIsRow, OwnIsAsked, Unseen,
     DeadIsTold, RevokeFits, Row
<1>17. CASE Expired
  BY <1>17 DEF Expired, Idle, RosterTypes, SavesFit, ReadIsRow, OwnIsAsked, DeadIsTold,
     RevokeFits
<1>18. CASE UNCHANGED rosterVars
  BY <1>18 DEF rosterVars, RosterTypes, SavesFit, ReadIsRow, OwnIsAsked, Unseen, DeadIsTold,
     RevokeFits, Row
<1> QED
  BY <1>1, <1>2, <1>3, <1>4, <1>5, <1>6, <1>7, <1>8, <1>9, <1>10, <1>11, <1>12, <1>13, <1>14,
     <1>15, <1>16, <1>17, <1>18 DEF RosterNext

\* In every reachable state of the team screen the last read is what the API holds unless a
\* change is on record, and a change of its own is about to be read.
THEOREM RosterInvariant == RosterSpec => []RosterInv
<1>1. RosterInit => RosterInv
  BY RosterStarts
<1>2. RosterInv /\ [RosterNext]_rosterVars => RosterInv'
  BY RosterSteps
<1> QED
  BY <1>1, <1>2, PTL DEF RosterSpec

LEMMA RosterInvIsHonest == RosterInv => RosterIsHonest
<1> SUFFICES ASSUME RosterInv PROVE RosterIsHonest
  OBVIOUS
<1>1. RosterFollows
  BY RosterAssumption DEF RosterInv, ReadIsRow, RosterFollows
<1>2. OwnIsSeen
  BY RosterAssumption DEF RosterInv, OwnIsAsked, OwnIsSeen, Unseen, Idle
<1>3. LeavesDeadSession
  BY DEF RosterInv, DeadIsTold, LeavesDeadSession
<1> QED
  BY <1>1, <1>2, <1>3 DEF RosterIsHonest

-----------------------------------------------------------------------------
(* InviteScreens: the inductive invariant *)

Written == {i \in Invite : invite[i] # Nothing}

\* Who has accepted an invite has an account and is on the team, and what is accepted is
\* not revoked.
InvitesFit ==
    /\ DOMAIN invite = Invite
    /\ \A i \in Written :
          /\ invite[i] \in InviteRow
          /\ invite[i].accepted =>
                invite[i].email \in account /\ invite[i].email \in members /\ ~invite[i].revoked

\* What an accepted invite takes with it: no other of the same person is ever accepted.
AcceptedOnce ==
    \A i, j \in Written :
        i # j /\ invite[i].accepted /\ invite[j].accepted => invite[i].email # invite[j].email

\* Sends under way: those of this console follow each other, and as long as the step was not
\* left, the one under way knows the count.
CallsFit ==
    /\ visit \in Nat \ {0} /\ invited \in Nat /\ answered \in Nat /\ invited <= answered
    /\ \A c \in invitations :
          /\ c \in CallRow /\ c.visit <= visit /\ c.counted <= answered
          /\ c.at = "written" => c.invite # Nothing
    /\ \A c, d \in invitations : c.visit = d.visit /\ c.visit # 0 => c = d
    /\ visit = 1 =>
          /\ invited = answered /\ (answered > 0 => last # Nothing)
          /\ \A c \in invitations : c.visit # 0 => c.counted = invited

\* An email whose checks did not overlap has one invite out, or one about to be written.
Checked(e) == {c \in invitations : c.email = e /\ c.at = "checked"}
OneAhead ==
    \A e \in Email \ overlapped :
        /\ \A i, j \in PendingFor(e) : i = j
        /\ \A c, d \in Checked(e) : c = d
        /\ Checked(e) = {} \/ PendingFor(e) = {}

\* The list and what is asked of it are about invites that were written.
PanelFits ==
    /\ pending \subseteq Written
    /\ pendingRead \notin {Nothing, ListAsked} =>
          pendingRead \in ReadRow /\ pendingRead.rows \subseteq Written
    /\ revocation # Nothing => revocation \in RevocationRow /\ revocation.invite \in Written

\* Unless it is behind, the list that is shown or about to be is what is outstanding, or a
\* revocation is about to ask for another.
ListIsPending ==
    ~inviteBehind =>
        \/ pendingRead = ListAsked \/ (revocation # Nothing /\ revocation.at = "done")
        \/ Pending = (IF pendingRead = Nothing THEN pending ELSE pendingRead.rows)

\* What a page has heard, or is about to hear, of its link.
Claimed(t) == link[t].accept = "accepted" \/ link[t].at = "home"
LinkFits(t) ==
    /\ link[t] \in LinkRow
    /\ link[t] = ClosedLink \/ (link[t].at # "closed" /\ link[t].invite \in Written)
    /\ link[t].accept # "none" => link[t].at = "ready"
    /\ link[t].at = "gone" => ~Outstanding(link[t].invite)
    /\ link[t].at = "invalid" => ~Outstanding(link[t].invite) \/ link[t].deaf
    /\ "used" \in {link[t].accept, link[t].error} => ~Outstanding(link[t].invite)
    /\ "exists" \in {link[t].accept, link[t].error} => invite[link[t].invite].email \in account
    /\ Claimed(t) => invite[link[t].invite].accepted
LinksFit == DOMAIN link = Window /\ \A t \in Window : LinkFits(t)
LinksApart ==
    \A t, u \in Window : t # u /\ Claimed(t) /\ Claimed(u) => link[t].invite # link[u].invite

JoiningInv ==
    /\ InvitesFit /\ AcceptedOnce /\ CallsFit /\ OneAhead
    /\ PanelFits /\ ListIsPending /\ LinksFit /\ LinksApart

LEMMA JoiningStarts == JoiningInit => JoiningInv
<1> SUFFICES ASSUME JoiningInit PROVE JoiningInv
  OBVIOUS
<1> USE JoiningAssumption DEF JoiningInit
<1>1. Written = {} /\ Pending = {} /\ \A e \in Email : PendingFor(e) = {} /\ Checked(e) = {}
  BY DEF Written, Pending, PendingFor, Outstanding, Checked
<1>2. ClosedLink \in LinkRow
  BY DEF ClosedLink, LinkRow
<1>3. InvitesFit /\ AcceptedOnce /\ CallsFit /\ OneAhead /\ PanelFits /\ ListIsPending
  BY <1>1 DEF InvitesFit, AcceptedOnce, CallsFit, OneAhead, PanelFits, ListIsPending
<1>4. LinksFit /\ LinksApart
  BY <1>2 DEF LinksFit, LinkFits, LinksApart, Claimed, ClosedLink
<1> QED
  BY <1>3, <1>4 DEF JoiningInv

-----------------------------------------------------------------------------
(* InviteScreens: how the table ages *)

\* Invites stay, keep their email and their acceptance, and what is not outstanding any more
\* never is again; accounts and members only come.
TableAges ==
    /\ account \subseteq account' /\ members \subseteq members'
    /\ \A i \in Written :
          /\ i \in Written' /\ invite'[i].email = invite[i].email
          /\ invite[i].accepted => invite'[i].accepted
          /\ ~Outstanding(i) => ~Outstanding(i)'

LEMMA SameTable ==
  ASSUME InvitesFit, UNCHANGED tableVars
  PROVE  TableAges /\ InvitesFit' /\ Written' = Written /\ Pending' = Pending
         /\ (AcceptedOnce => AcceptedOnce')
         /\ \A e \in Email : PendingFor(e)' = PendingFor(e)
  BY DEF TableAges, InvitesFit, tableVars, Outstanding, Written, Pending, PendingFor,
     AcceptedOnce

\* What the pages say outlives every change of the table.
LEMMA LinksAge ==
  ASSUME LinksFit, TableAges, link' = link
  PROVE  LinksFit'
<1> SUFFICES ASSUME NEW t \in Window PROVE LinkFits(t)'
  BY DEF LinksFit
<1>1. LinkFits(t)
  BY DEF LinksFit
<1>2. CASE link[t] = ClosedLink
  BY <1>1, <1>2 DEF LinkFits, ClosedLink, Claimed
<1>3. CASE link[t].at # "closed" /\ link[t].invite \in Written
  BY <1>1, <1>3 DEF LinkFits, TableAges, Claimed
<1> QED
  BY <1>1, <1>2, <1>3 DEF LinkFits

LEMMA PanelAges ==
  ASSUME PanelFits, TableAges, UNCHANGED panelVars
  PROVE  PanelFits'
<1>1. Written \subseteq Written'
  BY DEF TableAges
<1> QED
  BY <1>1 DEF PanelFits, panelVars

\* A step that leaves table and pages alone leaves what is said of them.
LEMMA TableStays ==
  ASSUME InvitesFit, AcceptedOnce, LinksFit, LinksApart, UNCHANGED <<tableVars, link>>
  PROVE  InvitesFit' /\ AcceptedOnce' /\ LinksFit' /\ LinksApart'
  BY SameTable, LinksAge DEF LinksApart, Claimed

LEMMA PanelStays ==
  ASSUME InvitesFit, PanelFits, ListIsPending, UNCHANGED <<tableVars, panelVars, inviteBehind>>
  PROVE  PanelFits' /\ ListIsPending'
<1>1. TableAges /\ Pending' = Pending
  BY SameTable
<1> QED
  BY <1>1, PanelAges DEF ListIsPending, panelVars

LEMMA CallsStay ==
  ASSUME InvitesFit, CallsFit, OneAhead, UNCHANGED <<tableVars, stepVars>>
  PROVE  CallsFit' /\ OneAhead'
<1>1. \A e \in Email : PendingFor(e)' = PendingFor(e) /\ Checked(e)' = Checked(e)
  BY SameTable DEF Checked, stepVars
<1> QED
  BY <1>1 DEF CallsFit, OneAhead, stepVars

\* Fewer invites out and the same sends: what is said of both stays.
LEMMA FewerPending ==
  ASSUME CallsFit, OneAhead, UNCHANGED stepVars, \A e \in Email : PendingFor(e)' \subseteq PendingFor(e)
  PROVE  CallsFit' /\ OneAhead'
<1>1. \A e \in Email : Checked(e)' = Checked(e)
  BY DEF Checked, stepVars
<1>2. CallsFit'
  BY DEF CallsFit, stepVars
<1>3. OneAhead'
  BY <1>1 DEF OneAhead, stepVars
<1> QED
  BY <1>2, <1>3

-----------------------------------------------------------------------------
(* InviteScreens: the sends *)

\* Moving a call changes what is checked by that call only.
LEMMA CallMoves ==
  ASSUME CallsFit, NEW c \in invitations,
         NEW phase \in {"checked", "refused", "written"}, NEW i \in {Nothing} \cup Invite,
         phase = "written" => i # Nothing,
         Moved(c, phase, i), UNCHANGED <<visit, last, invited, answered>>
  PROVE  /\ CallsFit'
         /\ phase # "checked" => \A e \in Email : Checked(e)' = Checked(e) \ {c}
         /\ \A e \in Email : e # c.email => Checked(e)' = Checked(e)
<1> DEFINE d == [c EXCEPT !.at = phase, !.invite = i]
<1>1. c \in CallRow /\ invitations' = (invitations \ {c}) \cup {d}
  BY DEF CallsFit, Moved
<1>2. /\ d \in CallRow /\ d.visit = c.visit /\ d.counted = c.counted /\ d.email = c.email
      /\ d.at = phase /\ d.invite = i
  BY <1>1 DEF CallRow
<1> HIDE DEF d
<1>3. CallsFit'
  BY <1>1, <1>2 DEF CallsFit
<1>4. phase # "checked" => \A e \in Email : Checked(e)' = Checked(e) \ {c}
  BY <1>1, <1>2 DEF Checked
<1>5. \A e \in Email : e # c.email => Checked(e)' = Checked(e)
  BY <1>1, <1>2 DEF Checked
<1> QED
  BY <1>3, <1>4, <1>5

\* A new send has been neither checked nor counted.
LEMMA SendBegins ==
  ASSUME InvitesFit, CallsFit, OneAhead, NEW e \in Email, Send(e) \/ OtherSends(e)
  PROVE  CallsFit' /\ OneAhead'
<1>1. PICK v \in {0, visit} :
          /\ invitations' = invitations \cup {Call(v, e)}
          /\ v = 0 \/ \A c \in invitations : c.visit # visit
  BY DEF Send, OtherSends
<1>2. UNCHANGED <<tableVars, visit, last, invited, answered, overlapped>>
  BY DEF Send, OtherSends
<1> DEFINE n == Call(v, e)
<1>3. n \in CallRow /\ n.visit = v /\ n.counted = invited /\ n.at = "asked"
  BY DEF Call, CallRow, CallsFit
<1> HIDE DEF n
<1>4. CallsFit'
  BY <1>1, <1>2, <1>3 DEF CallsFit, n
<1>5. \A f \in Email : Checked(f)' = Checked(f)
  BY <1>1, <1>3 DEF Checked, n
<1>6. \A f \in Email : PendingFor(f)' = PendingFor(f)
  BY <1>2, SameTable
<1> QED
  BY <1>2, <1>4, <1>5, <1>6 DEF OneAhead

LEMMA SendIsChecked ==
  ASSUME InvitesFit, CallsFit, OneAhead, NEW c \in invitations, CheckSend(c)
  PROVE  CallsFit' /\ OneAhead'
<1> DEFINE phase == IF Blocked(c.email) THEN "refused" ELSE "checked"
<1> DEFINE d == [c EXCEPT !.at = phase, !.invite = Nothing]
<1>1. Moved(c, phase, Nothing) /\ UNCHANGED <<tableVars, visit, last, invited, answered>>
  BY DEF CheckSend
<1>2. CallsFit' /\ (phase # "checked" => \A e \in Email : Checked(e)' = Checked(e) \ {c})
      /\ \A e \in Email : e # c.email => Checked(e)' = Checked(e)
  BY <1>1, CallMoves
<1>3. \A e \in Email : PendingFor(e)' = PendingFor(e)
  BY <1>1, SameTable
<1>4. c.at = "asked" /\ c \in CallRow
  BY DEF CheckSend, CallsFit
<1>5. ASSUME NEW e \in Email \ overlapped'
      PROVE  /\ \A p, q \in Checked(e)' : p = q
             /\ Checked(e)' = {} \/ PendingFor(e) = {}
  <2>1. e \notin overlapped
    BY <1>5 DEF CheckSend
  <2>2. CASE e # c.email \/ phase # "checked"
    <3>1. Checked(e)' \subseteq Checked(e)
      BY <1>2, <2>2
    <3> QED
      BY <2>1, <3>1 DEF OneAhead
  <2>3. CASE e = c.email /\ phase = "checked"
    <3>1. PendingFor(e) = {}
      BY <2>3 DEF Blocked
    <3>2. ~\E other \in invitations \ {c} : other.email = c.email /\ other.at = "checked"
      BY <1>5, <2>3 DEF CheckSend
    <3>3. Checked(e)' \subseteq {d}
      BY <1>1, <2>3, <3>2 DEF Checked, Moved
    <3> QED
      BY <3>1, <3>3
  <2> QED
    BY <2>2, <2>3
<1>6. \A e \in Email \ overlapped' : e \in Email \ overlapped
  BY DEF CheckSend
<1> QED
  BY <1>2, <1>3, <1>5, <1>6 DEF OneAhead

LEMMA SendIsWritten ==
  ASSUME InvitesFit, AcceptedOnce, CallsFit, OneAhead, NEW c \in invitations, WriteSend(c)
  PROVE  CallsFit' /\ OneAhead' /\ InvitesFit' /\ AcceptedOnce' /\ TableAges
<1>1. PICK i \in Invite :
          /\ invite[i] = Nothing
          /\ invite' = [invite EXCEPT ![i] = Sent(c.email)]
          /\ Moved(c, "written", i)
  BY DEF WriteSend
<1>2. UNCHANGED <<account, members, visit, last, invited, answered, overlapped>>
      /\ c.at = "checked" /\ c \in CallRow /\ c.email \in Email
  BY DEF WriteSend, CallsFit, CallRow
<1>3. /\ invite'[i] = Sent(c.email) /\ DOMAIN invite' = Invite
      /\ \A j \in Invite \ {i} : invite'[j] = invite[j]
  BY <1>1 DEF InvitesFit
<1>4. Sent(c.email) \in InviteRow /\ Sent(c.email) # Nothing
      /\ Sent(c.email).email = c.email /\ Sent(c.email).accepted = FALSE
  <2>1. Sent(c.email) \in InviteRow
    BY <1>2 DEF Sent, InviteRow
  <2>2. Sent(c.email).email = c.email /\ Sent(c.email).accepted = FALSE
    BY DEF Sent
  <2> QED
    BY <2>1, <2>2, JoiningAssumption
<1>5. Written' = Written \cup {i} /\ i \notin Written
  BY <1>1, <1>3, <1>4 DEF Written
<1>6. InvitesFit' /\ AcceptedOnce' /\ TableAges
  BY <1>2, <1>3, <1>4, <1>5 DEF InvitesFit, AcceptedOnce, TableAges, Outstanding, Written
<1>7. Nothing \notin Invite
  BY JoiningAssumption
<1>8. CallsFit' /\ \A e \in Email : Checked(e)' = Checked(e) \ {c}
  BY <1>1, <1>2, <1>7, CallMoves
<1>9. c \in Checked(c.email)
  BY <1>2 DEF Checked
<1>10. /\ \A e \in Email : e # c.email => PendingFor(e)' = PendingFor(e)
       /\ PendingFor(c.email)' \subseteq PendingFor(c.email) \cup {i}
  <2>1. \A j \in Invite \ {i} : Outstanding(j)' = Outstanding(j)
    BY <1>3 DEF Outstanding
  <2>2. \A e \in Email : e # c.email => i \notin PendingFor(e)'
    BY <1>3, <1>4 DEF PendingFor
  <2>3. \A e \in Email : i \notin PendingFor(e)
    BY <1>1 DEF PendingFor, Pending, Outstanding
  <2>4. \A e \in Email : \A j \in Invite \ {i} : j \in PendingFor(e)' <=> j \in PendingFor(e)
    BY <1>3, <2>1 DEF PendingFor, Pending
  <2>5. \A e \in Email : PendingFor(e) \subseteq Invite /\ PendingFor(e)' \subseteq Invite
    BY DEF PendingFor, Pending
  <2> QED
    BY <1>2, <2>2, <2>3, <2>4, <2>5
<1>11. ASSUME NEW e \in Email \ overlapped
       PROVE  /\ \A p, q \in PendingFor(e)' : p = q
              /\ \A p, q \in Checked(e)' : p = q
              /\ Checked(e)' = {} \/ PendingFor(e)' = {}
  <2>1. CASE e = c.email
    <3>1. Checked(e) = {c} /\ PendingFor(e) = {}
      BY <1>9, <2>1 DEF OneAhead
    <3>2. PendingFor(e)' \subseteq {i} /\ Checked(e)' = {}
      BY <1>8, <1>10, <2>1, <3>1
    <3> QED
      BY <3>2
  <2>2. CASE e # c.email
    BY <1>8, <1>10, <2>2 DEF OneAhead, Checked
  <2> QED
    BY <2>1, <2>2
<1>12. OneAhead'
  BY <1>2, <1>11 DEF OneAhead
<1> QED
  BY <1>6, <1>8, <1>12

\* An answer ends its send; one of this console was counted, and no more than the answers.
LEMMA SendEnds ==
  ASSUME InvitesFit, CallsFit, OneAhead, NEW c \in invitations, SendLands(c) \/ SendLost(c)
  PROVE  CallsFit' /\ OneAhead'
<1>1. c \in CallRow /\ c.visit <= visit /\ c.counted <= answered
      /\ (c.at = "written" => c.invite # Nothing)
  BY DEF CallsFit
<1>2. \A e \in Email : PendingFor(e)' = PendingFor(e)
  BY SameTable DEF SendLands, SendLost
<1>3. CASE SendLands(c)
  <2>1. invitations' = invitations \ {c} /\ UNCHANGED <<visit, overlapped>>
    BY <1>3 DEF SendLands
  <2>2. \A e \in Email : Checked(e)' \subseteq Checked(e)
    BY <2>1 DEF Checked
  <2>3. CASE c.visit # 0 /\ c.at = "written"
    <3>1. invited' = c.counted + 1 /\ answered' = answered + 1
          /\ (c.visit = visit => last' = c.invite) /\ (c.visit # visit => last' = last)
      BY <1>3, <2>3 DEF SendLands, Next1
    <3>2. visit = 1 => c.visit = visit /\ c.counted = invited /\ invited = answered
                       /\ \A d \in invitations' : d.visit = 0
      BY <1>1, <2>1, <2>3 DEF CallsFit, CallRow
    <3>3. CallsFit'
      BY <1>1, <2>1, <2>3, <3>1, <3>2 DEF CallsFit, CallRow
    <3> QED
      BY <1>2, <2>1, <2>2, <3>3 DEF OneAhead
  <2>4. CASE ~(c.visit # 0 /\ c.at = "written")
    <3>1. invited' = invited /\ answered' = answered
          /\ (c.visit = visit /\ c.at = "written" => FALSE)
      BY <1>3, <2>4 DEF SendLands, CallsFit
    <3>2. last' = last
      BY <1>3, <3>1 DEF SendLands
    <3>3. CallsFit'
      BY <2>1, <3>1, <3>2 DEF CallsFit
    <3> QED
      BY <1>2, <2>1, <2>2, <3>3 DEF OneAhead
  <2> QED
    BY <2>3, <2>4
<1>4. CASE SendLost(c)
  <2> DEFINE d == [c EXCEPT !.visit = 0]
  <2>1. invitations' = (invitations \ {c}) \cup {d}
        /\ UNCHANGED <<visit, last, invited, answered, overlapped>>
    BY <1>4 DEF SendLost
  <2>2. /\ d \in CallRow /\ d.visit = 0 /\ d.counted = c.counted /\ d.email = c.email
        /\ d.at = c.at /\ d.invite = c.invite
    BY <1>1 DEF CallRow
  <2> HIDE DEF d
  <2>3. CallsFit'
    BY <1>1, <2>1, <2>2 DEF CallsFit
  <2>4. \A e \in Email : c \notin Checked(e) => Checked(e)' = Checked(e)
    BY <2>1, <2>2 DEF Checked
  <2>5. \A e \in Email : c \in Checked(e) => Checked(e)' = (Checked(e) \ {c}) \cup {d}
    BY <2>1, <2>2 DEF Checked
  <2>6. OneAhead'
    BY <1>2, <2>1, <2>4, <2>5 DEF OneAhead
  <2> QED
    BY <2>3, <2>6
<1> QED
  BY <1>3, <1>4

LEMMA StepIsLeft ==
  ASSUME InvitesFit, CallsFit, OneAhead, Revisit
  PROVE  CallsFit' /\ OneAhead'
<1>1. \A e \in Email : PendingFor(e)' = PendingFor(e) /\ Checked(e)' = Checked(e)
  BY SameTable DEF Revisit, Checked
<1>2. CallsFit'
  BY DEF Revisit, CallsFit, CallRow
<1> QED
  BY <1>1, <1>2 DEF OneAhead, Revisit

-----------------------------------------------------------------------------
(* InviteScreens: the pending list and the changes of the table *)

\* What the list does to itself.
LEMMA PanelMoves ==
  ASSUME InvitesFit, PanelFits, ListIsPending,
         \/ Refresh \/ ServeListing \/ ListingLands \/ ListingFails
         \/ FindInvite \/ InviteRevokeLands \/ InviteRevokeLost
         \/ \E i \in Invite : AskInviteRevoke(i)
  PROVE  PanelFits' /\ ListIsPending'
<1> USE JoiningAssumption
<1>1. UNCHANGED tableVars
  BY DEF Refresh, ServeListing, ListingLands, ListingFails, FindInvite, InviteRevokeLands,
     InviteRevokeLost, AskInviteRevoke
<1>2. Written' = Written /\ Pending' = Pending /\ Pending \subseteq Written
  BY <1>1, SameTable DEF Pending, Written, Outstanding
<1>3. CASE Refresh
  BY <1>2, <1>3 DEF Refresh, PanelFits, ListIsPending
<1>4. CASE ServeListing
  <2>1. pendingRead' = [at |-> "served", rows |-> Pending] /\ Pending \subseteq Invite
    BY <1>4 DEF ServeListing, Pending
  <2>2. pendingRead' \in ReadRow /\ pendingRead' # Nothing /\ pendingRead'.rows = Pending
    BY <2>1 DEF ReadRow
  <2> QED
    BY <1>2, <1>4, <2>2 DEF ServeListing, PanelFits, ListIsPending
<1>5. CASE ListingLands
  <2>1. pendingRead \notin {Nothing, ListAsked} /\ pending' = pendingRead.rows
        /\ pendingRead' = Nothing /\ pendingRead.rows \subseteq Written
    BY <1>5 DEF ListingLands, PanelFits
  <2> QED
    BY <1>2, <1>5, <2>1 DEF ListingLands, PanelFits, ListIsPending
<1>6. CASE ListingFails
  BY <1>2, <1>6 DEF ListingFails, PanelFits, ListIsPending
<1>7. CASE FindInvite
  <2>1. revocation \in RevocationRow /\ revocation.invite \in Written /\ revocation.at = "asked"
    BY <1>7 DEF FindInvite, PanelFits
  <2>2. revocation' \in RevocationRow /\ revocation'.invite = revocation.invite
    BY <1>7, <2>1 DEF FindInvite, RevocationRow
  <2> QED
    BY <1>2, <1>7, <2>1, <2>2 DEF FindInvite, PanelFits, ListIsPending
<1>8. CASE InviteRevokeLands
  BY <1>2, <1>8 DEF InviteRevokeLands, ListRefetched, PanelFits, ListIsPending
<1>9. CASE InviteRevokeLost
  BY <1>2, <1>9 DEF InviteRevokeLost, PanelFits, ListIsPending
<1>10. ASSUME NEW i \in Invite, AskInviteRevoke(i) PROVE PanelFits' /\ ListIsPending'
  <2>1. revocation' = [invite |-> i, at |-> "asked"] /\ i \in Written /\ revocation = Nothing
    BY <1>10 DEF AskInviteRevoke, PanelFits
  <2>2. revocation' \in RevocationRow /\ revocation'.invite = i
    BY <2>1 DEF RevocationRow
  <2> QED
    BY <1>2, <1>10, <2>1, <2>2 DEF AskInviteRevoke, PanelFits, ListIsPending
<1> QED
  BY <1>3, <1>4, <1>5, <1>6, <1>7, <1>8, <1>9, <1>10

\* One invite of the table is revoked, or expires: never one that was accepted.
LEMMA InviteDies ==
  ASSUME InvitesFit, AcceptedOnce, NEW i \in Written, UNCHANGED <<account, members>>,
         \/ invite' = [invite EXCEPT ![i].revoked = ~invite[i].accepted]
         \/ Outstanding(i) /\ invite' = [invite EXCEPT ![i].revoked = TRUE]
         \/ Outstanding(i) /\ invite' = [invite EXCEPT ![i].expired = TRUE]
  PROVE  InvitesFit' /\ AcceptedOnce' /\ TableAges
         /\ \A e \in Email : PendingFor(e)' \subseteq PendingFor(e)
<1>1. i \in Invite /\ invite[i] \in InviteRow /\ invite[i] # Nothing
  BY DEF Written, InvitesFit
<1>2. DOMAIN invite' = Invite /\ \A j \in Invite \ {i} : invite'[j] = invite[j]
  BY DEF InvitesFit
<1>3. /\ invite'[i] \in InviteRow /\ invite'[i].email = invite[i].email
      /\ invite'[i].accepted = invite[i].accepted
      /\ invite[i].accepted => ~invite'[i].revoked
      /\ invite[i].expired => invite'[i].expired
      /\ invite[i].revoked => invite'[i].revoked
  BY <1>1 DEF InviteRow, Outstanding, InvitesFit
<1>4. invite'[i] # Nothing
  BY <1>3, JoiningAssumption
<1>5. Written' = Written
  BY <1>1, <1>2, <1>4 DEF Written
<1>6. InvitesFit'
  BY <1>2, <1>3, <1>5 DEF InvitesFit, Written
<1>7. AcceptedOnce'
  BY <1>2, <1>3, <1>5 DEF AcceptedOnce, Written
<1>8. \A j \in Invite : Outstanding(j)' => Outstanding(j)
  BY <1>1, <1>2, <1>3 DEF Outstanding
<1>9. \A j \in Written : invite'[j].email = invite[j].email
                         /\ (invite[j].accepted => invite'[j].accepted)
  BY <1>2, <1>3 DEF Written
<1>10. TableAges
  BY <1>5, <1>8, <1>9 DEF TableAges, Written
<1>11. \A e \in Email : PendingFor(e)' \subseteq PendingFor(e)
  BY <1>8, <1>9 DEF PendingFor, Pending, Written, Outstanding
<1> QED
  BY <1>6, <1>7, <1>10, <1>11

LEMMA InviteIsKilled ==
  ASSUME JoiningInv, KillInvite \/ \E i \in Invite : OtherRevokes(i) \/ Expire(i)
  PROVE  JoiningInv'
<1> USE DEF JoiningInv
<1>1. PICK i \in Written :
          \/ invite' = [invite EXCEPT ![i].revoked = ~invite[i].accepted]
          \/ Outstanding(i) /\ invite' = [invite EXCEPT ![i].revoked = TRUE]
          \/ Outstanding(i) /\ invite' = [invite EXCEPT ![i].expired = TRUE]
  BY DEF KillInvite, OtherRevokes, Expire, PanelFits, Written, Outstanding
<1>2. UNCHANGED <<account, members, stepVars, link>>
  BY DEF KillInvite, OtherRevokes, Expire
<1>3. InvitesFit' /\ AcceptedOnce' /\ TableAges
      /\ \A e \in Email : PendingFor(e)' \subseteq PendingFor(e)
  BY <1>1, <1>2, InviteDies
<1>4. CallsFit' /\ OneAhead' /\ LinksFit' /\ LinksApart'
  BY <1>2, <1>3, FewerPending, LinksAge DEF LinksApart, Claimed
<1>5. PanelFits' /\ ListIsPending'
  <2>1. CASE KillInvite
    <3>1. revocation \in RevocationRow /\ revocation.invite \in Written
      BY <2>1 DEF KillInvite, PanelFits
    <3>2. revocation' \in RevocationRow /\ revocation'.invite = revocation.invite
          /\ revocation'.at = "done"
      BY <2>1, <3>1 DEF KillInvite, RevocationRow
    <3>3. revocation' # Nothing /\ Written \subseteq Written'
      BY <1>3, <3>2, JoiningAssumption DEF TableAges
    <3> QED
      BY <2>1, <3>1, <3>2, <3>3 DEF KillInvite, PanelFits, ListIsPending
  <2>2. ASSUME NEW j \in Invite, OtherRevokes(j) \/ Expire(j) PROVE PanelFits' /\ ListIsPending'
    BY <1>3, <2>2, PanelAges DEF OtherRevokes, Expire, ListIsPending
  <2> QED
    BY <2>1, <2>2
<1> QED
  BY <1>3, <1>4, <1>5

-----------------------------------------------------------------------------
(* InviteScreens: the page of a link *)

\* A step of one page that claims nothing, and says of its link what is so.
LEMMA PageMoves ==
  ASSUME InvitesFit, LinksFit, LinksApart, UNCHANGED tableVars,
         NEW t \in Window, NEW page_t, link' = [link EXCEPT ![t] = page_t],
         LinkFits(t)', Claimed(t)' => Claimed(t) /\ link'[t].invite = link[t].invite
  PROVE  LinksFit' /\ LinksApart'
<1>1. DOMAIN link' = Window /\ \A u \in Window \ {t} : link'[u] = link[u]
  BY DEF LinksFit
<1>2. Written' = Written /\ \A i \in Invite : invite'[i] = invite[i] /\ account' = account
  BY DEF tableVars, Written
<1>3. \A u \in Window \ {t} : LinkFits(u)' /\ (Claimed(u)' <=> Claimed(u))
  BY <1>1 DEF LinksFit, LinkFits, Claimed, tableVars, Written, Outstanding
<1>4. LinksFit'
  BY <1>1, <1>3 DEF LinksFit
<1>5. LinksApart'
  BY <1>1, <1>3 DEF LinksApart
<1> QED
  BY <1>4, <1>5

LEMMA PageIsTurned ==
  ASSUME InvitesFit, LinksFit, LinksApart, NEW t \in Window,
         \/ \E i \in Invite : OpenLink(t, i)
         \/ Peek(t) \/ PeekLands(t) \/ PeekLost(t)
         \/ SubmitLink(t) \/ FindAccept(t) \/ AcceptLands(t) \/ AcceptLost(t)
  PROVE  LinksFit' /\ LinksApart'
<1>1. UNCHANGED tableVars /\ Written' = Written /\ LinkFits(t) /\ t \in DOMAIN link
      /\ link[t] \in LinkRow /\ \A i \in Invite : Outstanding(i)' <=> Outstanding(i)
  BY DEF OpenLink, Peek, PeekLands, PeekLost, SubmitLink, FindAccept, AcceptLands, AcceptLost,
     LinksFit, LinkFits, tableVars, Written, Outstanding
<1> DEFINE Turned(p) ==
      /\ p \in LinkRow /\ p.at # "closed" /\ p.invite \in Written
      /\ p.accept # "none" => p.at = "ready"
      /\ p.at = "gone" => ~Outstanding(p.invite)
      /\ p.at = "invalid" => ~Outstanding(p.invite) \/ p.deaf
      /\ "used" \in {p.accept, p.error} => ~Outstanding(p.invite)
      /\ "exists" \in {p.accept, p.error} => invite[p.invite].email \in account
      /\ p.accept = "accepted" \/ p.at = "home" => Claimed(t) /\ p.invite = link[t].invite
<1>2. ASSUME NEW p, link' = [link EXCEPT ![t] = p], Turned(p)
      PROVE  LinksFit' /\ LinksApart'
  <2>1. link'[t] = p /\ UNCHANGED tableVars
    BY <1>1, <1>2
  <2>2. LinkFits(t)'
    BY <1>1, <1>2, <2>1 DEF LinkFits, Claimed, tableVars, Written, Outstanding
  <2>3. Claimed(t)' => Claimed(t) /\ link'[t].invite = link[t].invite
    BY <1>2, <2>1 DEF Claimed
  <2> QED
    BY <1>2, <2>1, <2>2, <2>3, PageMoves
<1>3. ASSUME NEW i \in Invite, OpenLink(t, i) PROVE LinksFit' /\ LinksApart'
  <2> DEFINE p == [ClosedLink EXCEPT !.at = "peeking", !.invite = i]
  <2>1. link' = [link EXCEPT ![t] = p] /\ i \in Written
    BY <1>3 DEF OpenLink, Written
  <2>2. Turned(p)
    BY <2>1 DEF ClosedLink, LinkRow
  <2> QED
    BY <1>2, <2>1, <2>2
<1>4. ASSUME link[t].at # "closed" PROVE link[t].invite \in Written
  BY <1>1, <1>4 DEF LinkFits, ClosedLink
<1>5. CASE Peek(t)
  <2> DEFINE p == [link[t] EXCEPT !.at = IF Outstanding(link[t].invite) THEN "valid" ELSE "gone"]
  <2>1. link' = [link EXCEPT ![t] = p] /\ link[t].at = "peeking"
    BY <1>5 DEF Peek, Page
  <2>2. Turned(p)
    BY <1>1, <1>4, <2>1 DEF LinkRow, LinkFits
  <2> QED
    BY <1>2, <2>1, <2>2
<1>6. CASE PeekLands(t)
  <2> DEFINE p == [link[t] EXCEPT !.at = IF link[t].at = "valid" THEN "ready" ELSE "invalid"]
  <2>1. link' = [link EXCEPT ![t] = p] /\ link[t].at \in {"valid", "gone"}
    BY <1>6 DEF PeekLands, Page
  <2>2. Turned(p)
    BY <1>1, <1>4, <2>1 DEF LinkRow, LinkFits
  <2> QED
    BY <1>2, <2>1, <2>2
<1>7. CASE PeekLost(t)
  <2> DEFINE p == [link[t] EXCEPT !.at = "invalid", !.deaf = TRUE]
  <2>1. link' = [link EXCEPT ![t] = p] /\ link[t].at \in {"peeking", "valid", "gone"}
    BY <1>7 DEF PeekLost
  <2>2. Turned(p)
    BY <1>1, <1>4, <2>1 DEF LinkRow, LinkFits
  <2> QED
    BY <1>2, <2>1, <2>2
<1>8. CASE SubmitLink(t)
  <2> DEFINE p == [link[t] EXCEPT !.accept = "asked", !.error = "none"]
  <2>1. link' = [link EXCEPT ![t] = p] /\ link[t].at = "ready" /\ link[t].accept = "none"
    BY <1>8 DEF SubmitLink
  <2>2. Turned(p)
    BY <1>1, <1>4, <2>1 DEF LinkRow, LinkFits
  <2> QED
    BY <1>2, <2>1, <2>2
<1>9. CASE FindAccept(t)
  <2> DEFINE p == [link[t] EXCEPT !.accept = IF Outstanding(link[t].invite) THEN "found" ELSE "used"]
  <2>1. link' = [link EXCEPT ![t] = p] /\ link[t].accept = "asked"
    BY <1>9 DEF FindAccept, Page
  <2>2. link[t].at = "ready"
    BY <1>1, <2>1 DEF LinkFits
  <2>3. Turned(p)
    BY <1>1, <1>4, <2>1, <2>2 DEF LinkRow, LinkFits
  <2> QED
    BY <1>2, <2>1, <2>3
<1>10. CASE AcceptLands(t)
  <2>1. link[t].accept \in {"accepted", "used", "exists"} /\ link[t].at = "ready"
    BY <1>1, <1>10 DEF AcceptLands, LinkFits
  <2> DEFINE p == [link[t] EXCEPT !.at = "home", !.accept = "none"]
  <2> DEFINE q == [link[t] EXCEPT !.error = link[t].accept, !.accept = "none"]
  <2>2. CASE link[t].accept = "accepted"
    <3>1. link' = [link EXCEPT ![t] = p]
      BY <1>1, <1>10, <2>2 DEF AcceptLands
    <3>2. Turned(p)
      BY <1>1, <1>4, <2>1, <2>2 DEF LinkRow, LinkFits, Claimed
    <3> QED
      BY <1>2, <3>1, <3>2
  <2>3. CASE link[t].accept # "accepted"
    <3>1. link' = [link EXCEPT ![t] = q]
      BY <1>1, <1>10, <2>3 DEF AcceptLands
    <3>2. Turned(q)
      BY <1>1, <1>4, <2>1, <2>3 DEF LinkRow, LinkFits
    <3> QED
      BY <1>2, <3>1, <3>2
  <2> QED
    BY <2>2, <2>3
<1>11. CASE AcceptLost(t)
  <2> DEFINE p == [link[t] EXCEPT !.error = "lost", !.accept = "none"]
  <2>1. link' = [link EXCEPT ![t] = p] /\ link[t].at = "ready"
    BY <1>1, <1>11 DEF AcceptLost, LinkFits
  <2>2. Turned(p)
    BY <1>1, <1>4, <2>1 DEF LinkRow, LinkFits
  <2> QED
    BY <1>2, <2>1, <2>2
<1> QED
  BY <1>3, <1>5, <1>6, <1>7, <1>8, <1>9, <1>10, <1>11

\* The claim: its invite was outstanding, so nobody else has claimed it, and its email was
\* free, so none of the person's other invites is accepted.
LEMMA LinkIsClaimed ==
  ASSUME JoiningInv, NEW t \in Window, Claim(t)
  PROVE  JoiningInv'
<1> USE DEF JoiningInv
<1> DEFINE i == link[t].invite
<1> DEFINE e == invite[i].email
<1> DEFINE result == ClaimAnswer(e, i)
<1> DEFINE p == [link[t] EXCEPT !.accept = result]
<1>1. LinkFits(t) /\ link[t] \in LinkRow /\ DOMAIN link = Window
  BY DEF LinksFit, LinkFits
<1>2. link[t].accept = "found" /\ link[t].at = "ready" /\ i \in Written
  BY <1>1 DEF Claim, LinkFits, ClosedLink
<1>3. link' = [link EXCEPT ![t] = p] /\ link'[t] = p
      /\ \A u \in Window \ {t} : link'[u] = link[u]
  BY <1>1 DEF Claim, Page
<1>4. result \in {"used", "exists", "accepted"}
  BY DEF ClaimAnswer
<1>5. p \in LinkRow /\ p.accept = result /\ p.invite = i /\ p.at = "ready"
      /\ p.error = link[t].error
  BY <1>1, <1>2, <1>4 DEF LinkRow
<1>6. UNCHANGED <<stepVars, panelVars>>
  BY DEF Claim
<1>7. CASE result # "accepted"
  <2>1. UNCHANGED <<tableVars, inviteBehind>>
    BY <1>7 DEF Claim
  <2>2. LinkFits(t)'
    BY <1>1, <1>2, <1>3, <1>5, <1>7, <2>1 DEF LinkFits, Claimed, tableVars, Written, Outstanding,
       ClaimAnswer
  <2>3. ~Claimed(t)'
    BY <1>3, <1>5, <1>7 DEF Claimed
  <2>4. LinksFit' /\ LinksApart'
    BY <1>3, <2>1, <2>2, <2>3, PageMoves
  <2>5. InvitesFit' /\ AcceptedOnce'
    BY <2>1, SameTable
  <2> QED
    BY <1>6, <2>1, <2>4, <2>5, CallsStay, PanelStays
<1>8. CASE result = "accepted"
  <2>1. /\ invite' = [invite EXCEPT ![i].accepted = TRUE]
        /\ account' = account \cup {e} /\ members' = members \cup {e} /\ inviteBehind' = TRUE
    BY <1>8 DEF Claim
  <2>2. Outstanding(i) /\ e \notin account /\ i \in Invite /\ invite[i] \in InviteRow
    BY <1>2, <1>8 DEF ClaimAnswer, InvitesFit, Written
  <2>3. DOMAIN invite' = Invite /\ \A j \in Invite \ {i} : invite'[j] = invite[j]
    BY <2>1 DEF InvitesFit
  <2>4. /\ invite'[i] \in InviteRow /\ invite'[i].email = e
        /\ invite'[i].accepted = TRUE /\ invite'[i].revoked = invite[i].revoked
    BY <2>1, <2>2 DEF InviteRow, InvitesFit
  <2>5. invite'[i] # Nothing /\ ~invite[i].accepted /\ ~invite[i].revoked
    BY <2>2, <2>4, JoiningAssumption DEF Outstanding
  <2>6. Written' = Written
    BY <1>2, <2>3, <2>5 DEF Written
  <2>7. InvitesFit'
    <3>1. \A j \in Written \ {i} :
             /\ invite'[j] \in InviteRow
             /\ invite'[j].accepted => invite'[j].email \in account' /\ invite'[j].email \in members'
                                        /\ ~invite'[j].revoked
      BY <2>1, <2>3 DEF InvitesFit, Written
    <3>2. e \in account' /\ e \in members' /\ ~invite'[i].revoked
      BY <2>1, <2>4, <2>5
    <3> QED
      BY <2>3, <2>4, <2>6, <3>1, <3>2 DEF InvitesFit
  <2>8. \A j \in Written : invite[j].accepted => invite[j].email # e
    BY <2>2 DEF InvitesFit
  <2>9. AcceptedOnce'
    BY <2>3, <2>4, <2>6, <2>8 DEF AcceptedOnce, Written
  <2>10. \A j \in Invite : Outstanding(j)' => Outstanding(j)
    BY <2>2, <2>3 DEF Outstanding
  <2>11. \A j \in Written : invite'[j].email = invite[j].email
                            /\ (invite[j].accepted => invite'[j].accepted)
    BY <2>3, <2>4 DEF Written
  <2>12. TableAges
    BY <2>1, <2>6, <2>10, <2>11 DEF TableAges, Written
  <2>13. \A f \in Email : PendingFor(f)' \subseteq PendingFor(f)
    BY <2>10, <2>11 DEF PendingFor, Pending, Written, Outstanding
  <2>14. CallsFit' /\ OneAhead' /\ PanelFits' /\ ListIsPending'
    BY <1>6, <2>1, <2>12, <2>13, FewerPending, PanelAges DEF ListIsPending
  <2>15. \A u \in Window \ {t} : LinkFits(u)' /\ (Claimed(u)' <=> Claimed(u))
    <3> SUFFICES ASSUME NEW u \in Window \ {t} PROVE LinkFits(u)' /\ (Claimed(u)' <=> Claimed(u))
      OBVIOUS
    <3>1. LinkFits(u) /\ link'[u] = link[u]
      BY <1>3 DEF LinksFit
    <3>2. CASE link[u] = ClosedLink
      BY <3>1, <3>2 DEF LinkFits, ClosedLink, Claimed
    <3>3. CASE link[u].at # "closed" /\ link[u].invite \in Written
      BY <2>12, <3>1, <3>3 DEF LinkFits, TableAges, Claimed
    <3> QED
      BY <3>1, <3>2, <3>3 DEF LinkFits
  <2>16. LinkFits(t)'
    <3>1. Claimed(t)' /\ link'[t].at # "closed" /\ link'[t].invite \in Written'
      <4>1. link'[t].accept = "accepted" /\ link'[t].at = "ready" /\ link'[t].invite = i
        BY <1>3, <1>5, <1>8
      <4> QED
        BY <1>2, <2>6, <4>1 DEF Claimed
    <3>2. "used" \in {link'[t].accept, link'[t].error} => ~Outstanding(i)
      BY <1>1, <1>3, <1>5, <1>8 DEF LinkFits
    <3>3. "exists" \in {link'[t].accept, link'[t].error} => e \in account
      BY <1>1, <1>3, <1>5, <1>8 DEF LinkFits
    <3> QED
      BY <1>3, <1>5, <2>2, <2>4, <3>1, <3>2, <3>3 DEF LinkFits
  <2>17. LinksFit'
    BY <1>3, <2>15, <2>16, <1>1 DEF LinksFit
  <2>18. \A u \in Window \ {t} : Claimed(u) => link[u].invite # i
    BY <2>5 DEF LinksFit, LinkFits
  <2>19. LinksApart'
    BY <1>3, <1>5, <2>15, <2>18 DEF LinksApart
  <2> QED
    BY <2>7, <2>9, <2>14, <2>17, <2>19
<1> QED
  BY <1>7, <1>8

\* A person gets an account of his own.
LEMMA AccountIsMade ==
  ASSUME JoiningInv, NEW e \in Email, SignsUp(e)
  PROVE  JoiningInv'
<1> USE DEF JoiningInv, SignsUp
<1>1. TableAges /\ Written' = Written /\ Pending' = Pending
      /\ \A f \in Email : PendingFor(f)' = PendingFor(f)
  BY DEF TableAges, Written, Pending, PendingFor, Outstanding
<1>2. InvitesFit' /\ AcceptedOnce'
  BY <1>1 DEF InvitesFit, AcceptedOnce
<1>3. LinksFit' /\ LinksApart' /\ PanelFits'
  BY <1>1, LinksAge, PanelAges DEF LinksApart, Claimed
<1>4. CallsFit' /\ OneAhead'
  BY <1>1, FewerPending
<1>5. ListIsPending'
  BY <1>1 DEF ListIsPending, panelVars
<1> QED
  BY <1>2, <1>3, <1>4, <1>5

LEMMA JoiningSteps == JoiningInv /\ [JoiningNext]_joiningVars => JoiningInv'
<1> SUFFICES ASSUME JoiningInv, [JoiningNext]_joiningVars PROVE JoiningInv'
  OBVIOUS
<1>1. ASSUME NEW e \in Email, Send(e) \/ OtherSends(e) PROVE JoiningInv'
  <2>1. UNCHANGED <<tableVars, panelVars, link, inviteBehind>>
    BY <1>1 DEF Send, OtherSends
  <2> QED
    BY <1>1, <2>1, SendBegins, TableStays, PanelStays DEF JoiningInv
<1>2. ASSUME NEW c \in invitations, CheckSend(c) \/ SendLands(c) \/ SendLost(c)
      PROVE  JoiningInv'
  <2>1. UNCHANGED <<tableVars, panelVars, link, inviteBehind>>
    BY <1>2 DEF CheckSend, SendLands, SendLost
  <2> QED
    BY <1>2, <2>1, SendIsChecked, SendEnds, TableStays, PanelStays DEF JoiningInv
<1>3. ASSUME NEW c \in invitations, WriteSend(c) PROVE JoiningInv'
  <2>1. UNCHANGED <<panelVars, link>> /\ inviteBehind' = TRUE
    BY <1>3 DEF WriteSend
  <2>2. CallsFit' /\ OneAhead' /\ InvitesFit' /\ AcceptedOnce' /\ TableAges
    BY <1>3, SendIsWritten DEF JoiningInv
  <2>3. LinksFit' /\ LinksApart' /\ PanelFits' /\ ListIsPending'
    BY <2>1, <2>2, LinksAge, PanelAges DEF JoiningInv, LinksApart, Claimed, ListIsPending
  <2> QED
    BY <2>2, <2>3 DEF JoiningInv
<1>4. CASE Revisit
  <2>1. UNCHANGED <<tableVars, panelVars, link, inviteBehind>>
    BY <1>4 DEF Revisit
  <2> QED
    BY <1>4, <2>1, StepIsLeft, TableStays, PanelStays DEF JoiningInv
<1>5. CASE \/ Refresh \/ ServeListing \/ ListingLands \/ ListingFails
           \/ FindInvite \/ InviteRevokeLands \/ InviteRevokeLost
           \/ \E i \in Invite : AskInviteRevoke(i)
  <2>1. UNCHANGED <<tableVars, stepVars, link>>
    BY <1>5 DEF Refresh, ServeListing, ListingLands, ListingFails, FindInvite,
       InviteRevokeLands, InviteRevokeLost, AskInviteRevoke
  <2> QED
    BY <1>5, <2>1, PanelMoves, CallsStay, TableStays DEF JoiningInv
<1>6. CASE KillInvite \/ \E i \in Invite : OtherRevokes(i) \/ Expire(i)
  BY <1>6, InviteIsKilled
<1>7. ASSUME NEW t \in Window,
             \/ \E i \in Invite : OpenLink(t, i)
             \/ Peek(t) \/ PeekLands(t) \/ PeekLost(t)
             \/ SubmitLink(t) \/ FindAccept(t) \/ AcceptLands(t) \/ AcceptLost(t)
      PROVE  JoiningInv'
  <2>1. UNCHANGED <<tableVars, stepVars, panelVars, inviteBehind>>
    BY <1>7 DEF OpenLink, Peek, PeekLands, PeekLost, SubmitLink, FindAccept, AcceptLands,
       AcceptLost
  <2>2. InvitesFit' /\ AcceptedOnce'
    BY <2>1, SameTable DEF JoiningInv
  <2> QED
    BY <1>7, <2>1, <2>2, PageIsTurned, CallsStay, PanelStays DEF JoiningInv
<1>8. ASSUME NEW t \in Window, Claim(t) PROVE JoiningInv'
  BY <1>8, LinkIsClaimed
<1>9. ASSUME NEW e \in Email, SignsUp(e) PROVE JoiningInv'
  BY <1>9, AccountIsMade
<1>10. CASE UNCHANGED joiningVars
  BY <1>10, TableStays, PanelStays, CallsStay DEF JoiningInv, joiningVars
<1> QED
  BY <1>1, <1>2, <1>3, <1>4, <1>5, <1>6, <1>7, <1>8, <1>9, <1>10 DEF JoiningNext

\* In every reachable state of the invites an accepted one is the person's only one, an email
\* whose checks did not overlap has one out, and what pages and list hold fits the table.
THEOREM JoiningInvariant == JoiningSpec => []JoiningInv
<1>1. JoiningInit => JoiningInv
  BY JoiningStarts
<1>2. JoiningInv /\ [JoiningNext]_joiningVars => JoiningInv'
  BY JoiningSteps
<1> QED
  BY <1>1, <1>2, PTL DEF JoiningSpec

LEMMA JoiningInvIsSound == JoiningInv => JoiningIsSound /\ InvitesAreShown
<1> SUFFICES ASSUME JoiningInv PROVE JoiningIsSound /\ InvitesAreShown
  OBVIOUS
<1> USE DEF JoiningInv
<1>1. OneInvitePerEmail
  <2> SUFFICES ASSUME NEW e \in Email, e \notin overlapped
               PROVE  ~(Cardinality(PendingFor(e)) > 1)
    BY DEF OneInvitePerEmail
  <2>1. \A i, j \in PendingFor(e) : i = j
    BY DEF OneAhead
  <2>2. CASE PendingFor(e) = {}
    BY <2>2, FS_EmptySet
  <2>3. ASSUME NEW i \in PendingFor(e) PROVE Cardinality(PendingFor(e)) = 1
    <3>1. PendingFor(e) = {i}
      BY <2>1, <2>3
    <3> QED
      BY <3>1, FS_Singleton
  <2> QED
    BY <2>2, <2>3
<1>2. OneJoinPerEmail
  <2>1. \A i \in Invite : invite[i] # Nothing => ~(invite[i].accepted /\ invite[i].revoked)
    BY DEF InvitesFit, Written
  <2> QED
    BY <2>1 DEF OneJoinPerEmail, AcceptedOnce, LinksApart, Claimed, Written
<1>3. PagesTellTrue
  <2> SUFFICES ASSUME NEW t \in Window, link[t].invite # Nothing
               PROVE  /\ link[t].at = "invalid" => ~Outstanding(link[t].invite) \/ link[t].deaf
                      /\ link[t].error = "used" => ~Outstanding(link[t].invite)
                      /\ link[t].error = "exists" => invite[link[t].invite].email \in account
                      /\ link[t].at = "home" => /\ invite[link[t].invite].accepted
                                                /\ invite[link[t].invite].email \in members
    BY DEF PagesTellTrue
  <2>1. LinkFits(t) /\ link[t].invite \in Written
    BY DEF LinksFit, LinkFits, ClosedLink
  <2> QED
    BY <2>1 DEF LinkFits, Claimed, InvitesFit
<1>4. ListFollows
  BY JoiningAssumption DEF ListIsPending, ListFollows
<1>5. StepCounts
  BY DEF CallsFit, StepCounts
<1> QED
  BY <1>1, <1>2, <1>3, <1>4, <1>5 DEF JoiningIsSound, InvitesAreShown

-----------------------------------------------------------------------------
(* The two screens of the team *)

LEMMA BothAreHonest == RosterInv /\ JoiningInv => TeamScreensAreHonest
  BY RosterInvIsHonest, JoiningInvIsSound DEF TeamScreensAreHonest

\* The screens on which a team is put together catch up with the API, one of a person's links
\* is used, and what a page says of its link stays true (TeamRoster.tsx, InviteStep.tsx,
\* app/invite, routes/invites.ts).
THEOREM TeamScreensStayHonest == TeamSpec => []TeamScreensAreHonest
<1>1. TeamSpec => []RosterInv
  BY RosterInvariant DEF TeamSpec
<1>2. TeamSpec => []JoiningInv
  BY JoiningInvariant DEF TeamSpec
<1> QED
  BY <1>1, <1>2, BothAreHonest, PTL

=============================================================================
