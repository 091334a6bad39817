-------------------------- MODULE JobRecordProofs --------------------------
(***************************************************************************)
(* Theorems about a job's records: JobRecord, Paperwork and MobileSync,    *)
(* for every number of handlers, requests, writers and faults.  They rest  *)
(* on one inductive invariant each: IInv, PaperInv and SyncInv.            *)
(***************************************************************************)
EXTENDS JobRecord, Paperwork, MobileSync, FiniteSetTheorems, WellFoundedInduction, TLAPS

-----------------------------------------------------------------------------
(* The inductive invariant *)

\* Requests are made in their order, and only made requests are acknowledged.
RequestsFollow ==
    /\ \A r, q \in Request : kind[r] # None /\ q < r => kind[q] # None
    /\ \A r \in acked : kind[r] # None

\* A handler that is not idle serves a request; what it has read fits the request; the agent
\* waits for a handler at work, and only a status change locks the row.
Serves(h) ==
    /\ pc[h] = "idle" => waiting # h /\ lock # h
    /\ pc[h] # "idle" => serves[h] \in Request /\ kind[serves[h]] # None
    /\ At(h, "write", {"link"}) => seen[h] \in Session
    /\ At(h, "write", {"tick", "untick"}) => seen[h] \in Request \cup {None}
    /\ lock = h => At(h, "write", Statuses)
    /\ waiting = h => kind[serves[h]] \in FieldKinds
HandlersServe == \A h \in Handler : Serves(h)

\* The agent has an acknowledgement for all that it queued before a request it sent.
Follows(h) ==
    pc[h] # "idle" /\ kind[serves[h]] \in FieldKinds =>
        \A q \in FieldRequests : q < serves[h] => q \in acked
SentInOrder == \A h \in Handler : Follows(h)

\* The first request of its kind.
First(k, r) == r \in Request /\ kind[r] = k /\ \A q \in Request : q < r => kind[q] # k

\* Only the first arrival is ever written, and it is there when one was acknowledged.
ArrivalIsFirst ==
    /\ arrivedAt # None => First("arrived", arrivedAt)
    /\ \A h \in Handler : At(h, "write", {"arrived"}) => First("arrived", serves[h])
    /\ \A r \in acked : kind[r] = "arrived" => arrivedAt # None

\* The same of the checklist item, as long as nobody unticks it.
NeverUnticked == \A q \in Request : kind[q] # "untick"
TickIsFirst ==
    NeverUnticked =>
        /\ completedAt # None => First("tick", completedAt)
        /\ \A h \in Handler : At(h, "write", {"tick"}) => First("tick", seen[h])
        /\ \A r \in acked : kind[r] = "tick" => completedAt # None

EntriesAreKept == \A r \in acked : kind[r] = "clock_in" => r \in entries

\* A completion that will not emit has read a completion that was reported or quiet.
Reported == outbox \/ quiet
CompletersKnow ==
    \A h \in Handler : At(h, "write", {"completed"}) => h \in shouldEmit \/ Reported

\* What an event says of a session is so, and stays so.
Confirms(s, verdict) ==
    /\ verdict \in {"paid", "failed"} => stripe[s] = verdict
    /\ verdict = "processing" => stripe[s] \in Verdicts
EventsAreTrue == \A e \in events : Confirms(e.session, StatusOf(e))

IInv ==
    /\ TypeOK
    /\ RequestsFollow
    /\ HandlersServe
    /\ SentInOrder
    /\ ArrivalIsFirst
    /\ TickIsFirst
    /\ EntriesAreKept
    /\ CompletersKnow
    /\ CompletionIsReported
    /\ EventsAreTrue
    /\ PaymentIsHonest

-----------------------------------------------------------------------------
(* The invariant is inductive *)

LEMMA StepKeepsTypes == IInv /\ [Next]_vars => TypeOK'
<1> SUFFICES ASSUME IInv, [Next]_vars PROVE TypeOK'
  OBVIOUS
<1> USE DEF IInv, TypeOK, HandlersServe, Serves, rowVars, paymentVars, markVars, lifeVars, agentVars, handlerVars, stripeVars
<1>1. ASSUME NEW r \in Request, NEW k \in FieldKinds, Queue(r, k) PROVE TypeOK'
  BY <1>1 DEF Queue, Make, Kinds
<1>2. ASSUME NEW r \in Request, Slack(r) PROVE TypeOK'
  <2>1. kind' \in [Request -> Kinds \cup {None}]
    BY <1>2 DEF Slack, Make, Kinds
  <2>2. status' \in Statuses /\ reopened' \in BOOLEAN /\ quiet' \in BOOLEAN
    BY <1>2 DEF Slack, SetStatus, Statuses
  <2> QED
    BY <1>2, <2>1, <2>2 DEF Slack
<1>3. ASSUME NEW h \in Handler, NEW r \in Request, Send(h, r) PROVE TypeOK'
  BY <1>3 DEF Send, Begin
<1>4. ASSUME NEW h \in Handler, NEW r \in Request, AskForLink(h, r) PROVE TypeOK'
  BY <1>4 DEF AskForLink, Make, Begin, Kinds
<1>5. ASSUME NEW h \in Handler, ReadMarks(h) PROVE TypeOK'
  BY <1>5 DEF ReadMarks, At, Go, Acknowledge, Leave
<1>6. ASSUME NEW h \in Handler, WriteMark(h) PROVE TypeOK'
  BY <1>6 DEF WriteMark, At, Acknowledge, Leave
<1>7. ASSUME NEW h \in Handler, ReadItem(h) PROVE TypeOK'
  BY <1>7 DEF ReadItem, At, Go, NewTime
<1>8. ASSUME NEW h \in Handler, WriteItem(h) PROVE TypeOK'
  BY <1>8 DEF WriteItem, At, Acknowledge, Leave
<1>9. ASSUME NEW h \in Handler, LookUpEntry(h) PROVE TypeOK'
  BY <1>9 DEF LookUpEntry, At, Go, Acknowledge, Leave
<1>10. ASSUME NEW h \in Handler, CreateEntry(h) PROVE TypeOK'
  BY <1>10 DEF CreateEntry, At, Acknowledge, Fail, Leave
<1>11. ASSUME NEW h \in Handler, ReadStatus(h) PROVE TypeOK'
  BY <1>11 DEF ReadStatus, At
<1>12. ASSUME NEW h \in Handler, LockRow(h) PROVE TypeOK'
  BY <1>12 DEF LockRow, At
<1>13. ASSUME NEW h \in Handler, CommitStatus(h) PROVE TypeOK'
  <2>1. serves[h] \in Request /\ kind[serves[h]] \in Statuses
    BY <1>13 DEF CommitStatus, At
  <2>2. /\ status' \in Statuses
        /\ reopened' \in BOOLEAN /\ quiet' \in BOOLEAN /\ outbox' \in BOOLEAN
    BY <1>13, <2>1 DEF CommitStatus, SetStatus
  <2>3. /\ acked' \subseteq Request /\ pc' \in [Handler -> {"idle", "read", "write"}]
        /\ serves' \in [Handler -> Request \cup {None}]
        /\ seen' \in [Handler -> Request \cup Session \cup {None}]
        /\ shouldEmit' \subseteq Handler /\ waiting' \in Handler \cup {None}
    <3>1. Leave(h) /\ acked' \in {acked, acked \cup {serves[h]}}
      BY <1>13 DEF CommitStatus, Acknowledge, Fail
    <3> QED
      BY <2>1, <3>1 DEF Leave
  <2> QED
    BY <1>13, <2>2, <2>3 DEF CommitStatus
<1>14. ASSUME NEW h \in Handler, NEW s \in Session, CreateSession(h, s) PROVE TypeOK'
  BY <1>14 DEF CreateSession, At, Go
<1>15. ASSUME NEW h \in Handler, WriteLink(h) PROVE TypeOK'
  BY <1>15 DEF WriteLink, At, Fail, Leave
<1>16. ASSUME NEW h \in Handler, Crash(h) PROVE TypeOK'
  BY <1>16 DEF Crash, Fail, Leave, Fault
<1>17. ASSUME NEW s \in Session, StripeDecides(s) PROVE TypeOK'
  <2>1. stripe' \in [Session -> Verdicts \cup {"none", "open"}]
    BY <1>17 DEF StripeDecides, Verdicts
  <2>2. events' \subseteq StripeEvents
    BY <1>17 DEF StripeDecides, StripeSends, StripeEvents
  <2> QED
    BY <1>17, <2>1, <2>2 DEF StripeDecides
<1>18. ASSUME NEW e \in events, Webhook(e) PROVE TypeOK'
  BY <1>18 DEF Webhook, StatusOf, Verdicts
<1>19. ASSUME Timeout PROVE TypeOK'
  BY <1>19 DEF Timeout, Fault
<1>20. ASSUME UNCHANGED vars PROVE TypeOK'
  BY <1>20 DEF vars
<1> QED
  BY <1>1, <1>2, <1>3, <1>4, <1>5, <1>6, <1>7, <1>8, <1>9, <1>10, <1>11, <1>12, <1>13, <1>14,
     <1>15, <1>16, <1>17, <1>18, <1>19, <1>20 DEF Next, HandlerStep, StatusStep

\* Requests keep their kinds, and answers are not taken back.
Grows ==
    /\ acked \subseteq acked'
    /\ \A r \in Request : kind[r] # None => kind'[r] = kind[r]

LEMMA StepGrows == IInv /\ [Next]_vars => Grows
<1> SUFFICES ASSUME IInv, [Next]_vars PROVE Grows
  OBVIOUS
<1> USE DEF IInv, TypeOK, Grows, agentVars
<1>1. ASSUME NEW r \in Request, NEW k \in FieldKinds, Queue(r, k) PROVE Grows
  BY <1>1 DEF Queue, Make
<1>2. ASSUME NEW r \in Request, Slack(r) PROVE Grows
  BY <1>2 DEF Slack, Make
<1>3. ASSUME NEW h \in Handler, NEW r \in Request, Send(h, r) \/ AskForLink(h, r) PROVE Grows
  BY <1>3 DEF Send, AskForLink, Make
<1>4. ASSUME NEW h \in Handler, HandlerStep(h) \/ Crash(h) PROVE Grows
  BY <1>4 DEF HandlerStep, StatusStep, ReadMarks, WriteMark, ReadItem, WriteItem, LookUpEntry,
       CreateEntry, ReadStatus, LockRow, CommitStatus, WriteLink, Crash, Go, Acknowledge, Fail
<1>5. ASSUME NEW h \in Handler, NEW s \in Session, CreateSession(h, s) PROVE Grows
  BY <1>5 DEF CreateSession, Go
<1>6. ASSUME NEW s \in Session, StripeDecides(s) PROVE Grows
  BY <1>6 DEF StripeDecides
<1>7. ASSUME NEW e \in events, Webhook(e) PROVE Grows
  BY <1>7 DEF Webhook
<1>8. ASSUME Timeout \/ UNCHANGED vars PROVE Grows
  BY <1>8 DEF Timeout, vars
<1> QED
  BY <1>1, <1>2, <1>3, <1>4, <1>5, <1>6, <1>7, <1>8 DEF Next

\* The first request of a kind stays the first: later ones are made after it.
LEMMA FirstStays ==
  ASSUME IInv, Grows, NEW k \in Kinds, NEW r, First(k, r)
  PROVE  First(k, r)'
<1>1. k # None
  BY NoneAssumption
<1> QED
  BY <1>1 DEF IInv, RequestsFollow, Grows, First

\* There is one first request, which no other of its kind precedes.
LEMMA FirstIsLeast ==
  ASSUME NEW k, NEW r, First(k, r), NEW q \in Request, kind[q] = k
  PROVE  r \in Request /\ r <= q
  BY BoundAssumption DEF First, Request

\* A step of one handler leaves the others alone.
Alone(h) ==
    \A g \in Handler : g # h =>
        /\ pc'[g] = pc[g] /\ serves'[g] = serves[g] /\ seen'[g] = seen[g]
        /\ g \in shouldEmit' <=> g \in shouldEmit
        /\ waiting' = g => waiting = g
        /\ lock' = g => lock = g

LEMMA HandlersMoveAlone ==
  ASSUME IInv
  PROVE  /\ \A h \in Handler, r \in Request : Send(h, r) \/ AskForLink(h, r) => Alone(h)
         /\ \A h \in Handler : HandlerStep(h) \/ Crash(h) => Alone(h)
         /\ \A h \in Handler, s \in Session : CreateSession(h, s) => Alone(h)
<1> USE DEF IInv, TypeOK, Alone, agentVars, handlerVars
<1>0. None \notin Handler
  BY NoneAssumption
<1>1. ASSUME NEW h \in Handler, NEW r \in Request, Send(h, r) \/ AskForLink(h, r) PROVE Alone(h)
  BY <1>1 DEF Send, AskForLink, Begin
<1>2. ASSUME NEW h \in Handler, Leave(h), lock' \in {lock, None} PROVE Alone(h)
  BY <1>0, <1>2 DEF Leave
<1>3. ASSUME NEW h \in Handler, NEW value, Go(h, value), UNCHANGED lock PROVE Alone(h)
  BY <1>3 DEF Go
<1>4. ASSUME NEW h \in Handler, HandlerStep(h) \/ Crash(h) PROVE Alone(h)
  <2>1. CASE ReadMarks(h) \/ ReadItem(h) \/ LookUpEntry(h)
    BY <1>2, <1>3, <2>1 DEF ReadMarks, ReadItem, LookUpEntry, Acknowledge
  <2>2. CASE WriteMark(h) \/ WriteItem(h) \/ CreateEntry(h) \/ CommitStatus(h) \/ WriteLink(h) \/ Crash(h)
    BY <1>2, <2>2 DEF WriteMark, WriteItem, CreateEntry, CommitStatus, WriteLink, Crash,
         Acknowledge, Fail
  <2>3. CASE ReadStatus(h)
    BY <2>3 DEF ReadStatus
  <2>4. CASE LockRow(h)
    BY <2>4 DEF LockRow
  <2> QED
    BY <1>4, <2>1, <2>2, <2>3, <2>4 DEF HandlerStep, StatusStep
<1>5. ASSUME NEW h \in Handler, NEW s \in Session, CreateSession(h, s) PROVE Alone(h)
  BY <1>3, <1>5 DEF CreateSession
<1> QED
  BY <1>1, <1>4, <1>5

LEMMA StepKeepsRequests == IInv /\ [Next]_vars => RequestsFollow'
<1> SUFFICES ASSUME IInv, [Next]_vars PROVE RequestsFollow'
  OBVIOUS
<1> USE DEF IInv, TypeOK, RequestsFollow, HandlersServe, Serves, rowVars, paymentVars, markVars, lifeVars, agentVars, handlerVars, stripeVars
<1>1. ASSUME NEW r \in Request, NEW k \in FieldKinds, Queue(r, k) PROVE RequestsFollow'
  BY <1>1, NoneAssumption DEF Queue, Make, Kinds
<1>2. ASSUME NEW r \in Request, Slack(r) PROVE RequestsFollow'
  BY <1>2, NoneAssumption DEF Slack, Make, SetStatus, Kinds
<1>3. ASSUME NEW h \in Handler, NEW r \in Request, Send(h, r) PROVE RequestsFollow'
  BY <1>3 DEF Send, Begin
<1>4. ASSUME NEW h \in Handler, NEW r \in Request, AskForLink(h, r) PROVE RequestsFollow'
  BY <1>4, NoneAssumption DEF AskForLink, Make, Begin, Kinds
<1>5. ASSUME NEW h \in Handler, ReadMarks(h) PROVE RequestsFollow'
  BY <1>5 DEF ReadMarks, At, Go, Acknowledge, Leave
<1>6. ASSUME NEW h \in Handler, WriteMark(h) PROVE RequestsFollow'
  BY <1>6 DEF WriteMark, At, Acknowledge, Leave
<1>7. ASSUME NEW h \in Handler, ReadItem(h) PROVE RequestsFollow'
  BY <1>7 DEF ReadItem, At, Go
<1>8. ASSUME NEW h \in Handler, WriteItem(h) PROVE RequestsFollow'
  BY <1>8 DEF WriteItem, At, Acknowledge, Leave
<1>9. ASSUME NEW h \in Handler, LookUpEntry(h) PROVE RequestsFollow'
  BY <1>9 DEF LookUpEntry, At, Go, Acknowledge, Leave
<1>10. ASSUME NEW h \in Handler, CreateEntry(h) PROVE RequestsFollow'
  BY <1>10 DEF CreateEntry, At, Acknowledge, Fail, Leave
<1>11. ASSUME NEW h \in Handler, ReadStatus(h) PROVE RequestsFollow'
  BY <1>11 DEF ReadStatus, At
<1>12. ASSUME NEW h \in Handler, LockRow(h) PROVE RequestsFollow'
  BY <1>12 DEF LockRow, At
<1>13. ASSUME NEW h \in Handler, CommitStatus(h) PROVE RequestsFollow'
  BY <1>13 DEF CommitStatus, Acknowledge, Fail, Leave, SetStatus, At
<1>14. ASSUME NEW h \in Handler, NEW s \in Session, CreateSession(h, s) PROVE RequestsFollow'
  BY <1>14 DEF CreateSession, At, Go
<1>15. ASSUME NEW h \in Handler, WriteLink(h) PROVE RequestsFollow'
  BY <1>15 DEF WriteLink, At, Fail, Leave
<1>16. ASSUME NEW h \in Handler, Crash(h) PROVE RequestsFollow'
  BY <1>16 DEF Crash, Fail, Leave, Fault
<1>17. ASSUME NEW s \in Session, StripeDecides(s) PROVE RequestsFollow'
  BY <1>17 DEF StripeDecides, StripeSends
<1>18. ASSUME NEW e \in events, Webhook(e) PROVE RequestsFollow'
  BY <1>18 DEF Webhook
<1>19. ASSUME Timeout PROVE RequestsFollow'
  BY <1>19 DEF Timeout, Fault
<1>20. ASSUME UNCHANGED vars PROVE RequestsFollow'
  BY <1>20 DEF vars
<1> QED
  BY <1>1, <1>2, <1>3, <1>4, <1>5, <1>6, <1>7, <1>8, <1>9, <1>10, <1>11, <1>12, <1>13, <1>14,
     <1>15, <1>16, <1>17, <1>18, <1>19, <1>20 DEF Next, HandlerStep, StatusStep

\* What a handler at work knows stays so while others step.
LEMMA OthersServe ==
  ASSUME IInv, Grows, NEW h \in Handler, Alone(h), NEW g \in Handler, g # h
  PROVE  Serves(g)'
<1>1. Serves(g) /\ (pc[g] # "idle" => kind'[serves[g]] = kind[serves[g]])
  BY DEF IInv, HandlersServe, Serves, Grows
<1>2. waiting' = g => pc[g] # "idle"
  BY <1>1 DEF Alone, Serves
<1> QED
  BY <1>1, <1>2 DEF Alone, Serves, At

\* It is enough to look at the handler that moves.
LEMMA MoverServes ==
  ASSUME IInv, Grows, NEW h \in Handler, Alone(h), Serves(h)'
  PROVE  HandlersServe'
<1>1. \A g \in Handler : g # h => Serves(g)'
  BY OthersServe
<1> QED
  BY <1>1 DEF HandlersServe

\* A handler that has left serves nobody.
LEMMA LeaverServes ==
  ASSUME IInv, NEW h \in Handler, Leave(h), lock # h \/ lock' # h, lock' \in {lock, None}
  PROVE  Serves(h)'
  BY NoneAssumption DEF IInv, TypeOK, Leave, Serves, At

LEMMA StepKeepsService == IInv /\ [Next]_vars => HandlersServe'
<1> SUFFICES ASSUME IInv, [Next]_vars PROVE HandlersServe'
  OBVIOUS
<1>0. Grows
  BY StepGrows
<1> USE DEF IInv, TypeOK, agentVars, handlerVars
<1>1. ASSUME UNCHANGED <<pc, serves, seen, waiting, lock>> PROVE HandlersServe'
  BY <1>0, <1>1 DEF HandlersServe, Serves, Grows, At
<1>2. ASSUME NEW h \in Handler, NEW r \in Request, Send(h, r) PROVE HandlersServe'
  <2>1. kind[r] \in FieldKinds /\ kind[r] # None
    BY <1>2, NoneAssumption DEF Send, FieldRequests, Kinds
  <2>2. lock # h
    BY <1>2 DEF Send, Begin, HandlersServe, Serves
  <2>3. Serves(h)'
    BY <1>2, <2>1, <2>2 DEF Send, Begin, Serves, At
  <2> QED
    BY <1>0, <1>2, <2>3, HandlersMoveAlone, MoverServes
<1>3. ASSUME NEW h \in Handler, NEW r \in Request, AskForLink(h, r) PROVE HandlersServe'
  <2>1. lock # h /\ waiting # h
    BY <1>3 DEF AskForLink, Begin, HandlersServe, Serves
  <2>2. kind'[r] # None
    BY <1>3, NoneAssumption DEF AskForLink, Make, Kinds
  <2>3. Serves(h)'
    BY <1>3, <2>1, <2>2 DEF AskForLink, Begin, Serves, At
  <2> QED
    BY <1>0, <1>3, <2>3, HandlersMoveAlone, MoverServes
<1>4. ASSUME NEW h \in Handler, pc[h] = "read", NEW value, Go(h, value), UNCHANGED <<kind, lock>>,
             kind[serves[h]] = "link" => value \in Session,
             kind[serves[h]] \in {"tick", "untick"} => value \in Request \cup {None}
      PROVE  Serves(h)'
  <2>1. lock # h
    BY <1>4 DEF HandlersServe, Serves, At
  <2>2. pc'[h] = "write" /\ seen'[h] = value /\ serves'[h] = serves[h] /\ waiting' = waiting
    BY <1>4 DEF Go
  <2> QED
    BY <1>4, <2>1, <2>2 DEF HandlersServe, Serves, At
<1>5. ASSUME NEW h \in Handler, ReadMarks(h) PROVE HandlersServe'
  <2>1. pc[h] = "read" /\ kind[serves[h]] \in {"arrived", "departed"} /\ UNCHANGED <<kind, lock>>
    BY <1>5 DEF ReadMarks, At
  <2>2. lock # h
    BY <2>1 DEF HandlersServe, Serves, At
  <2>3. Go(h, None) \/ Leave(h)
    BY <1>5 DEF ReadMarks, Acknowledge
  <2>4. Serves(h)'
    BY <1>4, <2>1, <2>2, <2>3, LeaverServes
  <2> QED
    BY <1>0, <1>5, <2>4, HandlersMoveAlone, MoverServes DEF HandlerStep
<1>6. ASSUME NEW h \in Handler, ReadItem(h) PROVE HandlersServe'
  <2>1. /\ pc[h] = "read" /\ kind[serves[h]] \in {"tick", "untick"} /\ UNCHANGED <<kind, lock>>
        /\ Go(h, NewTime(h))
    BY <1>6 DEF ReadItem, At
  <2>2. NewTime(h) \in Request \cup {None}
    BY <2>1 DEF NewTime, HandlersServe, Serves
  <2>3. Serves(h)'
    BY <1>4, <2>1, <2>2
  <2> QED
    BY <1>0, <1>6, <2>3, HandlersMoveAlone, MoverServes DEF HandlerStep
<1>7. ASSUME NEW h \in Handler, LookUpEntry(h) PROVE HandlersServe'
  <2>1. pc[h] = "read" /\ kind[serves[h]] = "clock_in" /\ UNCHANGED <<kind, lock>>
    BY <1>7 DEF LookUpEntry, At
  <2>2. lock # h
    BY <2>1 DEF HandlersServe, Serves, At
  <2>3. Go(h, None) \/ Leave(h)
    BY <1>7 DEF LookUpEntry, Acknowledge
  <2>4. Serves(h)'
    BY <1>4, <2>1, <2>2, <2>3, LeaverServes
  <2> QED
    BY <1>0, <1>7, <2>4, HandlersMoveAlone, MoverServes DEF HandlerStep
<1>8. ASSUME NEW h \in Handler,
             WriteMark(h) \/ WriteItem(h) \/ CreateEntry(h) \/ WriteLink(h)
      PROVE  HandlersServe'
  <2>1. At(h, "write", Kinds \ Statuses) /\ UNCHANGED lock /\ Leave(h)
    BY <1>8 DEF WriteMark, WriteItem, CreateEntry, WriteLink, Acknowledge, Fail, At, Kinds,
         FieldKinds, Statuses
  <2>2. lock # h
    BY <2>1 DEF HandlersServe, Serves, At
  <2>3. Serves(h)'
    BY <2>1, <2>2, LeaverServes
  <2> QED
    BY <1>0, <1>8, <2>3, HandlersMoveAlone, MoverServes DEF HandlerStep
<1>9. ASSUME NEW h \in Handler, CommitStatus(h) \/ Crash(h) PROVE HandlersServe'
  <2>1. Leave(h) /\ lock' \in {lock, None} /\ lock' # h
    BY <1>9, NoneAssumption DEF CommitStatus, Crash, Acknowledge, Fail
  <2>2. Serves(h)'
    BY <2>1, LeaverServes
  <2> QED
    BY <1>0, <1>9, <2>2, HandlersMoveAlone, MoverServes DEF HandlerStep, StatusStep
<1>10. ASSUME NEW h \in Handler, ReadStatus(h) PROVE HandlersServe'
  <2>1. /\ pc[h] = "read" /\ kind[serves[h]] \in Statuses /\ UNCHANGED <<kind, lock, serves,
                                                                         waiting>>
        /\ pc'[h] = "write"
    BY <1>10 DEF ReadStatus, At
  <2>2. Serves(h)'
    BY <2>1 DEF HandlersServe, Serves, At, Statuses
  <2> QED
    BY <1>0, <1>10, <2>2, HandlersMoveAlone, MoverServes DEF HandlerStep, StatusStep
<1>11. ASSUME NEW h \in Handler, LockRow(h) PROVE HandlersServe'
  <2>1. Serves(h)'
    BY <1>11 DEF LockRow, HandlersServe, Serves, At
  <2> QED
    BY <1>0, <1>11, <2>1, HandlersMoveAlone, MoverServes DEF HandlerStep, StatusStep
<1>12. ASSUME NEW h \in Handler, NEW s \in Session, CreateSession(h, s) PROVE HandlersServe'
  <2>1. pc[h] = "read" /\ kind[serves[h]] = "link" /\ Go(h, s) /\ UNCHANGED <<kind, lock>>
    BY <1>12 DEF CreateSession, At
  <2>2. Serves(h)'
    BY <1>4, <2>1
  <2> QED
    BY <1>0, <1>12, <2>2, HandlersMoveAlone, MoverServes
<1>13. ASSUME NEW r \in Request, Slack(r) \/ \E k \in FieldKinds : Queue(r, k)
       PROVE  HandlersServe'
  BY <1>1, <1>13 DEF Slack, Queue
<1>14. ASSUME Timeout PROVE HandlersServe'
  BY <1>14, NoneAssumption DEF Timeout, HandlersServe, Serves, At
<1>15. ASSUME NEW s \in Session, StripeDecides(s) PROVE HandlersServe'
  BY <1>1, <1>15 DEF StripeDecides
<1>16. ASSUME NEW e \in events, Webhook(e) PROVE HandlersServe'
  BY <1>1, <1>16 DEF Webhook
<1>17. ASSUME UNCHANGED vars PROVE HandlersServe'
  BY <1>1, <1>17 DEF vars
<1> QED
  BY <1>2, <1>3, <1>5, <1>6, <1>7, <1>8, <1>9, <1>10, <1>11, <1>12, <1>13, <1>14, <1>15, <1>16,
     <1>17 DEF Next, HandlerStep, StatusStep

\* What becomes of a handler in a step: it is done, stays where it is, has read what it
\* needs, or begins.
Stays(g) == pc'[g] = pc[g] /\ seen'[g] = seen[g] /\ (g \in shouldEmit' <=> g \in shouldEmit)
HasRead(g) ==
    /\ pc[g] = "read"
    /\ \/ ReadMarks(g) \/ ReadItem(g) \/ LookUpEntry(g) \/ ReadStatus(g)
       \/ \E s \in Session : CreateSession(g, s)
Progress(g) ==
    \/ pc'[g] = "idle"
    \/ pc[g] # "idle" /\ serves'[g] = serves[g] /\ (Stays(g) \/ HasRead(g))
    \/ pc'[g] = "read" /\ \E r \in Request : Send(g, r) \/ AskForLink(g, r)

LEMMA HandlersProgress == IInv /\ [Next]_vars => \A g \in Handler : Progress(g)
<1> SUFFICES ASSUME IInv, [Next]_vars, NEW g \in Handler PROVE Progress(g)
  OBVIOUS
<1> USE DEF IInv, TypeOK, Progress
<1>1. ASSUME UNCHANGED handlerVars PROVE Progress(g)
  BY <1>1 DEF handlerVars, Stays
<1>2. ASSUME NEW h \in Handler, Alone(h), h # g PROVE Progress(g)
  BY <1>2 DEF Alone, Stays
<1>3. ASSUME NEW r \in Request, Send(g, r) \/ AskForLink(g, r) PROVE Progress(g)
  BY <1>3 DEF Send, AskForLink, Begin
<1>4. ASSUME Leave(g) PROVE Progress(g)
  BY <1>4 DEF Leave
<1>5. ASSUME HasRead(g), NEW value, Go(g, value) PROVE Progress(g)
  BY <1>5 DEF HasRead, Go
<1>6. ASSUME ReadMarks(g) \/ ReadItem(g) \/ LookUpEntry(g) \/ \E s \in Session : CreateSession(g, s)
      PROVE  Progress(g)
  <2>1. HasRead(g)
    BY <1>6 DEF HasRead, ReadMarks, ReadItem, LookUpEntry, CreateSession, At
  <2>2. Leave(g) \/ \E value : Go(g, value)
    BY <1>6 DEF ReadMarks, ReadItem, LookUpEntry, CreateSession, Acknowledge
  <2> QED
    BY <1>4, <1>5, <2>1, <2>2
<1>7. ASSUME ReadStatus(g) PROVE Progress(g)
  <2>1. HasRead(g)
    BY <1>7 DEF HasRead, ReadStatus, At
  <2> QED
    BY <1>7, <2>1 DEF ReadStatus, HasRead
<1>8. ASSUME WriteMark(g) \/ WriteItem(g) \/ CreateEntry(g) \/ CommitStatus(g) \/ WriteLink(g)
             \/ Crash(g)
      PROVE  Progress(g)
  <2>1. Leave(g)
    BY <1>8 DEF WriteMark, WriteItem, CreateEntry, CommitStatus, WriteLink, Crash, Acknowledge,
       Fail
  <2> QED
    BY <1>4, <2>1
<1>9. ASSUME LockRow(g) PROVE Progress(g)
  BY <1>1, <1>9 DEF LockRow
<1>10. ASSUME NEW h \in Handler,
              \/ \E r \in Request : Send(h, r) \/ AskForLink(h, r)
              \/ HandlerStep(h) \/ Crash(h) \/ \E s \in Session : CreateSession(h, s)
       PROVE  Progress(g)
  <2>1. CASE h = g
    BY <1>3, <1>6, <1>7, <1>8, <1>9, <1>10, <2>1 DEF HandlerStep, StatusStep
  <2>2. CASE h # g
    BY <1>2, <1>10, <2>2, HandlersMoveAlone
  <2> QED
    BY <2>1, <2>2
<1>11. ASSUME NEW r \in Request, Slack(r) \/ \E k \in FieldKinds : Queue(r, k) PROVE Progress(g)
  BY <1>1, <1>11 DEF Slack, Queue
<1>12. ASSUME NEW s \in Session, StripeDecides(s) PROVE Progress(g)
  BY <1>1, <1>12 DEF StripeDecides
<1>13. ASSUME NEW e \in events, Webhook(e) PROVE Progress(g)
  BY <1>1, <1>13 DEF Webhook
<1>14. ASSUME Timeout \/ UNCHANGED vars PROVE Progress(g)
  BY <1>1, <1>14 DEF Timeout, vars
<1> QED
  BY <1>10, <1>11, <1>12, <1>13, <1>14 DEF Next

\* A new acknowledgement is for the request of a handler that ends.
Answering(h) ==
    ReadMarks(h) \/ WriteMark(h) \/ WriteItem(h) \/ LookUpEntry(h) \/ CreateEntry(h) \/ CommitStatus(h)

LEMMA NewAcknowledgements ==
  ASSUME IInv, [Next]_vars, NEW r \in acked' \ acked
  PROVE  \E h \in Handler :
            Answering(h) /\ Acknowledge(h) /\ serves[h] = r /\ pc[h] # "idle"
<1> USE DEF IInv, TypeOK, agentVars
<1>1. acked' # acked
  OBVIOUS
<1>2. ASSUME NEW h \in Handler, HandlerStep(h) PROVE Answering(h)
  BY <1>1, <1>2 DEF HandlerStep, StatusStep, ReadItem, ReadStatus, LockRow, WriteLink, Answering,
     Go, Fail
<1>3. ASSUME NEW h \in Handler, Answering(h) PROVE Acknowledge(h)
  BY <1>1, <1>3 DEF Answering, ReadMarks, WriteMark, WriteItem, LookUpEntry, CreateEntry,
     CommitStatus, Go, Fail
<1>4. ASSUME NEW h \in Handler, Acknowledge(h) PROVE serves[h] = r /\ pc[h] # "idle"
  BY <1>1, <1>4 DEF Acknowledge, HandlersServe, Serves
<1>5. \E h \in Handler : HandlerStep(h)
  BY <1>1 DEF Next, Queue, Slack, Send, AskForLink, Crash, CreateSession, Go, Fail, StripeDecides,
     Webhook, Timeout, vars
<1> QED
  BY <1>2, <1>3, <1>4, <1>5

LEMMA StepKeepsOrder == IInv /\ [Next]_vars => SentInOrder'
<1> SUFFICES ASSUME IInv, [Next]_vars, NEW g \in Handler PROVE Follows(g)'
  BY DEF SentInOrder
<1>0. Grows /\ Progress(g)
  BY StepGrows, HandlersProgress
<1>1. CASE pc'[g] = "idle"
  BY <1>1 DEF Follows
<1>2. CASE pc[g] # "idle" /\ serves'[g] = serves[g]
  <2>1. serves[g] \in Request /\ kind[serves[g]] # None /\ Follows(g)
    BY <1>2 DEF IInv, HandlersServe, Serves, SentInOrder
  <2>2. \A q \in FieldRequests' : q < serves[g] => q \in FieldRequests
    BY <1>0, <2>1 DEF IInv, RequestsFollow, Grows, FieldRequests
  <2> QED
    BY <1>0, <1>2, <2>1, <2>2 DEF Follows, Grows
<1>3. ASSUME NEW r \in Request, Send(g, r) PROVE Follows(g)'
  <2>1. serves'[g] = r /\ kind' = kind /\ acked' = acked
    BY <1>3 DEF Send, Begin, IInv, TypeOK
  <2>2. \A q \in FieldRequests : q < r => q \in acked
    BY <1>3, BoundAssumption DEF Send, FieldRequests, Request
  <2> QED
    BY <2>1, <2>2 DEF Follows, FieldRequests
<1>4. ASSUME NEW r \in Request, AskForLink(g, r) PROVE Follows(g)'
  BY <1>4 DEF AskForLink, Make, Begin, Follows, IInv, TypeOK, FieldKinds, Statuses
<1> QED
  BY <1>0, <1>1, <1>2, <1>3, <1>4 DEF Progress

\* Who writes the marks, the item and the entries.
LEMMA FieldWrites ==
  ASSUME IInv, [Next]_vars
  PROVE  /\ \/ arrivedAt' = arrivedAt
            \/ \E h \in Handler : At(h, "write", {"arrived"}) /\ arrivedAt' = serves[h]
         /\ \/ completedAt' = completedAt
            \/ \E h \in Handler : At(h, "write", {"tick", "untick"}) /\ completedAt' = seen[h]
         /\ entries \subseteq entries'
<1> USE DEF rowVars, markVars
<1>1. ASSUME NEW h \in Handler, HandlerStep(h)
      PROVE  /\ \/ arrivedAt' = arrivedAt
                \/ At(h, "write", {"arrived"}) /\ arrivedAt' = serves[h]
             /\ \/ completedAt' = completedAt
                \/ At(h, "write", {"tick", "untick"}) /\ completedAt' = seen[h]
             /\ entries \subseteq entries'
  BY <1>1 DEF HandlerStep, StatusStep, ReadMarks, WriteMark, ReadItem, WriteItem, LookUpEntry,
     CreateEntry, ReadStatus, LockRow, CommitStatus, WriteLink, At
<1>2. ASSUME ~ \E h \in Handler : HandlerStep(h)
      PROVE  UNCHANGED <<arrivedAt, completedAt, entries>>
  BY <1>2 DEF Next, Queue, Slack, Send, AskForLink, Crash, CreateSession, StripeDecides,
     Webhook, Timeout, vars
<1> QED
  BY <1>1, <1>2

LEMMA StepKeepsArrival == IInv /\ [Next]_vars => ArrivalIsFirst'
<1> SUFFICES ASSUME IInv, [Next]_vars PROVE ArrivalIsFirst'
  OBVIOUS
<1>0. /\ TypeOK /\ RequestsFollow /\ HandlersServe /\ SentInOrder /\ ArrivalIsFirst /\ Grows
      /\ "arrived" \in FieldKinds \cap Kinds
  BY StepGrows DEF IInv, Kinds, FieldKinds
<1>1. ASSUME NEW r, First("arrived", r)
      PROVE  r \in Request /\ kind'[r] = "arrived" /\ \A q \in Request : q < r => kind'[q] # "arrived"
  BY <1>0, <1>1, FirstStays DEF First
<1>2. ASSUME arrivedAt' # None PROVE First("arrived", arrivedAt)'
  <2>1. First("arrived", arrivedAt')
    BY <1>0, <1>2, FieldWrites DEF ArrivalIsFirst
  <2> QED
    BY <1>1, <2>1 DEF First
<1>3. ASSUME NEW g \in Handler, At(g, "write", {"arrived"})' PROVE First("arrived", serves[g])'
  <2>1. /\ pc'[g] = "write" /\ kind'[serves'[g]] = "arrived"
        /\ pc[g] # "idle" /\ serves'[g] = serves[g] /\ (Stays(g) \/ HasRead(g))
    BY <1>3, HandlersProgress DEF At, Progress
  <2>2. serves[g] \in Request /\ kind[serves[g]] = "arrived"
    BY <1>0, <2>1 DEF HandlersServe, Serves, Grows
  <2>3. First("arrived", serves[g])
    <3>1. CASE Stays(g)
      BY <1>0, <2>1, <2>2, <3>1 DEF Stays, At, ArrivalIsFirst
    <3>2. CASE HasRead(g)
      <4>1. ReadMarks(g) /\ Wins(g)
        <5>1. ReadMarks(g)
          BY <2>2, <3>2 DEF HasRead, ReadItem, LookUpEntry, ReadStatus, CreateSession, At,
             Statuses
        <5>2. ~ Leave(g)
          BY <1>0, <2>1 DEF Leave, TypeOK
        <5> QED
          BY <5>1, <5>2 DEF ReadMarks, Acknowledge
      <4>2. ASSUME NEW q \in Request, q < serves[g], kind[q] = "arrived" PROVE FALSE
        <5>1. q \in acked
          BY <1>0, <2>1, <2>2, <4>2 DEF SentInOrder, Follows, FieldRequests
        <5>2. arrivedAt # None /\ arrivedAt \in Request /\ arrivedAt <= q
          BY <1>0, <4>2, <5>1, FirstIsLeast DEF ArrivalIsFirst
        <5> QED
          BY <2>2, <4>1, <4>2, <5>2, BoundAssumption DEF Wins, Request
      <4> QED
        BY <2>2, <4>2 DEF First
    <3> QED
      BY <2>1, <3>1, <3>2
  <2> QED
    BY <1>1, <2>1, <2>3 DEF First
<1>4. ASSUME NEW r \in acked', kind'[r] = "arrived" PROVE arrivedAt' # None
  <2>1. \A h \in Handler : At(h, "write", {"arrived"}) => serves[h] # None
    BY <1>0, NoneAssumption DEF HandlersServe, Serves, At
  <2>2. arrivedAt # None => arrivedAt' # None
    BY <2>1, FieldWrites
  <2>3. CASE r \in acked
    BY <1>0, <1>4, <2>2, <2>3 DEF RequestsFollow, Grows, ArrivalIsFirst, TypeOK
  <2>4. CASE r \notin acked
    <3>1. PICK h \in Handler :
             Answering(h) /\ Acknowledge(h) /\ serves[h] = r /\ pc[h] # "idle"
      BY <2>4, NewAcknowledgements
    <3>2. kind[serves[h]] = "arrived"
      BY <1>0, <1>4, <3>1 DEF HandlersServe, Serves, Grows
    <3>3. ReadMarks(h) \/ WriteMark(h)
      BY <1>0, <3>1, <3>2 DEF Answering, WriteItem, LookUpEntry, CreateEntry, CommitStatus, At,
         HandlersServe, Serves, Statuses
    <3>4. CASE ReadMarks(h)
      <4>1. ~ Wins(h)
        BY <1>0, <3>1, <3>4 DEF ReadMarks, Go, Acknowledge, Leave, TypeOK
      <4> QED
        BY <2>2, <3>2, <4>1 DEF Wins
    <3>5. CASE WriteMark(h)
      BY <2>1, <3>2, <3>5 DEF WriteMark, At
    <3> QED
      BY <3>3, <3>4, <3>5
  <2> QED
    BY <2>3, <2>4
<1> QED
  BY <1>2, <1>3, <1>4 DEF ArrivalIsFirst

LEMMA StepKeepsTick == IInv /\ [Next]_vars => TickIsFirst'
<1> SUFFICES ASSUME IInv, [Next]_vars, NeverUnticked'
             PROVE  /\ completedAt' # None => First("tick", completedAt)'
                    /\ \A h \in Handler : At(h, "write", {"tick"})' => First("tick", seen[h])'
                    /\ \A r \in acked' : kind'[r] = "tick" => completedAt' # None
  BY DEF TickIsFirst
<1>0. /\ TypeOK /\ RequestsFollow /\ HandlersServe /\ SentInOrder /\ TickIsFirst /\ Grows
      /\ "tick" \in FieldKinds \cap Kinds /\ None \notin Kinds
  BY StepGrows, NoneAssumption DEF IInv, Kinds, FieldKinds
<1>1. NeverUnticked
  <2>1. \A q \in Request : kind[q] = "untick" => kind[q] # None
    BY <1>0 DEF Kinds, FieldKinds
  <2> QED
    BY <1>0, <2>1 DEF NeverUnticked, Grows
<1>2. /\ completedAt # None => First("tick", completedAt)
      /\ \A h \in Handler : At(h, "write", {"tick"}) => First("tick", seen[h])
      /\ \A r \in acked : kind[r] = "tick" => completedAt # None
  BY <1>0, <1>1 DEF TickIsFirst
<1>3. \A h \in Handler : At(h, "write", {"tick", "untick"}) => First("tick", seen[h])
  BY <1>0, <1>1, <1>2 DEF At, NeverUnticked, HandlersServe, Serves
<1>4. \A r : First("tick", r) => r # None
  BY NoneAssumption DEF First
<1>5. ASSUME NEW r, First("tick", r)
      PROVE  r \in Request /\ kind'[r] = "tick" /\ \A q \in Request : q < r => kind'[q] # "tick"
  BY <1>0, <1>5, FirstStays DEF First
<1>6. completedAt' = completedAt \/ First("tick", completedAt')
  BY <1>3, FieldWrites
<1>7. ASSUME completedAt' # None PROVE First("tick", completedAt)'
  <2>1. First("tick", completedAt')
    BY <1>2, <1>6, <1>7
  <2> QED
    BY <1>5, <2>1 DEF First
<1>8. ASSUME NEW g \in Handler, At(g, "write", {"tick"})' PROVE First("tick", seen[g])'
  <2>1. /\ pc'[g] = "write" /\ kind'[serves'[g]] = "tick"
        /\ pc[g] # "idle" /\ serves'[g] = serves[g] /\ (Stays(g) \/ HasRead(g))
    BY <1>8, HandlersProgress DEF At, Progress
  <2>2. serves[g] \in Request /\ kind[serves[g]] = "tick"
    BY <1>0, <2>1 DEF HandlersServe, Serves, Grows
  <2>3. First("tick", seen'[g])
    <3>1. CASE Stays(g)
      BY <1>2, <2>1, <2>2, <3>1 DEF Stays, At
    <3>2. CASE HasRead(g)
      <4>1. ReadItem(g)
        BY <2>2, <3>2 DEF HasRead, ReadMarks, LookUpEntry, ReadStatus, CreateSession, At, Statuses
      <4>2. seen'[g] = IF completedAt = None THEN serves[g] ELSE completedAt
        BY <1>0, <2>2, <4>1 DEF ReadItem, Go, NewTime, TypeOK
      <4>3. CASE completedAt = None
        <5>1. ASSUME NEW q \in Request, q < serves[g], kind[q] = "tick" PROVE FALSE
          BY <1>0, <1>2, <2>1, <2>2, <4>3, <5>1 DEF SentInOrder, Follows, FieldRequests
        <5> QED
          BY <2>2, <4>2, <4>3, <5>1 DEF First
      <4>4. CASE completedAt # None
        BY <1>2, <4>2, <4>4
      <4> QED
        BY <4>3, <4>4
    <3> QED
      BY <2>1, <3>1, <3>2
  <2> QED
    BY <1>5, <2>3 DEF First
<1>9. ASSUME NEW r \in acked', kind'[r] = "tick" PROVE completedAt' # None
  <2>1. CASE r \in acked
    BY <1>0, <1>2, <1>4, <1>6, <1>9, <2>1 DEF RequestsFollow, Grows, TypeOK
  <2>2. CASE r \notin acked
    <3>1. PICK h \in Handler :
             Answering(h) /\ Acknowledge(h) /\ serves[h] = r /\ pc[h] # "idle"
      BY <2>2, NewAcknowledgements
    <3>2. kind[serves[h]] = "tick"
      BY <1>0, <1>9, <3>1 DEF HandlersServe, Serves, Grows
    <3>3. WriteItem(h)
      BY <1>0, <3>1, <3>2 DEF Answering, ReadMarks, WriteMark, LookUpEntry, CreateEntry,
         CommitStatus, At, HandlersServe, Serves, Statuses
    <3>4. completedAt' = seen[h] /\ At(h, "write", {"tick", "untick"})
      BY <3>3 DEF WriteItem
    <3> QED
      BY <1>3, <1>4, <3>4
  <2> QED
    BY <2>1, <2>2
<1> QED
  BY <1>7, <1>8, <1>9

LEMMA StepKeepsEntries == IInv /\ [Next]_vars => EntriesAreKept'
<1> SUFFICES ASSUME IInv, [Next]_vars, NEW r \in acked', kind'[r] = "clock_in"
             PROVE  r \in entries'
  BY DEF EntriesAreKept
<1>0. TypeOK /\ RequestsFollow /\ HandlersServe /\ EntriesAreKept /\ Grows
  BY StepGrows DEF IInv
<1>1. CASE r \in acked
  BY <1>0, <1>1, FieldWrites DEF EntriesAreKept, RequestsFollow, Grows, TypeOK
<1>2. CASE r \notin acked
  <2>1. PICK h \in Handler :
           Answering(h) /\ Acknowledge(h) /\ serves[h] = r /\ pc[h] # "idle"
    BY <1>2, NewAcknowledgements
  <2>2. kind[serves[h]] = "clock_in"
    BY <1>0, <2>1 DEF HandlersServe, Serves, Grows
  <2>3. LookUpEntry(h) \/ CreateEntry(h)
    BY <1>0, <2>1, <2>2 DEF Answering, ReadMarks, WriteMark, WriteItem, CommitStatus, At,
       HandlersServe, Serves, Statuses
  <2>4. r \in entries \/ r \in entries'
    <3>1. ~ Go(h, None) /\ ~ (acked' = acked)
      BY <1>2 DEF Go
    <3> QED
      BY <2>1, <2>3, <3>1 DEF LookUpEntry, CreateEntry, Fail
  <2> QED
    BY <2>4, FieldWrites
<1> QED
  BY <1>1, <1>2

\* Once reported or quiet, always so; and who completes the job.
LEMMA StatusWrites ==
  ASSUME IInv, [Next]_vars
  PROVE  /\ Reported => Reported'
         /\ \/ status' # "completed" \/ status' = status \/ quiet'
            \/ \E h \in Handler :
                  At(h, "write", {"completed"}) /\ (h \in shouldEmit => outbox')
<1> USE DEF Reported, rowVars, lifeVars
<1>1. ASSUME UNCHANGED lifeVars PROVE UNCHANGED <<status, outbox, quiet>>
  BY <1>1
<1>2. ASSUME NEW h \in Handler, CommitStatus(h)
      PROVE  /\ Reported => Reported'
             /\ \/ status' # "completed" \/ status' = status
                \/ At(h, "write", {"completed"}) /\ (h \in shouldEmit => outbox')
  <2>1. At(h, "write", Statuses)
    BY <1>2 DEF CommitStatus, IInv, HandlersServe, Serves
  <2> QED
    BY <1>2, <2>1 DEF CommitStatus, SetStatus, At
<1>3. ASSUME NEW r \in Request, Slack(r)
      PROVE  (Reported => Reported') /\ (status' # "completed" \/ quiet')
  BY <1>3 DEF Slack, SetStatus
<1>4. ASSUME NEW h \in Handler, HandlerStep(h), ~ CommitStatus(h) PROVE UNCHANGED lifeVars
  BY <1>4 DEF HandlerStep, StatusStep, ReadMarks, WriteMark, ReadItem, WriteItem, LookUpEntry,
     CreateEntry, ReadStatus, LockRow, WriteLink
<1>5. ASSUME ~ \E h \in Handler : HandlerStep(h), ~ \E r \in Request : Slack(r)
      PROVE  UNCHANGED lifeVars
  BY <1>5 DEF Next, Queue, Send, AskForLink, Crash, CreateSession, StripeDecides, Webhook,
     Timeout, vars
<1> QED
  BY <1>1, <1>2, <1>3, <1>4, <1>5

LEMMA StepKeepsCompletions == IInv /\ [Next]_vars => CompletersKnow' /\ CompletionIsReported'
<1> SUFFICES ASSUME IInv, [Next]_vars PROVE CompletersKnow' /\ CompletionIsReported'
  OBVIOUS
<1>0. /\ TypeOK /\ HandlersServe /\ CompletersKnow /\ Grows
      /\ status = "completed" => Reported
  BY StepGrows DEF IInv, CompletionIsReported, Reported
<1>1. ASSUME NEW g \in Handler, At(g, "write", {"completed"})'
      PROVE  g \in shouldEmit' \/ Reported'
  <2>1. /\ pc'[g] = "write" /\ kind'[serves'[g]] = "completed"
        /\ pc[g] # "idle" /\ serves'[g] = serves[g] /\ (Stays(g) \/ HasRead(g))
    BY <1>1, HandlersProgress DEF At, Progress
  <2>2. kind[serves[g]] = "completed"
    BY <1>0, <2>1 DEF HandlersServe, Serves, Grows
  <2>3. CASE Stays(g)
    BY <1>0, <2>1, <2>2, <2>3, StatusWrites DEF CompletersKnow, Stays, At
  <2>4. CASE HasRead(g)
    <3>1. ReadStatus(g)
      BY <2>2, <2>4 DEF HasRead, ReadMarks, ReadItem, LookUpEntry, CreateSession, At
    <3>2. g \in shouldEmit' \/ status = "completed"
      BY <2>2, <3>1 DEF ReadStatus, Emits
    <3> QED
      BY <1>0, <3>2, StatusWrites
  <2> QED
    BY <2>1, <2>3, <2>4
<1>2. status' = "completed" => Reported'
  <2>1. ASSUME NEW h \in Handler, At(h, "write", {"completed"}), h \in shouldEmit => outbox'
        PROVE  Reported'
    BY <1>0, <2>1, StatusWrites DEF CompletersKnow, Reported
  <2> QED
    BY <1>0, <2>1, StatusWrites DEF Reported
<1> QED
  BY <1>1, <1>2 DEF CompletersKnow, CompletionIsReported, Reported, At

\* What Stripe has said of a session holds for good: sessions with a verdict are not opened
\* again, and only a slow payment is decided later.
LEMMA ConfirmedStays ==
  ASSUME IInv, [Next]_vars, NEW s \in Session, NEW verdict \in Verdicts, Confirms(s, verdict)
  PROVE  Confirms(s, verdict)'
<1>1. ASSUME UNCHANGED stripe PROVE Confirms(s, verdict)'
  BY <1>1 DEF Confirms
<1>2. stripe[s] \in Verdicts
  BY DEF Confirms, Verdicts
<1>3. ASSUME NEW h \in Handler, NEW t \in Session, CreateSession(h, t) PROVE Confirms(s, verdict)'
  BY <1>2, <1>3 DEF CreateSession, Confirms, Verdicts, IInv, TypeOK
<1>4. ASSUME NEW t \in Session, StripeDecides(t) PROVE Confirms(s, verdict)'
  BY <1>2, <1>4 DEF StripeDecides, Confirms, Verdicts, IInv, TypeOK
<1>5. ASSUME ~ \E h \in Handler, t \in Session : CreateSession(h, t),
             ~ \E t \in Session : StripeDecides(t)
      PROVE  UNCHANGED stripe
  BY <1>5 DEF Next, Queue, Slack, Send, AskForLink, HandlerStep, StatusStep, ReadMarks, WriteMark,
     ReadItem, WriteItem, LookUpEntry, CreateEntry, ReadStatus, LockRow, CommitStatus, WriteLink,
     Crash, Webhook, Timeout, vars, stripeVars
<1> QED
  BY <1>1, <1>3, <1>4, <1>5

LEMMA StatusesOfEvents ==
  ASSUME NEW e \in StripeEvents PROVE e.session \in Session /\ StatusOf(e) \in Verdicts
  BY DEF StripeEvents, StatusOf, Verdicts

LEMMA StepKeepsEvents == IInv /\ [Next]_vars => EventsAreTrue'
<1> SUFFICES ASSUME IInv, [Next]_vars, NEW e \in events'
             PROVE  Confirms(e.session, StatusOf(e))'
  BY DEF EventsAreTrue, StatusOf
<1>1. CASE e \in events
  <2>1. e.session \in Session /\ StatusOf(e) \in Verdicts /\ Confirms(e.session, StatusOf(e))
    BY <1>1, StatusesOfEvents DEF IInv, TypeOK, EventsAreTrue
  <2>2. \A s \in Session, verdict \in Verdicts :
           Confirms(s, verdict) => /\ verdict \in {"paid", "failed"} => stripe'[s] = verdict
                                   /\ verdict = "processing" => stripe'[s] \in Verdicts
    BY ConfirmedStays DEF Confirms
  <2> QED
    BY <2>1, <2>2 DEF Confirms, StatusOf
<1>2. CASE e \notin events
  <2>1. PICK s \in Session : StripeDecides(s)
    BY <1>2 DEF Next, Queue, Slack, Send, AskForLink, HandlerStep, StatusStep, ReadMarks,
       WriteMark,
       ReadItem, WriteItem, LookUpEntry, CreateEntry, ReadStatus, LockRow, CommitStatus, WriteLink,
       CreateSession, Crash, Webhook, Timeout, vars, stripeVars
  <2>2. stripe \in [Session -> Verdicts \cup {"none", "open"}]
    BY DEF IInv, TypeOK
  <2> QED
    BY <1>2, <2>1, <2>2 DEF StripeDecides, StripeSends, Confirms, StatusOf, Verdicts
<1> QED
  BY <1>1, <1>2

LEMMA StepKeepsPayment == IInv /\ [Next]_vars => PaymentIsHonest'
<1> SUFFICES ASSUME IInv, [Next]_vars PROVE PaymentIsHonest'
  OBVIOUS
<1>0. /\ stripeSessionId \in Session \cup {None} /\ None \notin Session
      /\ paymentStatus \in Verdicts \cup {"unpaid"} /\ events \subseteq StripeEvents
      /\ EventsAreTrue /\ PaymentIsHonest
  BY NoneAssumption DEF IInv, TypeOK
<1> DEFINE Honest(s, verdict) ==
             verdict \in Verdicts => s # None /\ Confirms(s, verdict)
<1>1. PaymentIsHonest <=> Honest(stripeSessionId, paymentStatus)
  BY DEF PaymentIsHonest, Confirms, Verdicts
<1>2. ASSUME NEW s, NEW verdict \in Verdicts, s \in Session, Confirms(s, verdict),
             stripeSessionId' = s, paymentStatus' = verdict
      PROVE  PaymentIsHonest'
  <2>1. /\ verdict \in {"paid", "failed"} => stripe'[s] = verdict
        /\ verdict = "processing" => stripe'[s] \in Verdicts
    BY <1>2, ConfirmedStays DEF Confirms
  <2> QED
    BY <1>0, <1>2, <2>1 DEF PaymentIsHonest
<1>3. ASSUME paymentStatus' = "unpaid" PROVE PaymentIsHonest'
  BY <1>3 DEF PaymentIsHonest
<1>4. ASSUME UNCHANGED paymentVars PROVE PaymentIsHonest'
  <2>1. CASE paymentStatus = "unpaid"
    BY <1>3, <1>4, <2>1 DEF paymentVars
  <2>2. CASE paymentStatus \in Verdicts
    BY <1>0, <1>1, <1>2, <1>4, <2>2 DEF paymentVars
  <2> QED
    BY <1>0, <2>1, <2>2
<1>5. ASSUME NEW h \in Handler, WriteLink(h) PROVE PaymentIsHonest'
  BY <1>3, <1>5 DEF WriteLink
<1>6. ASSUME NEW e \in events, Webhook(e) PROVE PaymentIsHonest'
  <2>1. CASE Matches(e)
    <3>1. e.session \in Session /\ StatusOf(e) \in Verdicts /\ Confirms(e.session, StatusOf(e))
      BY <1>0, StatusesOfEvents DEF EventsAreTrue
    <3>2. stripeSessionId' = e.session /\ paymentStatus' = StatusOf(e)
      BY <1>6, <2>1 DEF Webhook, Matches
    <3> QED
      BY <1>2, <3>1, <3>2
  <2>2. CASE ~ Matches(e)
    BY <1>4, <1>6, <2>2 DEF Webhook, paymentVars
  <2> QED
    BY <2>1, <2>2
<1>7. ASSUME ~ \E h \in Handler : WriteLink(h), ~ \E e \in events : Webhook(e)
      PROVE  UNCHANGED paymentVars
  BY <1>7 DEF Next, Queue, Slack, Send, AskForLink, HandlerStep, StatusStep, ReadMarks, WriteMark,
     ReadItem, WriteItem, LookUpEntry, CreateEntry, ReadStatus, LockRow, CommitStatus,
     CreateSession, Crash, StripeDecides, Timeout, vars, rowVars
<1> QED
  BY <1>4, <1>5, <1>6, <1>7

LEMMA InitEstablishesIInv == Init => IInv
<1> SUFFICES ASSUME Init PROVE IInv
  OBVIOUS
<1>1. TypeOK
  BY NoneAssumption DEF Init, TypeOK
<1>2. RequestsFollow /\ HandlersServe /\ SentInOrder
  BY NoneAssumption DEF Init, RequestsFollow, HandlersServe, Serves, SentInOrder, Follows, At
<1>3. ArrivalIsFirst /\ TickIsFirst /\ EntriesAreKept
  BY DEF Init, ArrivalIsFirst, TickIsFirst, EntriesAreKept, At
<1>4. CompletersKnow /\ CompletionIsReported
  BY DEF Init, CompletersKnow, CompletionIsReported, At
<1>5. EventsAreTrue /\ PaymentIsHonest
  BY DEF Init, EventsAreTrue, PaymentIsHonest
<1> QED
  BY <1>1, <1>2, <1>3, <1>4, <1>5 DEF IInv

-----------------------------------------------------------------------------
(* The theorems *)

\* Requests, handlers, the record and Stripe's verdicts fit together in every state.
THEOREM Invariant == Spec => []IInv
<1>1. IInv /\ [Next]_vars => IInv'
  BY StepKeepsTypes, StepKeepsRequests, StepKeepsService, StepKeepsOrder, StepKeepsArrival,
     StepKeepsTick, StepKeepsEntries, StepKeepsCompletions, StepKeepsEvents, StepKeepsPayment
     DEF IInv
<1> QED
  BY <1>1, InitEstablishesIInv, PTL DEF Spec

\* The job's record, the agent, the handlers and Stripe keep their types.
THEOREM TypeCorrect == Spec => []TypeOK
<1>1. IInv => TypeOK
  BY DEF IInv
<1> QED
  BY <1>1, Invariant, PTL

\* An arrival, a time entry or a ticked item that was acknowledged to the field stays, with
\* its first time, whatever the handlers of abandoned requests write afterwards
\* (POST /:id/events, PATCH /:id/checklist-items/:itemId, POST /:id/time-entries).
THEOREM AcknowledgedStays == Spec => []AcknowledgedIsKept
<1>1. IInv => AcknowledgedIsKept
  <2> SUFFICES ASSUME IInv PROVE AcknowledgedIsKept
    OBVIOUS
  <2>1. ArrivalIsEarliest
    <3> SUFFICES ASSUME NEW r \in acked, kind[r] = "arrived"
                 PROVE  arrivedAt # None /\ arrivedAt <= r
      BY DEF ArrivalIsEarliest
    <3>1. r \in Request /\ arrivedAt # None /\ First("arrived", arrivedAt)
      BY DEF IInv, TypeOK, ArrivalIsFirst
    <3> QED
      BY <3>1, FirstIsLeast
  <2>2. EvidenceIsKept
    <3> SUFFICES ASSUME NEW r \in acked
                 PROVE  /\ kind[r] = "clock_in" => r \in entries
                        /\ kind[r] = "tick" /\ NeverUnticked =>
                              completedAt # None /\ completedAt <= r
      BY DEF EvidenceIsKept, NeverUnticked
    <3>1. kind[r] = "clock_in" => r \in entries
      BY DEF IInv, EntriesAreKept
    <3>2. ASSUME kind[r] = "tick", NeverUnticked PROVE completedAt # None /\ completedAt <= r
      <4>1. r \in Request /\ completedAt # None /\ First("tick", completedAt)
        BY <3>2 DEF IInv, TypeOK, TickIsFirst
      <4> QED
        BY <3>2, <4>1, FirstIsLeast
    <3> QED
      BY <3>1, <3>2
  <2> QED
    BY <2>1, <2>2 DEF AcknowledgedIsKept
<1> QED
  BY <1>1, Invariant, PTL

\* A completed job was reported or came from Slack, and the job shows a verdict on its
\* payment link only when Stripe has given it (PATCH /jobs/:id, routes/paymentWebhook.ts).
THEOREM ReportsStayHonest == Spec => []ReportsAreHonest
<1>1. IInv => ReportsAreHonest
  BY DEF IInv, ReportsAreHonest
<1> QED
  BY <1>1, Invariant, PTL

-----------------------------------------------------------------------------
(* The largest and the smallest of some numbers *)

\* A set of naturals has a least element, and one of integers below a bound a greatest.
LEMMA Smallest ==
    ASSUME NEW T, T \subseteq Nat, T # {}
    PROVE  \E x \in T : \A y \in T : x <= y
<1>1. PICK x \in T : \A y \in T : <<y, x>> \notin OpToRel(<, Nat)
  BY NatLessThanWellFounded, WFMin
<1>2. ASSUME NEW y \in T PROVE x <= y
  <2>1. x \in Nat /\ y \in Nat
    OBVIOUS
  <2>2. ~ (y < x)
    BY <1>1, <1>2, <2>1 DEF OpToRel
  <2> QED
    BY <2>1, <2>2
<1> QED
  BY <1>2

LEMMA LargestOfBounded ==
    ASSUME NEW S, S \subseteq Int, S # {}, NEW n \in Int, \A s \in S : s <= n
    PROVE  Max(S) \in S /\ \A s \in S : s <= Max(S)
<1> DEFINE T == {n - s : s \in S}
<1>1. \A s \in S : n - s \in Nat
  OBVIOUS
<1>2. T \subseteq Nat
  BY <1>1
<1>3. T # {}
  <2>1. PICK s \in S : TRUE
    OBVIOUS
  <2>2. n - s \in T
    BY <2>1
  <2> QED
    BY <2>2
<1>4. PICK t \in T : \A u \in T : t <= u
  BY <1>2, <1>3, Smallest
<1>5. PICK x \in S : t = n - x
  OBVIOUS
<1>6. ASSUME NEW s \in S PROVE x >= s
  <2>1. n - x <= n - s
    BY <1>4, <1>5
  <2>2. x \in Int /\ s \in Int
    OBVIOUS
  <2> HIDE DEF T
  <2> QED
    BY <2>1, <2>2
<1> QED
  BY <1>5, <1>6 DEF Max

LEMMA LargerOfTwo ==
    ASSUME NEW a \in Nat, NEW b \in Nat
    PROVE  Max({a, b}) \in Nat /\ a <= Max({a, b}) /\ b <= Max({a, b})
<1>1. {a, b} \subseteq Int /\ {a, b} # {} /\ a + b \in Int /\ \A s \in {a, b} : s <= a + b
  OBVIOUS
<1>2. Max({a, b}) \in {a, b} /\ \A s \in {a, b} : s <= Max({a, b})
  BY <1>1, LargestOfBounded
<1> QED
  BY <1>2

LEMMA SmallerOfTwo ==
    ASSUME NEW a \in Nat, NEW b \in Nat
    PROVE  Min({a, b}) \in {a, b}
<1>1. \E x \in {a, b} : \A y \in {a, b} : x <= y
  <2>1. CASE a <= b
    BY <2>1
  <2>2. CASE b <= a
    BY <2>2
  <2> QED
    BY <2>1, <2>2
<1> QED
  BY <1>1 DEF Min

-----------------------------------------------------------------------------
(* Paperwork: the inductive invariant *)

ClerkPoints ==
    {"idle", "create", "append", "unlink", "raise", "line", "latest", "version", "audit"}

\* What a request has read when it stands at a point.
SeenFits(r) ==
    /\ r.pc = "append" => r.seen \in DocumentRow
    /\ r.pc = "line" => r.seen \in Int /\ r.seen + 1 < papers
    /\ r.pc = "latest" => r.seen \in Stops
    /\ r.pc = "version" => r.seen = <<r.seen[1], r.seen[2]>> /\ r.seen[1] \in Stops
    /\ r.pc # "idle" => r.paper \in Nat

PaperTypes ==
    /\ document = NoPaper \/ document \in DocumentRow
    /\ rfi = NoPaper \/ rfi = [attachment |-> rfi.attachment, answer |-> rfi.answer,
                               status |-> rfi.status]
    /\ quoteLines = NoPaper \/ quoteLines \subseteq Nat \X Int
    /\ openStops \in Stops /\ route \in Seq(Stops)
    /\ papers \in Nat /\ crashes \in Nat
    /\ clerk = [c \in Clerk |-> clerk[c]]
    /\ \A c \in Clerk :
           /\ clerk[c] = [pc |-> clerk[c].pc, paper |-> clerk[c].paper, seen |-> clerk[c].seen]
           /\ clerk[c].pc \in ClerkPoints /\ SeenFits(clerk[c])

\* Whoever holds the id of an attachment finds the document, or its deletion.
Resolves(id) ==
    \/ document # NoPaper /\ document.id = id
    \/ crashes > 0 \/ "attachment" \in clashed
    \/ \E c \in Clerk : clerk[c].pc = "unlink" /\ clerk[c].seen = id
LinksResolve ==
    /\ rfi # NoPaper /\ rfi.attachment # NoPaper => Resolves(rfi.attachment)
    /\ \A c \in Clerk : clerk[c].pc = "raise" /\ clerk[c].seen # NoPaper => Resolves(clerk[c].seen)

\* The last position a request has read is the last one until it inserts behind it.
LinesFit ==
    /\ quoteLines # NoPaper => \A l \in quoteLines : l[2] < papers
    /\ "line" \notin clashed =>
         /\ \A c, d \in Clerk : clerk[c].pc = "line" /\ clerk[d].pc = "line" => c = d
         /\ quoteLines # NoPaper =>
              /\ \A l, m \in quoteLines : l # m => l[2] # m[2]
              /\ \A c \in Clerk : clerk[c].pc = "line" => \A l \in quoteLines : l[2] <= clerk[c].seen

\* A number that is not taken yet belongs to stops that differ from the latest version.
RouteFits ==
    /\ \A n \in 2..Len(route) : route[n] # route[n - 1]
    /\ \A c \in Clerk : clerk[c].pc = "version" =>
           /\ clerk[c].seen[2] \in 1..(Len(route) + 1)
           /\ clerk[c].seen[2] = Len(route) + 1 => StopsChanged(clerk[c].seen[1])
AuditsFollow ==
    \A n \in DOMAIN route \ routeAudit :
        crashes > 0 \/ \E c \in Clerk : clerk[c].pc = "audit" /\ clerk[c].seen = n

PaperInv ==
    PaperTypes /\ VersionsAreKept /\ LinksResolve /\ LinesFit /\ RouteFits /\ AuditsFollow

-----------------------------------------------------------------------------
LEMMA AppendedToSet ==
    ASSUME NEW s \in Seq(Nat), NEW v \in Nat
    PROVE  ToSet(Append(s, v)) = ToSet(s) \cup {v}
<1> DEFINE t == Append(s, v)
<1>1. DOMAIN s = 1..Len(s) /\ DOMAIN t = 1..(Len(s) + 1) /\ Len(s) \in Nat
  OBVIOUS
<1>2. \A i \in 1..Len(s) : t[i] = s[i]
  OBVIOUS
<1>3. t[Len(s) + 1] = v
  OBVIOUS
<1> HIDE DEF t
<1>4. ASSUME NEW x \in ToSet(t) PROVE x \in ToSet(s) \cup {v}
  <2>1. PICK i \in 1..(Len(s) + 1) : x = t[i]
    BY <1>1, <1>4 DEF ToSet
  <2>2. CASE i \in 1..Len(s)
    BY <1>1, <1>2, <2>1, <2>2 DEF ToSet
  <2>3. CASE i = Len(s) + 1
    BY <1>3, <2>1, <2>3
  <2> QED
    BY <1>1, <2>1, <2>2, <2>3
<1>5. ASSUME NEW x \in ToSet(s) PROVE x \in ToSet(t)
  <2>1. PICK i \in 1..Len(s) : x = s[i]
    BY <1>1, <1>5 DEF ToSet
  <2>2. i \in DOMAIN t /\ x = t[i]
    BY <1>1, <1>2, <2>1
  <2> QED
    BY <2>2 DEF ToSet
<1>6. v \in ToSet(t)
  <2>1. Len(s) + 1 \in DOMAIN t
    BY <1>1
  <2> QED
    BY <1>3, <2>1 DEF ToSet
<1>7. ToSet(t) = ToSet(s) \cup {v}
  BY <1>4, <1>5, <1>6
<1> QED
  BY <1>7 DEF t

LEMMA LastLine ==
    ASSUME NEW n \in Nat, quoteLines \subseteq Nat \X Int, \A l \in quoteLines : l[2] < n
    PROVE  /\ LastOrder \in Int /\ LastOrder < n
           /\ \A l \in quoteLines : l[2] <= LastOrder
<1> DEFINE S == {l[2] : l \in quoteLines}
<1>1. CASE quoteLines = {}
  BY <1>1 DEF LastOrder
<1>2. CASE quoteLines # {}
  <2>1. S \subseteq Int /\ \A s \in S : s < n
    OBVIOUS
  <2>2. S # {}
    <3>1. PICK l \in quoteLines : TRUE
      BY <1>2
    <3>2. l[2] \in S
      BY <3>1
    <3> QED
      BY <3>2
  <2>3. \A s \in S : s <= n
    BY <2>1
  <2>4. n \in Int
    OBVIOUS
  <2>5. Max(S) \in S /\ \A s \in S : s <= Max(S)
    BY <2>1, <2>2, <2>3, <2>4, LargestOfBounded
  <2>6. LastOrder = Max(S)
    BY <1>2 DEF LastOrder
  <2>7. \A l \in quoteLines : l[2] \in S
    OBVIOUS
  <2> HIDE DEF S
  <2> QED
    BY <2>1, <2>5, <2>6, <2>7
<1> QED
  BY <1>1, <1>2

LEMMA PaperStarts == PaperInit => PaperInv
<1> SUFFICES ASSUME PaperInit PROVE PaperInv
  OBVIOUS
<1>1. PaperTypes
  BY DEF PaperInit, PaperTypes, IdleClerk, ClerkPoints, SeenFits
<1>2. VersionsAreKept /\ LinksResolve /\ LinesFit
  BY DEF PaperInit, VersionsAreKept, LinksResolve, LinesFit, IdleClerk
<1>3. Len(route) = 0 /\ DOMAIN route = {}
  BY DEF PaperInit
<1>4. RouteFits /\ AuditsFollow
  BY <1>3 DEF PaperInit, RouteFits, AuditsFollow, IdleClerk
<1> QED
  BY <1>1, <1>2, <1>4 DEF PaperInv

\* The request c alone moves, to r.
ClerkBecomes(c, r) ==
    /\ clerk' = [d \in Clerk |-> clerk'[d]] /\ clerk'[c] = r
    /\ \A d \in Clerk \ {c} : clerk'[d] = clerk[d]

LEMMA ClerkMoves ==
    ASSUME PaperTypes, NEW c \in Clerk
    PROVE  /\ ClerkEnds(c) => ClerkBecomes(c, IdleClerk)
           /\ \A point, s :
                  /\ ClerkStarts(c, point, s)
                       => ClerkBecomes(c, [pc |-> point, paper |-> papers', seen |-> s])
                  /\ ClerkTo(c, point, s)
                       => ClerkBecomes(c, [pc |-> point, paper |-> clerk[c].paper, seen |-> s])
<1>1. clerk = [d \in Clerk |-> clerk[d]]
  BY DEF PaperTypes
<1>2. clerk[c] = [pc |-> clerk[c].pc, paper |-> clerk[c].paper, seen |-> clerk[c].seen]
  BY DEF PaperTypes
<1>3. ClerkEnds(c) => ClerkBecomes(c, IdleClerk)
  BY <1>1 DEF ClerkEnds, ClerkBecomes
<1>4. ASSUME NEW point, NEW s, ClerkStarts(c, point, s)
      PROVE  ClerkBecomes(c, [pc |-> point, paper |-> papers', seen |-> s])
  BY <1>1, <1>4 DEF ClerkStarts, ClerkBecomes
<1>5. ASSUME NEW point, NEW s, ClerkTo(c, point, s)
      PROVE  ClerkBecomes(c, [pc |-> point, paper |-> clerk[c].paper, seen |-> s])
  BY <1>1, <1>2, <1>5 DEF ClerkTo, ClerkBecomes
<1> QED
  BY <1>3, <1>4, <1>5

\* Types, but for the record that moves.
LEMMA ClerksKeepType ==
    ASSUME PaperTypes, NEW c \in Clerk, NEW r, ClerkBecomes(c, r),
           r = [pc |-> r.pc, paper |-> r.paper, seen |-> r.seen], r.pc \in ClerkPoints,
           papers' \in Nat, papers <= papers',
           r.pc = "append" => r.seen \in DocumentRow,
           r.pc = "line" => r.seen \in Int /\ r.seen + 1 < papers',
           r.pc = "latest" => r.seen \in Stops,
           r.pc = "version" => r.seen = <<r.seen[1], r.seen[2]>> /\ r.seen[1] \in Stops,
           r.pc # "idle" => r.paper \in Nat
    PROVE  /\ clerk' = [d \in Clerk |-> clerk'[d]]
           /\ \A d \in Clerk :
                /\ clerk'[d] = [pc |-> clerk'[d].pc, paper |-> clerk'[d].paper, seen |-> clerk'[d].seen]
                /\ clerk'[d].pc \in ClerkPoints /\ SeenFits(clerk[d])'
<1>1. clerk' = [d \in Clerk |-> clerk'[d]] /\ clerk'[c] = r
  BY DEF ClerkBecomes
<1>2. ASSUME NEW d \in Clerk, d # c
      PROVE  /\ clerk'[d] = [pc |-> clerk'[d].pc, paper |-> clerk'[d].paper, seen |-> clerk'[d].seen]
             /\ clerk'[d].pc \in ClerkPoints /\ SeenFits(clerk[d])'
  <2>1. clerk'[d] = clerk[d]
    BY <1>2 DEF ClerkBecomes
  <2>2. SeenFits(clerk[d]) /\ papers \in Nat
    BY DEF PaperTypes
  <2>3. SeenFits(clerk[d])'
    BY <2>1, <2>2 DEF SeenFits
  <2> QED
    BY <2>1, <2>3 DEF PaperTypes
<1>3. SeenFits(clerk[c])'
  BY <1>1 DEF SeenFits
<1> QED
  BY <1>1, <1>2, <1>3

\* What a step leaves alone keeps its part of the invariant.
LEMMA LinksUntouched ==
    ASSUME PaperTypes, LinksResolve, NEW c \in Clerk, NEW r, ClerkBecomes(c, r),
           clerk[c].pc # "unlink",
           r.pc = "raise" /\ r.seen # NoPaper => Resolves(r.seen),
           rfi' = rfi \/ (rfi # NoPaper /\ rfi'.attachment = rfi.attachment),
           document # NoPaper => document' # NoPaper /\ document'.id = document.id,
           clashed \subseteq clashed', crashes' = crashes
    PROVE  LinksResolve'
<1>1. ASSUME NEW id, Resolves(id) PROVE Resolves(id)'
  <2>1. ASSUME NEW d \in Clerk, clerk[d].pc = "unlink", clerk[d].seen = id
        PROVE  clerk'[d].pc = "unlink" /\ clerk'[d].seen = id
    BY <2>1 DEF ClerkBecomes
  <2> QED
    BY <1>1, <2>1 DEF Resolves
<1>2. rfi' # NoPaper /\ rfi'.attachment # NoPaper => Resolves(rfi.attachment)'
  BY <1>1 DEF LinksResolve
<1>3. ASSUME NEW d \in Clerk, clerk'[d].pc = "raise", clerk'[d].seen # NoPaper
      PROVE  Resolves(clerk[d].seen)'
  <2>1. PICK s : s = clerk'[d].seen
    OBVIOUS
  <2>2. Resolves(s)
    <3>1. CASE d = c
      BY <1>3, <2>1, <3>1 DEF ClerkBecomes
    <3>2. CASE d # c
      BY <1>3, <2>1, <3>2 DEF ClerkBecomes, LinksResolve
    <3> QED
      BY <3>1, <3>2
  <2>3. Resolves(s)'
    BY <1>1, <2>2
  <2> QED
    BY <2>1, <2>3 DEF Resolves
<1> QED
  BY <1>2, <1>3 DEF LinksResolve

LEMMA LinesUntouched ==
    ASSUME PaperTypes, LinesFit, NEW c \in Clerk, NEW r, ClerkBecomes(c, r), r.pc # "line",
           quoteLines' = quoteLines \/ (quoteLines # NoPaper /\ quoteLines' \subseteq quoteLines)
               \/ quoteLines' = NoPaper,
           papers' \in Nat, papers <= papers', clashed \subseteq clashed'
    PROVE  LinesFit'
<1>1. \A l \in Nat \X Int : l[2] \in Int
  OBVIOUS
<1>2. ASSUME quoteLines' # NoPaper PROVE quoteLines # NoPaper /\ quoteLines' \subseteq quoteLines
  BY <1>2
<1>3. ASSUME quoteLines' # NoPaper, NEW l \in quoteLines' PROVE l[2] < papers'
  BY <1>1, <1>2, <1>3 DEF LinesFit, PaperTypes
<1>4. ASSUME NEW d \in Clerk, clerk'[d].pc = "line" PROVE d # c /\ clerk'[d] = clerk[d]
  BY <1>4 DEF ClerkBecomes
<1>5. ASSUME "line" \notin clashed'
      PROVE  /\ \A d, e \in Clerk : clerk'[d].pc = "line" /\ clerk'[e].pc = "line" => d = e
             /\ quoteLines' # NoPaper =>
                  /\ \A l, m \in quoteLines' : l # m => l[2] # m[2]
                  /\ \A d \in Clerk : clerk'[d].pc = "line" =>
                       \A l \in quoteLines' : l[2] <= clerk'[d].seen
  <2>1. "line" \notin clashed
    BY <1>5
  <2>2. \A d, e \in Clerk : clerk'[d].pc = "line" /\ clerk'[e].pc = "line" => d = e
    BY <1>4, <2>1 DEF LinesFit
  <2>3. ASSUME quoteLines' # NoPaper, NEW l \in quoteLines', NEW m \in quoteLines', l # m
        PROVE  l[2] # m[2]
    BY <1>2, <2>1, <2>3 DEF LinesFit
  <2>4. ASSUME quoteLines' # NoPaper, NEW d \in Clerk, clerk'[d].pc = "line",
               NEW l \in quoteLines'
        PROVE  l[2] <= clerk'[d].seen
    BY <1>2, <1>4, <2>1, <2>4 DEF LinesFit
  <2> QED
    BY <2>2, <2>3, <2>4
<1> QED
  BY <1>3, <1>5 DEF LinesFit

LEMMA RouteUntouched ==
    ASSUME RouteFits, NEW c \in Clerk, NEW r, ClerkBecomes(c, r), r.pc # "version",
           route' = route
    PROVE  RouteFits'
<1>1. ASSUME NEW d \in Clerk, clerk'[d].pc = "version" PROVE clerk'[d] = clerk[d]
  BY <1>1 DEF ClerkBecomes
<1> QED
  BY <1>1 DEF RouteFits, StopsChanged

LEMMA AuditsUntouched ==
    ASSUME AuditsFollow, NEW c \in Clerk, NEW r, ClerkBecomes(c, r), clerk[c].pc # "audit",
           route' = route, routeAudit' = routeAudit, crashes' = crashes
    PROVE  AuditsFollow'
<1>1. ASSUME NEW d \in Clerk, clerk[d].pc = "audit" PROVE clerk'[d] = clerk[d]
  BY <1>1 DEF ClerkBecomes
<1> QED
  BY <1>1 DEF AuditsFollow

LEMMA VersionsUntouched ==
    ASSUME VersionsAreKept, document' = document, accepted' = accepted,
           clashed \subseteq clashed'
    PROVE  VersionsAreKept'
BY DEF VersionsAreKept

-----------------------------------------------------------------------------
LEMMA DocumentKeepsInv ==
    ASSUME PaperInv, NEW c \in Clerk, DocumentStep(c) PROVE PaperInv'
<1> USE DEF PaperInv
<1>0. papers \in Nat /\ crashes \in Nat /\ openStops \in Stops
  BY DEF PaperTypes
<1>1. CASE FindByOpId(c)
  <2>1. PICK r : r = [pc |-> "create", paper |-> papers', seen |-> NoPaper]
    OBVIOUS
  <2>2. ClerkBecomes(c, r) /\ clerk[c].pc = "idle" /\ papers' = papers + 1
    BY <1>1, <2>1, ClerkMoves DEF FindByOpId, ReceivePaper, ClerkAt
  <2>3. UNCHANGED <<document, rfi, quoteLines, route, routeAudit, openStops, accepted, clashed,
                    crashes>>
    BY <1>1 DEF FindByOpId, recordVars, ReceivePaper
  <2>4. PaperTypes'
    BY <1>0, <2>1, <2>2, <2>3, ClerksKeepType DEF PaperTypes, ClerkPoints
  <2> QED
    BY <1>0, <2>1, <2>2, <2>3, <2>4, LinksUntouched, LinesUntouched, RouteUntouched,
       AuditsUntouched, VersionsUntouched
<1>2. CASE CreateDocument(c)
  <2>1. PICK v : v = clerk[c].paper
    OBVIOUS
  <2>2. ClerkBecomes(c, IdleClerk) /\ clerk[c].pc = "create" /\ v \in Nat
    BY <1>2, <2>1, ClerkMoves DEF CreateDocument, ClerkAt, PaperTypes, SeenFits
  <2>3. UNCHANGED <<rfi, quoteLines, route, routeAudit, openStops, clashed, papers, crashes>>
    BY <1>2 DEF CreateDocument, paperCounts
  <2>4. \/ UNCHANGED <<document, accepted>>
        \/ \E history \in {<<v>>, <<Earlier, v>>, <<Earlier>>} :
              /\ document = NoPaper /\ accepted' = ToSet(history)
              /\ document' = [id |-> v, versions |-> history, current |-> v]
    BY <1>2, <2>1 DEF CreateDocument
  <2>5. \A history \in {<<v>>, <<Earlier, v>>, <<Earlier>>} :
           [id |-> v, versions |-> history, current |-> v] \in DocumentRow
    <3>1. <<v>> \in Seq(Nat) /\ <<Earlier, v>> \in Seq(Nat) /\ <<Earlier>> \in Seq(Nat)
      BY <2>2 DEF Earlier
    <3>2. ASSUME NEW history \in Seq(Nat)
          PROVE  [id |-> v, versions |-> history, current |-> v] \in DocumentRow
      BY <2>2 DEF DocumentRow
    <3> QED
      BY <3>1, <3>2
  <2>6. PaperTypes'
    <3>1. document' = NoPaper \/ document' \in DocumentRow
      BY <2>4, <2>5 DEF PaperTypes
    <3> QED
      BY <1>0, <2>2, <2>3, <3>1, ClerksKeepType DEF PaperTypes, ClerkPoints, IdleClerk
  <2>7. VersionsAreKept'
    <3>1. Last(<<v>>) = v /\ Last(<<Earlier, v>>) = v /\ Last(<<Earlier>>) = Earlier
      BY DEF Last
    <3>2. CASE UNCHANGED <<document, accepted>>
      BY <2>3, <3>2 DEF VersionsAreKept
    <3>3. ASSUME NEW history \in {<<v>>, <<Earlier, v>>, <<Earlier>>},
                 accepted' = ToSet(history),
                 document' = [id |-> v, versions |-> history, current |-> v]
          PROVE  VersionsAreKept'
      <4>1. document'.versions = history /\ document'.current = v
        BY <3>3
      <4>2. Last(history) \in {v, Earlier}
        BY <3>1
      <4> QED
        BY <3>3, <4>1, <4>2 DEF VersionsAreKept
    <3> QED
      BY <2>4, <3>2, <3>3
  <2>8. LinksResolve'
    BY <2>2, <2>3, <2>4, LinksUntouched DEF IdleClerk
  <2> QED
    BY <1>0, <2>2, <2>3, <2>6, <2>7, <2>8, LinesUntouched, RouteUntouched, AuditsUntouched
       DEF IdleClerk
<1>3. CASE ReadVersions(c)
  <2>1. PICK r : r = [pc |-> "append", paper |-> papers', seen |-> document]
    OBVIOUS
  <2>2. ClerkBecomes(c, r) /\ clerk[c].pc = "idle" /\ papers' = papers + 1 /\ document # NoPaper
    BY <1>3, <2>1, ClerkMoves DEF ReadVersions, ReceivePaper, ClerkAt
  <2>3. UNCHANGED <<document, rfi, quoteLines, route, routeAudit, openStops, accepted, clashed,
                    crashes>>
    BY <1>3 DEF ReadVersions, recordVars, ReceivePaper
  <2>4. PaperTypes'
    <3>1. r.seen \in DocumentRow
      BY <2>1, <2>2 DEF PaperTypes
    <3> QED
      BY <1>0, <2>1, <2>2, <2>3, <3>1, ClerksKeepType DEF PaperTypes, ClerkPoints
  <2> QED
    BY <1>0, <2>1, <2>2, <2>3, <2>4, LinksUntouched, LinesUntouched, RouteUntouched,
       AuditsUntouched, VersionsUntouched
<1>4. CASE AppendVersion(c)
  <2>1. PICK v, old : v = clerk[c].paper /\ old = clerk[c].seen
    OBVIOUS
  <2>2. ClerkBecomes(c, IdleClerk) /\ clerk[c].pc = "append" /\ v \in Nat /\ old \in DocumentRow
    BY <1>4, <2>1, ClerkMoves DEF AppendVersion, ClerkAt, PaperTypes, SeenFits
  <2>3. UNCHANGED <<rfi, quoteLines, route, routeAudit, openStops, papers, crashes>>
    BY <1>4 DEF AppendVersion, paperCounts
  <2>4. PICK i \in Nat, s \in Seq(Nat), k \in Nat : old = [id |-> i, versions |-> s, current |-> k]
    BY <2>2 DEF DocumentRow
  <2>13. PICK longer : longer = Append(s, v)
    OBVIOUS
  <2>5. PICK new : new = [id |-> i, versions |-> longer, current |-> v]
    OBVIOUS
  <2>12. new.id = i /\ new.versions = longer /\ new.current = v /\ old.id = i /\ old.versions = s
    BY <2>4, <2>5
  <2>6. \/ UNCHANGED <<document, accepted, clashed>>
        \/ /\ document # NoPaper /\ document.id = old.id /\ document' = new
           /\ accepted' = accepted \cup {v} /\ clashed \subseteq clashed'
           /\ old # document => "versions" \in clashed'
    <3>1. [old EXCEPT !.versions = longer, !.current = v] = new
      <4>1. [old EXCEPT !.versions = longer, !.current = v]
                = [[old EXCEPT !.versions = longer] EXCEPT !.current = v]
        OBVIOUS
      <4>2. [old EXCEPT !.versions = longer] = [id |-> i, versions |-> longer, current |-> k]
        BY <2>4
      <4>3. [[id |-> i, versions |-> longer, current |-> k] EXCEPT !.current = v]
                = [id |-> i, versions |-> longer, current |-> v]
        OBVIOUS
      <4> QED
        BY <2>5, <4>1, <4>2, <4>3
    <3>2. [old EXCEPT !.versions = Append(@, v), !.current = v] = new
      BY <2>12, <2>13, <3>1
    <3> QED
      BY <1>4, <2>1, <3>2 DEF AppendVersion, Clash
  <2>7. new \in DocumentRow
    <3>1. longer \in Seq(Nat)
      BY <2>2, <2>4, <2>13
    <3> QED
      BY <2>2, <2>4, <2>5, <3>1 DEF DocumentRow
  <2>8. PaperTypes'
    <3>1. document' = NoPaper \/ document' \in DocumentRow
      BY <2>6, <2>7 DEF PaperTypes
    <3>2. /\ clerk' = [d \in Clerk |-> clerk'[d]]
          /\ \A d \in Clerk :
               /\ clerk'[d] = [pc |-> clerk'[d].pc, paper |-> clerk'[d].paper, seen |-> clerk'[d].seen]
               /\ clerk'[d].pc \in ClerkPoints /\ SeenFits(clerk[d])'
      BY <1>0, <2>2, <2>3, ClerksKeepType DEF ClerkPoints, IdleClerk
    <3> QED
      BY <1>0, <2>3, <3>1, <3>2 DEF PaperTypes
  <2>9. VersionsAreKept'
    <3>1. Last(longer) = v
      BY <2>2, <2>4, <2>13 DEF Last
    <3>2. ToSet(longer) = ToSet(s) \cup {v}
      BY <2>2, <2>4, <2>13, AppendedToSet
    <3> QED
      BY <2>6, <2>12, <3>1, <3>2 DEF VersionsAreKept
  <2>11. LinksResolve'
    <3>1. document # NoPaper => document' # NoPaper /\ document'.id = document.id
      BY <2>6, <2>7, <2>12, NoPaperAssumption
    <3> QED
      BY <2>2, <2>3, <2>6, <3>1, LinksUntouched DEF IdleClerk
  <2>10. clashed \subseteq clashed'
    BY <2>6
  <2> QED
    BY <1>0, <2>2, <2>3, <2>8, <2>9, <2>10, <2>11, LinesUntouched, RouteUntouched, AuditsUntouched
       DEF IdleClerk
<1>5. CASE DeleteDocument(c)
  <2>1. PICK r : r = [pc |-> "unlink", paper |-> papers', seen |-> document.id]
    OBVIOUS
  <2>2. ClerkBecomes(c, r) /\ clerk[c].pc = "idle" /\ papers' = papers + 1
    BY <1>5, <2>1, ClerkMoves DEF DeleteDocument, ReceivePaper, ClerkAt
  <2>3. /\ UNCHANGED <<rfi, quoteLines, route, routeAudit, openStops, clashed, crashes>>
        /\ document # NoPaper /\ document' = NoPaper /\ accepted' = {}
    BY <1>5 DEF DeleteDocument, ReceivePaper
  <2>4. PaperTypes'
    BY <1>0, <2>1, <2>2, <2>3, ClerksKeepType DEF PaperTypes, ClerkPoints
  <2>5. VersionsAreKept'
    BY <2>3 DEF VersionsAreKept
  <2>6. LinksResolve'
    <3>1. ASSUME NEW id, Resolves(id) PROVE Resolves(id)'
      <4>1. CASE document.id = id
        BY <2>1, <2>2, <4>1 DEF ClerkBecomes, Resolves
      <4>2. ASSUME NEW d \in Clerk, clerk[d].pc = "unlink", clerk[d].seen = id
            PROVE  Resolves(id)'
        BY <2>2, <4>2 DEF ClerkBecomes, Resolves
      <4> QED
        BY <2>3, <3>1, <4>1, <4>2 DEF Resolves
    <3>2. ASSUME NEW d \in Clerk, clerk'[d].pc = "raise", clerk'[d].seen # NoPaper
          PROVE  Resolves(clerk[d].seen)'
      <4>1. clerk'[d] = clerk[d]
        BY <2>1, <2>2, <3>2 DEF ClerkBecomes
      <4>2. PICK s : s = clerk[d].seen
        OBVIOUS
      <4>3. Resolves(s)'
        BY <3>1, <3>2, <4>1, <4>2 DEF LinksResolve
      <4> QED
        BY <4>1, <4>2, <4>3 DEF Resolves
    <3>3. rfi # NoPaper /\ rfi.attachment # NoPaper => Resolves(rfi.attachment)'
      <4>1. PICK s : s = rfi.attachment
        OBVIOUS
      <4>2. Resolves(s) => Resolves(s)'
        BY <3>1
      <4> QED
        BY <2>3, <4>1, <4>2 DEF LinksResolve, Resolves
    <3> QED
      BY <2>3, <3>2, <3>3 DEF LinksResolve
  <2> QED
    BY <1>0, <2>1, <2>2, <2>3, <2>4, <2>5, <2>6, LinesUntouched, RouteUntouched, AuditsUntouched
<1>6. CASE UnlinkRfis(c)
  <2>1. PICK id : id = clerk[c].seen
    OBVIOUS
  <2>2. ClerkBecomes(c, IdleClerk) /\ clerk[c].pc = "unlink"
    BY <1>6, ClerkMoves DEF UnlinkRfis, ClerkAt
  <2>3. UNCHANGED <<document, quoteLines, route, routeAudit, openStops, accepted, papers,
                    crashes>>
    BY <1>6 DEF UnlinkRfis, paperCounts
  <2>4. /\ clashed \subseteq clashed'
        /\ (\E d \in Clerk : clerk[d].pc = "raise" /\ clerk[d].seen = id) => "attachment" \in clashed'
    BY <1>6, <2>1 DEF UnlinkRfis, Clash, ClerkAt
  <2>5. \/ rfi # NoPaper /\ rfi.attachment = id /\ rfi' = [rfi EXCEPT !.attachment = NoPaper]
        \/ rfi' = rfi /\ (rfi = NoPaper \/ rfi.attachment # id)
    BY <1>6, <2>1 DEF UnlinkRfis
  <2>6. PaperTypes'
    BY <1>0, <2>2, <2>3, <2>5, ClerksKeepType DEF PaperTypes, ClerkPoints, IdleClerk
  <2>7. VersionsAreKept'
    BY <2>3, <2>4, VersionsUntouched
  <2>8. LinksResolve'
    <3>1. ASSUME NEW s, s # id, Resolves(s) PROVE Resolves(s)'
      <4>1. ASSUME NEW d \in Clerk, clerk[d].pc = "unlink", clerk[d].seen = s
            PROVE  clerk'[d].pc = "unlink" /\ clerk'[d].seen = s
        BY <2>1, <2>2, <3>1, <4>1 DEF ClerkBecomes
      <4> QED
        BY <2>3, <2>4, <3>1, <4>1 DEF Resolves
    <3>2. ASSUME NEW d \in Clerk, clerk'[d].pc = "raise", clerk'[d].seen # NoPaper
          PROVE  Resolves(clerk[d].seen)'
      <4>1. clerk'[d] = clerk[d]
        BY <2>2, <3>2 DEF ClerkBecomes, IdleClerk
      <4>2. PICK s : s = clerk[d].seen
        OBVIOUS
      <4>3. CASE s = id
        BY <2>4, <3>2, <4>1, <4>2, <4>3 DEF Resolves
      <4>4. CASE s # id
        <5>1. Resolves(s)'
          BY <3>1, <3>2, <4>1, <4>2, <4>4 DEF LinksResolve
        <5> QED
          BY <4>1, <4>2, <5>1 DEF Resolves
      <4> QED
        BY <4>3, <4>4
    <3>3. rfi' # NoPaper /\ rfi'.attachment # NoPaper => Resolves(rfi.attachment)'
      <4>1. CASE rfi' = rfi /\ (rfi = NoPaper \/ rfi.attachment # id)
        <5>1. PICK s : s = rfi.attachment
          OBVIOUS
        <5>2. s # id => (Resolves(s) => Resolves(s)')
          BY <3>1
        <5> QED
          BY <4>1, <5>1, <5>2 DEF LinksResolve, Resolves
      <4>2. CASE rfi # NoPaper /\ rfi' = [rfi EXCEPT !.attachment = NoPaper]
        BY <4>2 DEF PaperTypes
      <4> QED
        BY <2>5, <4>1, <4>2
    <3> QED
      BY <3>2, <3>3 DEF LinksResolve
  <2> QED
    BY <1>0, <2>2, <2>3, <2>4, <2>6, <2>7, <2>8, LinesUntouched, RouteUntouched, AuditsUntouched
       DEF IdleClerk
<1> QED
  BY <1>1, <1>2, <1>3, <1>4, <1>5, <1>6 DEF DocumentStep

LEMMA RfiKeepsInv ==
    ASSUME PaperInv, NEW c \in Clerk, RfiStep(c) PROVE PaperInv'
<1> USE DEF PaperInv
<1>0. papers \in Nat /\ crashes \in Nat /\ openStops \in Stops
  BY DEF PaperTypes
<1>1. CASE CheckAttachment(c)
  <2>1. PICK s : /\ clerk' = [clerk EXCEPT ![c] = [pc |-> "raise", paper |-> papers', seen |-> s]]
                 /\ s = NoPaper \/ (document # NoPaper /\ s = document.id)
    BY <1>1 DEF CheckAttachment, ClerkStarts
  <2>2. PICK r : r = [pc |-> "raise", paper |-> papers', seen |-> s]
    OBVIOUS
  <2>3. ClerkBecomes(c, r) /\ clerk[c].pc = "idle" /\ papers' = papers + 1
    BY <1>1, <2>1, <2>2, ClerkMoves DEF CheckAttachment, ReceivePaper, ClerkAt, ClerkStarts
  <2>4. UNCHANGED <<document, rfi, quoteLines, route, routeAudit, openStops, accepted, clashed,
                    crashes>>
    BY <1>1 DEF CheckAttachment, recordVars, ReceivePaper
  <2>5. PaperTypes'
    BY <1>0, <2>2, <2>3, <2>4, ClerksKeepType DEF PaperTypes, ClerkPoints
  <2>6. r.seen # NoPaper => Resolves(r.seen)
    BY <2>1, <2>2 DEF Resolves
  <2> QED
    BY <1>0, <2>2, <2>3, <2>4, <2>5, <2>6, LinksUntouched, LinesUntouched, RouteUntouched,
       AuditsUntouched, VersionsUntouched
<1>2. CASE RaiseRfi(c)
  <2>1. PICK s : s = clerk[c].seen
    OBVIOUS
  <2>2. ClerkBecomes(c, IdleClerk) /\ clerk[c].pc = "raise"
    BY <1>2, ClerkMoves DEF RaiseRfi, ClerkAt
  <2>3. UNCHANGED <<document, quoteLines, route, routeAudit, openStops, accepted, clashed,
                    papers, crashes>>
    BY <1>2 DEF RaiseRfi, paperCounts
  <2>4. \/ rfi' = rfi
        \/ rfi' = [attachment |-> s, answer |-> NoPaper, status |-> "raised"]
    BY <1>2, <2>1 DEF RaiseRfi
  <2>5. PaperTypes'
    BY <1>0, <2>2, <2>3, <2>4, ClerksKeepType DEF PaperTypes, ClerkPoints, IdleClerk
  <2>6. LinksResolve'
    <3>1. CASE rfi' = rfi
      BY <2>2, <2>3, <3>1, LinksUntouched DEF IdleClerk
    <3>2. CASE rfi' = [attachment |-> s, answer |-> NoPaper, status |-> "raised"]
      <4>1. ASSUME NEW id, Resolves(id) PROVE Resolves(id)'
        <5>1. ASSUME NEW d \in Clerk, clerk[d].pc = "unlink", clerk[d].seen = id
              PROVE  clerk'[d].pc = "unlink" /\ clerk'[d].seen = id
          BY <2>2, <5>1 DEF ClerkBecomes
        <5> QED
          BY <2>3, <4>1, <5>1 DEF Resolves
      <4>2. rfi'.attachment = s
        BY <3>2
      <4>3. s # NoPaper => Resolves(s)'
        BY <2>1, <2>2, <4>1 DEF LinksResolve
      <4>4. rfi' # NoPaper /\ rfi'.attachment # NoPaper => Resolves(rfi.attachment)'
        BY <4>2, <4>3 DEF Resolves
      <4>5. ASSUME NEW d \in Clerk, clerk'[d].pc = "raise", clerk'[d].seen # NoPaper
            PROVE  Resolves(clerk[d].seen)'
        <5>1. clerk'[d] = clerk[d]
          BY <2>2, <4>5 DEF ClerkBecomes, IdleClerk
        <5>2. PICK q : q = clerk[d].seen
          OBVIOUS
        <5>3. Resolves(q)'
          BY <4>1, <4>5, <5>1, <5>2 DEF LinksResolve
        <5> QED
          BY <5>1, <5>2, <5>3 DEF Resolves
      <4> QED
        BY <4>4, <4>5 DEF LinksResolve
    <3> QED
      BY <2>4, <3>1, <3>2
  <2> QED
    BY <1>0, <2>2, <2>3, <2>5, <2>6, LinesUntouched, RouteUntouched, AuditsUntouched,
       VersionsUntouched DEF IdleClerk
<1>3. CASE ReviseRfi(c)
  <2>1. PICK a, s : rfi' = [rfi EXCEPT !.answer = a, !.status = s]
    BY <1>3 DEF ReviseRfi, Revised
  <2>2. /\ UNCHANGED <<document, quoteLines, route, routeAudit, openStops, accepted, clashed,
                       clerk, crashes>>
        /\ rfi # NoPaper /\ papers' = papers + 1 /\ clerk[c].pc = "idle"
    BY <1>3 DEF ReviseRfi, ReceivePaper, ClerkAt
  <2>3. rfi' = [attachment |-> rfi.attachment, answer |-> a, status |-> s]
    <3>1. PICK t, u, v : rfi = [attachment |-> t, answer |-> u, status |-> v]
      BY <2>2 DEF PaperTypes
    <3>2. [rfi EXCEPT !.answer = a, !.status = s] = [[rfi EXCEPT !.answer = a] EXCEPT !.status = s]
      OBVIOUS
    <3>3. [rfi EXCEPT !.answer = a] = [attachment |-> t, answer |-> a, status |-> v]
      BY <3>1
    <3> QED
      BY <2>1, <3>1, <3>2, <3>3
  <2>4. PICK r : r = clerk[c]
    OBVIOUS
  <2>5. ClerkBecomes(c, r) /\ r.pc = "idle"
    BY <2>2, <2>4 DEF ClerkBecomes, PaperTypes
  <2>6. PaperTypes'
    <3>1. \A d \in Clerk : SeenFits(clerk[d])'
      BY <1>0, <2>2 DEF PaperTypes, SeenFits
    <3> QED
      BY <1>0, <2>2, <2>3, <3>1 DEF PaperTypes
  <2>7. LinksResolve'
    BY <2>2, <2>3, <2>4, <2>5, LinksUntouched
  <2> QED
    BY <1>0, <2>2, <2>4, <2>5, <2>6, <2>7, LinesUntouched, RouteUntouched, AuditsUntouched,
       VersionsUntouched
<1> QED
  BY <1>1, <1>2, <1>3 DEF RfiStep

LEMMA QuoteKeepsInv ==
    ASSUME PaperInv, NEW c \in Clerk, QuoteStep(c) PROVE PaperInv'
<1> USE DEF PaperInv
<1>0. papers \in Nat /\ crashes \in Nat /\ openStops \in Stops
  BY DEF PaperTypes
<1>1. CASE ReadLastLine(c)
  <2>1. PICK s : s = LastOrder
    OBVIOUS
  <2>2. PICK r : r = [pc |-> "line", paper |-> papers', seen |-> s]
    OBVIOUS
  <2>3. ClerkBecomes(c, r) /\ clerk[c].pc = "idle" /\ papers' = papers + 1
    BY <1>1, <2>1, <2>2, ClerkMoves DEF ReadLastLine, ReceivePaper, ClerkAt
  <2>4. /\ UNCHANGED <<document, rfi, quoteLines, route, routeAudit, openStops, accepted,
                       crashes>>
        /\ quoteLines # NoPaper /\ clashed \subseteq clashed'
        /\ (\E d \in Clerk : clerk[d].pc = "line") => "line" \in clashed'
    BY <1>1 DEF ReadLastLine, recordVars, ReceivePaper, Clash, ClerkAt
  <2>5. /\ s \in Int /\ s < papers
        /\ \A l \in quoteLines : l[2] <= s
    BY <1>0, <2>1, <2>4, LastLine DEF PaperTypes, LinesFit
  <2>6. PaperTypes'
    BY <1>0, <2>2, <2>3, <2>4, <2>5, ClerksKeepType DEF PaperTypes, ClerkPoints
  <2>7. LinesFit'
    <3>1. \A l \in quoteLines : l[2] \in Int /\ l[2] < papers
      BY <2>4 DEF PaperTypes, LinesFit
    <3>2. \A l \in quoteLines : l[2] < papers'
      BY <1>0, <2>3, <3>1
    <3>3. ASSUME "line" \notin clashed', NEW d \in Clerk, clerk'[d].pc = "line" PROVE d = c
      BY <2>3, <2>4, <3>3 DEF ClerkBecomes
    <3>4. clerk'[c].seen = s
      BY <2>2, <2>3 DEF ClerkBecomes
    <3> QED
      BY <2>4, <2>5, <3>2, <3>3, <3>4 DEF LinesFit
  <2> QED
    BY <1>0, <2>2, <2>3, <2>4, <2>6, <2>7, LinksUntouched, RouteUntouched, AuditsUntouched,
       VersionsUntouched
<1>2. CASE CreateLine(c)
  <2>1. PICK v, s : v = clerk[c].paper /\ s = clerk[c].seen
    OBVIOUS
  <2>2. /\ ClerkBecomes(c, IdleClerk) /\ clerk[c].pc = "line"
        /\ v \in Nat /\ s \in Int /\ s + 1 < papers
    BY <1>2, <2>1, ClerkMoves DEF CreateLine, ClerkAt, PaperTypes, SeenFits
  <2>3. UNCHANGED <<document, rfi, route, routeAudit, openStops, accepted, clashed, papers,
                    crashes>>
    BY <1>2 DEF CreateLine, paperCounts
  <2>4. \/ quoteLines' = NoPaper
        \/ quoteLines # NoPaper /\ quoteLines' = quoteLines \cup {<<v, s + 1>>}
    BY <1>2, <2>1 DEF CreateLine
  <2>5. PaperTypes'
    <3>1. <<v, s + 1>> \in Nat \X Int
      BY <2>2
    <3>2. quoteLines' = NoPaper \/ quoteLines' \subseteq Nat \X Int
      BY <2>4, <3>1 DEF PaperTypes
    <3>3. /\ clerk' = [d \in Clerk |-> clerk'[d]]
          /\ \A d \in Clerk :
               /\ clerk'[d] = [pc |-> clerk'[d].pc, paper |-> clerk'[d].paper, seen |-> clerk'[d].seen]
               /\ clerk'[d].pc \in ClerkPoints /\ SeenFits(clerk[d])'
      BY <1>0, <2>2, <2>3, ClerksKeepType DEF ClerkPoints, IdleClerk
    <3> QED
      BY <1>0, <2>3, <3>2, <3>3 DEF PaperTypes
  <2>6. LinesFit'
    <3>1. CASE quoteLines' = NoPaper
      BY <1>0, <2>2, <2>3, <3>1, LinesUntouched DEF IdleClerk
    <3>2. CASE quoteLines # NoPaper /\ quoteLines' = quoteLines \cup {<<v, s + 1>>}
      <4>1. \A l \in quoteLines' : l \in quoteLines \/ l[2] = s + 1
        BY <3>2
      <4>2. \A l \in quoteLines : l[2] \in Int /\ l[2] < papers
        BY <3>2 DEF PaperTypes, LinesFit
      <4>3. \A l \in quoteLines' : l[2] < papers'
        BY <2>2, <2>3, <4>1, <4>2
      <4>4. ASSUME "line" \notin clashed', NEW d \in Clerk PROVE clerk'[d].pc # "line"
        <5>1. CASE d = c
          BY <2>2, <5>1 DEF ClerkBecomes, IdleClerk
        <5>2. CASE d # c
          BY <2>2, <2>3, <4>4, <5>2 DEF ClerkBecomes, LinesFit
        <5> QED
          BY <5>1, <5>2
      <4>5. ASSUME "line" \notin clashed', NEW l \in quoteLines', NEW m \in quoteLines', l # m
            PROVE  l[2] # m[2]
        <5>1. \A k \in quoteLines : k[2] <= s
          BY <2>1, <2>2, <2>3, <3>2, <4>5 DEF LinesFit
        <5>2. \A k \in quoteLines : k[2] # s + 1
          BY <2>2, <4>2, <5>1
        <5>3. CASE l \in quoteLines /\ m \in quoteLines
          BY <2>3, <3>2, <4>5, <5>3 DEF LinesFit
        <5>4. CASE l \in quoteLines /\ m = <<v, s + 1>>
          BY <5>2, <5>4
        <5>5. CASE m \in quoteLines /\ l = <<v, s + 1>>
          BY <5>2, <5>5
        <5> QED
          BY <3>2, <4>5, <5>3, <5>4, <5>5
      <4> QED
        BY <4>3, <4>4, <4>5 DEF LinesFit
    <3> QED
      BY <2>4, <3>1, <3>2
  <2> QED
    BY <1>0, <2>2, <2>3, <2>5, <2>6, LinksUntouched, RouteUntouched, AuditsUntouched,
       VersionsUntouched DEF IdleClerk
<1>3. CASE DeleteLine(c) \/ DeleteQuote(c)
  <2>1. /\ UNCHANGED <<document, rfi, route, routeAudit, openStops, accepted, clashed, clerk,
                       crashes>>
        /\ quoteLines # NoPaper /\ papers' = papers + 1 /\ clerk[c].pc = "idle"
        /\ quoteLines' = NoPaper \/ quoteLines' \subseteq quoteLines
    BY <1>3 DEF DeleteLine, DeleteQuote, ReceivePaper, ClerkAt
  <2>2. PICK r : r = clerk[c]
    OBVIOUS
  <2>3. ClerkBecomes(c, r) /\ r.pc = "idle"
    BY <2>1, <2>2 DEF ClerkBecomes, PaperTypes
  <2>4. PaperTypes'
    <3>1. \A d \in Clerk : SeenFits(clerk[d])'
      BY <1>0, <2>1 DEF PaperTypes, SeenFits
    <3>2. quoteLines' = NoPaper \/ quoteLines' \subseteq Nat \X Int
      BY <2>1 DEF PaperTypes
    <3> QED
      BY <1>0, <2>1, <3>1, <3>2 DEF PaperTypes
  <2> QED
    BY <1>0, <2>1, <2>2, <2>3, <2>4, LinksUntouched, LinesUntouched, RouteUntouched,
       AuditsUntouched, VersionsUntouched
<1> QED
  BY <1>1, <1>2, <1>3 DEF QuoteStep

LEMMA RouteKeepsInv ==
    ASSUME PaperInv, NEW c \in Clerk, RouteStep(c) PROVE PaperInv'
<1> USE DEF PaperInv
<1>0. /\ papers \in Nat /\ crashes \in Nat /\ openStops \in Stops
      /\ route \in Seq(Stops) /\ Len(route) \in Nat /\ DOMAIN route = 1..Len(route)
  BY DEF PaperTypes
<1>1. CASE LoadStops(c)
  <2>1. PICK r : r = [pc |-> "latest", paper |-> papers', seen |-> openStops]
    OBVIOUS
  <2>2. ClerkBecomes(c, r) /\ clerk[c].pc = "idle" /\ papers' = papers + 1
    BY <1>1, <2>1, ClerkMoves DEF LoadStops, ReceivePaper, ClerkAt
  <2>3. UNCHANGED <<document, rfi, quoteLines, route, routeAudit, openStops, accepted, clashed,
                    crashes>>
    BY <1>1 DEF LoadStops, recordVars, ReceivePaper
  <2>4. PaperTypes'
    BY <1>0, <2>1, <2>2, <2>3, ClerksKeepType DEF PaperTypes, ClerkPoints
  <2> QED
    BY <1>0, <2>1, <2>2, <2>3, <2>4, LinksUntouched, LinesUntouched, RouteUntouched,
       AuditsUntouched, VersionsUntouched
<1>2. CASE ReadLatest(c)
  <2>1. PICK s, p : s = clerk[c].seen /\ p = clerk[c].paper
    OBVIOUS
  <2>2. clerk[c].pc = "latest" /\ s \in Stops /\ p \in Nat
    BY <1>2, <2>1 DEF ReadLatest, ClerkAt, PaperTypes, SeenFits
  <2>3. UNCHANGED <<document, rfi, quoteLines, route, routeAudit, openStops, accepted, clashed,
                    papers, crashes>>
    BY <1>2 DEF ReadLatest, recordVars, paperCounts
  <2>4. CASE ClerkEnds(c)
    <3>1. ClerkBecomes(c, IdleClerk)
      BY <2>4, ClerkMoves
    <3>2. PaperTypes'
      BY <1>0, <2>3, <3>1, ClerksKeepType DEF PaperTypes, ClerkPoints, IdleClerk
    <3> QED
      BY <1>0, <2>2, <2>3, <3>1, <3>2, LinksUntouched, LinesUntouched, RouteUntouched,
         AuditsUntouched, VersionsUntouched DEF IdleClerk
  <2>5. CASE StopsChanged(s) /\ ClerkTo(c, "version", <<s, Len(route) + 1>>)
    <3>1. PICK q : q = <<s, Len(route) + 1>>
      OBVIOUS
    <3>2. PICK r : r = [pc |-> "version", paper |-> p, seen |-> q]
      OBVIOUS
    <3>3. ClerkBecomes(c, r)
      BY <2>1, <2>5, <3>1, <3>2, ClerkMoves
    <3>4. q = <<q[1], q[2]>> /\ q[1] = s /\ q[2] = Len(route) + 1
      BY <3>1
    <3>5. PaperTypes'
      BY <1>0, <2>2, <2>3, <3>2, <3>3, <3>4, ClerksKeepType DEF PaperTypes, ClerkPoints
    <3>6. RouteFits'
      <4>1. ASSUME NEW d \in Clerk, clerk'[d].pc = "version", d # c PROVE clerk'[d] = clerk[d]
        BY <3>3, <4>1 DEF ClerkBecomes
      <4>2. clerk'[c].seen[1] = s /\ clerk'[c].seen[2] = Len(route) + 1
        BY <3>2, <3>3, <3>4 DEF ClerkBecomes
      <4>3. StopsChanged(s)'
        BY <2>3, <2>5 DEF StopsChanged
      <4>4. ASSUME NEW d \in Clerk, clerk'[d].pc = "version"
            PROVE  /\ clerk'[d].seen[2] \in 1..(Len(route') + 1)
                   /\ clerk'[d].seen[2] = Len(route') + 1 => StopsChanged(clerk[d].seen[1])'
        <5>1. CASE d = c
          BY <1>0, <2>3, <4>2, <4>3, <5>1 DEF StopsChanged
        <5>2. CASE d # c
          BY <2>3, <4>1, <4>4, <5>2 DEF RouteFits, StopsChanged
        <5> QED
          BY <5>1, <5>2
      <4> QED
        BY <2>3, <4>4 DEF RouteFits
    <3> QED
      BY <1>0, <2>2, <2>3, <3>2, <3>3, <3>5, <3>6, LinksUntouched, LinesUntouched,
         AuditsUntouched, VersionsUntouched
  <2> QED
    BY <1>2, <2>1, <2>4, <2>5 DEF ReadLatest, ClerkTo, StopsChanged
<1>3. CASE CreateVersion(c)
  <2>1. PICK s, n, p : s = clerk[c].seen[1] /\ n = clerk[c].seen[2] /\ p = clerk[c].paper
    OBVIOUS
  <2>2. /\ clerk[c].pc = "version" /\ s \in Stops /\ p \in Nat
        /\ n \in 1..(Len(route) + 1) /\ (n = Len(route) + 1 => StopsChanged(s))
    <3>1. clerk[c].pc = "version" /\ s \in Stops /\ p \in Nat
      BY <1>3, <2>1 DEF CreateVersion, ClerkAt, PaperTypes, SeenFits
    <3>2. n \in 1..(Len(route) + 1) /\ (n = Len(route) + 1 => StopsChanged(s))
      BY <2>1, <3>1 DEF RouteFits, StopsChanged
    <3> QED
      BY <3>1, <3>2
  <2>3. UNCHANGED <<document, rfi, quoteLines, routeAudit, openStops, accepted, clashed, papers,
                    crashes>>
    BY <1>3 DEF CreateVersion, paperCounts
  <2>4. CASE ClerkEnds(c) /\ UNCHANGED route
    <3>1. ClerkBecomes(c, IdleClerk)
      BY <2>4, ClerkMoves
    <3>2. PaperTypes'
      BY <1>0, <2>3, <2>4, <3>1, ClerksKeepType DEF PaperTypes, ClerkPoints, IdleClerk
    <3> QED
      BY <1>0, <2>2, <2>3, <2>4, <3>1, <3>2, LinksUntouched, LinesUntouched, RouteUntouched,
         AuditsUntouched, VersionsUntouched DEF IdleClerk
  <2>5. CASE n \notin DOMAIN route /\ route' = Append(route, s) /\ ClerkTo(c, "audit", n)
    <3>1. PICK r : r = [pc |-> "audit", paper |-> p, seen |-> n]
      OBVIOUS
    <3>2. ClerkBecomes(c, r)
      BY <2>1, <2>5, <3>1, ClerkMoves
    <3>3. n = Len(route) + 1 /\ StopsChanged(s)
      <4>1. n = Len(route) + 1
        BY <1>0, <2>2, <2>5
      <4> QED
        BY <2>2, <4>1
    <3>4. /\ route' \in Seq(Stops) /\ Len(route') = Len(route) + 1 /\ DOMAIN route' = 1..(Len(route) + 1)
          /\ \A i \in 1..Len(route) : route'[i] = route[i]
          /\ route'[Len(route) + 1] = s
      BY <1>0, <2>2, <2>5
    <3>5. PaperTypes'
      BY <1>0, <2>2, <2>3, <3>1, <3>2, <3>4, ClerksKeepType DEF PaperTypes, ClerkPoints
    <3>6. RouteFits'
      <4>1. ASSUME NEW i \in 2..Len(route') PROVE route'[i] # route'[i - 1]
        <5>1. CASE i \in 2..Len(route)
          <6>1. i - 1 \in 1..Len(route) /\ i \in 1..Len(route)
            BY <1>0, <5>1
          <6> QED
            BY <3>4, <5>1, <6>1 DEF RouteFits
        <5>2. CASE i = Len(route) + 1
          <6>1. Len(route) \in 1..Len(route) /\ i - 1 = Len(route) /\ route # <<>>
            BY <1>0, <3>4, <4>1, <5>2
          <6>2. route[Len(route)] # s
            BY <3>3, <6>1 DEF StopsChanged, Last
          <6> QED
            BY <3>4, <5>2, <6>1, <6>2
        <5> QED
          BY <1>0, <3>4, <4>1, <5>1, <5>2
      <4>2. ASSUME NEW d \in Clerk, clerk'[d].pc = "version"
            PROVE  clerk'[d].seen[2] \in 1..Len(route')
        <5>1. clerk'[d] = clerk[d]
          BY <3>1, <3>2, <4>2 DEF ClerkBecomes
        <5>2. clerk[d].seen[2] \in 1..(Len(route) + 1)
          BY <4>2, <5>1 DEF RouteFits
        <5> QED
          BY <3>4, <5>1, <5>2
      <4>3. Len(route') \in Nat
        BY <1>0, <3>4
      <4>4. ASSUME NEW d \in Clerk, clerk'[d].pc = "version"
            PROVE  clerk'[d].seen[2] \in 1..(Len(route') + 1) /\ clerk'[d].seen[2] # Len(route') + 1
        BY <4>2, <4>3, <4>4
      <4> QED
        BY <4>1, <4>4 DEF RouteFits
    <3>7. AuditsFollow'
      <4>1. ASSUME NEW i \in DOMAIN route' \ routeAudit', ~ (crashes' > 0)
            PROVE  \E d \in Clerk : clerk'[d].pc = "audit" /\ clerk'[d].seen = i
        <5>1. CASE i = n
          BY <3>1, <3>2, <5>1 DEF ClerkBecomes
        <5>2. CASE i # n
          <6>1. i \in DOMAIN route \ routeAudit
            BY <1>0, <2>3, <3>3, <3>4, <4>1, <5>2
          <6>2. PICK d \in Clerk : clerk[d].pc = "audit" /\ clerk[d].seen = i
            BY <2>3, <4>1, <6>1 DEF AuditsFollow
          <6>3. clerk'[d] = clerk[d]
            BY <2>2, <3>2, <6>2 DEF ClerkBecomes
          <6> QED
            BY <6>2, <6>3
        <5> QED
          BY <5>1, <5>2
      <4> QED
        BY <4>1 DEF AuditsFollow
    <3> QED
      BY <1>0, <2>2, <2>3, <3>1, <3>2, <3>5, <3>6, <3>7, LinksUntouched, LinesUntouched,
         VersionsUntouched
  <2> QED
    BY <1>3, <2>1, <2>4, <2>5 DEF CreateVersion, ClerkTo
<1>4. CASE AuditVersion(c)
  <2>1. PICK s : s = clerk[c].seen
    OBVIOUS
  <2>2. ClerkBecomes(c, IdleClerk) /\ clerk[c].pc = "audit"
    BY <1>4, ClerkMoves DEF AuditVersion, ClerkAt
  <2>3. /\ UNCHANGED <<document, rfi, quoteLines, route, openStops, accepted, clashed, papers,
                       crashes>>
        /\ routeAudit' = routeAudit \cup {s}
    BY <1>4, <2>1 DEF AuditVersion, paperCounts
  <2>4. PaperTypes'
    BY <1>0, <2>2, <2>3, ClerksKeepType DEF PaperTypes, ClerkPoints, IdleClerk
  <2>5. AuditsFollow'
    <3>1. ASSUME NEW i \in DOMAIN route' \ routeAudit', ~ (crashes' > 0)
          PROVE  \E d \in Clerk : clerk'[d].pc = "audit" /\ clerk'[d].seen = i
      <4>1. i \in DOMAIN route \ routeAudit /\ i # s
        BY <2>3, <3>1
      <4>2. PICK d \in Clerk : clerk[d].pc = "audit" /\ clerk[d].seen = i
        BY <2>3, <3>1, <4>1 DEF AuditsFollow
      <4>3. clerk'[d] = clerk[d]
        BY <2>1, <2>2, <4>1, <4>2 DEF ClerkBecomes
      <4> QED
        BY <4>2, <4>3
    <3> QED
      BY <3>1 DEF AuditsFollow
  <2> QED
    BY <1>0, <2>2, <2>3, <2>4, <2>5, LinksUntouched, LinesUntouched, RouteUntouched,
       VersionsUntouched DEF IdleClerk
<1> QED
  BY <1>1, <1>2, <1>3, <1>4 DEF RouteStep

LEMMA PaperStepKeepsInv == PaperInv /\ [PaperNext]_paperVars => PaperInv'
<1> SUFFICES ASSUME PaperInv, [PaperNext]_paperVars PROVE PaperInv'
  OBVIOUS
<1>0. papers \in Nat /\ crashes \in Nat /\ openStops \in Stops
  BY DEF PaperInv, PaperTypes
<1>1. ASSUME NEW c \in Clerk, ClerkCrash(c) PROVE PaperInv'
  <2>1. ClerkBecomes(c, IdleClerk)
    BY <1>1, ClerkMoves DEF ClerkCrash, PaperInv
  <2>2. /\ UNCHANGED <<document, rfi, quoteLines, route, routeAudit, openStops, accepted,
                       clashed, papers>>
        /\ crashes' = crashes + 1
    BY <1>1 DEF ClerkCrash, recordVars
  <2>3. crashes' \in Nat /\ crashes' > 0
    BY <1>0, <2>2
  <2>4. PaperTypes'
    BY <1>0, <2>1, <2>2, <2>3, ClerksKeepType DEF PaperInv, PaperTypes, ClerkPoints, IdleClerk
  <2>5. LinksResolve' /\ AuditsFollow'
    BY <2>3 DEF LinksResolve, Resolves, AuditsFollow
  <2> QED
    BY <1>0, <2>1, <2>2, <2>4, <2>5, LinesUntouched, RouteUntouched, VersionsUntouched
       DEF PaperInv, IdleClerk
<1>2. CASE Replan
  <2>1. /\ UNCHANGED <<document, rfi, quoteLines, route, routeAudit, accepted, clashed, clerk,
                       papers, crashes>>
        /\ openStops' \in Stops
    BY <1>2 DEF Replan, recordVars
  <2>2. PaperTypes'
    BY <2>1 DEF PaperInv, PaperTypes, SeenFits
  <2> QED
    BY <2>1, <2>2 DEF PaperInv, VersionsAreKept, LinksResolve, Resolves, LinesFit, RouteFits,
       StopsChanged, AuditsFollow
<1>3. CASE UNCHANGED paperVars
  <2>1. UNCHANGED <<document, rfi, quoteLines, route, routeAudit, openStops, accepted, clashed,
                    clerk, papers, crashes>>
    BY <1>3 DEF paperVars, recordVars, paperCounts
  <2>2. PaperTypes'
    BY <2>1 DEF PaperInv, PaperTypes, SeenFits
  <2> QED
    BY <2>1, <2>2 DEF PaperInv, VersionsAreKept, LinksResolve, Resolves, LinesFit, RouteFits,
       StopsChanged, AuditsFollow
<1> QED
  BY <1>1, <1>2, <1>3, DocumentKeepsInv, RfiKeepsInv, QuoteKeepsInv, RouteKeepsInv DEF PaperNext

\* The inductive invariant holds in every state of the papers.
THEOREM PaperInvariant == PaperSpec => []PaperInv
<1> QED
  BY PaperStarts, PaperStepKeepsInv, PTL DEF PaperSpec

\* For any number of requests at once: no version of a document is lost, an RFI's attachment
\* resolves, the lines of a quote are in order and a route gets a version only by a change
\* of its stops, but for the overlaps and crashes that the properties name (documents.ts,
\* quotes.ts, routes.ts).
THEOREM RecordsStayConsistent == PaperSpec => []RecordsAgree
<1>1. PaperInv => AttachmentResolves
  BY DEF PaperInv, LinksResolve, Resolves, AttachmentResolves, ClerkAt
<1>2. PaperInv => LinesAreOrdered
  BY DEF PaperInv, LinesFit, LinesAreOrdered
<1>3. PaperInv => RouteGrowsOnlyByChange
  BY DEF PaperInv, RouteFits, AuditsFollow, RouteGrowsOnlyByChange, ClerkAt
<1>4. PaperInv => RecordsAgree
  BY <1>1, <1>2, <1>3 DEF PaperInv, RecordsAgree
<1> QED
  BY PaperInvariant, <1>4, PTL

-----------------------------------------------------------------------------
(* MobileSync: the inductive invariant *)

Stamped(r) == r.stamp \in Nat /\ r.stamp <= clock
SyncTypes ==
    /\ clock \in Nat /\ issued \in Nat /\ cursor \in Nat
    /\ row = [j \in Job |-> row[j]] /\ device = [j \in Job |-> device[j]]
    /\ unsent = [j \in Job |-> unsent[j]]
    /\ \A j \in Job : row[j] # NoChange =>
           /\ row[j] = [stamp |-> row[j].stamp, version |-> row[j].version, child |-> row[j].child]
           /\ Stamped(row[j])
    /\ open = [w \in Writer |-> open[w]]
    /\ \A w \in Writer : open[w] # NoChange => open[w].job \in Job /\ Stamped(open[w])
    /\ answer # NoChange => answer.timestamp \in Nat

\* Every timestamp a device has or is about to have was put in an answer.
IssuedLast == cursor <= issued /\ (answer # NoChange => answer.timestamp <= issued)

\* The state of a job that the next page, or the device, will have.
Latest(j) == <<row[j].version, row[j].child>>

\* A job that no cause passes over is still ahead of the cursor, or the device has it.
AheadOfCursor(j) ==
    row[j] # NoChange /\ unsent[j] = {} =>
        cursor = 0 \/ row[j].stamp > cursor \/ device[j] = Latest(j)

\* And so it will be when the answer under way arrives.
AheadOfAnswer(j) ==
    answer # NoChange /\ row[j] # NoChange /\ unsent[j] = {} =>
        \/ row[j].stamp > answer.timestamp
        \/ IF j \in DOMAIN answer.rows THEN answer.rows[j] = Latest(j) ELSE device[j] = Latest(j)

SyncInv ==
    /\ SyncTypes /\ IssuedLast
    /\ \A j \in Job : AheadOfCursor(j) /\ AheadOfAnswer(j)

LEMMA SyncStarts == SyncInit => SyncInv
<1> SUFFICES ASSUME SyncInit PROVE SyncInv
  OBVIOUS
<1>1. SyncTypes /\ IssuedLast
  BY DEF SyncInit, SyncTypes, IssuedLast
<1>2. \A j \in Job : AheadOfCursor(j) /\ AheadOfAnswer(j)
  BY DEF SyncInit, AheadOfCursor, AheadOfAnswer
<1> QED
  BY <1>1, <1>2 DEF SyncInv

\* A job whose row, copy and causes a step leaves alone.
LEMMA JobUntouched ==
    ASSUME SyncInv, NEW j \in Job, row'[j] = row[j], device' = device,
           unsent'[j] = unsent[j] \/ unsent'[j] # {}, cursor' = cursor,
           answer' = answer \/ answer' = NoChange
    PROVE  AheadOfCursor(j)' /\ AheadOfAnswer(j)'
BY DEF SyncInv, AheadOfCursor, AheadOfAnswer, Latest

LEMMA WriteKeepsInv ==
    ASSUME SyncInv, NEW w \in Writer, NEW j \in Job, WriteJob(w, j) PROVE SyncInv'
<1>1. UNCHANGED <<clock, row, device, cursor, answer, issued, unsent>>
  BY DEF WriteJob
<1>2. PICK t : t = [job |-> j, stamp |-> clock, version |-> changes + 1]
  OBVIOUS
<1>3. open' = [open EXCEPT ![w] = t]
  BY <1>2 DEF WriteJob
<1>4. open' = [v \in Writer |-> open'[v]] /\ open'[w] = t /\ \A v \in Writer \ {w} : open'[v] = open[v]
  BY <1>3 DEF SyncInv, SyncTypes
<1>5. t.job \in Job /\ t.stamp = clock /\ clock \in Nat
  BY <1>2 DEF SyncInv, SyncTypes
<1>6. \A v \in Writer : open'[v] # NoChange =>
          open'[v].job \in Job /\ open'[v].stamp \in Nat /\ open'[v].stamp <= clock
  BY <1>4, <1>5 DEF SyncInv, SyncTypes, Stamped
<1>7. SyncTypes'
  BY <1>1, <1>4, <1>6 DEF SyncInv, SyncTypes, Stamped
<1> QED
  BY <1>1, <1>7, JobUntouched DEF SyncInv, IssuedLast

LEMMA CommitKeepsInv ==
    ASSUME SyncInv, NEW w \in Writer, CommitJob(w) PROVE SyncInv'
<1>1. UNCHANGED <<clock, device, cursor, answer, changes, issued>>
  BY DEF CommitJob
<1>2. PICK j, s, v : j = open[w].job /\ s = open[w].stamp /\ v = open[w].version
  OBVIOUS
<1>3. j \in Job /\ s \in Nat /\ s <= clock
  BY <1>2 DEF CommitJob, SyncInv, SyncTypes, Stamped
<1>4. PICK c : c = IF row[j] = NoChange THEN 0 ELSE row[j].child
  OBVIOUS
<1>5. PICK r, u : r = [stamp |-> s, version |-> v, child |-> c] /\ u = IF s <= issued THEN {"late"} ELSE {}
  OBVIOUS
<1>6. row' = [row EXCEPT ![j] = r] /\ unsent' = [unsent EXCEPT ![j] = u] /\ open' = [open EXCEPT ![w] = NoChange]
  BY <1>2, <1>4, <1>5 DEF CommitJob
<1>7. /\ row' = [i \in Job |-> row'[i]] /\ row'[j] = r /\ \A i \in Job \ {j} : row'[i] = row[i]
      /\ unsent' = [i \in Job |-> unsent'[i]] /\ unsent'[j] = u
      /\ \A i \in Job \ {j} : unsent'[i] = unsent[i]
  BY <1>3, <1>6 DEF SyncInv, SyncTypes
<1>8. /\ open' = [x \in Writer |-> open'[x]] /\ open'[w] = NoChange
      /\ \A x \in Writer \ {w} : open'[x] = open[x]
  BY <1>6 DEF SyncInv, SyncTypes
<1>9. r = [stamp |-> r.stamp, version |-> r.version, child |-> r.child] /\ r.stamp = s
  BY <1>5
<1>10. SyncTypes'
  <2>1. ASSUME NEW i \in Job, row'[i] # NoChange
        PROVE  /\ row'[i] = [stamp |-> row'[i].stamp, version |-> row'[i].version, child |-> row'[i].child]
               /\ row'[i].stamp \in Nat /\ row'[i].stamp <= clock
    <3>1. CASE i = j
      BY <1>3, <1>7, <1>9, <3>1
    <3>2. CASE i # j
      BY <1>7, <2>1, <3>2 DEF SyncInv, SyncTypes, Stamped
    <3> QED
      BY <3>1, <3>2
  <2>2. ASSUME NEW x \in Writer, open'[x] # NoChange
        PROVE  open'[x].job \in Job /\ open'[x].stamp \in Nat /\ open'[x].stamp <= clock
    BY <1>8, <2>2 DEF SyncInv, SyncTypes, Stamped
  <2> QED
    BY <1>1, <1>7, <1>8, <2>1, <2>2 DEF SyncInv, SyncTypes, Stamped
<1>11. IssuedLast'
  BY <1>1 DEF SyncInv, IssuedLast
<1>12. AheadOfCursor(j)' /\ AheadOfAnswer(j)'
  <2>1. u = {} => s > issued
    BY <1>3, <1>5 DEF SyncInv, SyncTypes
  <2>2. u = {} => s > cursor
    BY <1>3, <2>1 DEF SyncInv, SyncTypes, IssuedLast
  <2>3. u = {} /\ answer # NoChange => s > answer.timestamp
    BY <1>3, <2>1 DEF SyncInv, SyncTypes, IssuedLast
  <2> QED
    BY <1>1, <1>7, <1>9, <2>2, <2>3 DEF AheadOfCursor, AheadOfAnswer
<1>13. \A i \in Job \ {j} : AheadOfCursor(i)' /\ AheadOfAnswer(i)'
  BY <1>1, <1>7, JobUntouched
<1> QED
  BY <1>10, <1>11, <1>12, <1>13 DEF SyncInv

LEMMA ChildKeepsInv ==
    ASSUME SyncInv, NEW j \in Job, ChangeChild(j) PROVE SyncInv'
<1>1. UNCHANGED <<clock, open, device, cursor, answer, issued>> /\ row[j] # NoChange
  BY DEF ChangeChild
<1>2. PICK s, v, c : row[j] = [stamp |-> s, version |-> v, child |-> c] /\ s \in Nat /\ s <= clock
  BY <1>1 DEF SyncInv, SyncTypes, Stamped
<1>3. PICK k : k = changes + 1
  OBVIOUS
<1>4. row' = [row EXCEPT ![j].child = k] /\ unsent' = [unsent EXCEPT ![j] = @ \union {"child"}]
  BY <1>3 DEF ChangeChild
<1>5. row' = [row EXCEPT ![j] = [stamp |-> s, version |-> v, child |-> k]]
  <2>1. [row[j] EXCEPT !.child = k] = [stamp |-> s, version |-> v, child |-> k]
    BY <1>2
  <2> QED
    BY <1>4, <2>1
<1>6. PICK r : r = [stamp |-> s, version |-> v, child |-> k]
  OBVIOUS
<1>7. /\ row' = [i \in Job |-> row'[i]] /\ row'[j] = r /\ \A i \in Job \ {j} : row'[i] = row[i]
      /\ unsent' = [i \in Job |-> unsent'[i]] /\ unsent'[j] # {}
      /\ \A i \in Job \ {j} : unsent'[i] = unsent[i]
  BY <1>4, <1>5, <1>6 DEF SyncInv, SyncTypes
<1>8. r = [stamp |-> r.stamp, version |-> r.version, child |-> r.child] /\ r.stamp = s
  BY <1>6
<1>9. SyncTypes'
  <2>1. ASSUME NEW i \in Job, row'[i] # NoChange
        PROVE  /\ row'[i] = [stamp |-> row'[i].stamp, version |-> row'[i].version, child |-> row'[i].child]
               /\ row'[i].stamp \in Nat /\ row'[i].stamp <= clock
    <3>1. CASE i = j
      BY <1>2, <1>7, <1>8, <3>1
    <3>2. CASE i # j
      BY <1>7, <2>1, <3>2 DEF SyncInv, SyncTypes, Stamped
    <3> QED
      BY <3>1, <3>2
  <2> QED
    BY <1>1, <1>7, <2>1 DEF SyncInv, SyncTypes, Stamped
<1>10. AheadOfCursor(j)' /\ AheadOfAnswer(j)'
  BY <1>7 DEF AheadOfCursor, AheadOfAnswer
<1>11. \A i \in Job \ {j} : AheadOfCursor(i)' /\ AheadOfAnswer(i)'
  BY <1>1, <1>7, JobUntouched
<1>12. IssuedLast'
  BY <1>1 DEF SyncInv, IssuedLast
<1> QED
  BY <1>9, <1>10, <1>11, <1>12 DEF SyncInv

LEMMA DeleteKeepsInv ==
    ASSUME SyncInv, NEW j \in Job, DeleteJob(j) PROVE SyncInv'
<1>1. UNCHANGED <<clock, open, device, cursor, answer, issued, unsent>>
  BY DEF DeleteJob
<1>2. /\ row' = [i \in Job |-> row'[i]] /\ row'[j] = NoChange
      /\ \A i \in Job \ {j} : row'[i] = row[i]
  BY DEF DeleteJob, SyncInv, SyncTypes
<1>3. SyncTypes'
  BY <1>1, <1>2 DEF SyncInv, SyncTypes, Stamped
<1>4. AheadOfCursor(j)' /\ AheadOfAnswer(j)'
  BY <1>2 DEF AheadOfCursor, AheadOfAnswer
<1>5. \A i \in Job \ {j} : AheadOfCursor(i)' /\ AheadOfAnswer(i)'
  BY <1>1, <1>2, JobUntouched
<1>6. IssuedLast'
  BY <1>1 DEF SyncInv, IssuedLast
<1> QED
  BY <1>3, <1>4, <1>5, <1>6 DEF SyncInv

-----------------------------------------------------------------------------
(* The pull *)

\* A page is empty only when nothing has changed, and its timestamp is its latest stamp.
LEMMA PagesFit ==
    ASSUME SyncInv, NEW p \in Pages
    PROVE  /\ p \subseteq Changed /\ Timestamp(p) \in Nat
           /\ p = {} => Changed = {}
           /\ p # {} => Timestamp(p) = LastStamp(p)
           /\ \A j \in p : row[j].stamp <= Timestamp(p)
           /\ \A j \in Changed \ p : Timestamp(p) <= row[j].stamp
<1> DEFINE S == {row[j].stamp : j \in p}
<1>1. /\ p \subseteq Changed /\ Changed \subseteq Job
      /\ Cardinality(p) = Min({Cap, Cardinality(Changed)})
      /\ \A j \in p, k \in Changed \ p : row[j].stamp <= row[k].stamp
  BY DEF Pages, Changed
<1>2. \A j \in Changed : row[j].stamp \in Nat /\ row[j].stamp <= clock
  BY DEF SyncInv, SyncTypes, Stamped, Changed
<1>3. IsFiniteSet(Changed) /\ Cardinality(Changed) \in Nat /\ (Cardinality(Changed) = 0 <=> Changed = {})
  BY <1>1, SyncAssumption, FS_Subset, FS_EmptySet, FS_CardinalityType
<1>4. p = {} => Changed = {}
  <2>1. SUFFICES ASSUME p = {} PROVE Cardinality(Changed) = 0
    BY <1>3
  <2>2. Cardinality(p) = 0
    BY <2>1, FS_EmptySet
  <2>3. Min({Cap, Cardinality(Changed)}) \in {Cap, Cardinality(Changed)}
    BY <1>3, SyncAssumption, SmallerOfTwo
  <2> QED
    BY <1>1, <2>2, <2>3, SyncAssumption
<1>5. CASE p = {}
  BY <1>1, <1>4, <1>5 DEF Timestamp, SyncInv, SyncTypes
<1>6. CASE p # {}
  <2>1. \A j \in p : row[j].stamp \in S
    OBVIOUS
  <2>2. \A s \in S : s \in Nat /\ s <= clock
    BY <1>1, <1>2
  <2>3. \A s \in S : \E j \in p : s = row[j].stamp
    OBVIOUS
  <2>4. S # {}
    <3>1. PICK j \in p : TRUE
      BY <1>6
    <3> QED
      BY <2>1, <3>1
  <2>5. Timestamp(p) = LastStamp(p) /\ LastStamp(p) = Max(S)
    BY <1>6 DEF Timestamp, LastStamp
  <2> HIDE DEF S
  <2>6. S \subseteq Int /\ clock \in Int
    BY <2>2 DEF SyncInv, SyncTypes
  <2>7. Max(S) \in S /\ \A s \in S : s <= Max(S)
    BY <2>2, <2>4, <2>6, LargestOfBounded
  <2>8. PICK k \in p : Max(S) = row[k].stamp
    BY <2>3, <2>7
  <2>9. \A j \in Changed \ p : Max(S) <= row[j].stamp
    BY <1>1, <2>8
  <2> QED
    BY <1>1, <1>6, <2>1, <2>2, <2>5, <2>7, <2>9
<1> QED
  BY <1>5, <1>6

LEMMA PullKeepsInv == ASSUME SyncInv, Pull PROVE SyncInv'
<1>1. PICK p \in Pages :
        /\ answer' = [rows |-> [j \in p |-> <<row[j].version, row[j].child>>],
                      timestamp |-> Timestamp(p)]
        /\ issued' = Max({issued, Timestamp(p)})
        /\ unsent' = [j \in Job |->
              IF j \in p THEN {}
              ELSE IF j \in Changed /\ row[j].stamp = LastStamp(p)
                   THEN unsent[j] \union {"tie"} ELSE unsent[j]]
  BY DEF Pull
<1>2. UNCHANGED <<clock, row, open, device, cursor>>
  BY DEF Pull
<1>3. PICK t : t = Timestamp(p)
  OBVIOUS
<1>4. /\ p \subseteq Changed /\ t \in Nat
      /\ p = {} => Changed = {}
      /\ p # {} => t = LastStamp(p)
      /\ \A j \in p : row[j].stamp <= t
      /\ \A j \in Changed \ p : t <= row[j].stamp
  BY <1>3, PagesFit
<1>5. issued' \in Nat /\ issued <= issued' /\ t <= issued'
  BY <1>1, <1>3, <1>4, LargerOfTwo DEF SyncInv, SyncTypes
<1>6. /\ answer'.timestamp = t /\ DOMAIN answer'.rows = p
      /\ \A j \in p : answer'.rows[j] = Latest(j)
  BY <1>1, <1>3 DEF Latest
<1>7. SyncTypes'
  <2>1. unsent' = [j \in Job |-> unsent'[j]]
    BY <1>1
  <2> QED
    BY <1>2, <1>4, <1>5, <1>6, <2>1 DEF SyncInv, SyncTypes, Stamped
<1>8. IssuedLast'
  BY <1>2, <1>4, <1>5, <1>6 DEF SyncInv, SyncTypes, IssuedLast
<1>9. ASSUME NEW j \in Job, row[j] # NoChange, unsent'[j] = {}
      PROVE  j \in p \/ (unsent[j] = {} /\ (j \in Changed => row[j].stamp # LastStamp(p)))
  BY <1>1, <1>9
<1>10. ASSUME NEW j \in Job PROVE AheadOfCursor(j)'
  <2>1. CASE j \in p
    BY <1>2, <1>4, <2>1 DEF Changed, AheadOfCursor
  <2>2. CASE j \notin p
    BY <1>2, <1>9, <2>2 DEF SyncInv, AheadOfCursor, Latest
  <2> QED
    BY <2>1, <2>2
<1>11. ASSUME NEW j \in Job, row[j] # NoChange, unsent'[j] = {}
       PROVE  row[j].stamp > t \/ IF j \in p THEN answer'.rows[j] = Latest(j) ELSE device[j] = Latest(j)
  <2>1. CASE j \in p
    BY <1>6, <2>1
  <2>2. CASE j \notin p /\ j \in Changed
    <3>1. p # {} /\ row[j].stamp # t /\ t <= row[j].stamp
      BY <1>4, <1>9, <1>11, <2>2
    <3>2. row[j].stamp \in Nat
      BY <1>11 DEF SyncInv, SyncTypes, Stamped
    <3> QED
      BY <1>4, <3>1, <3>2
  <2>3. CASE j \notin p /\ j \notin Changed
    <3>1. cursor # 0 /\ ~ (row[j].stamp > cursor)
      BY <1>11, <2>3 DEF Changed
    <3> QED
      BY <1>9, <1>11, <2>3, <3>1 DEF SyncInv, AheadOfCursor
  <2> QED
    BY <2>1, <2>2, <2>3
<1>12. ASSUME NEW j \in Job PROVE AheadOfAnswer(j)'
  BY <1>2, <1>6, <1>11 DEF AheadOfAnswer, Latest
<1> QED
  BY <1>7, <1>8, <1>10, <1>12 DEF SyncInv

LEMMA ReceiveKeepsInv == ASSUME SyncInv, ReceivePull PROVE SyncInv'
<1>1. /\ answer # NoChange /\ answer' = NoChange /\ cursor' = answer.timestamp
      /\ UNCHANGED <<clock, row, open, changes, issued, unsent>>
      /\ device' = [j \in Job |-> IF j \in DOMAIN answer.rows THEN answer.rows[j] ELSE device[j]]
  BY DEF ReceivePull
<1>2. SyncTypes'
  <2>1. device' = [j \in Job |-> device'[j]]
    BY <1>1
  <2> QED
    BY <1>1, <2>1 DEF SyncInv, SyncTypes, Stamped
<1>3. IssuedLast'
  BY <1>1 DEF SyncInv, IssuedLast
<1>4. ASSUME NEW j \in Job PROVE AheadOfCursor(j)' /\ AheadOfAnswer(j)'
  <2>1. device'[j] = IF j \in DOMAIN answer.rows THEN answer.rows[j] ELSE device[j]
    BY <1>1
  <2> QED
    BY <1>1, <2>1 DEF SyncInv, AheadOfCursor, AheadOfAnswer, Latest
<1> QED
  BY <1>2, <1>3, <1>4 DEF SyncInv

LEMMA SyncStepKeepsInv == SyncInv /\ [SyncNext]_syncVars => SyncInv'
<1> SUFFICES ASSUME SyncInv, [SyncNext]_syncVars PROVE SyncInv'
  OBVIOUS
<1>1. CASE Tick
  <2>1. UNCHANGED <<row, open, device, cursor, answer, issued, unsent>> /\ clock' = clock + 1
    BY <1>1 DEF Tick
  <2>2. clock \in Nat
    BY DEF SyncInv, SyncTypes
  <2>3. clock' \in Nat /\ \A n \in Nat : n <= clock => n <= clock'
    BY <2>1, <2>2
  <2>4. SyncTypes'
    BY <2>1, <2>3 DEF SyncInv, SyncTypes, Stamped
  <2> QED
    BY <2>1, <2>4, JobUntouched DEF SyncInv, IssuedLast
<1>2. CASE LoseAnswer \/ UNCHANGED syncVars
  <2>1. /\ UNCHANGED <<clock, row, open, device, cursor, issued, unsent>>
        /\ answer' = answer \/ answer' = NoChange
    BY <1>2 DEF LoseAnswer, syncVars
  <2>2. SyncTypes' /\ IssuedLast'
    BY <2>1 DEF SyncInv, SyncTypes, Stamped, IssuedLast
  <2> QED
    BY <2>1, <2>2, JobUntouched DEF SyncInv
<1> QED
  BY <1>1, <1>2, PullKeepsInv, ReceiveKeepsInv, ChildKeepsInv, DeleteKeepsInv, WriteKeepsInv,
     CommitKeepsInv DEF SyncNext

\* The inductive invariant holds in every state of the sync.
THEOREM SyncInvariant == SyncSpec => []SyncInv
<1> QED
  BY SyncStarts, SyncStepKeepsInv, PTL DEF SyncSpec

\* For any number of jobs and writers and any page size: a device misses a change only for
\* one of the causes its cursor has, whatever answers are lost or repeated (GET /api/sync).
THEOREM NothingIsSkipped == SyncSpec => []SkippedOnlyForCause
<1>1. SyncInv => SkippedOnlyForCause
  <2> SUFFICES ASSUME SyncInv, NEW j \in Job, Passed(j) PROVE unsent[j] # {}
    BY DEF SkippedOnlyForCause
  <2>1. row[j] # NoChange /\ cursor # 0 /\ row[j].stamp <= cursor /\ device[j] # Latest(j)
    BY DEF Passed, Latest
  <2>2. row[j].stamp \in Nat /\ cursor \in Nat
    BY <2>1 DEF SyncInv, SyncTypes, Stamped
  <2>3. ~ (row[j].stamp > cursor)
    BY <2>1, <2>2
  <2> QED
    BY <2>1, <2>3 DEF SyncInv, AheadOfCursor
<1> QED
  BY SyncInvariant, <1>1, PTL
=============================================================================
