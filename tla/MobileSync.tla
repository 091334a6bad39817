------------------------------ MODULE MobileSync ------------------------------
(***************************************************************************)
(* GET /api/sync (apps/api/src/routes/sync.ts): a field device pulls the   *)
(* jobs changed since its cursor and keeps the timestamp of the answer as  *)
(* the next one.  Writers are the handlers that change jobs and what a     *)
(* sync row carries with them: a job row is stamped (@updatedAt) when it   *)
(* is written and seen when its transaction commits; appointments, photos, *)
(* checklist items and time entries have rows of their own.                *)
(***************************************************************************)
EXTENDS Integers, FiniteSets, FiniteSetsExt

CONSTANTS
    Job, Writer,      \* jobs of the organization, transactions open at once
    Cap,              \* SYNC_JOB_CAP
    NoChange,         \* no row, no transaction, no answer
    MaxChanges,       \* bound: changes of jobs
    MaxTime           \* bound: the clock

\* There are finitely many jobs, and a page has room for one.
ASSUME SyncAssumption == IsFiniteSet(Job) /\ Cap \in Nat \ {0}

VARIABLES
    clock,
    row,        \* committed job: stamp, and version of the job and of its children
    open,       \* uncommitted write of a transaction: job, stamp, version
    device,     \* versions the device holds, by job
    cursor,     \* what the device sends: timestamp of the last answer it received
    answer,     \* the answer under way
    changes,    \* history: changes so far, which number the versions
    issued,     \* history: the latest timestamp put in an answer
    unsent      \* history: why a job's last change may not be shipped

syncVars == <<clock, row, open, device, cursor, answer, changes, issued, unsent>>

SyncInit ==
    /\ clock = 1 /\ changes = 0 /\ issued = 0
    /\ row = [j \in Job |-> NoChange] /\ device = [j \in Job |-> NoChange]
    /\ open = [w \in Writer |-> NoChange] /\ answer = NoChange /\ cursor = 0
    /\ unsent = [j \in Job |-> {}]

Tick ==
    /\ clock < MaxTime /\ clock' = clock + 1
    /\ UNCHANGED <<row, open, device, cursor, answer, changes, issued, unsent>>

-----------------------------------------------------------------------------
(* Writers *)

\* Rows an open transaction has written.
Locked == {open[w].job : w \in {v \in Writer : open[v] # NoChange}}

\* A job is created or updated: Prisma stamps the row now, the transaction is still open.
\* The row stays locked until it commits.
WriteJob(w, j) ==
    /\ open[w] = NoChange /\ changes < MaxChanges
    /\ j \notin Locked
    /\ open' = [open EXCEPT ![w] = [job |-> j, stamp |-> clock, version |-> changes + 1]]
    /\ changes' = changes + 1
    /\ UNCHANGED <<clock, row, device, cursor, answer, issued, unsent>>

CommitJob(w) ==
    /\ open[w] # NoChange
    /\ LET t == open[w] IN
       /\ row' = [row EXCEPT ![t.job] =
                     [stamp |-> t.stamp, version |-> t.version,
                      child |-> IF @ = NoChange THEN 0 ELSE @.child]]
       /\ unsent' = [unsent EXCEPT ![t.job] = IF t.stamp <= issued THEN {"late"} ELSE {}]
    /\ open' = [open EXCEPT ![w] = NoChange]
    /\ UNCHANGED <<clock, device, cursor, answer, changes, issued>>

\* An assignment, a tick, a photo, a time entry or a quote line: no stamp of the job moves.
ChangeChild(j) ==
    /\ row[j] # NoChange /\ changes < MaxChanges
    /\ row' = [row EXCEPT ![j].child = changes + 1]
    /\ changes' = changes + 1
    /\ unsent' = [unsent EXCEPT ![j] = @ \union {"child"}]
    /\ UNCHANGED <<clock, open, device, cursor, answer, issued>>

DeleteJob(j) ==
    /\ row[j] # NoChange
    /\ j \notin Locked
    /\ row' = [row EXCEPT ![j] = NoChange]
    /\ UNCHANGED <<clock, open, device, cursor, answer, changes, issued, unsent>>

-----------------------------------------------------------------------------
(* The pull *)

Changed == {j \in Job : row[j] # NoChange /\ (cursor = 0 \/ row[j].stamp > cursor)}

\* orderBy updatedAt asc, take Cap: the oldest changes first; the order of equal stamps is
\* the database's.
Pages ==
    {p \in SUBSET Changed :
        /\ Cardinality(p) = Min({Cap, Cardinality(Changed)})
        /\ \A j \in p, k \in Changed \ p : row[j].stamp <= row[k].stamp}

LastStamp(p) == Max({row[j].stamp : j \in p})

\* Mutant of Timestamp: the time of the request, as before the cursor was fixed.
TimestampNow(p) == clock

\* "The next cursor must be the last returned row's updatedAt"; now, when there is none.
Timestamp(p) == IF p = {} THEN clock ELSE LastStamp(p)

\* One query: its rows, and the timestamp that goes with them.
Pull ==
    /\ answer = NoChange
    /\ \E p \in Pages :
          /\ answer' = [rows |-> [j \in p |-> <<row[j].version, row[j].child>>],
                        timestamp |-> Timestamp(p)]
          /\ issued' = Max({issued, Timestamp(p)})
          /\ unsent' = [j \in Job |->
                IF j \in p THEN {}
                ELSE IF j \in Changed /\ row[j].stamp = LastStamp(p)
                     THEN unsent[j] \union {"tie"} ELSE unsent[j]]
    /\ UNCHANGED <<clock, row, open, device, cursor, changes>>

\* The device merges the rows and keeps the timestamp; it deletes nothing.
ReceivePull ==
    /\ answer # NoChange
    /\ device' = [j \in Job |-> IF j \in DOMAIN answer.rows THEN answer.rows[j] ELSE device[j]]
    /\ cursor' = answer.timestamp
    /\ answer' = NoChange
    /\ UNCHANGED <<clock, row, open, changes, issued, unsent>>

\* The answer is lost, and with it its timestamp: what it carried may be shipped again.
LoseAnswer ==
    /\ answer # NoChange /\ answer' = NoChange
    /\ UNCHANGED <<clock, row, open, device, cursor, changes, issued, unsent>>

SyncNext ==
    \/ Tick \/ Pull \/ ReceivePull \/ LoseAnswer
    \/ \E j \in Job : ChangeChild(j) \/ DeleteJob(j) \/ \E w \in Writer : WriteJob(w, j)
    \/ \E w \in Writer : CommitJob(w)

SyncSpec == SyncInit /\ [][SyncNext]_syncVars

-----------------------------------------------------------------------------
(* Properties *)

\* The device will not be sent this job's current state: it is not what it holds, no
\* answer carries it, and the cursor is past it.
Passed(j) ==
    /\ row[j] # NoChange /\ answer = NoChange
    /\ cursor # 0 /\ row[j].stamp <= cursor
    /\ device[j] # <<row[j].version, row[j].child>>

\* A change is passed over only because it was committed after a later timestamp was
\* given out, lies on the edge of a full page beside an equal stamp, or changed a row
\* of its own: the cap, lost answers and repeated pulls alone skip nothing.
SkippedOnlyForCause == \A j \in Job : Passed(j) => unsent[j] # {}

\* The comment on the cursor: taken from the last row, it does not "permanently skip
\* changes beyond the SYNC_JOB_CAP cap on busy pulls".
CapSkipsNothing == \A j \in Job : Passed(j) => "tie" \notin unsent[j]
=============================================================================
