---------------------------- MODULE DispatchDesk ----------------------------
(* The dispatcher's desk beside the board: moves that are refused go to a ledger from   *)
(* which they are retried or discarded (features/crewline/failedOps.ts, Inspector.tsx,  *)
(* DispatchSurface.tsx), and new jobs are taken in by a form (NewJobForm.tsx).  What a   *)
(* move does to the board is BoardSync's; here it is blocked, done, saved or refused.   *)
EXTENDS Integers, FiniteSets, SequencesExt

CONSTANTS
    Job, Blocks,     \* the jobs of the day and its start blocks (TOTAL_BLOCKS)
    Draft, None,     \* texts of the form
    LedgerSize,      \* the newest entries that record() keeps
    MaxActs, MaxDeskFaults, MaxTime    \* bounds on acts, lost answers and the clock

VARIABLES
    span, drag,      \* blocks of each job; the job under the pointer
    online, live,    \* navigator.onLine; dataMode = "live"
    now,             \* the clock, in milliseconds
    ops,             \* the ledger, newest first: [id, move]
    calls,           \* moves whose answer is awaited: [move, retryOf, act]
    moves,           \* history of the placements: [job, block, id, failed, saved, lost]
    recorded,        \* history: entries ever written
    excused,         \* history: entries discarded, or whose retry succeeded
    form, draft, posting,    \* the intake: open or closed, its text, the text on its way
    wanted, created, lostPosts,   \* history per text: typed afresh, jobs created, answers lost
    acts, deskFaults

ledgerVars == <<span, drag, ops, calls, moves, recorded, excused>>
formVars   == <<form, draft, posting, wanted, created, lostPosts>>
vars == <<ledgerVars, formVars, online, live, now, acts, deskFaults>>

Init ==
    /\ span \in [Job -> 1..Blocks] /\ drag = None
    /\ online = TRUE /\ live = TRUE /\ now = 0
    /\ ops = <<>> /\ calls = {} /\ moves = <<>> /\ recorded = 0 /\ excused = {}
    /\ form = "closed" /\ draft = None /\ posting = None
    /\ wanted = [d \in Draft |-> 0] /\ created = wanted /\ lostPosts = wanted
    /\ acts = 0 /\ deskFaults = 0

Act == acts < MaxActs /\ acts' = acts + 1
Fault == deskFaults < MaxDeskFaults /\ deskFaults' = deskFaults + 1
Tick ==
    /\ now < MaxTime /\ now' = now + 1
    /\ UNCHANGED <<ledgerVars, formVars, online, live, acts, deskFaults>>
\* The network comes and goes; the board latches into demo data and is reconnected.
Switch ==
    /\ Act /\ \/ online' = ~online /\ UNCHANGED live
              \/ live' = ~live /\ UNCHANGED online
    /\ UNCHANGED <<ledgerVars, formVars, now, deskFaults>>

-----------------------------------------------------------------------------
(* Moves *)

Kept(entries) == SubSeq(entries, 1, IF Len(entries) < LedgerSize THEN Len(entries) ELSE LedgerSize)
Discarded(id) == SelectSeq(ops, LAMBDA entry : entry.id # id)

\* Mutant of Failed: a failed retry is recorded as a failure of its own.
FailedAnew(all, m, retryOf) ==
    LET id == <<all[m].job, now>>
    IN  /\ ops' = Kept(<<[id |-> id, move |-> m]>> \o ops) /\ recorded' = recorded + 1
        /\ moves' = [all EXCEPT ![m].failed = TRUE, ![m].id = id]

\* Only a first failure adds an entry; a retry restates the reason of its own, if it is
\* still there.
Failed(all, m, retryOf) ==
    LET id == <<all[m].job, now>>
    IN  IF retryOf = None
        THEN /\ ops' = Kept(<<[id |-> id, move |-> m]>> \o ops) /\ recorded' = recorded + 1
             /\ moves' = [all EXCEPT ![m].failed = TRUE, ![m].id = id]
        ELSE moves' = [all EXCEPT ![m].failed = TRUE] /\ UNCHANGED <<ops, recorded>>
Succeeded(all, m, retryOf) ==
    /\ moves' = [all EXCEPT ![m].failed = FALSE]
    /\ ops' = IF retryOf = None THEN ops ELSE Discarded(retryOf)
    /\ excused' = excused \cup ({retryOf} \ {None}) /\ UNCHANGED recorded

\* performAssignment up to its first wait: blocked by the board, queued offline or shown
\* on demo data (both are done), or sent.
Attempt(all, m, retryOf) ==
    /\ \/ Failed(all, m, retryOf) /\ UNCHANGED <<calls, excused>>
       \/ ~(online /\ live) /\ Succeeded(all, m, retryOf) /\ UNCHANGED calls
       \/ /\ online /\ live /\ moves' = all
          /\ calls' = calls \cup {[move |-> m, retryOf |-> retryOf, act |-> acts]}
          /\ UNCHANGED <<ops, recorded, excused>>
    /\ UNCHANGED <<span, formVars, online, live, now, deskFaults>>

Placed(j, b) == [job |-> j, block |-> b, id |-> None, failed |-> FALSE, saved |-> FALSE, lost |-> FALSE]

\* The day offers as targets the blocks from which the dragged job fits.
Grab(j) ==
    /\ drag = None /\ drag' = j
    /\ UNCHANGED <<span, ops, calls, moves, recorded, excused, formVars, online, live, now, acts, deskFaults>>
DropAside ==
    /\ drag # None /\ drag' = None
    /\ UNCHANGED <<span, ops, calls, moves, recorded, excused, formVars, online, live, now, acts, deskFaults>>
Target(j) == 0..(Blocks - span[j])
Drop(b) ==
    /\ Act /\ drag # None /\ b \in Target(drag) /\ drag' = None
    /\ Attempt(Append(moves, Placed(drag, b)), Len(moves) + 1, None)
\* The keyboard's way to the same move.
PlaceOnBoard(j, b) ==
    /\ Act /\ b \in Target(j)
    /\ Attempt(Append(moves, Placed(j, b)), Len(moves) + 1, None) /\ UNCHANGED drag
Retry(i) == Act /\ Attempt(moves, ops[i].move, ops[i].id) /\ UNCHANGED drag
Discard(i) ==
    /\ Act /\ ops' = Discarded(ops[i].id) /\ excused' = excused \cup {ops[i].id}
    /\ UNCHANGED <<span, drag, calls, moves, recorded, formVars, online, live, now, deskFaults>>

Answered(call) == calls' = calls \ {call} /\ UNCHANGED <<span, drag, formVars, online, live, now, acts>>
MoveSaved(call) ==
    /\ Answered(call)
    /\ Succeeded([moves EXCEPT ![call.move].saved = TRUE], call.move, call.retryOf)
    /\ UNCHANGED deskFaults
MoveRefused(call) ==
    /\ Answered(call) /\ Failed(moves, call.move, call.retryOf) /\ UNCHANGED <<excused, deskFaults>>
MoveAnswerLost(call) ==
    /\ Fault /\ Answered(call)
    /\ Failed([moves EXCEPT ![call.move].saved = TRUE, ![call.move].lost = TRUE], call.move, call.retryOf)
    /\ UNCHANGED excused

-----------------------------------------------------------------------------
(* New jobs *)

Intake == Act /\ UNCHANGED <<ledgerVars, online, live, now, created, lostPosts, deskFaults>>
OpenForm == Intake /\ form = "closed" /\ form' = "open" /\ UNCHANGED <<draft, posting, wanted>>
Type(d) ==
    /\ Intake /\ form = "open" /\ d # draft /\ draft' = d
    /\ wanted' = [wanted EXCEPT ![d] = @ + 1] /\ UNCHANGED <<form, posting>>
Cancel == Intake /\ form = "open" /\ form' = "closed" /\ draft' \in {draft, None} /\ UNCHANGED <<posting, wanted>>
Submit ==
    /\ Intake /\ form = "open" /\ posting = None /\ draft # None /\ live
    /\ posting' = draft /\ UNCHANGED <<form, draft, wanted>>

Posted == posting # None /\ posting' = None /\ UNCHANGED <<ledgerVars, online, live, now, acts, wanted>>
JobCreated ==
    /\ Posted /\ created' = [created EXCEPT ![posting] = @ + 1]
    /\ form' = "closed" /\ draft' = None /\ UNCHANGED <<lostPosts, deskFaults>>
JobRefused == Posted /\ UNCHANGED <<form, draft, created, lostPosts, deskFaults>>
JobAnswerLost ==
    /\ Fault /\ Posted /\ created' = [created EXCEPT ![posting] = @ + 1]
    /\ lostPosts' = [lostPosts EXCEPT ![posting] = @ + 1] /\ UNCHANGED <<form, draft>>

Next ==
    \/ Tick \/ Switch
    \/ \E j \in Job : Grab(j) \/ \E b \in 0..Blocks : PlaceOnBoard(j, b)
    \/ DropAside \/ \E b \in 0..Blocks : Drop(b)
    \/ \E i \in DOMAIN ops : Retry(i) \/ Discard(i)
    \/ \E call \in calls : MoveSaved(call) \/ MoveRefused(call) \/ MoveAnswerLost(call)
    \/ OpenForm \/ \E d \in Draft : Type(d)
    \/ Cancel \/ Submit \/ JobCreated \/ JobRefused \/ JobAnswerLost

Spec == Init /\ [][Next]_vars

-----------------------------------------------------------------------------
Shown(m) == {i \in DOMAIN ops : ops[i].move = m}

\* A move that failed is in the ledger, once, until it is discarded or a retry of it
\* succeeds (or one of the same job and millisecond), or newer failures push it out; and
\* what the ledger shows has failed, unsaved unless an answer was lost (failedOps.ts).
LedgerIsHonest ==
    \A m \in DOMAIN moves :
        /\ Cardinality(Shown(m)) <= 1
        /\ moves[m].failed => Shown(m) # {} \/ moves[m].id \in excused \/ recorded > LedgerSize
        /\ Shown(m) # {} => moves[m].failed /\ (moves[m].saved => moves[m].lost)

\* Without the exception: the ledger shows "The server rejected this move."
RejectedIsUnsaved == \A m \in DOMAIN moves : Shown(m) # {} => ~moves[m].saved

\* A job is created again from one text only after an answer was lost, and no move leaves
\* the day (NewJobForm.tsx, DispatchSurface.tsx).
IntakeIsHonest ==
    /\ \A d \in Draft : created[d] <= wanted[d] + lostPosts[d]
    /\ \A m \in DOMAIN moves : moves[m].block + span[moves[m].job] <= Blocks

\* The desk says what became of what it sent.
DeskIsHonest == LedgerIsHonest /\ IntakeIsHonest

=============================================================================
