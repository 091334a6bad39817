----------------------------- MODULE JobIntake -----------------------------
(* POST /jobs from the form to the answer (routes/jobs.ts, lib/checklists.ts): the job and *)
(* its appointment are one transaction; the default checklist templates, the job's        *)
(* checklist, the event and the live frame follow one by one, and forms are posted        *)
(* concurrently, fail, die with the process, go unanswered and are posted again.          *)
EXTENDS Integers, FiniteSets, SequencesExt

CONSTANTS
    Form,                 \* what offices fill in
    Ladder,               \* DEFAULT_TEMPLATES: the job types in the order they are created
    StepsOf, LinesOf,     \* the items of a template; the quoted lines a form carries
    None,                 \* the type of the general template
    MaxPosts, MaxIntakeFaults     \* bounds: posts of a form; crashes, failed queries, lost answers

\* The default templates begin with the general one and have types of their own.
ASSUME JobIntakeAssumption ==
    /\ Ladder \in Seq(DOMAIN StepsOf) /\ IsInjective(Ladder)
    /\ Ladder # <<>> /\ Head(Ladder) = None
    /\ {MaxPosts, MaxIntakeFaults} \subseteq Nat

VARIABLES
    templates,            \* types of the organization's templates, in order of creation
    jobs, list,           \* posts whose job is stored; the checklists
    announced, framed,    \* posts whose job has an event, and a live frame
    stage, seed,          \* how far a post is; the template it creates next
    posts,                \* posts of each form
    cut, intakeFaults     \* history: posts that a fault stopped while creating; faults so far

storeVars == <<templates, jobs, list, announced, framed>>
vars == <<storeVars, stage, seed, posts, cut, intakeFaults>>

Post == Form \X (1..MaxPosts)
Waiting == {"saved", "seeding", "ensured", "listed", "recorded"}
Init ==
    /\ templates = <<>> /\ jobs = {} /\ list = [p \in Post |-> <<>>] /\ announced = {} /\ framed = {}
    /\ stage = [p \in Post |-> "idle"] /\ seed = [p \in Post |-> 1] /\ posts = [f \in Form |-> 0]
    /\ cut = {} /\ intakeFaults = 0

Fault == intakeFaults < MaxIntakeFaults /\ intakeFaults' = intakeFaults + 1
Goes(p, s) == stage' = [stage EXCEPT ![p] = s]

\* A form that was refused, or whose answer never came, may be posted again; nothing marks
\* the retry, and what it repeats may still be under way or done.
Submit(f) ==
    /\ posts[f] < MaxPosts
    /\ IF posts[f] = 0 \/ stage[<<f, posts[f]>>] \in {"failed", "dead"}
       THEN UNCHANGED intakeFaults ELSE Fault
    /\ posts' = [posts EXCEPT ![f] = @ + 1]
    /\ LET p == <<f, posts[f] + 1>>
       IN  jobs' = jobs \cup {p} /\ Goes(p, "saved")
    /\ UNCHANGED <<templates, list, announced, framed, seed, cut>>

\* ensureDefaultTemplates
Count(p) ==
    /\ stage[p] = "saved" /\ Goes(p, IF templates = <<>> THEN "seeding" ELSE "ensured")
    /\ UNCHANGED <<storeVars, seed, posts, cut, intakeFaults>>
\* Mutant of Rung: the general template is created last.
RungGeneralLast(n) == Append(Tail(Ladder), Head(Ladder))[n]
Rung(n) == Ladder[n]
\* The unique key lets a second general template in: its type is null.
Seed(p) ==
    /\ stage[p] = "seeding"
    /\ LET type == Rung(seed[p])
       IN  IF type # None /\ type \in ToSet(templates)
           THEN Goes(p, "failed") /\ UNCHANGED <<templates, seed>>
           ELSE /\ templates' = Append(templates, type) /\ seed' = [seed EXCEPT ![p] = @ + 1]
                /\ IF seed[p] = Len(Ladder) THEN Goes(p, "ensured") ELSE UNCHANGED stage
    /\ UNCHANGED <<jobs, list, announced, framed, posts, cut, intakeFaults>>

\* instantiateChecklist.  The schema of the endpoint drops the job's type.
TypeOf(f) == None
TemplateFor(type) ==
    IF type \in ToSet(templates) THEN StepsOf[type]
    ELSE IF None \in ToSet(templates) THEN StepsOf[None] ELSE <<>>
Instantiate(p) ==
    /\ stage[p] = "ensured" /\ Goes(p, "listed")
    /\ list' = [list EXCEPT ![p] = TemplateFor(TypeOf(p[1])) \o LinesOf[p[1]]]
    /\ UNCHANGED <<templates, jobs, announced, framed, seed, posts, cut, intakeFaults>>

\* An event that cannot be written is let go; it may be there though the insert failed.
RecordEvent(p) ==
    /\ stage[p] = "listed" /\ Goes(p, "recorded")
    /\ \/ announced' = announced \cup {p} /\ UNCHANGED intakeFaults
       \/ Fault /\ announced' \in {announced, announced \cup {p}}
    /\ UNCHANGED <<templates, jobs, list, framed, seed, posts, cut>>
\* The frame and the answer leave together.
Answer(p) ==
    /\ stage[p] = "recorded" /\ Goes(p, "answered") /\ framed' = framed \cup {p}
    /\ UNCHANGED <<templates, jobs, list, announced, seed, posts, cut, intakeFaults>>

\* Any other query that fails ends the request, and its job stays.  One that was carried out
\* all the same is one that was answered, and the next query the one that fails.
QueryFails(p) ==
    /\ Fault /\ stage[p] \in Waiting \ {"recorded"} /\ Goes(p, "failed")
    /\ cut' = IF stage[p] = "seeding" THEN cut \cup {p} ELSE cut
    /\ UNCHANGED <<storeVars, seed, posts>>
\* The process takes every request under way with it.
Crash ==
    /\ Fault /\ \E p \in Post : stage[p] \in Waiting
    /\ stage' = [p \in Post |-> IF stage[p] \in Waiting THEN "dead" ELSE stage[p]]
    /\ cut' = cut \cup {p \in Post : stage[p] = "seeding"}
    /\ UNCHANGED <<storeVars, seed, posts>>

Next ==
    \/ \E f \in Form : Submit(f)
    \/ \E p \in Post : \/ Count(p) \/ Seed(p) \/ Instantiate(p) \/ RecordEvent(p) \/ Answer(p)
                     \/ QueryFails(p)
    \/ Crash

Spec == Init /\ [][Next]_vars

-----------------------------------------------------------------------------
Answered == {p \in Post : stage[p] = "answered"}

\* A job that was answered has its checklist, general steps first and the quoted lines once,
\* though another first job may be half way through the templates.
AnsweredIsListed == \A p \in Answered : list[p] = StepsOf[None] \o LinesOf[p[1]]

\* First jobs that create the templates together fail on each other's, but the one that is
\* ahead never does: when nobody is at it and no fault cut one short, the ladder is whole.
LadderIsWhole ==
    cut = {} /\ templates # <<>> /\ (\A p \in Post : stage[p] # "seeding") =>
        ToSet(templates) = ToSet(Ladder)

\* Just the jobs that were answered are on the live boards, all but as many as there were
\* faults with an event, and whatever has an event has its checklist, answered or not.
AnnouncedInOrder ==
    /\ framed = Answered
    /\ Cardinality(Answered \ announced) <= intakeFaults
    /\ \A p \in announced : list[p] = StepsOf[None] \o LinesOf[p[1]]

IntakeIsHonest == AnsweredIsListed /\ LadderIsWhole /\ AnnouncedInOrder

\* What the code does not give.  The seeding is idempotent (checklists.ts); a form leaves
\* one job; a post that failed saved nothing; the templates survive a crash.
SeededOnce == \A i, k \in 1..Len(templates) : templates[i] = templates[k] => i = k
OneJobPerForm == \A p, q \in jobs : p[1] = q[1] => p = q
FailedIsUnsaved == \A p \in Post : stage[p] = "failed" => p \notin jobs
LadderSurvives == templates # <<>> /\ (\A p \in Post : stage[p] # "seeding") => ToSet(templates) = ToSet(Ladder)
=============================================================================
