--------------------------- MODULE ConsoleProofs ---------------------------
(***************************************************************************)
(* Theorems about the parts of the console: JobIntake for every number of  *)
(* forms, posts and faults and every ladder of default templates; Setup,   *)
(* Shell, JobPane and SlackPane for every number of tabs, steps, jobs,     *)
(* loads, workspaces, acts and faults.  Each part rests on one inductive   *)
(* invariant: IInv, SetupInv, ShellInv, PaneInv and SurfaceInv.            *)
(***************************************************************************)
EXTENDS JobIntake, Setup, Shell, JobPane, SlackPane, FiniteSetTheorems, TLAPS

-----------------------------------------------------------------------------
(* The inductive invariant *)

Stages == {"idle"} \cup Waiting \cup {"answered", "failed", "dead"}

TypeOK ==
    /\ templates \in Seq(DOMAIN StepsOf)
    /\ jobs \subseteq Post /\ announced \subseteq Post /\ framed \subseteq Post
    /\ DOMAIN list = Post
    /\ stage \in [Post -> Stages]
    /\ seed \in [Post -> Nat \ {0}]
    /\ posts \in [Form -> Nat]
    /\ cut \subseteq Post /\ intakeFaults \in Nat

\* A job is stored by the first step of its post, and posts of a form follow each other.
PostsFollow ==
    /\ jobs = {p \in Post : stage[p] # "idle"}
    /\ \A p \in Post : stage[p] # "idle" => p[2] <= posts[p[1]]

\* The rungs that a seeder has behind it, and the types that are there.
Behind(p) == {Ladder[i] : i \in {k \in DOMAIN Ladder : k < seed[p]}}
Seeding == {p \in Post : stage[p] = "seeding"}

\* A request starts at the first rung, and has climbed no higher than the ladder.
SeedersClimb ==
    /\ \A p \in Post : stage[p] \in {"idle", "saved"} => seed[p] = 1
    /\ \A p \in Seeding : seed[p] \in DOMAIN Ladder /\ Behind(p) \subseteq ToSet(templates)

\* The general template comes first, and is there for whoever is done with the templates.
GeneralFirst ==
    /\ templates # <<>> => templates[1] = None
    /\ \A p \in Post : stage[p] \in {"ensured", "listed", "recorded", "answered"}
       => templates # <<>>

\* Only the ladder's types are there; unless a fault cut somebody short, either all of them
\* or just those behind one seeder, who is ahead of the others.
Whole == ToSet(templates) = ToSet(Ladder)
SomebodyLeads ==
    /\ ToSet(templates) \subseteq ToSet(Ladder)
    /\ cut = {} /\ templates # <<>> =>
          Whole \/ \E p \in Seeding : ToSet(templates) = Behind(p)

Listed == {p \in Post : stage[p] \in {"listed", "recorded", "answered"}}
ListedInFull ==
    \A p \in Listed \cup announced : list[p] = StepsOf[None] \o LinesOf[p[1]]

\* Only a job whose insert is behind it has an event, and lacks it only for one that failed.
Recorded == {p \in Post : stage[p] \in {"recorded", "answered"}}
Silent == Recorded \ announced
SilencePaidFor ==
    /\ framed = Answered
    /\ \A p \in announced : stage[p] \in {"recorded", "answered", "dead"}
    /\ IsFiniteSet(Silent)
    /\ Cardinality(Silent) <= intakeFaults

IInv ==
    /\ TypeOK
    /\ PostsFollow
    /\ SeedersClimb
    /\ GeneralFirst
    /\ SomebodyLeads
    /\ ListedInFull
    /\ SilencePaidFor

-----------------------------------------------------------------------------
(* The invariant is inductive *)

LEMMA InitEstablishesIInv == Init => IInv
<1> SUFFICES ASSUME Init PROVE IInv
  OBVIOUS
<1>1. TypeOK
  BY JobIntakeAssumption DEF Init, TypeOK, Stages
<1>2. Answered = {} /\ Seeding = {} /\ Silent = {} /\ Listed = {}
  BY DEF Init, Answered, Seeding, Silent, Recorded, Listed
<1>3. ToSet(templates) = {}
  BY DEF Init, ToSet
<1>4. IsFiniteSet({}) /\ Cardinality({}) = 0
  BY FS_EmptySet
<1>5. PostsFollow
  BY DEF Init, PostsFollow
<1>6. SeedersClimb
  BY <1>2 DEF Init, SeedersClimb
<1>7. GeneralFirst /\ ListedInFull
  BY <1>2 DEF Init, GeneralFirst, ListedInFull
<1>8. SomebodyLeads
  BY <1>3 DEF Init, SomebodyLeads
<1>9. SilencePaidFor
  BY <1>2, <1>4 DEF Init, SilencePaidFor
<1> QED
  BY <1>1, <1>5, <1>6, <1>7, <1>8, <1>9 DEF IInv

LEMMA StepKeepsTypes == IInv /\ [Next]_vars => TypeOK'
<1> SUFFICES ASSUME IInv, [Next]_vars PROVE TypeOK'
  OBVIOUS
<1> USE DEF IInv, TypeOK, Stages, Waiting
<1>1. ASSUME NEW f \in Form, Submit(f) PROVE TypeOK'
  <2>1. <<f, posts[f] + 1>> \in Post
    BY <1>1, JobIntakeAssumption DEF Submit, Post
  <2>2. jobs' \subseteq Post /\ stage' \in [Post -> Stages]
    BY <1>1, <2>1 DEF Submit, Goes
  <2>3. posts' \in [Form -> Nat]
    BY <1>1 DEF Submit
  <2>4. intakeFaults' \in Nat
    BY <1>1 DEF Submit, Fault
  <2> QED
    BY <1>1, <2>2, <2>3, <2>4 DEF Submit
<1>2. ASSUME NEW p \in Post, Count(p) PROVE TypeOK'
  BY <1>2 DEF Count, Goes, storeVars
<1>3. ASSUME NEW p \in Post, Seed(p) PROVE TypeOK'
  <2>1. seed[p] \in DOMAIN Ladder
    BY <1>3 DEF Seed, Seeding, SeedersClimb
  <2>2. Rung(seed[p]) \in DOMAIN StepsOf
    BY <2>1, JobIntakeAssumption DEF Rung
  <2>3. templates' \in Seq(DOMAIN StepsOf)
    <3>1. templates' = templates \/ templates' = Append(templates, Rung(seed[p]))
      BY <1>3 DEF Seed
    <3>2. Append(templates, Rung(seed[p])) \in Seq(DOMAIN StepsOf)
      <4> DEFINE T == DOMAIN StepsOf  t == Rung(seed[p])
      <4>1. templates \in Seq(T) /\ t \in T
        BY <2>2
      <4> HIDE DEF T, t
      <4>2. Append(templates, t) \in Seq(T)
        BY <4>1
      <4> QED
        BY <4>2 DEF T, t
    <3> QED
      BY <3>1, <3>2
  <2>4. seed' \in [Post -> Nat \ {0}]
    BY <1>3 DEF Seed
  <2>5. stage' \in [Post -> Stages]
    BY <1>3 DEF Seed, Goes
  <2> QED
    BY <1>3, <2>3, <2>5, <2>4 DEF Seed
<1>4. ASSUME NEW p \in Post, Instantiate(p) PROVE TypeOK'
  BY <1>4 DEF Instantiate, Goes
<1>5. ASSUME NEW p \in Post, RecordEvent(p) \/ Answer(p) \/ QueryFails(p) PROVE TypeOK'
  <2>1. /\ announced' \subseteq Post /\ framed' \subseteq Post /\ cut' \subseteq Post
        /\ intakeFaults' \in Nat
    BY <1>5 DEF RecordEvent, Answer, QueryFails, Fault, storeVars
  <2>2. stage' \in [Post -> Stages]
    BY <1>5 DEF RecordEvent, Answer, QueryFails, Goes
  <2> QED
    BY <1>5, <2>1, <2>2 DEF RecordEvent, Answer, QueryFails, storeVars
<1>6. ASSUME Crash PROVE TypeOK'
  BY <1>6 DEF Crash, Fault, storeVars
<1>7. ASSUME UNCHANGED vars PROVE TypeOK'
  BY <1>7 DEF vars, storeVars
<1> QED
  BY <1>1, <1>2, <1>3, <1>4, <1>5, <1>6, <1>7 DEF Next

LEMMA StepKeepsPosts == IInv /\ [Next]_vars => PostsFollow'
<1> SUFFICES ASSUME IInv, [Next]_vars PROVE PostsFollow'
  OBVIOUS
<1> USE DEF IInv, TypeOK, PostsFollow
<1>1. ASSUME NEW f \in Form, Submit(f) PROVE PostsFollow'
  <2> DEFINE p == <<f, posts[f] + 1>>
  <2>1. p \in Post
    BY <1>1, JobIntakeAssumption DEF Submit, Post
  <2>2. jobs' = jobs \cup {p} /\ stage' = [stage EXCEPT ![p] = "saved"]
    BY <1>1 DEF Submit, Goes
  <2>3. jobs' = {q \in Post : stage'[q] # "idle"}
    BY <2>1, <2>2
  <2>4. ASSUME NEW q \in Post, stage'[q] # "idle" PROVE q[2] <= posts'[q[1]]
    <3>1. q[1] \in Form /\ q[2] \in Nat
      BY JobIntakeAssumption DEF Post
    <3>2. CASE q = p
      BY <1>1, <3>1, <3>2 DEF Submit
    <3>3. CASE q # p
      BY <1>1, <2>2, <2>4, <3>1, <3>3 DEF Submit
    <3> QED
      BY <3>2, <3>3
  <2> QED
    BY <2>3, <2>4
<1>2. ASSUME NEW p \in Post, Count(p) \/ Seed(p) \/ Instantiate(p) \/ RecordEvent(p) \/ Answer(p)
                             \/ QueryFails(p)
      PROVE  PostsFollow'
  <2>1. UNCHANGED <<jobs, posts>>
    BY <1>2 DEF Count, Seed, Instantiate, RecordEvent, Answer, QueryFails, storeVars
  <2>2. /\ stage[p] # "idle"
        /\ \/ UNCHANGED stage
           \/ \E s \in Stages \ {"idle"} : stage' = [stage EXCEPT ![p] = s]
    BY <1>2 DEF Count, Seed, Instantiate, RecordEvent, Answer, QueryFails, Goes, Stages, Waiting
  <2>3. \A q \in Post : stage'[q] # "idle" <=> stage[q] # "idle"
    BY <2>2
  <2> QED
    BY <2>1, <2>3
<1>3. ASSUME Crash PROVE PostsFollow'
  <2>1. \A q \in Post : stage'[q] # "idle" <=> stage[q] # "idle"
    BY <1>3 DEF Crash, Waiting
  <2> QED
    BY <1>3, <2>1 DEF Crash, storeVars
<1>4. ASSUME UNCHANGED vars PROVE PostsFollow'
  BY <1>4 DEF vars, storeVars
<1> QED
  BY <1>1, <1>2, <1>3, <1>4 DEF Next

\* What a seeder leaves behind when it creates a template.
LEMMA SeedAppends ==
  ASSUME IInv, NEW p \in Post, Seed(p), templates' # templates
  PROVE  /\ templates' = Append(templates, Ladder[seed[p]])
         /\ seed' = [seed EXCEPT ![p] = @ + 1]
         /\ ToSet(templates') = ToSet(templates) \cup {Ladder[seed[p]]}
         /\ stage' = [stage EXCEPT ![p] = IF seed[p] = Len(Ladder) THEN "ensured" ELSE "seeding"]
<1>1. /\ templates' = Append(templates, Ladder[seed[p]])
      /\ seed' = [seed EXCEPT ![p] = @ + 1]
  BY DEF Seed, Rung
<1>2. ToSet(templates') = ToSet(templates) \cup {Ladder[seed[p]]}
  <2> DEFINE n == Len(templates)
  <2>1. /\ n \in Nat /\ DOMAIN templates = 1 .. n /\ DOMAIN templates' = 1 .. (n + 1)
        /\ templates'[n + 1] = Ladder[seed[p]]
        /\ \A i \in 1 .. n : templates'[i] = templates[i]
    BY <1>1 DEF IInv, TypeOK
  <2>2. 1 .. (n + 1) = (1 .. n) \cup {n + 1}
    BY <2>1
  <2> HIDE DEF n
  <2> QED
    BY <2>1, <2>2 DEF ToSet
<1>3. stage' = [stage EXCEPT ![p] = IF seed[p] = Len(Ladder) THEN "ensured" ELSE "seeding"]
  BY DEF Seed, Rung, Goes, IInv, TypeOK
<1> QED
  BY <1>1, <1>2, <1>3

\* A seeder that cannot create its template finds a type of the ladder there already.
LEMMA SeedFails ==
  ASSUME IInv, NEW p \in Post, Seed(p), templates' = templates
  PROVE  /\ UNCHANGED seed
         /\ stage' = [stage EXCEPT ![p] = "failed"]
         /\ Ladder[seed[p]] \in ToSet(templates)
<1>1. templates # Append(templates, Ladder[seed[p]])
  BY DEF IInv, TypeOK
<1> QED
  BY <1>1 DEF Seed, Rung, Goes

\* Nobody is seeding the first template of all but from the first rung.
LEMMA FirstSeederIsAtTheFoot ==
  ASSUME IInv, templates = <<>>, NEW p \in Seeding
  PROVE  seed[p] = 1
<1>1. ToSet(templates) = {}
  BY DEF ToSet
<1>2. seed[p] \in DOMAIN Ladder /\ Behind(p) = {}
  BY <1>1 DEF IInv, SeedersClimb
<1>3. 1 \in DOMAIN Ladder /\ DOMAIN Ladder = 1 .. Len(Ladder)
  BY JobIntakeAssumption
<1>4. ~ (1 < seed[p])
  BY <1>2, <1>3 DEF Behind
<1> QED
  BY <1>2, <1>3, <1>4

\* Steps that neither start nor end a seeder, nor touch what seeders work with.
Apart ==
    /\ UNCHANGED <<templates, seed>>
    /\ \A p \in Post : stage'[p] = "seeding" <=> stage[p] = "seeding"
    /\ \A p \in Post : stage'[p] \in {"idle", "saved"} => stage[p] \in {"idle", "saved"}

LEMMA MostStandApart ==
  ASSUME IInv
  PROVE  /\ \A f \in Form : Submit(f) => Apart
         /\ \A p \in Post : Instantiate(p) \/ RecordEvent(p) \/ Answer(p) => Apart
         /\ UNCHANGED vars => Apart
<1> USE DEF IInv, TypeOK, Apart
<1>1. ASSUME NEW f \in Form, Submit(f) PROVE Apart
  <2> DEFINE p == <<f, posts[f] + 1>>
  <2>1. stage[p] = "idle" /\ p \in Post
    BY <1>1, JobIntakeAssumption DEF Submit, Post, PostsFollow
  <2> QED
    BY <1>1, <2>1 DEF Submit, Goes
<1>2. ASSUME NEW p \in Post, Instantiate(p) \/ RecordEvent(p) \/ Answer(p) PROVE Apart
  BY <1>2 DEF Instantiate, RecordEvent, Answer, Goes
<1>3. ASSUME UNCHANGED vars PROVE Apart
  BY <1>3 DEF vars, storeVars
<1> QED
  BY <1>1, <1>2, <1>3

LEMMA StepKeepsSeeders == IInv /\ [Next]_vars => SeedersClimb'
<1> SUFFICES ASSUME IInv, [Next]_vars PROVE SeedersClimb'
  OBVIOUS
<1> USE DEF IInv, TypeOK, SeedersClimb
<1>1. ASSUME Apart PROVE SeedersClimb'
  BY <1>1 DEF Apart, Seeding, Behind
<1>2. ASSUME NEW p \in Post, Count(p) PROVE SeedersClimb'
  <2>1. UNCHANGED <<templates, seed>> /\ seed[p] = 1
    BY <1>2 DEF Count, storeVars
  <2>2. seed[p] \in DOMAIN Ladder /\ Behind(p) = {}
    BY <2>1, JobIntakeAssumption DEF Behind
  <2>3. \A q \in Seeding' : q = p \/ q \in Seeding
    BY <1>2 DEF Count, Goes, Seeding
  <2>4. \A q \in Post : stage'[q] \in {"idle", "saved"} => stage[q] \in {"idle", "saved"}
    BY <1>2 DEF Count, Goes
  <2> QED
    BY <2>1, <2>2, <2>3, <2>4 DEF Behind
<1>3. ASSUME NEW p \in Post, Seed(p), templates' = templates PROVE SeedersClimb'
  BY <1>3, SeedFails DEF Seeding, Behind
<1>4. ASSUME NEW p \in Post, Seed(p), templates' # templates PROVE SeedersClimb'
  <2>1. /\ seed' = [seed EXCEPT ![p] = @ + 1]
        /\ ToSet(templates') = ToSet(templates) \cup {Ladder[seed[p]]}
        /\ stage' = [stage EXCEPT ![p] = IF seed[p] = Len(Ladder) THEN "ensured" ELSE "seeding"]
    BY <1>4, SeedAppends
  <2>2. p \in Seeding
    BY <1>4 DEF Seed, Seeding
  <2>3. ASSUME NEW q \in Post, stage'[q] \in {"idle", "saved"} PROVE seed'[q] = 1
    BY <2>1, <2>3
  <2>4. ASSUME NEW q \in Seeding', q # p
        PROVE  seed'[q] \in DOMAIN Ladder /\ Behind(q)' \subseteq ToSet(templates')
    BY <2>1, <2>4 DEF Seeding, Behind
  <2>5. ASSUME p \in Seeding'
        PROVE  seed'[p] \in DOMAIN Ladder /\ Behind(p)' \subseteq ToSet(templates')
    <3>1. /\ Ladder \in Seq(DOMAIN StepsOf) /\ seed[p] \in DOMAIN Ladder
          /\ seed[p] # Len(Ladder) /\ seed'[p] = seed[p] + 1
      BY <2>1, <2>2, <2>5, JobIntakeAssumption DEF Seeding
    <3>2. seed'[p] \in DOMAIN Ladder
      BY <3>1
    <3>3. Behind(p)' = Behind(p) \cup {Ladder[seed[p]]}
      BY <3>1 DEF Behind
    <3> QED
      BY <2>1, <2>2, <3>2, <3>3
  <2> QED
    BY <2>3, <2>4, <2>5 DEF Seeding
<1>5. ASSUME Crash PROVE SeedersClimb'
  BY <1>5 DEF Crash, Waiting, storeVars, Seeding, Behind
<1>6. ASSUME NEW p \in Post, QueryFails(p) PROVE SeedersClimb'
  BY <1>6 DEF QueryFails, Goes, storeVars, Seeding, Behind
<1> QED
  BY <1>1, <1>2, <1>3, <1>4, <1>5, <1>6, MostStandApart DEF Next

LEMMA StepKeepsGeneralFirst == IInv /\ [Next]_vars => GeneralFirst'
<1> SUFFICES ASSUME IInv, [Next]_vars PROVE GeneralFirst'
  OBVIOUS
<1> USE DEF IInv, TypeOK, GeneralFirst
<1>1. ASSUME NEW f \in Form, Submit(f) PROVE GeneralFirst'
  BY <1>1 DEF Submit, Goes
<1>2. ASSUME NEW p \in Post,
             Count(p) \/ Instantiate(p) \/ RecordEvent(p) \/ Answer(p) \/ QueryFails(p)
      PROVE  GeneralFirst'
  BY <1>2 DEF Count, Instantiate, RecordEvent, Answer, QueryFails, Goes, storeVars
<1>3. ASSUME NEW p \in Post, Seed(p), templates' = templates PROVE GeneralFirst'
  BY <1>3, SeedFails
<1>4. ASSUME NEW p \in Post, Seed(p), templates' # templates PROVE GeneralFirst'
  <2>1. templates' = Append(templates, Ladder[seed[p]])
    BY <1>4, SeedAppends
  <2>2. p \in Seeding /\ seed[p] \in DOMAIN Ladder
    BY <1>4 DEF Seed, Seeding, SeedersClimb
  <2>3. templates' # <<>>
    BY <2>1
  <2>4. templates'[1] = None
    <3>1. CASE templates = <<>>
      <4>1. seed[p] = 1
        BY <2>2, <3>1, FirstSeederIsAtTheFoot
      <4>2. Ladder[1] = None
        BY JobIntakeAssumption
      <4> QED
        BY <2>1, <3>1, <4>1, <4>2
    <3>2. CASE templates # <<>>
      <4>1. 1 \in 1 .. Len(templates)
        BY <3>2
      <4> QED
        BY <2>1, <3>2, <4>1
    <3> QED
      BY <3>1, <3>2
  <2> QED
    BY <2>3, <2>4
<1>5. ASSUME Crash PROVE GeneralFirst'
  BY <1>5 DEF Crash, Waiting, storeVars
<1>6. ASSUME UNCHANGED vars PROVE GeneralFirst'
  BY <1>6 DEF vars, storeVars
<1> QED
  BY <1>1, <1>2, <1>3, <1>4, <1>5, <1>6 DEF Next

LEMMA StepKeepsLead == IInv /\ [Next]_vars => SomebodyLeads'
<1> SUFFICES ASSUME IInv, [Next]_vars PROVE SomebodyLeads'
  OBVIOUS
<1> USE DEF IInv, TypeOK, SomebodyLeads
<1>1. /\ Ladder \in Seq(DOMAIN StepsOf) /\ Len(Ladder) \in Nat \ {0}
      /\ DOMAIN Ladder = 1 .. Len(Ladder)
      /\ ToSet(Ladder) = {Ladder[i] : i \in DOMAIN Ladder}
      /\ \A i, k \in DOMAIN Ladder : Ladder[i] = Ladder[k] => i = k
  BY JobIntakeAssumption DEF ToSet, IsInjective
<1>2. ASSUME Apart, UNCHANGED cut PROVE SomebodyLeads'
  BY <1>2 DEF Apart, Seeding, Behind, Whole
<1>3. ASSUME NEW p \in Post, Count(p) PROVE SomebodyLeads'
  <2>1. UNCHANGED <<templates, seed, cut>> /\ Seeding \subseteq Seeding'
    BY <1>3 DEF Count, Goes, storeVars, Seeding
  <2> QED
    BY <2>1 DEF Behind, Whole
<1>4. ASSUME NEW p \in Post, Seed(p), templates' = templates PROVE SomebodyLeads'
  <2>1. /\ UNCHANGED <<seed, templates, cut>>
        /\ stage' = [stage EXCEPT ![p] = "failed"]
        /\ Ladder[seed[p]] \in ToSet(templates)
    BY <1>4, SeedFails DEF Seed
  <2>2. p \in Seeding /\ seed[p] \in DOMAIN Ladder
    BY <1>4 DEF Seed, Seeding, SeedersClimb
  <2>3. ToSet(templates) # Behind(p)
    BY <1>1, <2>1, <2>2 DEF Behind
  <2>4. \A q \in Seeding : q # p => q \in Seeding'
    BY <2>1 DEF Seeding
  <2> QED
    BY <2>1, <2>3, <2>4 DEF Behind, Whole
<1>5. ASSUME NEW p \in Post, Seed(p), templates' # templates PROVE SomebodyLeads'
  <2>1. /\ seed' = [seed EXCEPT ![p] = @ + 1]
        /\ ToSet(templates') = ToSet(templates) \cup {Ladder[seed[p]]}
        /\ stage' = [stage EXCEPT ![p] = IF seed[p] = Len(Ladder) THEN "ensured" ELSE "seeding"]
        /\ UNCHANGED cut
    BY <1>5, SeedAppends DEF Seed
  <2>2. p \in Seeding /\ seed[p] \in DOMAIN Ladder /\ Behind(p) \subseteq ToSet(templates)
    BY <1>5 DEF Seed, Seeding, SeedersClimb
  <2>3. ToSet(templates') \subseteq ToSet(Ladder)
    BY <1>1, <2>1, <2>2
  <2>4. ASSUME ToSet(templates) = Behind(p)
        PROVE  Whole' \/ \E q \in Seeding' : ToSet(templates') = Behind(q)'
    <3>1. ToSet(templates') = {Ladder[i] : i \in {k \in DOMAIN Ladder : k < seed[p] + 1}}
      BY <1>1, <2>1, <2>2, <2>4 DEF Behind
    <3>2. CASE seed[p] = Len(Ladder)
      BY <1>1, <3>1, <3>2 DEF Whole
    <3>3. CASE seed[p] # Len(Ladder)
      <4>1. p \in Seeding' /\ seed'[p] = seed[p] + 1
        BY <2>1, <2>2, <3>3 DEF Seeding
      <4>2. ToSet(templates') = Behind(p)'
        BY <3>1, <4>1 DEF Behind
      <4> QED
        BY <4>1, <4>2
    <3> QED
      BY <3>2, <3>3
  <2>5. ASSUME cut' = {}
        PROVE  Whole' \/ \E q \in Seeding' : ToSet(templates') = Behind(q)'
    <3>1. CASE templates = <<>>
      <4>1. ToSet(templates) = {} /\ Behind(p) = {}
        BY <2>2, <3>1 DEF ToSet
      <4> QED
        BY <2>4, <4>1
    <3>2. CASE Whole
      BY <2>1, <2>3, <3>2 DEF Whole
    <3>3. ASSUME NEW q \in Seeding, ToSet(templates) = Behind(q), q # p
          PROVE  Whole' \/ \E z \in Seeding' : ToSet(templates') = Behind(z)'
      <4>1. q \in Seeding' /\ Behind(q)' = Behind(q)
        BY <2>1, <3>3 DEF Seeding, Behind
      <4>2. CASE Ladder[seed[p]] \in ToSet(templates)
        BY <2>1, <3>3, <4>1, <4>2
      <4>3. CASE Ladder[seed[p]] \notin ToSet(templates)
        <5>1. seed[p] \in Nat /\ seed[q] \in DOMAIN Ladder /\ seed[q] \in Nat
          BY <1>1, <2>2, <3>3 DEF SeedersClimb
        <5>2. ~ (seed[p] < seed[q])
          BY <2>2, <3>3, <4>3, <5>1 DEF Behind
        <5>3. ~ (seed[q] < seed[p])
          <6>1. Ladder[seed[q]] \notin Behind(q)
            BY <1>1, <5>1 DEF Behind
          <6>2. seed[q] < seed[p] => Ladder[seed[q]] \in Behind(p)
            BY <5>1 DEF Behind
          <6> QED
            BY <2>2, <3>3, <6>1, <6>2
        <5>4. Behind(p) = Behind(q)
          BY <5>1, <5>2, <5>3 DEF Behind
        <5> QED
          BY <2>4, <3>3, <5>4
      <4> QED
        BY <4>2, <4>3
    <3> QED
      BY <2>1, <2>4, <2>5, <3>1, <3>2, <3>3
  <2> QED
    BY <2>3, <2>5
<1>6. ASSUME Crash \/ \E p \in Post : QueryFails(p) PROVE SomebodyLeads'
  <2>1. UNCHANGED <<templates, seed>>
    BY <1>6 DEF Crash, QueryFails, storeVars
  <2>2. cut' = {} => cut = {} /\ (\A q \in Seeding : q \in Seeding')
    BY <1>6 DEF Crash, QueryFails, Goes, Waiting, Seeding
  <2> QED
    BY <2>1, <2>2 DEF Behind, Whole
<1>7. UNCHANGED vars => UNCHANGED cut
  BY DEF vars
<1>8. \A f \in Form : Submit(f) => UNCHANGED cut
  BY DEF Submit
<1>9. \A p \in Post : Instantiate(p) \/ RecordEvent(p) \/ Answer(p) => UNCHANGED cut
  BY DEF Instantiate, RecordEvent, Answer
<1> QED
  BY <1>2, <1>3, <1>4, <1>5, <1>6, <1>7, <1>8, <1>9, MostStandApart DEF Next

LEMMA StepKeepsLists == IInv /\ [Next]_vars => ListedInFull'
<1> SUFFICES ASSUME IInv, [Next]_vars PROVE ListedInFull'
  OBVIOUS
<1> USE DEF IInv, TypeOK, ListedInFull, Listed
<1>1. ASSUME NEW p \in Post, Instantiate(p) PROVE ListedInFull'
  <2>1. templates # <<>> /\ templates[1] = None
    BY <1>1 DEF Instantiate, GeneralFirst
  <2>2. None \in ToSet(templates)
    BY <2>1 DEF ToSet
  <2>3. TemplateFor(TypeOf(p[1])) = StepsOf[None]
    BY <2>2 DEF TemplateFor, TypeOf
  <2> QED
    BY <1>1, <2>3 DEF Instantiate, Goes
<1>2. ASSUME UNCHANGED list, announced' \cup Listed' \subseteq announced \cup Listed
      PROVE  ListedInFull'
  BY <1>2
<1>3. ASSUME NEW f \in Form, Submit(f) PROVE ListedInFull'
  BY <1>2, <1>3 DEF Submit, Goes
<1>4. ASSUME NEW p \in Post, Count(p) \/ Seed(p) \/ RecordEvent(p) \/ Answer(p) \/ QueryFails(p)
      PROVE  ListedInFull'
  <2>1. list' = list /\ announced' \subseteq announced \cup Listed
    BY <1>4 DEF Count, Seed, RecordEvent, Answer, QueryFails, storeVars
  <2>2. Listed' \subseteq Listed
    BY <1>4 DEF Count, Seed, RecordEvent, Answer, QueryFails, Goes
  <2> QED
    BY <1>2, <2>1, <2>2
<1>5. ASSUME Crash PROVE ListedInFull'
  BY <1>2, <1>5 DEF Crash, Waiting, storeVars
<1>6. ASSUME UNCHANGED vars PROVE ListedInFull'
  BY <1>2, <1>6 DEF vars, storeVars
<1> QED
  BY <1>1, <1>3, <1>4, <1>5, <1>6 DEF Next

LEMMA StepKeepsSilencePaidFor == IInv /\ [Next]_vars => SilencePaidFor'
<1> SUFFICES ASSUME IInv, [Next]_vars PROVE SilencePaidFor'
  OBVIOUS
<1> USE DEF IInv, TypeOK, SilencePaidFor
<1>1. IsFiniteSet(Silent) /\ Cardinality(Silent) \in Nat
  BY FS_CardinalityType
<1>2. ASSUME Silent' \subseteq Silent, intakeFaults' \in {intakeFaults, intakeFaults + 1}
      PROVE  IsFiniteSet(Silent') /\ Cardinality(Silent') <= intakeFaults'
  <2>1. IsFiniteSet(Silent') /\ Cardinality(Silent') <= Cardinality(Silent)
    BY <1>1, <1>2, FS_Subset
  <2>2. Cardinality(Silent') \in Nat
    BY <2>1, FS_CardinalityType
  <2> QED
    BY <1>1, <1>2, <2>1, <2>2
<1>3. ASSUME NEW f \in Form, Submit(f) PROVE SilencePaidFor'
  <2> DEFINE p == <<f, posts[f] + 1>>
  <2>1. stage[p] = "idle" /\ p \in Post
    BY <1>3, JobIntakeAssumption DEF Submit, Post, PostsFollow
  <2>2. stage[p] = "idle" /\ p \in Post /\ p \notin announced
    BY <2>1
  <2>3. Answered' = Answered /\ Recorded' = Recorded /\ Silent' = Silent
    <3>1. stage' = [stage EXCEPT ![p] = "saved"] /\ announced' = announced
      BY <1>3 DEF Submit, Goes
    <3>2. Answered' = Answered /\ Recorded' = Recorded
      BY <2>2, <3>1 DEF Answered, Recorded
    <3> QED
      BY <3>1, <3>2 DEF Silent
  <2>4. intakeFaults' \in {intakeFaults, intakeFaults + 1}
    BY <1>3 DEF Submit, Fault
  <2> QED
    BY <1>2, <1>3, <2>2, <2>3, <2>4 DEF Submit, Goes
<1>4. ASSUME NEW p \in Post, Count(p) \/ Seed(p) \/ Instantiate(p) \/ QueryFails(p)
      PROVE  SilencePaidFor'
  <2>1. stage[p] \notin {"recorded", "answered", "dead"}
    BY <1>4 DEF Count, Seed, Instantiate, QueryFails, Waiting
  <2>2. \/ stage' = stage
        \/ \E s \in {"seeding", "ensured", "listed", "failed"} : stage' = [stage EXCEPT ![p] = s]
    <3>1. CASE Count(p)
      BY <3>1 DEF Count, Goes
    <3>2. CASE Seed(p)
      BY <3>2 DEF Seed, Goes
    <3>3. CASE Instantiate(p)
      BY <3>3 DEF Instantiate, Goes
    <3>4. CASE QueryFails(p)
      BY <3>4 DEF QueryFails, Goes
    <3> QED
      BY <1>4, <3>1, <3>2, <3>3, <3>4
  <2>3. \A q \in Post : stage'[q] \in {"recorded", "answered", "dead"}
                           \/ stage[q] \in {"recorded", "answered", "dead"} => stage'[q] = stage[q]
    BY <2>1, <2>2
  <2>4. Answered' = Answered /\ Recorded' = Recorded
    BY <2>3 DEF Answered, Recorded
  <2>5. UNCHANGED <<framed, announced>> /\ intakeFaults' \in {intakeFaults, intakeFaults + 1}
    BY <1>4 DEF Count, Seed, Instantiate, QueryFails, Fault, storeVars
  <2>6. \A q \in announced : stage'[q] \in {"recorded", "answered", "dead"}
    BY <2>3
  <2>7. Silent' = Silent
    BY <2>4, <2>5 DEF Silent
  <2> QED
    BY <1>2, <2>4, <2>5, <2>6, <2>7
<1>5. ASSUME NEW p \in Post, RecordEvent(p) PROVE SilencePaidFor'
  <2>1. /\ Answered' = Answered /\ framed' = framed
        /\ Recorded' = Recorded \cup {p} /\ p \notin Silent
    BY <1>5 DEF RecordEvent, Goes, Answered, Recorded, Silent
  <2>2. \A q \in announced' : stage'[q] \in {"recorded", "answered", "dead"}
    BY <1>5 DEF RecordEvent, Goes
  <2>3. CASE announced' = announced \cup {p}
    <3>1. Silent' \subseteq Silent
      BY <2>1, <2>3 DEF Silent
    <3>2. intakeFaults' \in {intakeFaults, intakeFaults + 1}
      BY <1>5 DEF RecordEvent, Fault
    <3> QED
      BY <1>2, <2>1, <2>2, <3>1, <3>2
  <2>4. CASE announced' # announced \cup {p}
    <3>1. announced' = announced /\ intakeFaults' = intakeFaults + 1
      BY <1>5, <2>4 DEF RecordEvent, Fault
    <3>2. Silent' = Silent \cup {p} \/ Silent' = Silent
      BY <2>1, <3>1 DEF Silent
    <3>3. IsFiniteSet(Silent \cup {p}) /\ Cardinality(Silent \cup {p}) = Cardinality(Silent) + 1
      <4> DEFINE silent == Silent
      <4>1. IsFiniteSet(silent) /\ p \notin silent
        BY <1>1, <2>1
      <4> HIDE DEF silent
      <4>2. IsFiniteSet(silent \cup {p}) /\ Cardinality(silent \cup {p}) = Cardinality(silent) + 1
        BY <4>1, FS_AddElement
      <4> QED
        BY <4>2 DEF silent
    <3>4. IsFiniteSet(Silent') /\ Cardinality(Silent') <= intakeFaults'
      <4>1. Cardinality(Silent) <= intakeFaults /\ intakeFaults \in Nat
        OBVIOUS
      <4>2. CASE Silent' = Silent \cup {p}
        BY <1>1, <3>1, <3>3, <4>1, <4>2
      <4>3. CASE Silent' = Silent
        BY <1>1, <3>1, <4>1, <4>3
      <4> QED
        BY <3>2, <4>2, <4>3
    <3> QED
      BY <2>1, <2>2, <3>4
  <2> QED
    BY <2>3, <2>4
<1>6. ASSUME NEW p \in Post, Answer(p) PROVE SilencePaidFor'
  <2>1. Answered' = Answered \cup {p} /\ framed' = framed \cup {p} /\ Silent' = Silent
    BY <1>6 DEF Answer, Goes, Answered, Silent, Recorded
  <2> QED
    BY <1>2, <1>6, <2>1 DEF Answer, Goes
<1>7. ASSUME Crash PROVE SilencePaidFor'
  <2>1. Answered' = Answered /\ Silent' \subseteq Silent
    BY <1>7 DEF Crash, Waiting, Answered, Silent, Recorded, storeVars
  <2>2. intakeFaults' = intakeFaults + 1 /\ UNCHANGED <<framed, announced>>
    BY <1>7 DEF Crash, Fault, storeVars
  <2>3. \A q \in announced : stage'[q] \in {"recorded", "answered", "dead"}
    BY <1>7 DEF Crash, Waiting
  <2> QED
    BY <1>2, <2>1, <2>2, <2>3
<1>8. ASSUME UNCHANGED vars PROVE SilencePaidFor'
  BY <1>8 DEF vars, storeVars, Answered, Silent, Recorded
<1> QED
  BY <1>3, <1>4, <1>5, <1>6, <1>7, <1>8 DEF Next

-----------------------------------------------------------------------------
(* The theorems *)

\* Templates, posts and silent jobs fit together in every state (POST /jobs).
THEOREM Invariant == Spec => []IInv
<1>1. IInv /\ [Next]_vars => IInv'
  BY StepKeepsTypes, StepKeepsPosts, StepKeepsSeeders, StepKeepsGeneralFirst, StepKeepsLead,
     StepKeepsLists, StepKeepsSilencePaidFor DEF IInv
<1> QED
  BY <1>1, InitEstablishesIInv, PTL DEF Spec

\* The templates, the stored jobs and the requests keep their types.
THEOREM TypeCorrect == Spec => []TypeOK
<1>1. IInv => TypeOK
  BY DEF IInv
<1> QED
  BY <1>1, Invariant, PTL

\* An answered or announced job has its checklist in full, seeders that fail on each other
\* leave a whole ladder behind, and an answered job is silent only for a fault
\* (routes/jobs.ts, lib/checklists.ts).
THEOREM IntakeStaysHonest == Spec => []IntakeIsHonest
<1>1. IInv => IntakeIsHonest
  <2> SUFFICES ASSUME IInv PROVE IntakeIsHonest
    OBVIOUS
  <2> USE DEF IInv
  <2>1. AnsweredIsListed
    BY DEF AnsweredIsListed, Answered, ListedInFull, Listed
  <2>2. LadderIsWhole
    BY DEF LadderIsWhole, SomebodyLeads, Whole, Seeding
  <2>3. AnnouncedInOrder
    <3>1. Answered \ announced \subseteq Silent
      BY DEF Answered, Silent, Recorded
    <3>2. IsFiniteSet(Silent) /\ IsFiniteSet(Answered \ announced)
          /\ Cardinality(Answered \ announced) <= Cardinality(Silent)
      BY <3>1, FS_Subset DEF SilencePaidFor
    <3>3. Cardinality(Answered \ announced) \in Nat /\ Cardinality(Silent) \in Nat
      BY <3>2, FS_CardinalityType
    <3>4. Cardinality(Answered \ announced) <= intakeFaults
      BY <3>2, <3>3 DEF SilencePaidFor, TypeOK
    <3> QED
      BY <3>4 DEF AnnouncedInOrder, SilencePaidFor, ListedInFull
  <2> QED
    BY <2>1, <2>2, <2>3 DEF IntakeIsHonest
<1> QED
  BY <1>1, Invariant, PTL

-----------------------------------------------------------------------------
(* Setup: the inductive invariant *)

SavePoints == {"idle", "asked", "read", "done", "refused"}
RowTypes == setup \in SetupRow \cup {Unset} /\ latest \in [Step -> SetupAnswer]
ViewTypes(view) ==
    /\ view = [known |-> view.known, draft |-> view.draft]
    /\ view.known \in SetupRow \cup {Unset} /\ view.draft \in [Step -> SetupAnswer \cup {Unset}]
SaveTypes(save) ==
    save = [pc |-> save.pc, step |-> save.step, answer |-> save.answer, intent |-> save.intent,
            row |-> save.row]
TabTypes == tab = [t \in Tab |-> tab[t]] /\ \A t \in Tab : ViewTypes(tab[t])
SavingTypes == saving = [t \in Tab |-> saving[t]] /\ \A t \in Tab : SaveTypes(saving[t])
LaunchTypes ==
    launching = [t \in Tab |-> launching[t]]
        /\ \A t \in Tab : launching[t] = [pc |-> launching[t].pc]
SetupTypes == RowTypes /\ TabTypes /\ SavingTypes /\ LaunchTypes

\* There is a row as soon as somebody has looked at it.
\* Without a row no tab has read one, and no request is under way.
RowIsThere(t) ==
    setup = Unset => /\ tab[t].known = Unset /\ saving[t].pc = "idle" /\ launching[t].pc = "idle"

\* A row whose completed steps hold what their schemas accept, or what a draft left there.
RowIsValid(row) ==
    /\ row \in SetupRow /\ row.completed \cap row.skipped = {}
    /\ \A s \in row.completed \ row.drafted : Valid(s, row.answers[s])

\* A save under way is one that its endpoint accepts, and starts from such a row.
SaveFits(save) ==
    /\ save.pc \in SavePoints
    /\ save.pc \in {"asked", "read"} =>
           /\ save.step \in Step /\ save.answer \in SetupAnswer
           /\ save.intent \in {"complete", "skip", "draft"}
           /\ save.intent = "skip" => save.step \notin Required
    /\ save.pc = "read" =>
           /\ RowIsValid(save.row)
           /\ save.intent = "complete" => Valid(save.step, save.answer)
    /\ save.pc = "done" => save.row \in SetupRow

\* A launch that was let through finds the required steps as they were, unless a save has
\* been overtaken.
LaunchFits(t) == launching[t].pc = "read" /\ ~overtaken => MissingRequired(setup) = {}

SetupInv ==
    /\ SetupTypes
    /\ \A t \in Tab : RowIsThere(t) /\ SaveFits(saving[t]) /\ LaunchFits(t)
    /\ IF setup = Unset THEN latest = [s \in Step |-> Blank] ELSE RowIsValid(setup)
    /\ AnswersAreKeptUnlessOvertaken

LEMMA SetupStarts == SetupInit => SetupInv
<1> SUFFICES ASSUME SetupInit PROVE SetupInv
  OBVIOUS
<1>1. SetupTypes
  BY DEF SetupInit, SetupTypes, RowTypes, TabTypes, ViewTypes, SavingTypes, SaveTypes, LaunchTypes,
     Closed, NoSave, NoLaunch, SetupAnswer
<1>2. \A t \in Tab : RowIsThere(t) /\ SaveFits(saving[t]) /\ LaunchFits(t)
  BY DEF SetupInit, RowIsThere, SaveFits, LaunchFits, Closed, NoSave, NoLaunch, SavePoints
<1> QED
  BY <1>1, <1>2 DEF SetupInit, SetupInv, AnswersAreKeptUnlessOvertaken

\* A tab, a save or a launch that is replaced by one of its type.
LEMMA TypesKept ==
    ASSUME SetupTypes
    PROVE  /\ setup' = setup /\ latest' = latest => RowTypes'
           /\ tab' = tab => TabTypes'
           /\ saving' = saving => SavingTypes'
           /\ launching' = launching => LaunchTypes'
  BY DEF SetupTypes, RowTypes, TabTypes, ViewTypes, SavingTypes, SaveTypes, LaunchTypes

LEMMA TabReplaced ==
    ASSUME SetupTypes, NEW t \in Tab, NEW view, ViewTypes(view), tab' = [tab EXCEPT ![t] = view]
    PROVE  TabTypes'
<1>1. \A u \in Tab : tab'[u] = IF u = t THEN view ELSE tab[u]
  BY DEF SetupTypes, TabTypes
<1>2. \A u \in Tab : ViewTypes(tab'[u])
  BY <1>1 DEF SetupTypes, TabTypes
<1>3. tab' = [u \in Tab |-> tab'[u]]
  BY DEF SetupTypes, TabTypes
<1> QED
  BY <1>2, <1>3 DEF TabTypes, ViewTypes

LEMMA SaveReplaced ==
    ASSUME SetupTypes, NEW t \in Tab, NEW save, SaveTypes(save),
        saving' = [saving EXCEPT ![t] = save]
    PROVE  SavingTypes' /\ \A u \in Tab : saving'[u] = IF u = t THEN save ELSE saving[u]
<1>1. \A u \in Tab : saving'[u] = IF u = t THEN save ELSE saving[u]
  BY DEF SetupTypes, SavingTypes
<1>2. \A u \in Tab : SaveTypes(saving'[u])
  BY <1>1 DEF SetupTypes, SavingTypes
<1>3. saving' = [u \in Tab |-> saving'[u]]
  BY DEF SetupTypes, SavingTypes
<1> QED
  BY <1>1, <1>2, <1>3 DEF SavingTypes, SaveTypes

LEMMA SavePasses ==
    ASSUME SetupTypes, NEW t \in Tab, NEW pc, NEW row
    PROVE  [[saving[t] EXCEPT !.pc = pc] EXCEPT !.row = row]
             = [pc |-> pc, step |-> saving[t].step, answer |-> saving[t].answer,
                intent |-> saving[t].intent, row |-> row]
<1>1. PICK save : save = saving[t]
  OBVIOUS
<1>2. save = [pc |-> save.pc, step |-> save.step, answer |-> save.answer, intent |-> save.intent,
              row |-> save.row]
  BY <1>1 DEF SetupTypes, SavingTypes, SaveTypes
<1>3. [save EXCEPT !.pc = pc]
        = [pc |-> pc, step |-> save.step, answer |-> save.answer, intent |-> save.intent,
           row |-> save.row]
  BY <1>2
<1>4. PICK moved : moved = [pc |-> pc, step |-> save.step, answer |-> save.answer,
                            intent |-> save.intent, row |-> save.row]
  OBVIOUS
<1>5. [moved EXCEPT !.row = row]
        = [pc |-> pc, step |-> save.step, answer |-> save.answer, intent |-> save.intent,
           row |-> row]
  BY <1>4
<1> QED
  BY <1>1, <1>3, <1>4, <1>5

LEMMA LaunchReplaced ==
    ASSUME SetupTypes, NEW t \in Tab, NEW pc, launching' = [launching EXCEPT ![t] = [pc |-> pc]]
    PROVE  /\ LaunchTypes'
           /\ \A u \in Tab : launching'[u] = IF u = t THEN [pc |-> pc] ELSE launching[u]
  BY DEF SetupTypes, LaunchTypes

LEMMA LaunchMoves ==
    ASSUME SetupTypes, NEW t \in Tab, NEW pc
    PROVE  [launching EXCEPT ![t].pc = pc] = [launching EXCEPT ![t] = [pc |-> pc]]
<1>1. launching[t] = [pc |-> launching[t].pc]
  BY DEF SetupTypes, LaunchTypes
<1>2. [launching[t] EXCEPT !.pc = pc] = [pc |-> pc]
  BY <1>1
<1> QED
  BY <1>2

\* What a tab does to itself leaves the row and its history alone.
LEMMA WizardOnly ==
    ASSUME SetupInv, setup # Unset, UNCHANGED <<setup, latest, overtaken>>,
           SetupTypes', \A t \in Tab : SaveFits(saving[t])' /\ LaunchFits(t)'
    PROVE  SetupInv'
<1>1. \A t \in Tab : RowIsThere(t)'
  BY DEF RowIsThere
<1>2. RowIsValid(setup)'
  BY DEF SetupInv, RowIsValid, Valid
<1>3. AnswersAreKeptUnlessOvertaken'
  BY DEF SetupInv, AnswersAreKeptUnlessOvertaken, MissingRequired
<1> QED
  BY <1>1, <1>2, <1>3 DEF SetupInv

\* Requests that a step leaves alone fit as before, as long as the row stays.
LEMMA RequestsFitStill ==
    ASSUME SetupInv, UNCHANGED <<setup, overtaken>>
    PROVE  /\ saving' = saving => \A t \in Tab : SaveFits(saving[t])'
           /\ launching' = launching => \A t \in Tab : LaunchFits(t)'
  BY DEF SetupInv, SaveFits, LaunchFits, RowIsValid, Valid, MissingRequired

LEMMA SaveChanged ==
    ASSUME SetupInv, NEW t \in Tab, NEW save, SaveTypes(save), SaveFits(save),
           saving' = [saving EXCEPT ![t] = save]
    PROVE  /\ \A u \in Tab : SaveFits(saving[u])'
           /\ UNCHANGED <<setup, tab, launching, latest>> => SetupTypes'
<1>1. SavingTypes' /\ \A u \in Tab : saving'[u] = IF u = t THEN save ELSE saving[u]
  BY SaveReplaced DEF SetupInv
<1>2. \A u \in Tab : SaveFits(saving'[u])
  BY <1>1 DEF SetupInv
<1> QED
  BY <1>1, <1>2, TypesKept DEF SetupInv, SetupTypes, SaveFits, RowIsValid, Valid

LEMMA LaunchChanged ==
    ASSUME SetupInv, NEW t \in Tab, NEW pc, launching' = [launching EXCEPT ![t] = [pc |-> pc]],
           UNCHANGED <<setup, overtaken>>, pc = "read" => MissingRequired(setup) = {}
    PROVE  /\ \A u \in Tab : LaunchFits(u)'
           /\ UNCHANGED <<tab, saving, latest>> => SetupTypes'
<1>1. LaunchTypes' /\ \A u \in Tab : launching'[u] = IF u = t THEN [pc |-> pc] ELSE launching[u]
  BY LaunchReplaced DEF SetupInv
<1> QED
  BY <1>1, TypesKept DEF SetupInv, SetupTypes, LaunchFits, MissingRequired

-----------------------------------------------------------------------------
(* The wizard *)

LEMMA OpenKeeps ==
    ASSUME SetupInv, NEW t \in Tab, OpenWizard(t) PROVE SetupInv'
<1>1. UNCHANGED <<saving, launching, latest, overtaken>>
  BY DEF OpenWizard
<1>2. PICK row : row = IF setup = Unset THEN FreshSetup ELSE setup
  OBVIOUS
<1>3. setup' = row /\ tab' = [tab EXCEPT ![t].known = row]
  BY <1>2 DEF OpenWizard
<1>4. FreshSetup \in SetupRow /\ RowIsValid(FreshSetup)
  BY DEF FreshSetup, SetupRow, SetupAnswer, RowIsValid
<1>5. row \in SetupRow /\ RowIsValid(row) /\ row # Unset
  BY <1>2, <1>4, SetupAssumption DEF SetupInv, SetupTypes, RowTypes
<1>6. SetupTypes'
  <2>1. SetupTypes /\ ViewTypes(tab[t])
    BY DEF SetupInv, SetupTypes, TabTypes
  <2>2. PICK view : view = [known |-> row, draft |-> tab[t].draft]
    OBVIOUS
  <2>3. [tab[t] EXCEPT !.known = row] = view
    BY <2>1, <2>2 DEF ViewTypes
  <2>4. tab' = [tab EXCEPT ![t] = view]
    BY <1>3, <2>3
  <2>5. ViewTypes(view)
    BY <1>5, <2>1, <2>2 DEF ViewTypes
  <2>6. RowTypes'
    BY <1>1, <1>3, <1>5, <2>1 DEF SetupTypes, RowTypes
  <2> QED
    BY <1>1, <2>1, <2>4, <2>5, <2>6, TabReplaced, TypesKept DEF SetupTypes
<1>7. CASE setup # Unset
  BY <1>1, <1>2, <1>3, <1>6, <1>7, WizardOnly, RequestsFitStill
<1>8. CASE setup = Unset
  <2>1. \A u \in Tab : saving[u].pc = "idle" /\ launching[u].pc = "idle"
    BY <1>8 DEF SetupInv, RowIsThere
  <2>2. \A u \in Tab : RowIsThere(u)' /\ SaveFits(saving[u])' /\ LaunchFits(u)'
    BY <1>1, <1>3, <1>5, <2>1 DEF RowIsThere, SaveFits, SavePoints, LaunchFits
  <2>3. RowIsValid(setup)'
    BY <1>3, <1>5 DEF RowIsValid, Valid
  <2>4. latest = [s \in Step |-> Blank]
    BY <1>8 DEF SetupInv
  <2>5. AnswersAreKeptUnlessOvertaken'
    BY <1>1, <1>2, <1>3, <1>8, <2>4 DEF AnswersAreKeptUnlessOvertaken, FreshSetup
  <2>6. setup' # Unset
    BY <1>3, <1>5
  <2> QED
    BY <1>6, <2>2, <2>3, <2>5, <2>6 DEF SetupInv
<1> QED
  BY <1>7, <1>8

LEMMA TypeKeeps ==
    ASSUME SetupInv, NEW t \in Tab, NEW s \in Step, TypeAnswer(t, s) PROVE SetupInv'
<1>1. UNCHANGED <<setup, saving, launching, latest, overtaken>>
  BY DEF TypeAnswer
<1>2. PICK a \in {Partial, t} : tab' = [tab EXCEPT ![t].draft[s] = a]
  BY DEF TypeAnswer
<1>3. setup # Unset
  BY DEF TypeAnswer, Open, SetupInv, RowIsThere
<1>4. PICK draft : draft = [tab[t].draft EXCEPT ![s] = a]
  OBVIOUS
<1>5. SetupTypes /\ ViewTypes(tab[t])
  BY DEF SetupInv, SetupTypes, TabTypes
<1>6. draft \in [Step -> SetupAnswer \cup {Unset}]
  BY <1>4, <1>5 DEF ViewTypes, SetupAnswer
<1>7. SetupTypes'
  <2>1. PICK view : view = [known |-> tab[t].known, draft |-> draft]
    OBVIOUS
  <2>2. [tab[t] EXCEPT !.draft = draft] = view
    BY <1>5, <2>1 DEF ViewTypes
  <2>3. tab' = [tab EXCEPT ![t] = view]
    BY <1>2, <1>4, <2>2
  <2>4. ViewTypes(view)
    BY <1>5, <1>6, <2>1 DEF ViewTypes
  <2> QED
    BY <1>1, <1>5, <2>3, <2>4, TabReplaced, TypesKept DEF SetupTypes
<1> QED
  BY <1>1, <1>3, <1>7, WizardOnly, RequestsFitStill

LEMMA LeaveKeeps ==
    ASSUME SetupInv, NEW t \in Tab,
           LeaveWizard(t) PROVE SetupInv'
<1>1. UNCHANGED <<setup, saving, launching, latest, overtaken>> /\ tab' = [tab EXCEPT ![t] = Closed]
  BY DEF LeaveWizard
<1>2. setup # Unset
  BY DEF LeaveWizard, Open, SetupInv, RowIsThere
<1>3. ViewTypes(Closed)
  BY DEF ViewTypes, Closed
<1>4. SetupTypes'
  BY <1>1, <1>3, TabReplaced, TypesKept DEF SetupInv, SetupTypes
<1> QED
  BY <1>1, <1>2, <1>4, WizardOnly, RequestsFitStill

LEMMA AskSaveKeeps ==
    ASSUME SetupInv, NEW t \in Tab, NEW s \in Step, NEW intent \in {"complete", "skip", "draft"},
           AskSave(t, s, intent)
    PROVE  SetupInv'
<1>1. UNCHANGED <<setup, tab, launching, latest, overtaken>>
  BY DEF AskSave
<1>2. setup # Unset /\ tab[t].known # Unset
  BY DEF AskSave, Open, SetupInv, RowIsThere
<1>3. PICK a : a = CurrentAnswers(t, s)
  OBVIOUS
<1>4. tab[t].known.answers \in [Step -> SetupAnswer]
          /\ tab[t].draft \in [Step -> SetupAnswer \cup {Unset}]
  BY <1>2 DEF SetupInv, SetupTypes, TabTypes, ViewTypes, SetupRow
<1>5. a \in SetupAnswer
  BY <1>3, <1>4 DEF CurrentAnswers
<1>6. PICK save : save = [pc |-> "asked", step |-> s, answer |-> a, intent |-> intent,
          row |-> Unset]
  OBVIOUS
<1>7. saving' = [saving EXCEPT ![t] = save] /\ (intent = "skip" => s \notin Required)
  BY <1>3, <1>6 DEF AskSave
<1>8. SaveTypes(save) /\ SetupTypes
  BY <1>6 DEF SaveTypes, SetupInv
<1>9. SaveFits(save)
  BY <1>5, <1>6, <1>7 DEF SaveFits, SavePoints
<1>10. SetupTypes' /\ \A u \in Tab : SaveFits(saving[u])'
  BY <1>1, <1>7, <1>8, <1>9, SaveChanged
<1> QED
  BY <1>1, <1>2, <1>10, WizardOnly, RequestsFitStill

LEMMA AskLaunchKeeps ==
    ASSUME SetupInv, NEW t \in Tab, AskLaunch(t) PROVE SetupInv'
<1>1. UNCHANGED <<setup, tab, saving, latest, overtaken>>
  BY DEF AskLaunch
<1>2. setup # Unset
  BY DEF AskLaunch, Open, SetupInv, RowIsThere
<1>3. PICK pc : pc = "asked"
  OBVIOUS
<1>4. launching' = [launching EXCEPT ![t] = [pc |-> pc]]
  BY <1>3, LaunchMoves DEF AskLaunch, SetupInv
<1>5. pc = "read" => MissingRequired(setup) = {}
  BY <1>3
<1>6. UNCHANGED <<setup, overtaken>> /\ UNCHANGED <<tab, saving, latest>>
  BY <1>1
<1>7. SetupTypes' /\ \A u \in Tab : LaunchFits(u)'
  BY <1>4, <1>5, <1>6, LaunchChanged, Zenon
<1> QED
  BY <1>1, <1>2, <1>7, WizardOnly, RequestsFitStill

LEMMA ReceiveSaveKeeps ==
    ASSUME SetupInv, NEW t \in Tab, ReceiveSave(t) PROVE SetupInv'
<1>1. UNCHANGED <<setup, launching, latest, overtaken>> /\ saving' = [saving EXCEPT ![t] = NoSave]
  BY DEF ReceiveSave
<1>2. setup # Unset
  BY DEF ReceiveSave, SetupInv, RowIsThere
<1>3. TabTypes'
  <2>1. SetupTypes /\ ViewTypes(tab[t])
    BY DEF SetupInv, SetupTypes, TabTypes
  <2>2. CASE Open(t) /\ saving[t].pc = "done"
    <3>1. PICK row : row = saving[t].row
      OBVIOUS
    <3>2. row \in SetupRow /\ tab' = [tab EXCEPT ![t].known = row]
      BY <2>2, <3>1 DEF ReceiveSave, SetupInv, SaveFits
    <3>3. PICK view : view = [known |-> row, draft |-> tab[t].draft]
      OBVIOUS
    <3>4. [tab[t] EXCEPT !.known = row] = view /\ ViewTypes(view)
      BY <2>1, <3>2, <3>3 DEF ViewTypes
    <3> QED
      BY <2>1, <3>2, <3>4, TabReplaced
  <2>3. CASE ~(Open(t) /\ saving[t].pc = "done")
    BY <2>1, <2>3, TypesKept DEF ReceiveSave
  <2> QED
    BY <2>2, <2>3
<1>4. SaveTypes(NoSave) /\ SaveFits(NoSave)
  BY DEF SaveTypes, SaveFits, SavePoints, NoSave
<1>5. SavingTypes' /\ \A u \in Tab : SaveFits(saving[u])'
  BY <1>1, <1>4, SaveReplaced, SaveChanged DEF SetupInv
<1>6. SetupTypes'
  BY <1>1, <1>3, <1>5, TypesKept DEF SetupInv, SetupTypes
<1> QED
  BY <1>1, <1>2, <1>5, <1>6, WizardOnly, RequestsFitStill

LEMMA ReceiveLaunchKeeps ==
    ASSUME SetupInv, NEW t \in Tab, ReceiveLaunch(t) PROVE SetupInv'
<1>1. UNCHANGED <<setup, saving, latest, overtaken>>
          /\ launching' = [launching EXCEPT ![t] = NoLaunch]
  BY DEF ReceiveLaunch
<1>2. setup # Unset
  BY DEF ReceiveLaunch, SetupInv, RowIsThere
<1>3. tab' = [tab EXCEPT ![t] = Closed] \/ tab' = [tab EXCEPT ![t] = tab[t]]
  BY DEF ReceiveLaunch
<1>4. SetupTypes /\ ViewTypes(tab[t]) /\ ViewTypes(Closed)
  BY DEF SetupInv, SetupTypes, TabTypes, ViewTypes, Closed
<1>5. TabTypes'
  BY <1>3, <1>4, TabReplaced
<1>6. LaunchTypes' /\ \A u \in Tab : LaunchFits(u)'
  <2>1. PICK pc : pc = "idle"
    OBVIOUS
  <2>2. launching' = [launching EXCEPT ![t] = [pc |-> pc]]
    BY <1>1, <2>1 DEF NoLaunch
  <2>3. pc # "read"
    BY <2>1
  <2> QED
    BY <1>1, <1>4, <2>2, <2>3, LaunchReplaced, LaunchChanged
<1>7. SetupTypes'
  BY <1>1, <1>4, <1>5, <1>6, TypesKept DEF SetupTypes
<1> QED
  BY <1>1, <1>2, <1>6, <1>7, WizardOnly, RequestsFitStill

-----------------------------------------------------------------------------
(* The endpoints *)

LEMMA ReadForSaveKeeps ==
    ASSUME SetupInv, NEW t \in Tab, ReadForSave(t) PROVE SetupInv'
<1>1. UNCHANGED <<setup, tab, launching, latest, overtaken>>
  BY DEF ReadForSave
<1>2. setup # Unset /\ RowIsValid(setup)
  BY DEF ReadForSave, SetupInv, RowIsThere
<1>3. PICK pc : pc = IF saving[t].intent = "complete" => Valid(saving[t].step, saving[t].answer)
                     THEN "read" ELSE "refused"
  OBVIOUS
<1>4. PICK save : save = [[saving[t] EXCEPT !.pc = pc] EXCEPT !.row = setup]
  OBVIOUS
<1>5. saving' = [saving EXCEPT ![t] = save]
  BY <1>3, <1>4 DEF ReadForSave
<1>6. save = [pc |-> pc, step |-> saving[t].step, answer |-> saving[t].answer,
              intent |-> saving[t].intent, row |-> setup]
  BY <1>4, SavePasses DEF SetupInv
<1>7. SaveTypes(save)
  BY <1>6 DEF SaveTypes
<1>8. SaveFits(save)
  BY <1>2, <1>3, <1>6 DEF ReadForSave, SetupInv, SaveFits, SavePoints
<1>9. SetupTypes' /\ \A u \in Tab : SaveFits(saving[u])'
  BY <1>1, <1>5, <1>7, <1>8, SaveChanged
<1> QED
  BY <1>1, <1>2, <1>9, WizardOnly, RequestsFitStill

\* What the merge of a valid save with a valid row gives.
LEMMA MergedIsValid ==
    ASSUME NEW row, NEW save, RowIsValid(row), SaveFits(save), save.pc = "read"
    PROVE  /\ RowIsValid(Merged(row, save))
           /\ Merged(row, save).answers = [row.answers EXCEPT ![save.step] = save.answer]
           /\ MissingRequired(Merged(row, save)) \subseteq MissingRequired(row)
<1>1. PICK r : r = [row EXCEPT !.answers = [row.answers EXCEPT ![save.step] = save.answer]]
  OBVIOUS
<1>2. /\ row = [status |-> row.status, completed |-> row.completed, skipped |-> row.skipped,
                 answers |-> row.answers, drafted |-> row.drafted]
      /\ row.answers \in [Step -> SetupAnswer]
      /\ row.completed \subseteq Step /\ row.skipped \subseteq Step /\ row.drafted \subseteq Step
      /\ row.status \in {"in_progress", "complete"}
  BY DEF RowIsValid, SetupRow
<1>3. save.step \in Step /\ save.answer \in SetupAnswer
  BY DEF SaveFits
<1>4. PICK answers : answers = [row.answers EXCEPT ![save.step] = save.answer]
  OBVIOUS
<1>5. r = [status |-> row.status, completed |-> row.completed, skipped |-> row.skipped,
           answers |-> answers, drafted |-> row.drafted]
  BY <1>1, <1>2, <1>4
<1>6. answers \in [Step -> SetupAnswer] /\ answers[save.step] = save.answer
      /\ \A s \in Step \ {save.step} : answers[s] = row.answers[s]
  BY <1>2, <1>3, <1>4
<1>7. CASE save.intent = "complete"
  <2>1. Merged(row, save) = [[[r EXCEPT !.completed = r.completed \cup {save.step}]
                                EXCEPT !.skipped = r.skipped \ {save.step}]
                                EXCEPT !.drafted = r.drafted \ {save.step}]
    BY <1>1, <1>7 DEF Merged
  <2>2. Merged(row, save) = [status |-> row.status, completed |-> row.completed \cup {save.step},
                             skipped |-> row.skipped \ {save.step}, answers |-> answers,
                             drafted |-> row.drafted \ {save.step}]
    BY <1>5, <2>1
  <2>3. Valid(save.step, save.answer)
    BY <1>7 DEF SaveFits
  <2> QED
    BY <1>2, <1>3, <1>4, <1>6, <2>2, <2>3 DEF RowIsValid, SetupRow, MissingRequired, Valid
<1>8. CASE save.intent = "skip"
  <2>1. Merged(row, save) = [[[r EXCEPT !.skipped = r.skipped \cup {save.step}]
                                EXCEPT !.completed = r.completed \ {save.step}]
                                EXCEPT !.drafted = r.drafted \ {save.step}]
    BY <1>1, <1>8 DEF Merged
  <2>2. Merged(row, save) = [status |-> row.status, completed |-> row.completed \ {save.step},
                             skipped |-> row.skipped \cup {save.step}, answers |-> answers,
                             drafted |-> row.drafted \ {save.step}]
    BY <1>5, <2>1
  <2>3. save.step \notin Required
    BY <1>8 DEF SaveFits
  <2> QED
    BY <1>2, <1>3, <1>4, <1>6, <2>2, <2>3 DEF RowIsValid, SetupRow, MissingRequired, Valid
<1>9. CASE save.intent = "draft"
  <2>1. Merged(row, save)
          = [r EXCEPT !.drafted = row.completed \cap (r.drafted \cup {save.step})]
    BY <1>1, <1>9 DEF Merged
  <2>2. Merged(row, save) = [status |-> row.status, completed |-> row.completed,
                             skipped |-> row.skipped, answers |-> answers,
                             drafted |-> row.completed \cap (row.drafted \cup {save.step})]
    BY <1>5, <2>1
  <2> QED
    BY <1>2, <1>3, <1>4, <1>6, <2>2 DEF RowIsValid, SetupRow, MissingRequired, Valid
<1> QED
  BY <1>7, <1>8, <1>9 DEF SaveFits

LEMMA WriteSaveKeeps ==
    ASSUME SetupInv, NEW t \in Tab, WriteSave(t) PROVE SetupInv'
<1>1. UNCHANGED <<tab, launching>>
  BY DEF WriteSave
<1>2. PICK save : save = saving[t]
  OBVIOUS
<1>3. save.pc = "read" /\ SaveFits(save) /\ RowIsValid(save.row) /\ save.step \in Step
      /\ save.answer \in SetupAnswer
  BY <1>2 DEF WriteSave, SetupInv, SaveFits
<1>4. setup # Unset /\ RowIsValid(setup)
  BY <1>2, <1>3 DEF SetupInv, RowIsThere
<1>5. PICK merged : merged = Merged(save.row, save)
  OBVIOUS
<1>6. /\ RowIsValid(merged) /\ merged.answers = [save.row.answers EXCEPT ![save.step] = save.answer]
      /\ MissingRequired(merged) \subseteq MissingRequired(save.row)
  BY <1>3, <1>5, MergedIsValid
<1>7. setup' = [merged EXCEPT !.status = setup.status]
  BY <1>2, <1>5 DEF WriteSave
<1>8. /\ setup' = [status |-> setup.status, completed |-> merged.completed,
                   skipped |-> merged.skipped, answers |-> merged.answers,
                   drafted |-> merged.drafted]
      /\ setup' \in SetupRow /\ RowIsValid(setup')
  BY <1>4, <1>6, <1>7 DEF RowIsValid, SetupRow, Valid
<1>9. latest' = [latest EXCEPT ![save.step] = save.answer]
  BY <1>2 DEF WriteSave
<1>10. ~overtaken' => /\ ~overtaken /\ save.row.answers = setup.answers
                     /\ save.row.completed = setup.completed
  BY <1>2, Zenon DEF WriteSave
<1>11. PICK answered : answered = [[save EXCEPT !.pc = "done"] EXCEPT !.row = setup']
  OBVIOUS
<1>12. saving' = [saving EXCEPT ![t] = answered]
  BY <1>2, <1>11 DEF WriteSave
<1>13. PICK row : row = setup'
  OBVIOUS
<1>14. answered = [pc |-> "done", step |-> save.step, answer |-> save.answer,
           intent |-> save.intent,
                   row |-> setup']
  BY <1>2, <1>11, <1>13, SavePasses DEF SetupInv
<1>15. SaveTypes(answered)
  BY <1>14 DEF SaveTypes
<1>16. SaveFits(answered)
  BY <1>8, <1>14 DEF SaveFits, SavePoints
<1>17. SavingTypes' /\ \A u \in Tab : SaveFits(saving[u])'
  BY <1>12, <1>15, <1>16, SaveReplaced, SaveChanged DEF SetupInv
<1>18. SetupTypes'
  <2>1. SetupTypes /\ latest \in [Step -> SetupAnswer]
    BY DEF SetupInv, SetupTypes, RowTypes
  <2>2. RowTypes'
    BY <1>3, <1>8, <1>9, <2>1 DEF RowTypes
  <2> QED
    BY <1>1, <1>17, <2>1, <2>2, TypesKept DEF SetupTypes
<1>19. ~overtaken' => MissingRequired(setup') \subseteq MissingRequired(setup)
  BY <1>6, <1>8, <1>10 DEF MissingRequired
<1>20. \A u \in Tab : LaunchFits(u)' /\ RowIsThere(u)'
  BY <1>1, <1>8, <1>10, <1>19, SetupAssumption DEF SetupInv, LaunchFits, RowIsThere, MissingRequired
<1>21. AnswersAreKeptUnlessOvertaken'
  <2> SUFFICES ASSUME ~overtaken' PROVE setup'.answers = latest'
          /\ (setup'.status = "complete" => MissingRequired(setup') = {})
    BY DEF AnswersAreKeptUnlessOvertaken, MissingRequired
  <2>1. setup.answers = latest /\ (setup.status = "complete" => MissingRequired(setup) = {})
    BY <1>4, <1>10 DEF SetupInv, AnswersAreKeptUnlessOvertaken
  <2>2. setup'.answers = latest'
    BY <1>6, <1>8, <1>9, <1>10, <2>1
  <2> QED
    BY <1>8, <1>19, <2>1, <2>2
<1>22. RowIsValid(setup)'
  BY <1>8 DEF RowIsValid, Valid
<1> QED
  BY <1>8, <1>18, <1>17, <1>20, <1>21, <1>22, SetupAssumption DEF SetupInv

LEMMA ReadForLaunchKeeps ==
    ASSUME SetupInv, NEW t \in Tab, ReadForLaunch(t) PROVE SetupInv'
<1>1. UNCHANGED <<setup, tab, saving, latest, overtaken>>
  BY DEF ReadForLaunch
<1>2. setup # Unset
  BY DEF ReadForLaunch, SetupInv, RowIsThere
<1>3. PICK pc : pc = IF MissingRequired(setup) = {} THEN "read" ELSE "refused"
  OBVIOUS
<1>4. launching' = [launching EXCEPT ![t].pc = pc]
  BY <1>3 DEF ReadForLaunch
<1>5. launching' = [launching EXCEPT ![t] = [pc |-> pc]]
  BY <1>4, LaunchMoves DEF SetupInv
<1>6. SetupTypes' /\ \A u \in Tab : LaunchFits(u)'
  BY <1>1, <1>3, <1>5, LaunchChanged
<1> QED
  BY <1>1, <1>2, <1>6, WizardOnly, RequestsFitStill

LEMMA WriteLaunchKeeps ==
    ASSUME SetupInv, NEW t \in Tab, WriteLaunch(t) PROVE SetupInv'
<1>1. UNCHANGED <<tab, saving, latest, overtaken>>
          /\ launching' = [launching EXCEPT ![t].pc = "done"]
  BY DEF WriteLaunch
<1>2. setup # Unset /\ RowIsValid(setup) /\ (~overtaken => MissingRequired(setup) = {})
  BY DEF WriteLaunch, SetupInv, RowIsThere, LaunchFits
<1>3. setup' = [status |-> "complete", completed |-> setup.completed, skipped |-> setup.skipped,
                answers |-> setup.answers, drafted |-> setup.drafted]
  BY <1>2 DEF WriteLaunch, RowIsValid, SetupRow
<1>4. setup' \in SetupRow /\ setup' # Unset /\ RowIsValid(setup)'
  BY <1>2, <1>3, SetupAssumption DEF RowIsValid, SetupRow, Valid
<1>5. PICK pc : pc = "done"
  OBVIOUS
<1>6. launching' = [launching EXCEPT ![t] = [pc |-> pc]]
  BY <1>1, <1>5, LaunchMoves DEF SetupInv
<1>7. SetupTypes'
  BY <1>1, <1>4, <1>6, LaunchReplaced, TypesKept DEF SetupInv, SetupTypes, RowTypes
<1>8. \A u \in Tab : launching'[u] = IF u = t THEN [pc |-> pc] ELSE launching[u]
  <2>1. SetupTypes
    BY DEF SetupInv
  <2> QED
    BY <1>6, <2>1, LaunchReplaced
<1>9. \A u \in Tab : LaunchFits(u)' /\ RowIsThere(u)'
  BY <1>1, <1>3, <1>4, <1>8, <1>5 DEF SetupInv, LaunchFits, RowIsThere, MissingRequired
<1>10. \A u \in Tab : SaveFits(saving[u])'
  BY <1>1 DEF SetupInv, SaveFits, RowIsValid, Valid
<1>11. AnswersAreKeptUnlessOvertaken'
  BY <1>1, <1>2, <1>3 DEF SetupInv, AnswersAreKeptUnlessOvertaken, MissingRequired
<1> QED
  BY <1>4, <1>7, <1>11, <1>9, <1>10 DEF SetupInv

LEMMA LosesKeep ==
    ASSUME SetupInv, NEW t \in Tab, LoseSave(t) \/ LoseLaunch(t) PROVE SetupInv'
<1>1. UNCHANGED <<setup, tab, latest, overtaken>>
  BY DEF LoseSave, LoseLaunch
<1>2. setup # Unset
  BY DEF LoseSave, LoseLaunch, SetupInv, RowIsThere
<1>3. CASE LoseSave(t)
  <2>1. saving' = [saving EXCEPT ![t] = NoSave] /\ launching' = launching
    BY <1>3 DEF LoseSave
  <2>2. SaveTypes(NoSave) /\ SaveFits(NoSave)
    BY DEF SaveTypes, SaveFits, SavePoints, NoSave
  <2>3. SetupTypes' /\ \A u \in Tab : SaveFits(saving[u])'
    BY <1>1, <2>1, <2>2, SaveChanged
  <2> QED
    BY <1>1, <1>2, <2>1, <2>3, WizardOnly, RequestsFitStill
<1>4. CASE LoseLaunch(t)
  <2>1. launching' = [launching EXCEPT ![t] = NoLaunch] /\ saving' = saving
    BY <1>4 DEF LoseLaunch
  <2>2. PICK pc : pc = "idle"
    OBVIOUS
  <2>3. launching' = [launching EXCEPT ![t] = [pc |-> pc]]
    BY <2>1, <2>2 DEF NoLaunch
  <2>4. pc = "read" => MissingRequired(setup) = {}
    BY <2>2
  <2>5. UNCHANGED <<setup, overtaken>> /\ UNCHANGED <<tab, saving, latest>>
    BY <1>1, <2>1
  <2>6. SetupTypes' /\ \A u \in Tab : LaunchFits(u)'
    BY <2>3, <2>4, <2>5, LaunchChanged, Zenon
  <2> QED
    BY <1>1, <1>2, <2>1, <2>6, WizardOnly, RequestsFitStill
<1> QED
  BY <1>3, <1>4

LEMMA SetupStepKeeps == SetupInv /\ [SetupNext]_setupVars => SetupInv'
<1> SUFFICES ASSUME SetupInv, [SetupNext]_setupVars PROVE SetupInv'
  OBVIOUS
<1>1. CASE UNCHANGED setupVars
  BY <1>1 DEF setupVars, SetupInv, SetupTypes, RowTypes, TabTypes, ViewTypes, SavingTypes,
     SaveTypes,
     LaunchTypes, RowIsThere, SaveFits, LaunchFits, RowIsValid, Valid,
     AnswersAreKeptUnlessOvertaken, MissingRequired
<1>2. CASE SetupNext
  <2>1. PICK t \in Tab : WizardStep(t) \/ ApiStep(t)
    BY <1>2 DEF SetupNext
  <2>2. CASE WizardStep(t)
    BY <2>2, OpenKeeps, LeaveKeeps, TypeKeeps, AskSaveKeeps, AskLaunchKeeps, ReceiveSaveKeeps,
       ReceiveLaunchKeeps DEF WizardStep
  <2>3. CASE ApiStep(t)
    BY <2>3, ReadForSaveKeeps, WriteSaveKeeps, ReadForLaunchKeeps, WriteLaunchKeeps, LosesKeep
       DEF ApiStep
  <2> QED
    BY <2>1, <2>2, <2>3
<1> QED
  BY <1>1, <1>2

\* Every reachable state of the setup satisfies the inductive invariant.
THEOREM SetupInvariant == SetupSpec => []SetupInv
  BY SetupStarts, SetupStepKeeps, PTL DEF SetupSpec

\* Whatever tabs, saves, drafts and launches interleave, a completed step holds answers its
\* schema accepts until a draft replaces them, and answers are lost only by a save that was
\* overtaken (routes/setup.ts).
THEOREM SetupStaysKept == SetupSpec => []SetupIsKept
<1>1. SetupInv => SetupIsKept
  BY DEF SetupInv, SetupIsKept, CompletedIsValid, RowIsValid
<1> QED
  BY SetupInvariant, <1>1, PTL

-----------------------------------------------------------------------------
(* Shell: the inductive invariant *)

\* The clock, and the ends of a session that answers carry: none is after the row's.
ClockTypes == now \in Nat /\ until \in Nat /\ until <= now + Life
EndTypes ==
    /\ probe \in {Absent, Asked, Refused} \cup 0..until
    /\ renewal \in {Absent, Asked, Refused} \cup 0..until
    /\ expiry \in {Absent} \cup 0..until

\* A page that is still checking its session has fetched nothing.
CheckingIsEmpty == gate = "checking" => ~beaten /\ poll = Absent /\ data = Absent

\* A poll that landed when a renewal was due has asked for it.
BeatsRenew == gate = "in" /\ expiry # Absent /\ beaten => failedRenewal \/ renewal # Absent

\* The landing asks only where the operator has gone nowhere.
LandingWaits == ask # Absent => module = Absent

ShellInv ==
    /\ ClockTypes /\ EndTypes
    /\ CheckingIsEmpty /\ BeatsRenew /\ DemoOnlyUnfed
    /\ LandingWaits /\ NeverHijacks

LEMMA ShellStarts == ShellInit => ShellInv
  BY ShellAssumption DEF ShellInit, ShellInv, ClockTypes, EndTypes, CheckingIsEmpty, BeatsRenew,
     DemoOnlyUnfed, LandingWaits, NeverHijacks, Asked

\* The steps of the shell: each is taken apart by its own definition.
LEMMA ShellSteps == ShellInv /\ [ShellNext]_shellVars => ShellInv'
<1> SUFFICES ASSUME ShellInv, [ShellNext]_shellVars PROVE ShellInv'
  OBVIOUS
<1> USE ShellAssumption
    DEF ShellInv, ClockTypes, EndTypes, CheckingIsEmpty, BeatsRenew, DemoOnlyUnfed, LandingWaits,
        NeverHijacks, OnBoard, Shows, serverVars, gateVars, landVars, feedVars, lifeVars,
        shellCounts, ShellAct, ShellFault, Asked, Refused
<1>1. CASE Tick
  BY <1>1 DEF Tick
<1>2. CASE Revoke
  BY <1>2 DEF Revoke
<1>3. CASE Login
  BY <1>3 DEF Login, LoadPage
<1>4. CASE Reload
  BY <1>4 DEF Reload, LoadPage
<1>5. CASE SignOut
  BY <1>5 DEF SignOut
<1>6. CASE ServeProbe
  BY <1>6 DEF ServeProbe, ProbeAnswer, SessionIsValid
<1>7. CASE PassGate
  BY <1>7 DEF PassGate
<1>8. CASE ProbeFails
  BY <1>8 DEF ProbeFails
<1>9. CASE AskSetup
  BY <1>9 DEF AskSetup, Eligible
<1>10. CASE ServeSetup
  BY <1>10 DEF ServeSetup, SessionIsValid
<1>11. CASE LandSetup
  BY <1>11 DEF LandSetup, GoesTo, Renew, Due
<1>12. CASE SetupFails
  BY <1>12 DEF SetupFails, GoesTo, Renew, Due
<1>13. CASE FinishSetup
  BY <1>13 DEF FinishSetup
<1>14. ASSUME NEW m \in Modules \cup {Absent}, Navigate(m) PROVE ShellInv'
  BY <1>14 DEF Navigate, GoesTo, CheckAfter, Renew, Due
<1>15. CASE ShowTab
  BY <1>15 DEF ShowTab, Renew, Due
<1>16. CASE ServeRenewal
  BY <1>16 DEF ServeRenewal, SessionIsValid
<1>17. CASE LandRenewal
  BY <1>17 DEF LandRenewal
<1>18. CASE RenewalFails
  BY <1>18 DEF RenewalFails
<1>19. CASE AskBoard
  BY <1>19 DEF AskBoard
<1>20. CASE ServeBoard
  BY <1>20 DEF ServeBoard, SessionIsValid
<1>21. CASE BoardLands
  <2>1. ~(gate = "checking") /\ gate' = gate /\ ClockTypes' /\ EndTypes'
    BY <1>21 DEF BoardLands, Renew, Due
  <2>2. CASE OnBoard
    <3>1. until - now < Lead /\ expiry # Absent => renewal' # Absent
      BY <1>21, <2>2 DEF BoardLands, Renew, Due
    <3>2. failedRenewal' = failedRenewal /\ (renewal # Absent => renewal' # Absent)
          /\ expiry' = expiry /\ (beaten' => beaten \/ until - now < Lead)
      BY <1>21, <2>2 DEF BoardLands, Renew
    <3>3. BeatsRenew'
      BY <2>1, <3>1, <3>2
    <3>4. DemoOnlyUnfed' /\ LandingWaits' /\ NeverHijacks'
      BY <1>21, <2>2 DEF BoardLands
    <3> QED
      BY <2>1, <3>3, <3>4
  <2>3. CASE ~OnBoard
    BY <1>21, <2>1, <2>3 DEF BoardLands
  <2> QED
    BY <2>2, <2>3
<1>22. CASE BoardRefused
  BY <1>22 DEF BoardRefused
<1>23. CASE BoardFails
  BY <1>23 DEF BoardFails, ModeAfterFailure, Renew, Due
<1>24. CASE Reconnect
  BY <1>24 DEF Reconnect
<1>25. CASE Forget
  BY <1>25 DEF Forget
<1>26. CASE UNCHANGED shellVars
  BY <1>26 DEF shellVars
<1> QED
  BY <1>1, <1>2, <1>3, <1>4, <1>5, <1>6, <1>7, <1>8, <1>9, <1>10, <1>11, <1>12, <1>13, <1>14,
     <1>15, <1>16, <1>17, <1>18, <1>19, <1>20, <1>21, <1>22, <1>23, <1>24, <1>25, <1>26 DEF
     ShellNext

\* In every reachable state of the shell no answer carries an end of the session after the
\* row's, and a poll that landed while a renewal was due has asked for one.
THEOREM ShellInvariant == ShellSpec => []ShellInv
<1>1. ShellInit => ShellInv
  BY ShellStarts
<1>2. ShellInv /\ [ShellNext]_shellVars => ShellInv'
  BY ShellSteps
<1> QED
  BY <1>1, <1>2, PTL DEF ShellSpec

\* However polls, probes, renewals and landings interleave, the shell signs nobody out whose
\* session it could have renewed, shows demo data only where no board came, and overrides no
\* module that the URL named (AppShell.tsx, useBoardLifecycle.ts, lib/api.ts).
THEOREM ShellStaysHonest == ShellSpec => []ShellIsHonest
<1>1. ShellInv => ShellIsHonest
  BY DEF ShellInv, BeatsRenew, ShellIsHonest, ExpiresOnlyIdle
<1> QED
  BY <1>1, ShellInvariant, PTL

-----------------------------------------------------------------------------
(* JobPane: the inductive invariant *)

PaneTypes ==
    /\ thread \in [Job -> Seq(Message)] /\ lostSends \in [1..MaxPaneActs -> Nat]
    /\ shown \in Seq(Message) /\ job \in Job \cup {Empty}
    /\ mount \in Nat /\ effect \in Nat
    /\ writing \in Nat /\ typed \in Nat /\ paneActs \in Nat
    /\ writing <= typed /\ typed <= paneActs /\ paneActs <= MaxPaneActs

\* A message is stored once, in the thread of its job.
IsStored(m) == m \in Message /\ m \in ToSet(thread[m.job])
ThreadsFit ==
    \A j \in Job : \A i \in DOMAIN thread[j] : thread[j][i].job = j /\ thread[j][i].nth = i

\* A list without a message twice, all of them stored.
IsList(s) ==
    /\ s \in Seq(Message) /\ \A i \in DOMAIN s : IsStored(s[i])
    /\ \A i, k \in DOMAIN s : s[i] = s[k] => i = k

\* The load of the running effect is one of the selected job, and brings its messages.
LoadFits(l) ==
    /\ l = [effect |-> l.effect, job |-> l.job, answer |-> l.answer, nth |-> l.nth]
    /\ l.effect \in Nat /\ l.effect <= effect /\ l.job \in Job
    /\ l.effect = effect => l.job = job
    /\ l.answer # Empty => IsList(l.answer) /\ \A i \in DOMAIN l.answer : l.answer[i].job = l.job

\* What is shown of another job was posted there from this pane and answered late.
ShownFits == landed => \A i \in DOMAIN shown : shown[i].job = job \/ shown[i] \in stray

\* A post carries a text that nobody writes any more, or the one in the field of its pane.
SendFits(p) ==
    /\ p = [mount |-> p.mount, job |-> p.job, text |-> p.text, stored |-> p.stored]
    /\ p.mount \in Nat /\ p.mount <= mount /\ p.job \in Job /\ p.text \in 1..typed
    /\ p.text = writing => p.mount = mount
    /\ p.stored # Empty => IsStored(p.stored) /\ p.stored.job = p.job
\* One post of the pane on the screen is under way, and one of each text.
OneSend ==
    /\ \A p, q \in sends : p.mount = mount /\ q.mount = mount => p = q
    /\ \A p, q \in sends : p.text = q.text => p = q
BusyFits == sendBusy <=> \E p \in sends : p.mount = mount

\* A text that may yet be stored by a post that is under way or to come.
Unspent(n) ==
    \/ n > typed
    \/ \E p \in sends : p.text = n /\ p.stored = Empty
    \/ n = writing /\ ~\E p \in sends : p.text = n /\ p.stored # Empty
\* A lost answer pays for the time that a text is stored again, before it is.
CountFits(n) ==
    /\ IsFiniteSet(Stored(n)) /\ Cardinality(Stored(n)) <= 1 + lostSends[n]
    /\ Unspent(n) => Cardinality(Stored(n)) <= lostSends[n]

PaneInv ==
    /\ PaneTypes /\ ThreadsFit
    /\ \A l \in loads : LoadFits(l)
    /\ IsList(shown) /\ ShownFits
    /\ \A p \in sends : SendFits(p)
    /\ OneSend /\ BusyFits
    /\ \A n \in 1..MaxPaneActs : CountFits(n)

LEMMA PaneStarts == PaneInit => PaneInv
<1> SUFFICES ASSUME PaneInit PROVE PaneInv
  OBVIOUS
<1>1. \A n : Stored(n) = {}
  BY DEF PaneInit, Stored, ToSet
<1>2. \A n : IsFiniteSet(Stored(n)) /\ Cardinality(Stored(n)) = 0
  BY <1>1, FS_EmptySet
<1>3. PaneTypes /\ ThreadsFit /\ IsList(shown) /\ ShownFits
  BY PaneAssumption DEF PaneInit, PaneTypes, ThreadsFit, IsList, ShownFits
<1>4. OneSend /\ BusyFits
  BY DEF PaneInit, OneSend, BusyFits
<1>5. \A n \in 1..MaxPaneActs : CountFits(n)
  BY <1>2 DEF PaneInit, CountFits
<1> QED
  BY <1>3, <1>4, <1>5 DEF PaneInit, PaneInv

-----------------------------------------------------------------------------
(* Threads grow by messages that are new *)

\* What a list holds after a message is appended to it.
LEMMA Appended ==
    ASSUME NEW S, NEW s \in Seq(S), NEW m \in S
    PROVE  /\ Append(s, m) \in Seq(S) /\ DOMAIN Append(s, m) = 1..(Len(s) + 1)
           /\ DOMAIN s = 1..Len(s) /\ Len(s) \in Nat /\ Len(Append(s, m)) = Len(s) + 1
           /\ \A i \in DOMAIN s : Append(s, m)[i] = s[i]
           /\ Append(s, m)[Len(s) + 1] = m
           /\ ToSet(Append(s, m)) = ToSet(s) \cup {m}
<1>1. /\ Append(s, m) \in Seq(S) /\ DOMAIN Append(s, m) = 1..(Len(s) + 1)
      /\ DOMAIN s = 1..Len(s) /\ Len(s) \in Nat /\ Len(Append(s, m)) = Len(s) + 1
  OBVIOUS
<1>2. /\ \A i \in DOMAIN s : Append(s, m)[i] = s[i]
      /\ Append(s, m)[Len(s) + 1] = m
  OBVIOUS
<1> QED
  BY <1>1, <1>2 DEF ToSet

\* The messages of a text that are stored, before a step and after it.
LEMMA InStored ==
    /\ \A n, y : y \in Stored(n) <=> \E k \in Job : y \in ToSet(thread[k]) /\ y.text = n
    /\ \A n, y : y \in Stored(n)' <=> \E k \in Job : y \in ToSet(thread'[k]) /\ y.text = n
<1>1. \A n, y : y \in Stored(n) <=> \E k \in Job : y \in ToSet(thread[k]) /\ y.text = n
  BY DEF Stored
<1>2. \A n, y : y \in Stored(n)' <=> \E k \in Job : y \in ToSet(thread'[k]) /\ y.text = n
  BY DEF Stored
<1> QED
  BY <1>1, <1>2

Grown == \A m : IsStored(m) => IsStored(m)'
Stores(j, m) == thread' = [thread EXCEPT ![j] = Append(@, m)]

LEMMA ThreadSame ==
    ASSUME PaneTypes, thread' = thread
    PROVE  Grown /\ (ThreadsFit => ThreadsFit') /\ \A n : Stored(n)' = Stored(n)
  BY DEF Grown, IsStored, ThreadsFit, Stored

LEMMA ThreadGrows ==
    ASSUME PaneTypes, ThreadsFit, NEW j \in Job, NEW x \in Nat, NEW m, m = NewMessage(j, x),
           Stores(j, m)
    PROVE  /\ thread' \in [Job -> Seq(Message)] /\ ThreadsFit' /\ Grown
           /\ m \in Message /\ m.job = j /\ m.text = x /\ IsStored(m)'
           /\ \A n : Stored(n)' = IF n = x THEN Stored(n) \cup {m} ELSE Stored(n)
<1>1. thread[j] \in Seq(Message) /\ Len(thread[j]) \in Nat
  BY DEF PaneTypes
<1>2. m \in Message /\ m.job = j /\ m.text = x /\ m.nth = Len(thread[j]) + 1
  BY <1>1 DEF NewMessage, Message
<1>3. PICK s : s = thread[j]
  OBVIOUS
<1>4. /\ Append(s, m) \in Seq(Message) /\ DOMAIN Append(s, m) = 1..(Len(s) + 1)
      /\ DOMAIN s = 1..Len(s) /\ \A i \in DOMAIN s : Append(s, m)[i] = s[i]
      /\ Append(s, m)[Len(s) + 1] = m /\ ToSet(Append(s, m)) = ToSet(s) \cup {m}
  BY <1>1, <1>2, <1>3, Appended
<1>5. \A k \in Job : thread'[k] = IF k = j THEN Append(s, m) ELSE thread[k]
  BY <1>3 DEF PaneTypes, Stores
<1>6. thread' \in [Job -> Seq(Message)]
  <2>1. thread' = [k \in Job |-> IF k = j THEN Append(s, m) ELSE thread[k]]
    BY <1>3 DEF PaneTypes, Stores
  <2> QED
    BY <2>1, <1>4 DEF PaneTypes
<1>7. ThreadsFit'
  <2> SUFFICES ASSUME NEW k \in Job, NEW i \in DOMAIN thread'[k]
      PROVE  thread'[k][i].job = k /\ thread'[k][i].nth = i
    BY DEF ThreadsFit
  <2>1. CASE k = j /\ i = Len(s) + 1
    BY <2>1, <1>2, <1>3, <1>4, <1>5
  <2>2. CASE ~(k = j /\ i = Len(s) + 1)
    <3>1. i \in DOMAIN thread[k] /\ thread'[k][i] = thread[k][i]
      <4>1. CASE k = j
        <5>1. thread'[k] = Append(s, m) /\ thread[k] = s /\ Len(s) \in Nat
          BY <4>1, <1>1, <1>3, <1>5
        <5>2. i \in 1..(Len(s) + 1) /\ i # Len(s) + 1
          BY <2>2, <4>1, <5>1, <1>4
        <5> QED
          BY <5>1, <5>2, <1>4
      <4>2. CASE k # j
        BY <4>2, <1>5
      <4> QED
        BY <4>1, <4>2
    <3> QED
      BY <3>1 DEF ThreadsFit
  <2> QED
    BY <2>1, <2>2
<1>8. \A k \in Job : \A y : y \in ToSet(thread'[k]) <=> y \in ToSet(thread[k]) \/ (k = j /\ y = m)
  <2> TAKE k \in Job
  <2> TAKE y
  <2>1. CASE k = j
    <3>1. thread'[k] = Append(s, m) /\ thread[k] = s
      BY <2>1, <1>3, <1>5
    <3> QED
      BY <2>1, <3>1, <1>4
  <2>2. CASE k # j
    BY <2>2, <1>5
  <2> QED
    BY <2>1, <2>2
<1>9. Grown /\ IsStored(m)'
  <2>1. \A y \in Message : y.job \in Job
    BY DEF Message
  <2>2. ASSUME NEW y, IsStored(y) PROVE IsStored(y)'
    <3>1. PICK k \in Job : k = y.job /\ y \in ToSet(thread[k])
      BY <2>1, <2>2 DEF IsStored
    <3>2. y \in ToSet(thread'[k])
      BY <1>8, <3>1
    <3> QED
      BY <2>2, <3>1, <3>2 DEF IsStored
  <2>3. m \in ToSet(thread'[j])
    BY <1>8
  <2>4. IsStored(m)'
    BY <1>2, <2>3 DEF IsStored
  <2> QED
    BY <2>2, <2>4 DEF Grown
<1>10. ASSUME NEW n PROVE Stored(n)' = IF n = x THEN Stored(n) \cup {m} ELSE Stored(n)
  <2>1. ASSUME NEW y PROVE y \in Stored(n)' <=> y \in Stored(n) \/ (y = m /\ n = x)
    BY <1>2, <1>8, InStored
  <2> QED
    BY <2>1, Zenon
<1> QED
  BY <1>2, <1>6, <1>7, <1>9, <1>10

\* Lists stay lists, with the same messages of a job.
LEMMA ListStays == ASSUME Grown, NEW s, IsList(s) PROVE IsList(s)'
  BY DEF Grown, IsList

-----------------------------------------------------------------------------
(* What leaves the parts of the invariant as they are *)

LEMMA LoadsStay ==
    ASSUME PaneInv, Grown, effect' = effect, job' = job, loads' \subseteq loads
    PROVE  \A l \in loads' : LoadFits(l)'
<1> TAKE l \in loads'
<1>1. LoadFits(l)
  BY DEF PaneInv
<1>2. IsList(l.answer) => IsList(l.answer)'
  BY ListStays
<1> QED
  BY <1>1, <1>2 DEF LoadFits

\* The loads of an effect that is over are dead.
LEMMA LoadsDie ==
    ASSUME PaneInv, Grown, effect' = effect + 1
    PROVE  \A l \in loads : LoadFits(l)'
<1> TAKE l \in loads
<1>1. LoadFits(l)
  BY DEF PaneInv
<1>2. IsList(l.answer) => IsList(l.answer)'
  BY ListStays
<1>3. effect \in Nat /\ effect' # l.effect /\ l.effect <= effect'
  BY <1>1 DEF PaneInv, PaneTypes, LoadFits
<1> QED
  BY <1>1, <1>2, <1>3 DEF LoadFits

LEMMA ListShownStays ==
    ASSUME PaneInv, Grown, shown' = shown
    PROVE  IsList(shown)' /\ (landed' = FALSE => ShownFits')
           /\ (UNCHANGED <<landed, job, stray>> => ShownFits')
<1>1. PICK s : s = shown
  OBVIOUS
<1>2. IsList(s)'
  BY <1>1, ListStays DEF PaneInv
<1>3. IsList(shown)'
  BY <1>1, <1>2 DEF IsList
<1> QED
  BY <1>3 DEF PaneInv, ShownFits

LEMMA SendsStay ==
    ASSUME PaneInv, Grown, sends' \subseteq sends, mount' = mount, typed' \in Nat, typed' >= typed,
           writing' = writing \/ writing' = 0 \/ writing' > typed
    PROVE  (\A p \in sends' : SendFits(p)') /\ OneSend'
<1>1. ASSUME NEW p \in sends' PROVE SendFits(p)'
  <2>1. SendFits(p)
    BY DEF PaneInv
  <2>2. IsStored(p.stored) => IsStored(p.stored)'
    BY DEF Grown
  <2>3. typed \in Nat /\ p.text \in 1..typed' /\ (p.text = writing' => p.mount = mount)
    BY <2>1 DEF SendFits, PaneInv, PaneTypes
  <2> QED
    BY <2>1, <2>2, <2>3 DEF SendFits
<1>2. OneSend'
  BY DEF PaneInv, OneSend
<1> QED
  BY <1>1, <1>2

LEMMA BusyStays ==
    ASSUME PaneInv, UNCHANGED <<sendBusy, sends, mount>>
    PROVE  BusyFits'
  BY Zenon DEF PaneInv, BusyFits

\* The pane is mounted anew: nothing that is under way is its own.
LEMMA SendsLeft ==
    ASSUME PaneInv, Grown, sends' = sends, mount' = mount + 1, typed' = typed, writing' = 0,
           sendBusy' = FALSE
    PROVE  (\A p \in sends' : SendFits(p)') /\ OneSend' /\ BusyFits'
<1>1. ASSUME NEW p \in sends' PROVE SendFits(p)' /\ p.mount # mount'
  <2>1. SendFits(p)
    BY DEF PaneInv
  <2>2. IsStored(p.stored) => IsStored(p.stored)'
    BY DEF Grown
  <2>3. typed \in Nat /\ mount \in Nat
    BY DEF PaneInv, PaneTypes
  <2> QED
    BY <2>1, <2>2, <2>3 DEF SendFits
<1>2. OneSend' /\ BusyFits'
  BY <1>1 DEF PaneInv, OneSend, BusyFits
<1> QED
  BY <1>1, <1>2

\* No text is stored, and none that was spent is sent again.
LEMMA CountsStay ==
    ASSUME PaneInv, thread' = thread, lostSends' = lostSends,
           \A n \in 1..MaxPaneActs : Unspent(n)' => Unspent(n)
    PROVE  \A n \in 1..MaxPaneActs : CountFits(n)'
<1> TAKE n \in 1..MaxPaneActs
<1>1. CountFits(n) /\ Stored(n)' = Stored(n) /\ lostSends'[n] = lostSends[n]
  BY ThreadSame DEF PaneInv
<1> QED
  BY <1>1 DEF CountFits

-----------------------------------------------------------------------------
(* The steps of the pane *)

LEMMA SelectKeeps == ASSUME PaneInv, NEW j \in Job, Select(j) PROVE PaneInv'
<1>1. thread' = thread /\ sends' = sends /\ typed' = typed /\ lostSends' = lostSends
  BY DEF Select, paneApi
<1>2. Grown /\ ThreadsFit'
  BY <1>1, ThreadSame DEF PaneInv
<1>3. PaneTypes'
  <2>1. shown' \in Seq(Message) /\ writing' \in Nat /\ writing' <= typed /\ mount' \in Nat
    <3>1. shown \in Seq(Message) /\ writing \in Nat /\ writing <= typed /\ mount \in Nat
              /\ typed \in Nat
      BY DEF PaneInv, PaneTypes
    <3>2. CASE job = Empty
      BY <3>1, <3>2 DEF Select, FreshPane
    <3>3. CASE job # Empty
      BY <3>1, <3>3 DEF Select
    <3> QED
      BY <3>2, <3>3
  <2>2. effect' \in Nat /\ job' \in Job /\ paneActs' \in Nat /\ paneActs' <= MaxPaneActs
        /\ typed <= paneActs'
    BY PaneAssumption DEF Select, Begin, PaneAct, PaneInv, PaneTypes
  <2> QED
    BY <1>1, <2>1, <2>2 DEF PaneInv, PaneTypes
<1>4. \A l \in loads' : LoadFits(l)'
  <2>1. \A l \in loads : LoadFits(l)'
    BY <1>2, LoadsDie DEF Select, Begin
  <2>2. PICK l : l = NewLoad(j, effect + 1)
    OBVIOUS
  <2>3. LoadFits(l)'
    BY <2>2 DEF Select, Begin, PaneInv, PaneTypes, LoadFits, NewLoad
  <2>4. loads' = loads \cup {l}
    BY <2>2 DEF Select, Begin
  <2> QED
    BY <2>1, <2>3, <2>4
<1>5. IsList(shown)' /\ ShownFits'
  <2>1. CASE job = Empty
    BY <2>1 DEF Select, FreshPane, IsList, ShownFits
  <2>2. CASE job # Empty
    BY <2>2, <1>2, ListShownStays DEF Select, Begin
  <2> QED
    BY <2>1, <2>2
<1>6. (\A p \in sends' : SendFits(p)') /\ OneSend' /\ BusyFits'
  <2>1. CASE job = Empty
    BY <2>1, <1>1, <1>2, SendsLeft DEF Select, FreshPane
  <2>2. CASE job # Empty
    BY <2>2, <1>1, <1>2, SendsStay, BusyStays DEF Select, PaneInv, PaneTypes
  <2> QED
    BY <2>1, <2>2
<1>7. \A n \in 1..MaxPaneActs : CountFits(n)'
  <2>1. \A n \in 1..MaxPaneActs : Unspent(n)' => Unspent(n)
    BY <1>1 DEF Select, FreshPane, Unspent
  <2> QED
    BY <2>1, <1>1, CountsStay
<1> QED
  BY <1>2, <1>3, <1>4, <1>5, <1>6, <1>7 DEF PaneInv

LEMMA LeavePaneKeeps == ASSUME PaneInv, Leave PROVE PaneInv'
<1>1. thread' = thread /\ sends' = sends /\ typed' = typed /\ lostSends' = lostSends
          /\ loads' = loads
  BY DEF Leave, paneApi, paneRequests
<1>2. Grown /\ ThreadsFit'
  BY <1>1, ThreadSame DEF PaneInv
<1>3. PaneTypes'
  <2>1. shown' \in Seq(Message) /\ writing' = 0 /\ mount' \in Nat /\ effect' \in Nat /\ job' = Empty
    BY DEF Leave, FreshPane, PaneInv, PaneTypes
  <2>2. paneActs' \in Nat /\ paneActs' <= MaxPaneActs /\ typed <= paneActs' /\ 0 <= typed
    BY PaneAssumption DEF Leave, PaneAct, PaneInv, PaneTypes
  <2> QED
    BY <1>1, <2>1, <2>2 DEF PaneInv, PaneTypes
<1>4. \A l \in loads' : LoadFits(l)'
  BY <1>1, <1>2, LoadsDie DEF Leave
<1>5. IsList(shown)' /\ ShownFits'
  BY DEF Leave, FreshPane, IsList, ShownFits
<1>6. (\A p \in sends' : SendFits(p)') /\ OneSend' /\ BusyFits'
  BY <1>1, <1>2, SendsLeft DEF Leave, FreshPane
<1>7. \A n \in 1..MaxPaneActs : CountFits(n)'
  <2>1. \A n \in 1..MaxPaneActs : Unspent(n)' => Unspent(n)
    BY <1>1 DEF Leave, FreshPane, Unspent
  <2> QED
    BY <2>1, <1>1, CountsStay
<1> QED
  BY <1>2, <1>3, <1>4, <1>5, <1>6, <1>7 DEF PaneInv

\* A poll, or what becomes of it: the screen and what the API has stored are as they were.
LEMMA PollsKeep ==
    ASSUME PaneInv, UNCHANGED <<job, mount, effect, writing, sendBusy, typed, stray, sends, thread,
                                lostSends, paneActs>>,
           \A l \in loads' : LoadFits(l)', IsList(shown)', ShownFits'
    PROVE  PaneInv'
<1>1. Grown /\ ThreadsFit'
  BY ThreadSame DEF PaneInv
<1>2. PaneTypes'
  BY DEF PaneInv, PaneTypes, IsList
<1>3. (\A p \in sends' : SendFits(p)') /\ OneSend' /\ BusyFits'
  BY <1>1, SendsStay, BusyStays DEF PaneInv, PaneTypes
<1>4. \A n \in 1..MaxPaneActs : CountFits(n)'
  <2>1. \A n \in 1..MaxPaneActs : Unspent(n)' => Unspent(n)
    BY DEF Unspent
  <2> QED
    BY <2>1, CountsStay
<1> QED
  BY <1>1, <1>2, <1>3, <1>4 DEF PaneInv

LEMMA PollAgainKeeps == ASSUME PaneInv, PollAgain PROVE PaneInv'
<1>1. Grown
  BY ThreadSame DEF PollAgain, paneApi, PaneInv
<1>2. \A l \in loads : LoadFits(l)'
  <2> TAKE l \in loads
  <2>1. LoadFits(l) /\ (IsList(l.answer) => IsList(l.answer)')
    BY <1>1, ListStays DEF PaneInv
  <2> QED
    BY <2>1 DEF LoadFits, PollAgain, paneScreen
<1>3. PICK k : k = NewLoad(job, effect)
  OBVIOUS
<1>4. \A l \in loads' : LoadFits(l)'
  <2>1. LoadFits(k)'
    BY <1>3 DEF PollAgain, paneScreen, PaneInv, PaneTypes, LoadFits, NewLoad
  <2>2. loads' = loads \cup {k}
    BY <1>3 DEF PollAgain
  <2> QED
    BY <1>2, <2>1, <2>2
<1>5. IsList(shown)' /\ ShownFits'
  BY <1>1, ListShownStays DEF PollAgain, paneScreen
<1> QED
  BY <1>4, <1>5, PollsKeep DEF PollAgain, paneScreen, paneApi

LEMMA AnswerLoadKeeps == ASSUME PaneInv, NEW l \in loads, AnswerLoad(l) PROVE PaneInv'
<1>1. Grown
  BY ThreadSame DEF AnswerLoad, paneApi, PaneInv
<1>2. \A k \in loads : LoadFits(k)'
  <2> TAKE k \in loads
  <2>1. LoadFits(k) /\ (IsList(k.answer) => IsList(k.answer)')
    BY <1>1, ListStays DEF PaneInv
  <2> QED
    BY <2>1 DEF LoadFits, AnswerLoad, paneScreen
<1>3. PICK s : s = thread[l.job]
  OBVIOUS
<1>4. LoadFits(l) /\ l.job \in Job /\ s \in Seq(Message)
  BY <1>3 DEF PaneInv, PaneTypes, LoadFits
<1>5. IsList(s) /\ \A i \in DOMAIN s : s[i].job = l.job
  <2>1. \A i \in DOMAIN s : s[i] \in Message /\ s[i] \in ToSet(s) /\ s[i].job = l.job
            /\ s[i].nth = i
    BY <1>3, <1>4 DEF PaneInv, ThreadsFit, ToSet
  <2> QED
    BY <1>3, <1>4, <2>1 DEF IsList, IsStored
<1>6. PICK k : k = [l EXCEPT !.answer = s]
  OBVIOUS
<1>7. LoadFits(k)'
  <2>1. k = [effect |-> l.effect, job |-> l.job, answer |-> s, nth |-> l.nth]
    BY <1>4, <1>6 DEF LoadFits
  <2>2. IsList(s)'
    BY <1>1, <1>5, ListStays
  <2> QED
    BY <1>4, <1>5, <2>1, <2>2 DEF LoadFits, AnswerLoad, paneScreen
<1>8. \A m \in loads' : LoadFits(m)'
  <2>1. loads' = (loads \ {l}) \cup {k}
    BY <1>3, <1>6 DEF AnswerLoad
  <2> QED
    BY <1>2, <1>7, <2>1
<1>9. IsList(shown)' /\ ShownFits'
  BY <1>1, ListShownStays DEF AnswerLoad, paneScreen
<1> QED
  BY <1>8, <1>9, PollsKeep DEF AnswerLoad, paneScreen, paneApi, PaneQuiet, paneCounts

LEMMA LoadLandsKeeps == ASSUME PaneInv, NEW l \in loads, LoadLands(l) PROVE PaneInv'
<1>1. Grown
  BY ThreadSame DEF LoadLands, paneApi, PaneInv
<1>2. \A k \in loads' : LoadFits(k)'
  BY <1>1, LoadsStay DEF LoadLands
<1>3. IsList(shown)' /\ ShownFits'
  <2>1. CASE Alive(l)
    <3>1. PICK s : s = l.answer
      OBVIOUS
    <3>2. IsList(s) /\ \A i \in DOMAIN s : s[i].job = job
      BY <2>1, <3>1 DEF LoadLands, Alive, PaneInv, LoadFits
    <3>3. IsList(s)'
      BY <1>1, <3>2, ListStays
    <3> QED
      BY <2>1, <3>1, <3>2, <3>3 DEF LoadLands, IsList, ShownFits
  <2>2. CASE ~Alive(l)
    BY <2>2, <1>1, ListShownStays DEF LoadLands
  <2> QED
    BY <2>1, <2>2
<1> QED
  BY <1>2, <1>3, PollsKeep DEF LoadLands, paneApi, PaneQuiet, paneCounts

LEMMA LoadFailsKeeps == ASSUME PaneInv, NEW l \in loads, LoadFails(l) PROVE PaneInv'
<1>1. Grown
  BY ThreadSame DEF LoadFails, paneApi, PaneInv
<1>2. (\A k \in loads' : LoadFits(k)') /\ IsList(shown)' /\ ShownFits'
  BY <1>1, LoadsStay, ListShownStays DEF LoadFails, paneScreen
<1> QED
  BY <1>2, PollsKeep DEF LoadFails, paneScreen, paneApi

\* A thread grows: nothing changes on the screen or in what is under way.
LEMMA TechnicianWritesKeeps ==
    ASSUME PaneInv, NEW j \in Job, TechnicianWrites(j) PROVE PaneInv'
<1>1. PICK m : m = NewMessage(j, 0)
  OBVIOUS
<1>2. /\ thread' \in [Job -> Seq(Message)] /\ ThreadsFit' /\ Grown
      /\ \A n : Stored(n)' = IF n = 0 THEN Stored(n) \cup {m} ELSE Stored(n)
  <2>1. PaneTypes /\ ThreadsFit /\ Stores(j, m)
    BY <1>1 DEF Stores, TechnicianWrites, PaneInv
  <2> QED
    BY <1>1, <2>1, ThreadGrows
<1>3. PaneTypes'
  <2>1. paneActs' \in Nat /\ paneActs' <= MaxPaneActs /\ typed <= paneActs'
    BY PaneAssumption DEF TechnicianWrites, PaneAct, PaneInv, PaneTypes
  <2> QED
    BY <1>2, <2>1 DEF PaneInv, PaneTypes, TechnicianWrites, paneScreen
<1>4. \A l \in loads' : LoadFits(l)'
  BY <1>2, LoadsStay DEF TechnicianWrites, paneScreen, paneRequests
<1>5. IsList(shown)' /\ ShownFits'
  BY <1>2, ListShownStays DEF TechnicianWrites, paneScreen
<1>6. (\A p \in sends' : SendFits(p)') /\ OneSend' /\ BusyFits'
  <2>1. UNCHANGED <<sends, mount, typed, writing, sendBusy>> /\ typed \in Nat
    BY DEF TechnicianWrites, paneScreen, paneRequests, PaneInv, PaneTypes
  <2> QED
    BY <2>1, <1>2, SendsStay, BusyStays
<1>7. ASSUME NEW n \in 1..MaxPaneActs PROVE CountFits(n)'
  <2>1. Stored(n)' = Stored(n) /\ lostSends' = lostSends /\ CountFits(n)
    BY <1>2 DEF TechnicianWrites, PaneInv
  <2>2. Unspent(n)' => Unspent(n)
    BY DEF Unspent, TechnicianWrites, paneScreen, paneRequests
  <2> QED
    BY <2>1, <2>2 DEF CountFits
<1> QED
  BY <1>2, <1>3, <1>4, <1>5, <1>6, <1>7 DEF PaneInv

LEMMA TypeTextKeeps == ASSUME PaneInv, TypeText PROVE PaneInv'
<1>1. UNCHANGED <<job, mount, effect, shown, sendBusy, landed, stray, loads, sends, thread,
          lostSends>>
  BY DEF TypeText, paneRequests, paneApi
<1>2. Grown /\ ThreadsFit'
  BY <1>1, ThreadSame DEF PaneInv
<1>3. typed \in Nat /\ typed' = typed + 1 /\ writing' = typed' /\ writing \in Nat
  BY DEF TypeText, PaneInv, PaneTypes
<1>4. PaneTypes'
  <2>1. paneActs' \in Nat /\ paneActs' <= MaxPaneActs /\ typed' <= paneActs'
    BY PaneAssumption, <1>3 DEF TypeText, PaneAct, PaneInv, PaneTypes
  <2> QED
    BY <1>1, <1>3, <2>1 DEF PaneInv, PaneTypes
<1>5. (\A l \in loads' : LoadFits(l)') /\ IsList(shown)' /\ ShownFits'
  BY <1>1, <1>2, LoadsStay, ListShownStays
<1>6. (\A p \in sends' : SendFits(p)') /\ OneSend' /\ BusyFits'
  BY <1>1, <1>2, <1>3, SendsStay, BusyStays
<1>7. \A n \in 1..MaxPaneActs : CountFits(n)'
  <2>1. \A n \in 1..MaxPaneActs : Unspent(n)' => Unspent(n)
    BY <1>1, <1>3 DEF Unspent
  <2> QED
    BY <1>1, <2>1, CountsStay
<1> QED
  BY <1>2, <1>4, <1>5, <1>6, <1>7 DEF PaneInv

LEMMA SendPostKeeps == ASSUME PaneInv, SendPost PROVE PaneInv'
<1>1. UNCHANGED <<job, mount, effect, shown, writing, typed, landed, stray, loads, thread,
          lostSends>>
      /\ job \in Job /\ writing # 0 /\ sendBusy = FALSE /\ sendBusy' = TRUE
  BY DEF SendPost, paneApi, PaneInv, PaneTypes
<1>2. Grown /\ ThreadsFit'
  BY <1>1, ThreadSame DEF PaneInv
<1>3. PaneTypes'
  <2>1. paneActs' \in Nat /\ paneActs' <= MaxPaneActs /\ typed <= paneActs'
    BY PaneAssumption DEF SendPost, PaneAct, PaneInv, PaneTypes
  <2> QED
    BY <1>1, <2>1 DEF PaneInv, PaneTypes
<1>4. (\A l \in loads' : LoadFits(l)') /\ IsList(shown)' /\ ShownFits'
  BY <1>1, <1>2, LoadsStay, ListShownStays
<1>5. PICK q : q = [mount |-> mount, job |-> job, text |-> writing, stored |-> Empty]
  OBVIOUS
<1>6. sends' = sends \cup {q}
  BY <1>5 DEF SendPost
<1>7. \A p \in sends : p.mount # mount /\ p.text # writing
  <2>1. \A p \in sends : p.mount # mount
    BY <1>1, Zenon DEF PaneInv, BusyFits
  <2> QED
    BY <2>1 DEF PaneInv, SendFits
<1>8. (\A p \in sends' : SendFits(p)') /\ OneSend' /\ BusyFits'
  <2>1. ASSUME NEW p \in sends PROVE SendFits(p)'
    <3>1. SendFits(p) /\ (IsStored(p.stored) => IsStored(p.stored)')
      BY <1>2 DEF PaneInv, Grown
    <3> QED
      BY <1>1, <3>1 DEF SendFits
  <2>2. SendFits(q)'
    BY <1>1, <1>5 DEF SendFits, PaneInv, PaneTypes
  <2>3. OneSend'
    BY <1>1, <1>5, <1>6, <1>7 DEF PaneInv, OneSend
  <2>4. BusyFits'
    BY <1>1, <1>5, <1>6 DEF BusyFits
  <2> QED
    BY <1>6, <2>1, <2>2, <2>3, <2>4
<1>9. \A n \in 1..MaxPaneActs : CountFits(n)'
  <2>1. \A n \in 1..MaxPaneActs : Unspent(n)' => Unspent(n)
    BY <1>1, <1>5, <1>6, <1>7 DEF Unspent
  <2> QED
    BY <1>1, <2>1, CountsStay
<1> QED
  BY <1>2, <1>3, <1>4, <1>8, <1>9 DEF PaneInv

LEMMA StorePostKeeps == ASSUME PaneInv, NEW p \in sends, StorePost(p) PROVE PaneInv'
<1>1. UNCHANGED <<job, mount, effect, shown, writing, sendBusy, typed, landed, stray, loads,
          lostSends,
                  paneActs>>
  BY DEF StorePost, paneScreen, PaneQuiet, paneCounts
<1>2. SendFits(p) /\ p.stored = Empty /\ p.job \in Job /\ p.text \in Nat
  BY DEF StorePost, PaneInv, SendFits
<1>3. PICK j \in Job, x \in Nat : j = p.job /\ x = p.text
  BY <1>2
<1>4. PICK m : m = NewMessage(j, x)
  OBVIOUS
<1>5. j = p.job /\ x = p.text /\ m = NewMessage(j, x)
  BY <1>3, <1>4
<1>6. /\ thread' \in [Job -> Seq(Message)] /\ ThreadsFit' /\ Grown
      /\ m \in Message /\ m.job = j /\ m.text = x /\ IsStored(m)'
      /\ \A n : Stored(n)' = IF n = x THEN Stored(n) \cup {m} ELSE Stored(n)
  <2>1. PaneTypes /\ ThreadsFit /\ Stores(j, m)
    BY <1>5 DEF Stores, StorePost, PaneInv
  <2> QED
    BY <1>5, <2>1, ThreadGrows
<1>7. PaneTypes'
  BY <1>1, <1>6 DEF PaneInv, PaneTypes
<1>8. (\A l \in loads' : LoadFits(l)') /\ IsList(shown)' /\ ShownFits'
  BY <1>1, <1>6, LoadsStay, ListShownStays
<1>9. PICK q : q = [p EXCEPT !.stored = m]
  OBVIOUS
<1>10. sends' = (sends \ {p}) \cup {q}
      /\ q = [mount |-> p.mount, job |-> p.job, text |-> p.text, stored |-> m]
  BY <1>2, <1>5, <1>9 DEF StorePost, SendFits
<1>11. (\A r \in sends' : SendFits(r)') /\ OneSend' /\ BusyFits'
  <2>1. ASSUME NEW r \in sends PROVE SendFits(r)'
    <3>1. SendFits(r) /\ (IsStored(r.stored) => IsStored(r.stored)')
      BY <1>6 DEF PaneInv, Grown
    <3> QED
      BY <1>1, <3>1 DEF SendFits
  <2>2. SendFits(q)'
    BY <1>1, <1>2, <1>5, <1>6, <1>10 DEF SendFits
  <2>3. OneSend'
    BY <1>1, <1>10 DEF PaneInv, OneSend
  <2>4. (\E r \in sends' : r.mount = mount) <=> \E r \in sends : r.mount = mount
    BY <1>10
  <2>5. BusyFits'
    BY <1>1, <2>4, Zenon DEF PaneInv, BusyFits
  <2> QED
    BY <1>10, <2>1, <2>2, <2>3, <2>5
<1>12. ASSUME NEW n \in 1..MaxPaneActs PROVE CountFits(n)'
  <2>1. CountFits(n) /\ lostSends[n] \in Nat
    BY DEF PaneInv, PaneTypes
  <2>2. CASE n = x
    <3>1. Unspent(n) /\ ~Unspent(n)'
      BY <1>1, <1>2, <1>5, <1>6, <1>10, <2>2, PaneAssumption
         DEF PaneInv, PaneTypes, OneSend, SendFits, Unspent
    <3>2. IsFiniteSet(Stored(n)) /\ Cardinality(Stored(n)) <= lostSends[n]
          /\ Cardinality(Stored(n)) \in Nat
      BY <2>1, <3>1, FS_CardinalityType DEF CountFits
    <3>3. IsFiniteSet(Stored(n)') /\ Cardinality(Stored(n)') <= Cardinality(Stored(n)) + 1
          /\ Cardinality(Stored(n)') \in Nat
      <4>1. PICK S, T : S = Stored(n) /\ T = Stored(n)'
        OBVIOUS
      <4>2. T = S \cup {m} /\ IsFiniteSet(S)
        BY <1>6, <2>2, <3>2, <4>1
      <4>3. /\ IsFiniteSet(T)
            /\ Cardinality(T) = Cardinality(S) \/ Cardinality(T) = Cardinality(S) + 1
            /\ Cardinality(T) \in Nat
        BY <4>2, FS_AddElement, FS_CardinalityType
      <4> QED
        BY <3>2, <4>1, <4>3
    <3> QED
      BY <1>1, <2>1, <3>1, <3>2, <3>3 DEF CountFits
  <2>3. CASE n # x
    <3>1. Stored(n)' = Stored(n) /\ (Unspent(n)' => Unspent(n))
      BY <1>1, <1>5, <1>6, <1>10, <2>3 DEF Unspent
    <3> QED
      BY <1>1, <2>1, <3>1 DEF CountFits
  <2> QED
    BY <2>2, <2>3
<1> QED
  BY <1>6, <1>7, <1>8, <1>11, <1>12 DEF PaneInv

LEMMA PostLandsKeeps == ASSUME PaneInv, NEW p \in sends, PostLands(p) PROVE PaneInv'
<1>1. UNCHANGED <<job, mount, effect, typed, landed, loads, thread, lostSends, paneActs>>
      /\ sends' = sends \ {p}
  BY DEF PostLands, paneApi, PaneQuiet, paneCounts
<1>2. Grown /\ ThreadsFit'
  BY <1>1, ThreadSame DEF PaneInv
<1>3. SendFits(p) /\ p.stored # Empty
  BY DEF PostLands, PaneInv
<1>4. PICK m, s : m = p.stored /\ s = shown
  OBVIOUS
<1>5. m \in Message /\ IsStored(m) /\ m.job = p.job /\ IsList(s)
  BY <1>3, <1>4 DEF SendFits, IsStored, PaneInv
<1>6. \A l \in loads' : LoadFits(l)'
  BY <1>1, <1>2, LoadsStay
<1>7. IsList(shown)' /\ ShownFits'
  <2>1. CASE InView(p) /\ m \notin ToSet(s)
    <3>1. /\ Append(s, m) \in Seq(Message) /\ DOMAIN Append(s, m) = 1..(Len(s) + 1)
          /\ DOMAIN s = 1..Len(s) /\ Len(s) \in Nat
          /\ \A i \in DOMAIN s : Append(s, m)[i] = s[i]
          /\ Append(s, m)[Len(s) + 1] = m
      BY <1>5, Appended DEF IsList
    <3>2. PICK t : t = Append(s, m)
      OBVIOUS
    <3>3. shown' = t
      BY <2>1, <1>4, <3>2 DEF PostLands, Added
    <3>4. \A i \in DOMAIN t : (i \in DOMAIN s /\ t[i] = s[i]) \/ (i = Len(s) + 1 /\ t[i] = m)
      <4> TAKE i \in DOMAIN t
      <4>1. i \in 1..(Len(s) + 1)
        BY <3>1, <3>2
      <4>2. i \in DOMAIN s \/ i = Len(s) + 1
        BY <3>1, <4>1
      <4> QED
        BY <3>1, <3>2, <4>2
    <3>5. \A i \in DOMAIN s : s[i] \in ToSet(s)
      BY DEF ToSet
    <3>6. IsList(t)
      <4>1. \A i, k \in DOMAIN t : t[i] = t[k] => i = k
        BY <1>5, <2>1, <3>4, <3>5 DEF IsList
      <4> QED
        BY <1>5, <3>1, <3>2, <3>4, <4>1 DEF IsList
    <3>7. IsList(t)'
      BY <1>2, <3>6, ListStays
    <3>8. stray \subseteq stray' /\ (m.job = job \/ m \in stray')
      BY <1>4, <1>5, <2>1 DEF PostLands
    <3>9. landed => \A i \in DOMAIN s : s[i].job = job \/ s[i] \in stray
      BY <1>4 DEF PaneInv, ShownFits
    <3> QED
      BY <1>1, <3>3, <3>4, <3>7, <3>8, <3>9 DEF IsList, ShownFits
  <2>2. CASE ~(InView(p) /\ m \notin ToSet(s))
    <3>1. shown' = shown /\ stray \subseteq stray'
      BY <2>2, <1>4 DEF PostLands, Added
    <3>2. IsList(shown)'
      BY <1>2, <3>1, ListShownStays
    <3> QED
      BY <1>1, <3>1, <3>2 DEF PaneInv, ShownFits
  <2> QED
    BY <2>1, <2>2
<1>8. (\A q \in sends' : SendFits(q)') /\ OneSend'
  BY <1>1, <1>2, SendsStay DEF PostLands, PaneInv, PaneTypes
<1>9. BusyFits'
  <2>1. CASE InView(p)
    BY <1>1, <2>1 DEF PostLands, InView, PaneInv, OneSend, BusyFits
  <2>2. CASE ~InView(p)
    <3>1. (\E q \in sends' : q.mount = mount) <=> \E q \in sends : q.mount = mount
      BY <1>1, <2>2 DEF InView
    <3>2. sendBusy' = sendBusy
      BY <2>2 DEF PostLands
    <3> QED
      BY <1>1, <3>1, <3>2, Zenon DEF PaneInv, BusyFits
  <2> QED
    BY <2>1, <2>2
<1>10. PaneTypes'
  <2>1. writing' \in Nat /\ writing' <= typed
    BY DEF PostLands, PaneInv, PaneTypes
  <2> QED
    BY <1>1, <1>7, <2>1 DEF PaneInv, PaneTypes, IsList
<1>11. \A n \in 1..MaxPaneActs : CountFits(n)'
  <2>1. p.text = writing => writing' = 0
    BY <1>3 DEF PostLands, InView, SendFits
  <2>2. \A n \in 1..MaxPaneActs : Unspent(n)' => Unspent(n)
    BY <1>1, <1>3, <2>1 DEF PostLands, Unspent
  <2> QED
    BY <1>1, <2>2, CountsStay
<1> QED
  BY <1>2, <1>6, <1>7, <1>8, <1>9, <1>10, <1>11 DEF PaneInv

LEMMA PostFailsKeeps == ASSUME PaneInv, NEW p \in sends, PostFails(p) PROVE PaneInv'
<1>1. UNCHANGED <<job, mount, effect, shown, writing, typed, landed, stray, loads, thread,
          paneActs>>
      /\ sends' = sends \ {p}
  BY DEF PostFails
<1>2. Grown /\ ThreadsFit'
  BY <1>1, ThreadSame DEF PaneInv
<1>3. SendFits(p) /\ lostSends \in [1..MaxPaneActs -> Nat]
  BY DEF PaneInv, PaneTypes
<1>4. lostSends' \in [1..MaxPaneActs -> Nat]
  <2>1. \A n \in 1..MaxPaneActs : lostSends[n] + 1 \in Nat
    BY <1>3
  <2>2. CASE p.stored = Empty
    BY <1>3, <2>2 DEF PostFails
  <2>3. CASE p.stored # Empty
    <3>1. lostSends' = [lostSends EXCEPT ![p.text] = @ + 1]
      BY <2>3 DEF PostFails
    <3> QED
      BY <1>3, <2>1, <3>1
  <2> QED
    BY <2>2, <2>3
<1>5. (\A l \in loads' : LoadFits(l)') /\ IsList(shown)' /\ ShownFits'
  BY <1>1, <1>2, LoadsStay, ListShownStays
<1>6. (\A q \in sends' : SendFits(q)') /\ OneSend'
  BY <1>1, <1>2, SendsStay DEF PaneInv, PaneTypes
<1>7. BusyFits'
  <2>1. CASE InView(p)
    BY <1>1, <2>1 DEF PostFails, InView, PaneInv, OneSend, BusyFits
  <2>2. CASE ~InView(p)
    <3>1. (\E q \in sends' : q.mount = mount) <=> \E q \in sends : q.mount = mount
      BY <1>1, <2>2 DEF InView
    <3>2. sendBusy' = sendBusy
      BY <2>2 DEF PostFails
    <3> QED
      BY <1>1, <3>1, <3>2, Zenon DEF PaneInv, BusyFits
  <2> QED
    BY <2>1, <2>2
<1>8. ASSUME NEW n \in 1..MaxPaneActs PROVE CountFits(n)'
  <2>1. CountFits(n) /\ Stored(n)' = Stored(n) /\ lostSends[n] \in Nat
    BY <1>1, <1>3, ThreadSame DEF PaneInv
  <2>2. Cardinality(Stored(n)) \in Nat
    BY <2>1, FS_CardinalityType DEF CountFits
  <2>3. CASE p.stored # Empty /\ n = p.text
    BY <1>3, <2>1, <2>2, <2>3 DEF PostFails, CountFits
  <2>4. CASE ~(p.stored # Empty /\ n = p.text)
    <3>1. lostSends'[n] = lostSends[n]
      BY <1>3, <2>4 DEF PostFails
    <3>2. Unspent(n)' => Unspent(n)
      BY <1>1, <2>4 DEF Unspent
    <3> QED
      BY <2>1, <3>1, <3>2 DEF CountFits
  <2> QED
    BY <2>3, <2>4
<1> QED
  BY <1>1, <1>2, <1>4, <1>5, <1>6, <1>7, <1>8 DEF PaneInv, PaneTypes

\* The text to the customer touches neither the thread nor what is posted to it.
LEMMA NoticesKeep ==
    ASSUME PaneInv, UNCHANGED <<job, mount, effect, shown, writing, sendBusy, typed, landed, stray,
                                loads, sends, thread, lostSends>>,
           paneActs' \in Nat, paneActs' >= paneActs, paneActs' <= MaxPaneActs
    PROVE  PaneInv'
<1>1. Grown /\ ThreadsFit'
  BY ThreadSame DEF PaneInv
<1>2. PaneTypes'
  BY PaneAssumption DEF PaneInv, PaneTypes
<1>3. (\A l \in loads' : LoadFits(l)') /\ IsList(shown)' /\ ShownFits'
  BY <1>1, LoadsStay, ListShownStays
<1>4. (\A p \in sends' : SendFits(p)') /\ OneSend' /\ BusyFits'
  BY <1>1, SendsStay, BusyStays DEF PaneInv, PaneTypes
<1>5. \A n \in 1..MaxPaneActs : CountFits(n)'
  <2>1. \A n \in 1..MaxPaneActs : Unspent(n)' => Unspent(n)
    BY DEF Unspent
  <2> QED
    BY <2>1, CountsStay
<1> QED
  BY <1>1, <1>2, <1>3, <1>4, <1>5 DEF PaneInv

LEMMA PaneSteps == PaneInv /\ [PaneNext]_paneVars => PaneInv'
<1> SUFFICES ASSUME PaneInv, [PaneNext]_paneVars PROVE PaneInv'
  OBVIOUS
<1>1. paneActs \in Nat /\ paneActs <= MaxPaneActs /\ MaxPaneActs \in Nat
  BY PaneAssumption DEF PaneInv, PaneTypes
<1>2. ASSUME NEW j \in Job, Select(j) \/ TechnicianWrites(j) PROVE PaneInv'
  BY <1>2, SelectKeeps, TechnicianWritesKeeps
<1>3. CASE Leave \/ PollAgain \/ TypeText \/ SendPost
  BY <1>3, LeavePaneKeeps, PollAgainKeeps, TypeTextKeeps, SendPostKeeps
<1>4. CASE Notify
  BY <1>1, <1>4, NoticesKeep DEF Notify, PaneAct, paneScreen
<1>5. ASSUME NEW l \in loads, AnswerLoad(l) \/ LoadLands(l) \/ LoadFails(l) PROVE PaneInv'
  BY <1>5, AnswerLoadKeeps, LoadLandsKeeps, LoadFailsKeeps
<1>6. ASSUME NEW p \in sends, StorePost(p) \/ PostLands(p) \/ PostFails(p) PROVE PaneInv'
  BY <1>6, StorePostKeeps, PostLandsKeeps, PostFailsKeeps
<1>7. ASSUME NEW n \in notices, SendText(n) PROVE PaneInv'
  BY <1>1, <1>7, NoticesKeep DEF SendText, paneScreen, PaneQuiet, paneCounts
<1>8. ASSUME NEW n \in notices, NoticeLands(n) PROVE PaneInv'
  BY <1>1, <1>8, NoticesKeep DEF NoticeLands, paneApi
<1>9. CASE UNCHANGED paneVars
  BY <1>1, <1>9, NoticesKeep DEF paneVars, paneScreen, paneRequests, paneApi, paneCounts
<1> QED
  BY <1>2, <1>3, <1>4, <1>5, <1>6, <1>7, <1>8, <1>9 DEF PaneNext

\* A list without a message twice has as many members as places.
LEMMA ListLength ==
    ASSUME NEW s, IsList(s)
    PROVE  Cardinality(ToSet(s)) = Len(s)
<1>1. Len(s) \in Nat /\ DOMAIN s = 1..Len(s)
  BY DEF IsList
<1>2. PICK f : f = [i \in 1..Len(s) |-> s[i]]
  OBVIOUS
<1>3. f \in Bijection(1..Len(s), ToSet(s))
  BY <1>1, <1>2 DEF Bijection, Injection, Surjection, IsInjective, IsList, ToSet
<1>4. ExistsBijection(1..Len(s), ToSet(s))
  BY <1>3 DEF ExistsBijection
<1> QED
  BY <1>1, <1>4, FS_CountingElements

\* In every reachable state of the pane a message is stored once, in the thread of its job,
\* a list read is a thread's own, and of the sends that remain each is of one text.
THEOREM PaneInvariant == PaneSpec => []PaneInv
<1>1. PaneInit => PaneInv
  BY PaneStarts
<1>2. PaneInv /\ [PaneNext]_paneVars => PaneInv'
  BY PaneSteps
<1> QED
  BY <1>1, <1>2, PTL DEF PaneSpec

\* However selections, polls, posts and lost answers interleave, the pane shows the thread of
\* its job apart from posts answered late, and a text is stored more than once only if an
\* answer to it was lost (JobMessageThread.tsx, Inspector.tsx, routes/jobMessages.ts).
THEOREM PaneStaysHonest == PaneSpec => []PaneIsHonest
<1>1. ASSUME PaneInv PROVE PaneIsHonest
  <2>1. ThreadIsOfJob
    BY <1>1, ListLength DEF PaneInv, IsList, IsStored, ShownFits, ThreadIsOfJob
  <2>2. PostsAreSingle
    BY <1>1 DEF PaneInv, BusyFits, CountFits, PostsAreSingle, InView
  <2> QED
    BY <2>1, <2>2 DEF PaneIsHonest
<1> QED
  BY <1>1, PaneInvariant, PTL

-----------------------------------------------------------------------------
(* SlackPane: the inductive invariant *)

SurfaceTypes ==
    /\ teams \subseteq Team /\ IsFiniteSet(teams)
    /\ routesOf \in [Team -> Routing] /\ routes \in Routing
    /\ status \in Team \cup {"off", Nil} /\ channels \subseteq Channel
    /\ load \in [Slots -> Reads \cup {Nil}]
    /\ busy \in Writes \cup {Nil}
\* A mutation under way; the read that follows a disconnect belongs to it.
WriteFits ==
    busy # Nil =>
        /\ busy.kind = "route" => busy.event \in Event /\ busy.at # "reload"
        /\ busy.kind = "connect" => busy.at = "asked"
        /\ busy.at = "asked" => busy.age = "new"
ReloadFits == load[0] # Nil => busy # Nil /\ busy.at = "reload"

\* The calls of the effects: one list of channels at most, while nothing is listed, and
\* histories of the selected channel.
CallFits(call) ==
    /\ Connected(status)
    /\ call = [effect |-> call.effect, of |-> call.of, at |-> call.at]
    /\ \/ /\ call.effect = "channels" /\ channels = {} /\ active = Nil
          /\ call.at \in Team \cup {"asked", "refused"}
       \/ /\ call.effect = "history" /\ call.of = active /\ call.of \in Channel
          /\ call.at \in {"asked", "refused", call.of}
CallsFit ==
    /\ \A call \in calls : CallFits(call)
    /\ \A a, b \in calls : a.effect = "channels" /\ b.effect = "channels" => a = b

\* What the API holds, where it cannot hold two workspaces.
One == \A t, u \in teams : t = u
Holds(s, r) ==
    One => IF teams = {} THEN s = "off" /\ r = NoRoutes ELSE s \in teams /\ r = routesOf[s]

\* A route that is written and not yet shown; what a view becomes when it is.
Saved == busy # Nil /\ busy.kind = "route" /\ busy.at = "done"
WithSave(r) == IF Saved THEN [r EXCEPT ![busy.event] = busy.channel] ELSE r
\* A write that the surface will make up for by a read, or has been overtaken.
MadeUp == busy # Nil /\ busy.at = "done" /\ (busy.kind = "disconnect" \/ busy.age = "passed")

\* A surface that has missed nothing shows what the API has, apart from a route that its own
\* mutation has written meanwhile.
ViewFits == ~behind => MadeUp \/ Holds(status, WithSave(routes))
WriteShows ==
    Saved /\ ~MadeUp =>
        teams # {} /\ (One => \A t \in teams : routesOf[t][busy.event] = busy.channel)
\* A read carries what the API had, and has it still unless somebody wrote since.
ReadFits(i) ==
    Served(load[i]) =>
        /\ load[i].age = "new" => Holds(load[i].at, load[i].routes)
        /\ load[i].age = "mended" =>
              /\ busy # Nil /\ busy.at = "done" /\ busy.kind \in {"route", "disconnect"}
              /\ MadeUp \/ Holds(load[i].at, WithSave(load[i].routes))

SurfaceInv ==
    /\ SurfaceTypes /\ WriteFits /\ ReloadFits
    /\ CallsFit /\ ListsFit
    /\ ViewFits /\ WriteShows /\ \A i \in Slots : ReadFits(i)

LEMMA SlotZero == 0 \in Slots
  BY SlackAssumption DEF Slots

\* What a read is, asked or answered.
LEMMA ReadKinds ==
    ASSUME NEW l \in Reads
    PROVE  /\ l # Nil
           /\ Served(l) => /\ l = [at |-> l.at, age |-> l.age, routes |-> l.routes]
                           /\ l.at \in Team \cup {"off"} /\ l.age \in Ages /\ l.routes \in Routing
  BY SlackAssumption DEF Reads, Served

LEMMA AskedIsRead == AskedRead \in Reads /\ ~Served(AskedRead) /\ AskedRead # Nil /\ ~Served(Nil)
  BY SlackAssumption DEF Reads, Served, AskedRead

\* A read that is answered: what it is when it ages.
LEMMA ReadAges ==
    ASSUME NEW l \in Reads, Served(l), NEW a \in Ages, NEW k, k = [l EXCEPT !.age = a]
    PROVE  /\ k \in Reads /\ Served(k) /\ k # Nil
           /\ k.at = l.at /\ k.age = a /\ k.routes = l.routes
<1>1. /\ l = [at |-> l.at, age |-> l.age, routes |-> l.routes]
      /\ l.at \in Team \cup {"off"} /\ l.routes \in Routing
  BY ReadKinds
<1>2. k = [at |-> l.at, age |-> a, routes |-> l.routes]
  BY <1>1
<1>3. k \in Reads /\ k.at # "asked"
  BY <1>1, <1>2, SlackAssumption DEF Reads
<1> QED
  BY <1>2, <1>3, ReadKinds DEF Served

\* How the answered reads age: table is what Aged or Passed makes of load.
Ageing(table, young, age) ==
    /\ table \in [Slots -> Reads \cup {Nil}]
    /\ \A i \in Slots :
          IF Served(load[i]) /\ load[i].age \in young
          THEN /\ Served(table[i]) /\ table[i].age = age
               /\ table[i].at = load[i].at /\ table[i].routes = load[i].routes
          ELSE table[i] = load[i]

LEMMA AgedReads ==
    ASSUME SurfaceTypes, NEW age \in Ages
    PROVE  Ageing(Aged(age), {"new", "mended"}, age)
<1> SUFFICES ASSUME NEW i \in Slots
    PROVE  /\ Aged(age)[i] \in Reads \cup {Nil}
           /\ IF Served(load[i]) /\ load[i].age \in {"new", "mended"}
              THEN /\ Served(Aged(age)[i]) /\ Aged(age)[i].age = age
                   /\ Aged(age)[i].at = load[i].at /\ Aged(age)[i].routes = load[i].routes
              ELSE Aged(age)[i] = load[i]
  BY DEF Ageing, Aged
<1>1. load[i] \in Reads \cup {Nil} /\ (Served(load[i]) => load[i] \in Reads)
  BY AskedIsRead DEF SurfaceTypes
<1>2. Served(load[i]) => (load[i].age # "passed" <=> load[i].age \in {"new", "mended"})
  BY <1>1, ReadKinds DEF Ages
<1>3. CASE Served(load[i]) /\ load[i].age # "passed"
  <2>1. PICK l, k : l = load[i] /\ k = [l EXCEPT !.age = age]
    OBVIOUS
  <2>2. Aged(age)[i] = k
    BY <1>3, <2>1 DEF Aged
  <2> QED
    BY <1>1, <1>2, <1>3, <2>1, <2>2, ReadAges
<1>4. CASE ~(Served(load[i]) /\ load[i].age # "passed")
  <2>1. Aged(age)[i] = load[i]
    BY <1>4 DEF Aged
  <2> QED
    BY <1>1, <1>2, <1>4, <2>1
<1> QED
  BY <1>3, <1>4

LEMMA PassedReads ==
    ASSUME SurfaceTypes
    PROVE  Ageing(Passed, {"mended"}, "passed")
<1> SUFFICES ASSUME NEW i \in Slots
    PROVE  /\ Passed[i] \in Reads \cup {Nil}
           /\ IF Served(load[i]) /\ load[i].age \in {"mended"}
              THEN /\ Served(Passed[i]) /\ Passed[i].age = "passed"
                   /\ Passed[i].at = load[i].at /\ Passed[i].routes = load[i].routes
              ELSE Passed[i] = load[i]
  BY DEF Ageing, Passed
<1>1. load[i] \in Reads \cup {Nil} /\ (Served(load[i]) => load[i] \in Reads)
  BY AskedIsRead DEF SurfaceTypes
<1>2. CASE Served(load[i]) /\ load[i].age = "mended"
  <2>1. PICK l, k : l = load[i] /\ k = [l EXCEPT !.age = "passed"]
    OBVIOUS
  <2>2. Passed[i] = k
    BY <1>2, <2>1 DEF Passed
  <2>3. "passed" \in Ages
    BY DEF Ages
  <2> QED
    BY <1>1, <1>2, <2>1, <2>2, <2>3, ReadAges
<1>3. CASE ~(Served(load[i]) /\ load[i].age = "mended")
  BY <1>1, <1>3 DEF Passed
<1> QED
  BY <1>2, <1>3

-----------------------------------------------------------------------------
(* The lists *)

LEMMA ListsStay ==
    ASSUME CallsFit, ListsFit, UNCHANGED <<status, channels, active, messages>>,
        calls' \subseteq calls
    PROVE  CallsFit' /\ ListsFit'
  BY DEF CallsFit, CallFits, ListsFit, Connected

\* A surface that is opened anew lists nothing.
LEMMA FreshLists ==
    ASSUME FreshSurface
    PROVE  CallsFit' /\ ListsFit'
  BY DEF FreshSurface, CallsFit, ListsFit

\* The workspace that a read names has its channels listed, or no lists at all.
LEMMA ReadLists ==
    ASSUME CallsFit, ListsFit, NEW s, ListsFor(s), status' = s
    PROVE  CallsFit' /\ ListsFit' /\ (channels \subseteq Channel => channels' \subseteq Channel)
<1>1. CASE Connected(s) = Connected(status)
  BY <1>1 DEF ListsFor, listVars, CallsFit, CallFits, ListsFit, Connected
<1>2. CASE Connected(s) # Connected(status)
  <2>1. StillHeard({"channels", "history"}) = {}
    BY DEF StillHeard, CallsFit, CallFits
  <2>2. /\ channels' = {} /\ active' = Nil /\ messages' = Nil
        /\ calls' = IF Connected(s) THEN {CallOf("channels", Nil)} ELSE {}
    BY <1>2, <2>1 DEF ListsFor
  <2>3. Connected(s) => Connected(status)'
    BY DEF Connected
  <2>4. PICK call : call = CallOf("channels", Nil)
    OBVIOUS
  <2>5. Connected(s) => CallFits(call)'
    BY <2>2, <2>3, <2>4 DEF CallFits, CallOf
  <2> QED
    BY <2>2, <2>4, <2>5 DEF CallsFit, ListsFit
<1> QED
  BY <1>1, <1>2

LEMMA PickLists ==
    ASSUME SurfaceTypes, CallsFit, ListsFit, NEW c \in Channel, Pick(c)
    PROVE  CallsFit' /\ ListsFit'
<1>1. PICK call : call = CallOf("history", c)
  OBVIOUS
<1>2. calls' = {call}
  <2>1. \A other \in calls : other.effect = "history"
    BY DEF CallsFit, CallFits, Pick
  <2> QED
    BY <1>1, <2>1 DEF Pick, StillHeard
<1>3. CallFits(call)'
  BY <1>1 DEF CallFits, CallOf, Pick, Connected
<1>4. call.effect = "history"
  BY <1>1 DEF CallOf
<1> QED
  BY <1>2, <1>3, <1>4 DEF CallsFit, ListsFit, Pick, Connected

LEMMA ServeCallLists ==
    ASSUME SurfaceTypes, CallsFit, ListsFit, NEW call \in calls, ServeCall(call)
    PROVE  CallsFit' /\ ListsFit'
<1>1. PICK a \in Answers(call) : calls' = (calls \ {call}) \cup {[call EXCEPT !.at = a]}
  BY DEF ServeCall
<1>2. CallFits(call) /\ call = [effect |-> call.effect, of |-> call.of, at |-> call.at]
  BY DEF CallsFit, CallFits
<1>3. PICK k : k = [call EXCEPT !.at = a]
  OBVIOUS
<1>4. k = [effect |-> call.effect, of |-> call.of, at |-> a]
  BY <1>2, <1>3
<1>5. CallFits(k)
  <2>1. CASE call.effect = "channels"
    BY <1>2, <1>4, <2>1 DEF CallFits, Answers, SurfaceTypes
  <2>2. CASE call.effect = "history"
    BY <1>2, <1>4, <2>2 DEF CallFits, Answers
  <2> QED
    BY <1>2, <2>1, <2>2 DEF CallFits
<1>6. UNCHANGED <<status, channels, active, messages>>
  BY DEF ServeCall
<1>7. \A other \in calls' : CallFits(other)
  BY <1>1, <1>3, <1>5 DEF CallsFit
<1>8. \A x, y \in calls' : x.effect = "channels" /\ y.effect = "channels" => x = y
  BY <1>1, <1>3, <1>4 DEF CallsFit
<1> QED
  BY <1>6, <1>7, <1>8 DEF CallsFit, CallFits, ListsFit, Connected

LEMMA CallLandsLists ==
    ASSUME SurfaceTypes, CallsFit, ListsFit, NEW call \in calls, CallLands(call)
    PROVE  CallsFit' /\ ListsFit' /\ channels' \subseteq Channel
<1>1. CallFits(call) /\ calls' = calls \ {call} /\ status' = status /\ active' = active
      /\ call.at # "asked"
  BY DEF CallsFit, CallLands
<1>2. CASE call.effect = "channels"
  <2>1. \A other \in calls' : other.effect = "history" /\ other.of = active /\ other.of \in Channel
    BY <1>1, <1>2 DEF CallsFit, CallFits
  <2>2. calls' = {}
    BY <1>1, <1>2, <2>1, SlackAssumption DEF CallFits
  <2>3. channels' \subseteq Channel
    BY <1>1, <1>2 DEF CallLands, CallFits, Channel, SurfaceTypes
  <2>4. messages' = messages /\ Connected(status)
    BY <1>1, <1>2 DEF CallLands, CallFits
  <2>5. active = Nil
    BY <1>1, <1>2 DEF CallFits
  <2> QED
    BY <1>1, <2>2, <2>3, <2>4, <2>5 DEF CallsFit, ListsFit, Connected
<1>3. CASE call.effect = "history"
  <2>1. channels' = channels
    BY <1>1, <1>3 DEF CallLands
  <2>2. messages' # Nil => messages' = active
    BY <1>1, <1>3, SlackAssumption DEF CallLands, CallFits, ListsFit
  <2> QED
    BY <1>1, <2>1, <2>2 DEF CallsFit, CallFits, ListsFit, Connected, SurfaceTypes
<1> QED
  BY <1>1, <1>2, <1>3 DEF CallFits

-----------------------------------------------------------------------------
(* The views: where the API and what is saved are as they were *)

Calm == ~Saved /\ ~MadeUp
LEMMA Steady ==
    ASSUME SurfaceInv, UNCHANGED slackApi, busy' = busy \/ (Calm /\ Calm')
    PROVE  /\ \A s, r : Holds(s, r)' <=> Holds(s, r)
           /\ \A r : WithSave(r)' = WithSave(r)
           /\ MadeUp' <=> MadeUp
           /\ WriteShows'
           /\ \A i \in Slots : load'[i] = load[i] => ReadFits(i)'
           /\ UNCHANGED <<status, routes>> /\ (behind => behind') => ViewFits'
<1>1. \A s, r : Holds(s, r)' <=> Holds(s, r)
  BY DEF slackApi, Holds, One
<1>2. \A r : WithSave(r)' = WithSave(r)
  BY DEF Calm, WithSave, Saved
<1>3. MadeUp' <=> MadeUp
  BY DEF Calm, MadeUp
<1>4. WriteShows'
  BY DEF SurfaceInv, slackApi, Calm, WriteShows, Saved, MadeUp, One
<1>5. ASSUME NEW i \in Slots, load'[i] = load[i] PROVE ReadFits(i)'
  <2>1. PICK l : l = load[i]
    OBVIOUS
  <2>2. Served(l)' <=> Served(l)
    BY DEF Served
  <2>3. CASE busy' = busy
    BY <1>1, <1>2, <1>3, <1>5, <2>1, <2>2, <2>3 DEF SurfaceInv, ReadFits
  <2>4. CASE Calm /\ Calm'
    <3>1. Served(l) => l.age # "mended"
      BY <2>1, <2>4 DEF SurfaceInv, ReadFits, Calm, Saved, MadeUp
    <3> QED
      BY <1>1, <1>5, <2>1, <2>2, <3>1 DEF SurfaceInv, ReadFits
  <2> QED
    BY <2>3, <2>4
<1>6. UNCHANGED <<status, routes>> /\ (behind => behind') => ViewFits'
  <2> SUFFICES ASSUME UNCHANGED <<status, routes>>, behind => behind', ~behind'
          PROVE MadeUp' \/ Holds(status, WithSave(routes))'
    BY DEF ViewFits
  <2>1. PICK s, r, w : s = status /\ r = routes /\ w = WithSave(r)
    OBVIOUS
  <2>2. MadeUp \/ Holds(s, w)
    BY <2>1 DEF SurfaceInv, ViewFits
  <2>3. WithSave(r)' = w
    BY <1>2, <2>1
  <2>4. Holds(status, WithSave(routes))' <=> Holds(s, w)'
    BY <2>1, <2>3 DEF WithSave, Holds
  <2> QED
    BY <1>1, <1>3, <2>2, <2>4
<1> QED
  BY <1>1, <1>2, <1>3, <1>4, <1>5, <1>6

-----------------------------------------------------------------------------
(* The steps of the surface *)

LEMMA ReadAgainKeeps == ASSUME SurfaceInv, ReadAgain PROVE SurfaceInv'
<1>1. UNCHANGED <<teams, routesOf, status, routes, channels, active, messages, calls, busy, behind>>
  BY DEF ReadAgain, slackApi, slackScreen, listVars
<1>2. PICK i \in Slots \ {0} : load[i] = Nil /\ load' = [load EXCEPT ![i] = AskedRead]
  BY DEF ReadAgain
<1>3. SurfaceTypes' /\ WriteFits' /\ ReloadFits'
  BY <1>1, <1>2, AskedIsRead DEF SurfaceInv, SurfaceTypes, WriteFits, ReloadFits
<1>4. CallsFit' /\ ListsFit'
  BY <1>1, ListsStay DEF SurfaceInv
<1>5. ViewFits' /\ WriteShows' /\ \A k \in Slots : load'[k] = load[k] => ReadFits(k)'
  BY <1>1, Steady DEF slackApi
<1>6. \A k \in Slots : ReadFits(k)'
  <2>1. ~Served(load'[i]) /\ \A k \in Slots \ {i} : load'[k] = load[k]
    BY <1>2, AskedIsRead DEF SurfaceInv, SurfaceTypes
  <2> QED
    BY <1>5, <2>1 DEF ReadFits, Served
<1> QED
  BY <1>3, <1>4, <1>5, <1>6 DEF SurfaceInv

LEMMA ServeLoadKeeps == ASSUME SurfaceInv, NEW i \in Slots, ServeLoad(i) PROVE SurfaceInv'
<1>1. UNCHANGED <<teams, routesOf, status, routes, channels, active, messages, calls, busy, behind>>
  BY DEF ServeLoad, slackApi, slackScreen, listVars
<1>2. PICK s \in teams \cup {"off"}, r \in Routing :
          /\ load' = [load EXCEPT ![i] = [at |-> s, age |-> "new", routes |-> r]]
          /\ \/ teams = {} /\ s = "off" /\ r = NoRoutes
             \/ s \in teams /\ r = routesOf[s]
  <2>1. NoRoutes \in Routing /\ \A t \in teams : routesOf[t] \in Routing
    BY DEF NoRoutes, Routing, SurfaceInv, SurfaceTypes
  <2> QED
    BY <2>1 DEF ServeLoad
<1>3. PICK k : k = [at |-> s, age |-> "new", routes |-> r]
  OBVIOUS
<1>4. k \in Reads /\ load[i] # Nil /\ load'[i] = k
  BY <1>2, <1>3 DEF ServeLoad, SurfaceInv, SurfaceTypes, Reads, Ages
<1>5. SurfaceTypes' /\ WriteFits' /\ ReloadFits'
  BY <1>1, <1>2, <1>3, <1>4, SlotZero DEF SurfaceInv, SurfaceTypes, WriteFits, ReloadFits
<1>6. CallsFit' /\ ListsFit'
  BY <1>1, ListsStay DEF SurfaceInv
<1>7. ViewFits' /\ WriteShows' /\ (\A j \in Slots : load'[j] = load[j] => ReadFits(j)')
      /\ \A s1, r1 : Holds(s1, r1)' <=> Holds(s1, r1)
  BY <1>1, Steady DEF slackApi
<1>8. \A j \in Slots : ReadFits(j)'
  <2>1. \A j \in Slots \ {i} : load'[j] = load[j]
    BY <1>2 DEF SurfaceInv, SurfaceTypes
  <2>2. Holds(s, r)
    BY <1>2 DEF Holds
  <2>3. ReadFits(i)'
    <3>1. Holds(s, r)' /\ load'[i].at = s /\ load'[i].routes = r /\ load'[i].age = "new"
      BY <1>2, <1>3, <1>4, <1>7, <2>2
    <3> QED
      BY <3>1 DEF ReadFits, Holds
  <2> QED
    BY <1>7, <2>1, <2>3
<1> QED
  BY <1>5, <1>6, <1>7, <1>8 DEF SurfaceInv

\* The read that a disconnect waits for ends it; until then nothing is written.
LEMMA ReloadEnds ==
    ASSUME SurfaceInv, NEW i \in Slots, load[i] # Nil, busy' = Reloaded(i)
    PROVE  busy' = busy \/ (Calm /\ Calm')
<1>1. CASE i = 0
  BY <1>1 DEF SurfaceInv, ReloadFits, Reloaded, Calm, Saved, MadeUp
<1>2. CASE i # 0
  BY <1>2 DEF Reloaded
<1> QED
  BY <1>1, <1>2

LEMMA ReadLandsKeeps == ASSUME SurfaceInv, NEW i \in Slots, ReadLands(i) PROVE SurfaceInv'
<1>1. UNCHANGED <<teams, routesOf>> /\ busy' = Reloaded(i) /\ Served(load[i])
      /\ load' = [load EXCEPT ![i] = Nil]
  BY DEF ReadLands, slackApi
<1>2. PICK l : l = load[i]
  OBVIOUS
<1>3. l \in Reads /\ l.at \in Team \cup {"off"} /\ l.age \in Ages /\ l.routes \in Routing /\ l # Nil
  BY <1>1, <1>2, ReadKinds, AskedIsRead DEF SurfaceInv, SurfaceTypes
<1>4. status' = l.at /\ routes' = l.routes /\ ListsFor(l.at) /\ (behind' <=> l.age = "passed")
  BY <1>2 DEF ReadLands
<1>5. CallsFit' /\ ListsFit' /\ channels' \subseteq Channel
  BY <1>4, ReadLists DEF SurfaceInv, SurfaceTypes
<1>6. busy' = busy \/ (Calm /\ Calm')
  BY <1>1, <1>2, <1>3, ReloadEnds
<1>7. SurfaceTypes'
  BY <1>1, <1>3, <1>4, <1>5 DEF SurfaceInv, SurfaceTypes, Reloaded
<1>8. WriteFits' /\ ReloadFits'
  BY <1>1, SlotZero DEF SurfaceInv, SurfaceTypes, WriteFits, ReloadFits, Reloaded
<1>9. /\ \A s, r : Holds(s, r)' <=> Holds(s, r)
      /\ \A r : WithSave(r)' = WithSave(r)
      /\ MadeUp' <=> MadeUp
      /\ WriteShows'
      /\ \A k \in Slots : load'[k] = load[k] => ReadFits(k)'
  BY <1>1, <1>6, Steady DEF slackApi
<1>10. \A k \in Slots : ReadFits(k)'
  <2>1. ~Served(load'[i]) /\ \A k \in Slots \ {i} : load'[k] = load[k]
    BY <1>1, AskedIsRead DEF SurfaceInv, SurfaceTypes
  <2> QED
    BY <1>9, <2>1 DEF ReadFits, Served
<1>11. ViewFits'
  <2> SUFFICES ASSUME l.age # "passed" PROVE MadeUp' \/ Holds(status, WithSave(routes))'
    BY <1>4 DEF ViewFits
  <2>1. PICK s, r, w : s = l.at /\ r = l.routes /\ w = WithSave(r)
    OBVIOUS
  <2>2. MadeUp \/ Holds(s, w)
    <3>1. CASE l.age = "new"
      <4>1. Holds(s, r)
        BY <1>1, <1>2, <2>1, <3>1 DEF SurfaceInv, ReadFits
      <4>2. CASE Saved /\ ~MadeUp
        <5>1. ASSUME One PROVE Holds(s, w)
          <6>1. s \in teams /\ r = routesOf[s] /\ routesOf[s][busy.event] = busy.channel
            BY <4>1, <4>2, <5>1 DEF SurfaceInv, WriteShows, Holds
          <6>2. [r EXCEPT ![busy.event] = busy.channel] = r
            BY <1>3, <2>1, <6>1 DEF Routing
          <6> QED
            BY <4>1, <4>2, <2>1, <6>2 DEF WithSave
        <5> QED
          BY <5>1 DEF Holds
      <4>3. CASE ~Saved
        BY <4>1, <4>3, <2>1 DEF WithSave
      <4> QED
        BY <4>2, <4>3
    <3>2. CASE l.age = "mended"
      BY <1>1, <1>2, <2>1, <3>2 DEF SurfaceInv, ReadFits
    <3> QED
      BY <1>3, <3>1, <3>2 DEF Ages
  <2>3. Holds(status, WithSave(routes))' <=> Holds(s, w)'
    BY <1>4, <1>9, <2>1 DEF Holds, WithSave
  <2> QED
    BY <1>9, <2>2, <2>3
<1> QED
  BY <1>5, <1>7, <1>8, <1>9, <1>10, <1>11 DEF SurfaceInv

\* The steps that leave the API, the reads and what is written alone.
LEMMA ListStepsKeep ==
    ASSUME SurfaceInv, UNCHANGED <<teams, routesOf, status, routes, load, busy, behind>>,
           CallsFit', ListsFit', channels' \subseteq Channel
    PROVE  SurfaceInv'
<1>1. SurfaceTypes' /\ WriteFits' /\ ReloadFits'
  BY DEF SurfaceInv, SurfaceTypes, WriteFits, ReloadFits
<1>2. ViewFits' /\ WriteShows' /\ \A i \in Slots : load'[i] = load[i] => ReadFits(i)'
  BY Steady DEF slackApi
<1> QED
  BY <1>1, <1>2 DEF SurfaceInv

LEMMA PickKeeps == ASSUME SurfaceInv, NEW c \in Channel, Pick(c) PROVE SurfaceInv'
<1>1. CallsFit' /\ ListsFit'
  BY PickLists DEF SurfaceInv
<1> QED
  BY <1>1, ListStepsKeep DEF Pick, slackApi, SurfaceInv, SurfaceTypes

LEMMA CallsKeep ==
    ASSUME SurfaceInv, NEW call \in calls, ServeCall(call) \/ CallLands(call) \/ CallLost(call)
    PROVE  SurfaceInv'
<1>1. CASE ServeCall(call)
  BY <1>1, ServeCallLists, ListStepsKeep DEF ServeCall, slackApi, SurfaceInv, SurfaceTypes
<1>2. CASE CallLands(call)
  BY <1>2, CallLandsLists, ListStepsKeep DEF CallLands, slackApi, SurfaceInv
<1>3. CASE CallLost(call)
  <2>1. CallsFit' /\ ListsFit'
    BY <1>3, ListsStay DEF CallLost, SurfaceInv
  <2> QED
    BY <1>3, <2>1, ListStepsKeep DEF CallLost, slackApi, SurfaceInv, SurfaceTypes
<1> QED
  BY <1>1, <1>2, <1>3

LEMMA ReadLostKeeps == ASSUME SurfaceInv, NEW i \in Slots, ReadLost(i) PROVE SurfaceInv'
<1>1. UNCHANGED <<teams, routesOf, status, routes, channels, active, messages, calls>>
      /\ busy' = Reloaded(i) /\ load[i] # Nil /\ load' = [load EXCEPT ![i] = Nil]
      /\ (behind => behind')
  BY DEF ReadLost, slackApi, listVars
<1>2. busy' = busy \/ (Calm /\ Calm')
  BY <1>1, ReloadEnds
<1>3. SurfaceTypes' /\ WriteFits' /\ ReloadFits'
  BY <1>1, SlotZero DEF SurfaceInv, SurfaceTypes, WriteFits, ReloadFits, Reloaded
<1>4. CallsFit' /\ ListsFit'
  BY <1>1, ListsStay DEF SurfaceInv
<1>5. ViewFits' /\ WriteShows' /\ \A k \in Slots : load'[k] = load[k] => ReadFits(k)'
  BY <1>1, <1>2, Steady DEF slackApi
<1>6. \A k \in Slots : ReadFits(k)'
  <2>1. ~Served(load'[i]) /\ \A k \in Slots \ {i} : load'[k] = load[k]
    BY <1>1, AskedIsRead DEF SurfaceInv, SurfaceTypes
  <2> QED
    BY <1>5, <2>1 DEF ReadFits, Served
<1> QED
  BY <1>3, <1>4, <1>5, <1>6 DEF SurfaceInv

\* What is under way.
LEMMA WriteKinds ==
    ASSUME NEW b \in Writes
    PROVE  /\ b # Nil
           /\ b = [kind |-> b.kind, event |-> b.event, channel |-> b.channel, at |-> b.at,
              age |-> b.age]
           /\ b.kind \in {"connect", "disconnect", "route"} /\ b.event \in Event \cup {Nil}
           /\ b.channel \in Channel \cup {Nil} /\ b.at \in {"asked", "done", "refused", "reload"}
           /\ b.age \in Ages
  BY SlackAssumption DEF Writes

LEMMA StartKeeps ==
    ASSUME SurfaceInv, NEW kind \in {"connect", "disconnect", "route"}, NEW e \in Event \cup {Nil},
           NEW c \in Channel \cup {Nil}, Start(kind, e, c), kind = "route" => e \in Event
    PROVE  SurfaceInv'
<1>1. UNCHANGED <<teams, routesOf, status, routes, channels, active, messages, calls, load, behind>>
      /\ busy = Nil
  BY DEF Start, slackApi, listVars
<1>2. busy' = [kind |-> kind, event |-> e, channel |-> c, at |-> "asked", age |-> "new"]
  BY DEF Start
<1>3. busy' \in Writes /\ Calm /\ Calm'
  BY <1>1, <1>2 DEF Writes, Ages, Calm, Saved, MadeUp
<1>4. SurfaceTypes' /\ WriteFits' /\ ReloadFits'
  BY <1>1, <1>2, <1>3 DEF SurfaceInv, SurfaceTypes, WriteFits, ReloadFits
<1>5. CallsFit' /\ ListsFit'
  BY <1>1, ListsStay DEF SurfaceInv
<1>6. ViewFits' /\ WriteShows' /\ \A k \in Slots : ReadFits(k)'
  BY <1>1, <1>3, Steady DEF slackApi
<1> QED
  BY <1>4, <1>5, <1>6 DEF SurfaceInv

LEMMA ConnectFailsKeeps == ASSUME SurfaceInv, ConnectFails PROVE SurfaceInv'
<1>1. UNCHANGED <<teams, routesOf, status, routes, channels, active, messages, calls, load, behind>>
      /\ busy # Nil /\ busy.kind = "connect" /\ busy' = Nil
  BY DEF ConnectFails, slackApi, listVars
<1>2. Calm /\ Calm'
  BY <1>1 DEF SurfaceInv, WriteFits, Calm, Saved, MadeUp
<1>3. SurfaceTypes' /\ WriteFits' /\ ReloadFits'
  BY <1>1 DEF SurfaceInv, SurfaceTypes, WriteFits, ReloadFits
<1>4. CallsFit' /\ ListsFit'
  BY <1>1, ListsStay DEF SurfaceInv
<1>5. ViewFits' /\ WriteShows' /\ \A k \in Slots : ReadFits(k)'
  BY <1>1, <1>2, Steady DEF slackApi
<1> QED
  BY <1>3, <1>4, <1>5 DEF SurfaceInv

LEMMA FreshKeeps == ASSUME SurfaceInv, FreshSurface, UNCHANGED slackApi PROVE SurfaceInv'
<1>1. NoRoutes \in Routing
  BY DEF NoRoutes, Routing
<1>2. load' \in [Slots -> Reads \cup {Nil}] /\ \A i \in Slots : load'[i] \in {AskedRead, Nil}
  BY AskedIsRead DEF FreshSurface
<1>3. load'[0] = Nil
  BY SlotZero DEF FreshSurface
<1>4. SurfaceTypes' /\ WriteFits' /\ ReloadFits'
  BY <1>1, <1>2, <1>3 DEF FreshSurface, slackApi, SurfaceInv, SurfaceTypes, WriteFits, ReloadFits
<1>5. CallsFit' /\ ListsFit'
  BY FreshLists
<1>6. ViewFits' /\ WriteShows'
  BY DEF FreshSurface, ViewFits, WriteShows, Saved
<1>7. \A i \in Slots : ReadFits(i)'
  <2>1. \A i \in Slots : ~Served(load'[i])
    BY <1>2, AskedIsRead
  <2> QED
    BY <2>1 DEF ReadFits, Served
<1> QED
  BY <1>4, <1>5, <1>6, <1>7 DEF SurfaceInv

\* A write that is served, and the answers that land before it is heard of.
LEMMA ServeDisconnectKeeps == ASSUME SurfaceInv, ServeDisconnect PROVE SurfaceInv'
<1>1. UNCHANGED <<status, routes, channels, active, messages, calls, behind>>
      /\ busy # Nil /\ busy.kind = "disconnect" /\ busy.at = "asked"
      /\ teams' = {} /\ routesOf' = Dropped /\ load' = Aged("mended")
  BY DEF ServeDisconnect, slackScreen, listVars
<1>2. busy \in Writes
  BY <1>1 DEF SurfaceInv, SurfaceTypes
<1>3. busy' = [busy EXCEPT !.at = "done"]
  BY DEF ServeDisconnect
<1>4. busy' \in Writes /\ busy'.kind = "disconnect" /\ busy'.at = "done" /\ busy' # Nil
  <2>1. busy' = [kind |-> busy.kind, event |-> busy.event, channel |-> busy.channel, at |-> "done",
                 age |-> busy.age]
    BY <1>2, <1>3, WriteKinds
  <2>2. busy' \in Writes
    BY <1>2, <2>1, WriteKinds DEF Writes
  <2> QED
    BY <1>1, <2>1, <2>2, WriteKinds
<1>5. Ageing(load', {"new", "mended"}, "mended")
  BY <1>1, AgedReads DEF SurfaceInv, Ages
<1>6. routesOf' \in [Team -> Routing]
  <2>1. NoRoutes \in Routing
    BY DEF NoRoutes, Routing
  <2> QED
    BY <1>1, <2>1 DEF Dropped, SurfaceInv, SurfaceTypes
<1>7. IsFiniteSet(teams')
  BY <1>1, FS_EmptySet
<1>8. SurfaceTypes'
  BY <1>1, <1>4, <1>5, <1>6, <1>7 DEF SurfaceInv, SurfaceTypes, Ageing
<1>9. WriteFits' /\ ReloadFits'
  <2>1. load[0] = Nil
    BY <1>1 DEF SurfaceInv, ReloadFits
  <2>2. load'[0] = Nil
    BY <1>5, <2>1, SlotZero, AskedIsRead DEF Ageing
  <2> QED
    BY <1>4, <2>2 DEF WriteFits, ReloadFits
<1>10. CallsFit' /\ ListsFit'
  BY <1>1, ListsStay DEF SurfaceInv
<1>11. MadeUp' /\ ~Saved'
  BY <1>4 DEF MadeUp, Saved
<1>12. ViewFits' /\ WriteShows'
  BY <1>11 DEF ViewFits, WriteShows
<1>13. \A i \in Slots : ReadFits(i)'
  <2> TAKE i \in Slots
  <2>1. Served(load'[i]) => load'[i].age \in {"mended", "passed"}
    <3>1. load[i] \in Reads \cup {Nil}
      BY DEF SurfaceInv, SurfaceTypes
    <3>2. Served(load[i]) => load[i].age \in Ages
      BY <3>1, ReadKinds, AskedIsRead
    <3> QED
      BY <1>5, <3>2 DEF Ageing, Ages
  <2> QED
    BY <1>4, <1>11, <2>1 DEF ReadFits, Served
<1> QED
  BY <1>8, <1>9, <1>10, <1>12, <1>13 DEF SurfaceInv

LEMMA DisconnectLandsKeeps == ASSUME SurfaceInv, DisconnectLands PROVE SurfaceInv'
<1>1. UNCHANGED <<teams, routesOf, status, routes, channels, active, messages, calls>>
      /\ busy # Nil /\ busy.kind = "disconnect" /\ busy.at = "done" /\ behind' = TRUE
  BY DEF DisconnectLands, slackApi, slackScreen, listVars
<1>2. busy \in Writes
  BY <1>1 DEF SurfaceInv, SurfaceTypes
<1>3. busy' \in Writes /\ busy'.kind = "disconnect" /\ busy'.at = "reload" /\ busy' # Nil
  <2>1. busy' = [kind |-> busy.kind, event |-> busy.event, channel |-> busy.channel,
            at |-> "reload",
                 age |-> busy.age]
    BY <1>2, WriteKinds DEF DisconnectLands
  <2>2. busy' \in Writes
    BY <1>2, <2>1, WriteKinds DEF Writes
  <2> QED
    BY <1>1, <2>1, <2>2, WriteKinds
<1>4. PICK table : table = Passed
  OBVIOUS
<1>5. Ageing(table, {"mended"}, "passed")
  BY <1>4, PassedReads DEF SurfaceInv
<1>6. load' = [table EXCEPT ![0] = AskedRead]
  BY <1>4 DEF DisconnectLands
<1>7. SurfaceTypes' /\ WriteFits' /\ ReloadFits'
  BY <1>1, <1>3, <1>5, <1>6, AskedIsRead DEF SurfaceInv, SurfaceTypes, WriteFits, ReloadFits, Ageing
<1>8. CallsFit' /\ ListsFit'
  BY <1>1, ListsStay DEF SurfaceInv
<1>9. ViewFits' /\ WriteShows'
  BY <1>1, <1>3 DEF ViewFits, WriteShows, Saved
<1>10. \A i \in Slots : ReadFits(i)'
  <2> TAKE i \in Slots
  <2>1. CASE i = 0
    <3>1. ~Served(load'[i])
      BY <1>5, <1>6, <2>1, AskedIsRead DEF Ageing
    <3> QED
      BY <3>1 DEF ReadFits, Served
  <2>2. CASE i # 0
    <3>1. load'[i] = table[i]
      BY <1>5, <1>6, <2>2 DEF Ageing
    <3>2. CASE Served(load[i]) /\ load[i].age = "mended"
      BY <1>5, <3>1, <3>2 DEF Ageing, ReadFits, Served
    <3>3. CASE ~(Served(load[i]) /\ load[i].age = "mended")
      <4>1. load'[i] = load[i]
        BY <1>5, <3>1, <3>3 DEF Ageing
      <4>2. ReadFits(i)
        BY DEF SurfaceInv
      <4> QED
        BY <1>1, <3>3, <4>1, <4>2 DEF ReadFits, Served, Holds, One
    <3> QED
      BY <3>2, <3>3
  <2> QED
    BY <2>1, <2>2
<1> QED
  BY <1>7, <1>8, <1>9, <1>10 DEF SurfaceInv

\* A route that no workspace can take, or one that is written.
LEMMA RouteRefusedKeeps ==
    ASSUME SurfaceInv, busy # Nil, busy.kind = "route", busy.at = "asked",
           busy' = [busy EXCEPT !.at = "refused"], UNCHANGED <<slackApi, load, slackScreen, behind>>
    PROVE  SurfaceInv'
<1>1. UNCHANGED <<teams, routesOf, status, routes, channels, active, messages, calls, load, behind>>
  BY DEF slackApi, slackScreen, listVars
<1>2. busy \in Writes
  BY DEF SurfaceInv, SurfaceTypes
<1>3. busy' = [kind |-> busy.kind, event |-> busy.event, channel |-> busy.channel, at |-> "refused",
               age |-> busy.age]
  BY <1>2, WriteKinds
<1>4. busy' \in Writes /\ busy' # Nil /\ busy'.event = busy.event /\ busy'.at = "refused"
      /\ busy'.kind = "route"
  <2>1. busy' \in Writes
    BY <1>2, <1>3, WriteKinds DEF Writes
  <2> QED
    BY <1>3, <2>1, WriteKinds
<1>5. Calm /\ Calm'
  BY <1>4 DEF Calm, Saved, MadeUp
<1>6. SurfaceTypes' /\ WriteFits' /\ ReloadFits'
  BY <1>1, <1>4 DEF SurfaceInv, SurfaceTypes, WriteFits, ReloadFits
<1>7. CallsFit' /\ ListsFit'
  BY <1>1, ListsStay DEF SurfaceInv
<1>8. ViewFits' /\ WriteShows' /\ \A k \in Slots : ReadFits(k)'
  BY <1>1, <1>5, Steady DEF slackApi
<1> QED
  BY <1>6, <1>7, <1>8 DEF SurfaceInv

\* A save that is served, by the workspace that the surface shows or by another.
LEMMA RouteDone ==
    ASSUME NEW b \in Writes, b.kind = "route", NEW own, NEW f,
           f = [b EXCEPT !.at = "done", !.age = IF own THEN @ ELSE "passed"]
    PROVE  f = [kind |-> "route", event |-> b.event, channel |-> b.channel, at |-> "done",
                age |-> IF own THEN b.age ELSE "passed"]
<1>1. PICK g : g = [b EXCEPT !.at = "done"]
  OBVIOUS
<1>2. g = [kind |-> "route", event |-> b.event, channel |-> b.channel, at |-> "done", age |-> b.age]
  BY <1>1, WriteKinds
<1>3. f = [g EXCEPT !.age = IF own THEN b.age ELSE "passed"]
  BY <1>1, <1>2
<1> QED
  BY <1>2, <1>3

LEMMA RouteWrittenKeeps ==
    ASSUME SurfaceInv, NEW t \in teams, busy # Nil, busy.kind = "route", busy.at = "asked",
           NEW e, NEW c, NEW age, e = busy.event, c = busy.channel,
           age = IF t = status THEN busy.age ELSE "passed",
           routesOf' = [routesOf EXCEPT ![t][e] = c],
           busy' = [kind |-> "route", event |-> e, channel |-> c, at |-> "done", age |-> age],
           load' = Aged("mended"), UNCHANGED <<teams, slackScreen, behind>>
    PROVE  SurfaceInv'
<1>1. UNCHANGED <<teams, status, routes, channels, active, messages, calls, behind>>
  BY DEF slackScreen, listVars
<1>2. busy \in Writes
  BY DEF SurfaceInv, SurfaceTypes
<1>3. e \in Event /\ c \in Channel \cup {Nil} /\ busy.age = "new" /\ age \in Ages
  BY <1>2, WriteKinds DEF SurfaceInv, WriteFits, Ages
<1>4. /\ busy'.kind = "route" /\ busy'.event = e /\ busy'.channel = c /\ busy'.at = "done"
      /\ busy'.age = age
  OBVIOUS
<1>5. busy' \in Writes /\ busy' # Nil /\ Saved'
  <2>1. busy' \in Writes
    BY <1>3 DEF Writes
  <2> QED
    BY <1>4, <2>1, WriteKinds DEF Saved
<1>6. PICK row : row = [routesOf[t] EXCEPT ![e] = c]
  OBVIOUS
<1>7. row \in Routing /\ row[e] = c /\ routesOf' = [routesOf EXCEPT ![t] = row]
  <2>1. t \in Team /\ routesOf[t] \in [Event -> Channel \cup {Nil}]
    BY DEF SurfaceInv, SurfaceTypes, Routing
  <2> QED
    BY <1>3, <1>6, <2>1 DEF Routing
<1>8. routesOf' \in [Team -> Routing] /\ routesOf'[t] = row /\ t \in Team
  BY <1>7 DEF SurfaceInv, SurfaceTypes
<1>9. Ageing(load', {"new", "mended"}, "mended")
  BY AgedReads DEF SurfaceInv, Ages
<1>10. SurfaceTypes'
  BY <1>1, <1>5, <1>8, <1>9 DEF SurfaceInv, SurfaceTypes, Ageing
<1>11. WriteFits' /\ ReloadFits'
  <2>1. load[0] = Nil
    BY DEF SurfaceInv, ReloadFits
  <2>2. load'[0] = Nil
    BY <1>9, <2>1, SlotZero, AskedIsRead DEF Ageing
  <2>3. busy'.kind = "route" /\ busy'.event \in Event /\ busy'.at = "done"
    BY <1>3, <1>4
  <2> QED
    BY <2>2, <2>3 DEF WriteFits, ReloadFits
<1>12. CallsFit' /\ ListsFit'
  BY <1>1, ListsStay DEF SurfaceInv
\* Whoever showed the one workspace as it was shows it as it is, with the route saved.
<1>13. ASSUME NEW s, NEW r, Holds(s, r) PROVE Holds(s, WithSave(r))'
  <2>1. PICK w : w = [r EXCEPT ![e] = c]
    OBVIOUS
  <2>2. WithSave(r)' = w
    BY <1>5, <1>4, <2>1 DEF WithSave
  <2>3. One => s = t /\ r = routesOf[t]
    BY <1>13 DEF Holds, One
  <2>4. One => s \in teams' /\ w = routesOf'[s]
    BY <1>1, <1>6, <1>8, <2>1, <2>3
  <2>5. One' => One
    BY <1>1 DEF One
  <2> QED
    BY <1>1, <2>2, <2>4, <2>5 DEF Holds
<1>14. ~Saved /\ ~MadeUp
  BY DEF Saved, MadeUp
<1>15. ViewFits'
  <2>1. PICK s, r : s = status /\ r = routes
    OBVIOUS
  <2>2. ~behind => Holds(s, r)
    BY <1>14, <2>1 DEF SurfaceInv, ViewFits, WithSave
  <2>3. Holds(status, WithSave(routes))' <=> Holds(s, WithSave(r))'
    BY <1>1, <2>1 DEF Holds, WithSave, Saved
  <2> QED
    BY <1>1, <1>13, <2>2, <2>3 DEF ViewFits
<1>16. WriteShows'
  <2>1. One => \A u \in teams' : routesOf'[u][busy'.event] = busy'.channel
    BY <1>1, <1>7, <1>8, <1>4 DEF One
  <2> QED
    BY <1>1, <2>1 DEF WriteShows, One
<1>17. ASSUME NEW i \in Slots PROVE ReadFits(i)'
  <2>1. PICK l, k : l = load[i] /\ k = load'[i]
    OBVIOUS
  <2>2. Served(l) => l.age \in Ages /\ l.age # "mended"
    BY <1>14, <2>1, ReadKinds, AskedIsRead DEF SurfaceInv, SurfaceTypes, ReadFits, Saved, MadeUp
  <2>3. CASE Served(l) /\ l.age = "new"
    <3>1. Served(k) /\ k.age = "mended" /\ k.at = l.at /\ k.routes = l.routes
      BY <1>9, <2>1, <2>3 DEF Ageing
    <3>2. Holds(l.at, l.routes)
      BY <2>1, <2>3 DEF SurfaceInv, ReadFits
    <3>3. Holds(l.at, WithSave(l.routes))'
      BY <1>13, <3>2
    <3>4. Holds(k.at, WithSave(k.routes))'
      BY <3>1, <3>3
    <3>5. Holds(load[i].at, WithSave(load[i].routes))' <=> Holds(k.at, WithSave(k.routes))'
      BY <2>1 DEF Holds, WithSave, Saved
    <3>6. load'[i].age = "mended"
      BY <2>1, <3>1
    <3> QED
      BY <1>4, <1>5, <3>4, <3>5, <3>6 DEF ReadFits
  <2>4. CASE ~(Served(l) /\ l.age = "new")
    <3>1. k = l /\ (Served(l) => l.age = "passed")
      BY <1>9, <2>1, <2>2, <2>4 DEF Ageing, Ages
    <3> QED
      BY <2>1, <3>1 DEF ReadFits, Served
  <2> QED
    BY <2>3, <2>4
<1> QED
  BY <1>10, <1>11, <1>12, <1>15, <1>16, <1>17 DEF SurfaceInv

LEMMA ServeRouteKeeps == ASSUME SurfaceInv, ServeRoute PROVE SurfaceInv'
<1>1. busy # Nil /\ busy.kind = "route" /\ busy.at = "asked" /\ UNCHANGED <<slackScreen, behind>>
      /\ busy \in Writes
  BY DEF ServeRoute, SurfaceInv, SurfaceTypes
<1>2. CASE busy' = [busy EXCEPT !.at = "refused"] /\ UNCHANGED <<slackApi, load>>
  BY <1>1, <1>2, RouteRefusedKeeps
<1>3. ASSUME NEW t \in teams, routesOf' = [routesOf EXCEPT ![t][busy.event] = busy.channel],
             busy' = [busy EXCEPT !.at = "done", !.age = IF t = status THEN @ ELSE "passed"],
             load' = Aged("mended"), UNCHANGED teams
      PROVE  SurfaceInv'
  <2>1. PICK e, c, age : e = busy.event /\ c = busy.channel
            /\ age = IF t = status THEN busy.age ELSE "passed"
    OBVIOUS
  <2>2. PICK b, own, f : b = busy /\ own = (t = status) /\ f = busy'
    OBVIOUS
  <2>3. f = [b EXCEPT !.at = "done", !.age = IF own THEN @ ELSE "passed"]
    BY <1>3, <2>2
  <2>4. f = [kind |-> "route", event |-> b.event, channel |-> b.channel, at |-> "done",
             age |-> IF own THEN b.age ELSE "passed"]
    BY <1>1, <2>2, <2>3, RouteDone
  <2>5. busy' = [kind |-> "route", event |-> e, channel |-> c, at |-> "done", age |-> age]
    BY <2>1, <2>2, <2>4
  <2>6. routesOf' = [routesOf EXCEPT ![t][e] = c]
    BY <1>3, <2>1
  <2>7. load' = Aged("mended") /\ UNCHANGED <<teams, slackScreen, behind>>
    BY <1>1, <1>3
  <2>8. busy # Nil /\ busy.kind = "route" /\ busy.at = "asked"
    BY <1>1
  <2> HIDE <1>1, <1>3
  <2> QED
    BY <2>1, <2>5, <2>6, <2>7, <2>8, RouteWrittenKeeps
<1> QED
  BY <1>2, <1>3 DEF ServeRoute

\* A write that is heard of, or never will be: the reads that were answered before it
\* are past mending.
LEMMA WriteEnds ==
    ASSUME SurfaceInv, UNCHANGED <<teams, routesOf, status, channels, active, messages, calls>>,
           busy # Nil, busy.at # "reload", busy' = Nil, load' = Passed,
           NEW r \in Routing, routes' = r, ~behind' => Holds(status, r)
    PROVE  SurfaceInv'
<1>1. Ageing(load', {"mended"}, "passed")
  BY PassedReads DEF SurfaceInv
<1>2. SurfaceTypes'
  BY <1>1 DEF SurfaceInv, SurfaceTypes, Ageing
<1>3. WriteFits' /\ ReloadFits'
  <2>1. load[0] = Nil
    BY DEF SurfaceInv, ReloadFits
  <2>2. load'[0] = Nil
    BY <1>1, <2>1, SlotZero, AskedIsRead DEF Ageing
  <2> QED
    BY <2>2 DEF WriteFits, ReloadFits
<1>4. CallsFit' /\ ListsFit'
  BY ListsStay DEF SurfaceInv
<1>5. ~Saved' /\ \A s, q : Holds(s, q)' <=> Holds(s, q)
  BY DEF Saved, Holds, One
<1>6. WriteShows'
  BY <1>5 DEF WriteShows
<1>7. ViewFits'
  <2>1. PICK s : s = status
    OBVIOUS
  <2>2. Holds(status, WithSave(routes))' <=> Holds(s, r)'
    BY <1>5, <2>1 DEF Holds, WithSave
  <2> QED
    BY <1>5, <2>1, <2>2 DEF ViewFits
<1>8. ASSUME NEW i \in Slots PROVE ReadFits(i)'
  <2>1. CASE Served(load[i]) /\ load[i].age = "mended"
    BY <1>1, <2>1 DEF Ageing, ReadFits, Served
  <2>2. CASE ~(Served(load[i]) /\ load[i].age = "mended")
    <3>1. load'[i] = load[i]
      BY <1>1, <2>2 DEF Ageing
    <3>2. ReadFits(i)
      BY DEF SurfaceInv
    <3> QED
      BY <2>2, <3>1, <3>2 DEF ReadFits, Served, Holds, One
  <2> QED
    BY <2>1, <2>2
<1> QED
  BY <1>2, <1>3, <1>4, <1>6, <1>7, <1>8 DEF SurfaceInv

LEMMA RouteLandsKeeps == ASSUME SurfaceInv, RouteLands PROVE SurfaceInv'
<1>1. /\ UNCHANGED <<teams, routesOf, status, channels, active, messages, calls>>
      /\ busy # Nil /\ busy.kind = "route" /\ busy.at \in {"done", "refused"}
      /\ busy' = Nil /\ load' = Passed
  BY DEF RouteLands, slackApi, listVars
<1>2. (~behind' => ~behind) /\ (busy.age = "passed" => behind')
  BY DEF RouteLands
<1>3. PICK r : r = WithSave(routes)
  OBVIOUS
<1>4. routes' = r
  BY <1>1, <1>3 DEF RouteLands, WithSave, Saved
<1>5. r \in Routing
  BY <1>1, <1>3, WriteKinds DEF WithSave, Saved, SurfaceInv, SurfaceTypes, WriteFits, Routing
<1>6. ~behind' => Holds(status, r)
  BY <1>1, <1>2, <1>3 DEF SurfaceInv, ViewFits, MadeUp
<1> QED
  BY <1>1, <1>4, <1>5, <1>6, WriteEnds

LEMMA SaveLostKeeps == ASSUME SurfaceInv, SaveLost PROVE SurfaceInv'
<1>1. /\ UNCHANGED <<teams, routesOf, status, routes, channels, active, messages, calls>>
      /\ busy # Nil /\ busy.at # "reload" /\ busy' = Nil /\ load' = Passed
  BY DEF SaveLost, slackApi, listVars
<1>2. (~behind' => ~behind) /\ (busy.at = "done" => behind')
  BY DEF SaveLost
<1>3. PICK r : r = routes
  OBVIOUS
<1>4. ~behind' => Holds(status, r)
  BY <1>2, <1>3 DEF SurfaceInv, ViewFits, MadeUp, WithSave, Saved
<1> QED
  BY <1>1, <1>3, <1>4, WriteEnds DEF SurfaceInv, SurfaceTypes

LEMMA OtherOfficeKeeps == ASSUME SurfaceInv, OtherOffice PROVE SurfaceInv'
<1>1. UNCHANGED <<status, routes, channels, active, messages, calls>> /\ behind' = TRUE
      /\ load' = Aged("passed")
  BY DEF OtherOffice, slackScreen, listVars
<1>2. teams' \subseteq Team /\ IsFiniteSet(teams')
  <2>1. PICK old : old = teams
    OBVIOUS
  <2>2. \A t \in Team : IsFiniteSet(old \cup {t}) /\ IsFiniteSet(old \ {t})
    BY <2>1, FS_AddElement, FS_RemoveElement DEF SurfaceInv, SurfaceTypes
  <2> QED
    BY <2>1, <2>2, FS_EmptySet DEF OtherOffice, SurfaceInv, SurfaceTypes
<1>3. routesOf' \in [Team -> Routing]
  <2>1. NoRoutes \in Routing
    BY DEF NoRoutes, Routing
  <2>2. Dropped \in [Team -> Routing]
    BY <2>1 DEF Dropped, SurfaceInv, SurfaceTypes
  <2>3. ASSUME NEW t \in teams, NEW e \in Event, NEW c \in ChannelsOf[t] \cup {Nil},
               routesOf' = [routesOf EXCEPT ![t][e] = c]
        PROVE  routesOf' \in [Team -> Routing]
    <3>1. t \in Team /\ c \in Channel \cup {Nil} /\ routesOf \in [Team -> Routing]
      BY DEF SurfaceInv, SurfaceTypes, Channel
    <3>2. [routesOf[t] EXCEPT ![e] = c] \in Routing
      BY <3>1 DEF Routing
    <3> QED
      BY <2>3, <3>1, <3>2
  <2> QED
    BY <2>2, <2>3 DEF OtherOffice, SurfaceInv, SurfaceTypes
<1>4. busy' = busy \/ (Served(busy) /\ busy' = [busy EXCEPT !.age = "passed"])
  BY DEF OtherOffice
<1>5. /\ busy' \in Writes \cup {Nil}
      /\ busy = Nil <=> busy' = Nil
      /\ busy # Nil => busy'.kind = busy.kind /\ busy'.at = busy.at /\ busy'.event = busy.event
      /\ Served(busy) => busy'.age = "passed"
      /\ ~Served(busy) => busy' = busy
  <2>1. ASSUME Served(busy)
        PROVE  /\ busy' \in Writes /\ busy' # Nil /\ busy # Nil
               /\ busy'.kind = busy.kind /\ busy'.at = busy.at /\ busy'.event = busy.event
               /\ busy'.age = "passed"
    <3>1. busy \in Writes /\ busy # Nil
      BY <2>1 DEF Served, SurfaceInv, SurfaceTypes
    <3>2. busy' = [kind |-> busy.kind, event |-> busy.event, channel |-> busy.channel,
                   at |-> busy.at, age |-> "passed"]
      BY <2>1, <3>1, WriteKinds DEF OtherOffice
    <3>3. busy' \in Writes
      BY <3>1, <3>2, WriteKinds DEF Writes, Ages
    <3> QED
      BY <3>1, <3>2, <3>3, WriteKinds
  <2>2. ~Served(busy) => busy' = busy
    BY DEF OtherOffice
  <2> QED
    BY <2>1, <2>2 DEF SurfaceInv, SurfaceTypes
<1>6. Ageing(load', {"new", "mended"}, "passed")
  BY <1>1, AgedReads DEF SurfaceInv, Ages
<1>7. SurfaceTypes'
  BY <1>1, <1>2, <1>3, <1>5, <1>6 DEF SurfaceInv, SurfaceTypes, Ageing
<1>8. WriteFits'
  BY <1>5 DEF SurfaceInv, WriteFits, Served
<1>9. ReloadFits'
  <2>1. load[0] = Nil => load'[0] = Nil
    BY <1>6, SlotZero, AskedIsRead DEF Ageing
  <2> QED
    BY <1>5, <2>1 DEF SurfaceInv, ReloadFits
<1>10. CallsFit' /\ ListsFit'
  BY <1>1, ListsStay DEF SurfaceInv
<1>11. ViewFits'
  BY <1>1 DEF ViewFits
<1>12. WriteShows'
  BY <1>5 DEF WriteShows, Saved, MadeUp, Served
<1>13. \A i \in Slots : ReadFits(i)'
  <2> TAKE i \in Slots
  <2>1. load[i] \in Reads \cup {Nil}
    BY DEF SurfaceInv, SurfaceTypes
  <2>2. Served(load[i]) => load[i].age \in Ages
    BY <2>1, ReadKinds, AskedIsRead
  <2>3. Served(load'[i]) => load'[i].age = "passed"
    BY <1>6, <2>2 DEF Ageing, Ages
  <2> QED
    BY <2>3 DEF ReadFits, Served
<1> QED
  BY <1>7, <1>8, <1>9, <1>10, <1>11, <1>12, <1>13 DEF SurfaceInv

LEMMA SlackSteps == SurfaceInv /\ [SlackNext]_slackVars => SurfaceInv'
<1> SUFFICES ASSUME SurfaceInv, [SlackNext]_slackVars PROVE SurfaceInv'
  OBVIOUS
<1>1. CASE ReadAgain \/ ConnectFails \/ OtherOffice
  BY <1>1, ReadAgainKeeps, ConnectFailsKeeps, OtherOfficeKeeps
<1>2. CASE Connect \/ Disconnect
  BY <1>2, StartKeeps DEF Connect, Disconnect
<1>3. CASE Reopen
  BY <1>3, FreshKeeps DEF Reopen, Opened
<1>4. CASE ServeDisconnect \/ ServeRoute \/ DisconnectLands \/ RouteLands \/ SaveLost
  BY <1>4, ServeDisconnectKeeps, ServeRouteKeeps, DisconnectLandsKeeps, RouteLandsKeeps,
     SaveLostKeeps
<1>5. ASSUME NEW i \in Slots, ServeLoad(i) \/ ReadLands(i) \/ ReadLost(i) PROVE SurfaceInv'
  BY <1>5, ServeLoadKeeps, ReadLandsKeeps, ReadLostKeeps
<1>6. ASSUME NEW call \in calls, ServeCall(call) \/ CallLands(call) \/ CallLost(call)
          PROVE SurfaceInv'
  BY <1>6, CallsKeep
<1>7. ASSUME NEW c \in Channel, Pick(c) PROVE SurfaceInv'
  BY <1>7, PickKeeps
<1>8. ASSUME NEW e \in Event, NEW c \in Channel \cup {Nil}, SaveRoute(e, c) PROVE SurfaceInv'
  BY <1>8, StartKeeps DEF SaveRoute
<1>9. ASSUME NEW o \in {"denied", "failed"}, ReturnFromSlack(o) PROVE SurfaceInv'
  BY <1>9, FreshKeeps DEF ReturnFromSlack, Opened
<1>10. CASE UNCHANGED slackVars
  <2>1. CallsFit' /\ ListsFit'
    BY <1>10, ListsStay DEF slackVars, slackScreen, listVars, SurfaceInv
  <2> QED
    BY <1>10, <2>1, ListStepsKeep
       DEF slackVars, slackApi, slackScreen, listVars, SurfaceInv, SurfaceTypes
<1> QED
  BY <1>1, <1>2, <1>3, <1>4, <1>5, <1>6, <1>7, <1>8, <1>9, <1>10 DEF SlackNext

LEMMA SlackStarts == SlackInit => SurfaceInv
<1> SUFFICES ASSUME SlackInit PROVE SurfaceInv
  OBVIOUS
<1>1. NoRoutes \in Routing
  BY DEF NoRoutes, Routing
<1>2. load \in [Slots -> Reads \cup {Nil}] /\ \A i \in Slots : load[i] \in {AskedRead, Nil}
  BY AskedIsRead DEF SlackInit
<1>3. load[0] = Nil
  BY SlotZero DEF SlackInit
<1>4. teams \subseteq Team /\ IsFiniteSet(teams)
  BY FS_EmptySet, FS_Singleton DEF SlackInit
<1>5. SurfaceTypes /\ WriteFits /\ ReloadFits
  BY <1>1, <1>2, <1>3, <1>4 DEF SlackInit, SurfaceTypes, WriteFits, ReloadFits
<1>6. CallsFit /\ ListsFit /\ ViewFits /\ WriteShows
  BY DEF SlackInit, CallsFit, ListsFit, ViewFits, WriteShows, Saved
<1>7. \A i \in Slots : ReadFits(i)
  <2>1. \A i \in Slots : ~Served(load[i])
    BY <1>2, AskedIsRead
  <2> QED
    BY <2>1 DEF ReadFits
<1> QED
  BY <1>5, <1>6, <1>7 DEF SurfaceInv

\* In every reachable state of the surface the reads and the mutation under way carry what
\* the API held when it served them, each with the changes it has missed.
THEOREM SlackInvariant == SlackSpec => []SurfaceInv
<1>1. SlackInit => SurfaceInv
  BY SlackStarts
<1>2. SurfaceInv /\ [SlackNext]_slackVars => SurfaceInv'
  BY SlackSteps
<1> QED
  BY <1>1, <1>2, PTL DEF SlackSpec

\* A set with one member at most.
LEMMA AtMostOne ==
    ASSUME NEW S, IsFiniteSet(S), Cardinality(S) <= 1
    PROVE  \A t, u \in S : t = u
<1> SUFFICES ASSUME NEW t \in S, NEW u \in S, t # u PROVE FALSE
  OBVIOUS
<1>1. {t, u} \subseteq S
  OBVIOUS
<1>2. IsFiniteSet({t}) /\ Cardinality({t}) = 1
  BY FS_Singleton
<1>3. Cardinality({t} \cup {u}) = 2
  BY <1>2, FS_AddElement
<1>4. Cardinality({t} \cup {u}) <= Cardinality(S) /\ Cardinality(S) \in Nat
  BY <1>1, FS_Subset, FS_CardinalityType
<1> QED
  BY <1>3, <1>4

\* However reads, saves, disconnects and other offices interleave, the lists are those of the
\* workspace shown, and a surface that has missed no change shows what the API holds
\* (SlackSurface.tsx, routes/slack.ts).
THEOREM SlackPaneStaysHonest == SlackSpec => []SlackPaneIsHonest
<1>1. ASSUME SurfaceInv PROVE SlackPaneIsHonest
  <2>1. ASSUME ~behind, busy = Nil, Cardinality(teams) <= 1
        PROVE  IF teams = {} THEN status = "off" /\ routes = NoRoutes
               ELSE status \in teams /\ routes = routesOf[status]
    <3>1. One
      BY <1>1, <2>1, AtMostOne DEF SurfaceInv, SurfaceTypes, One
    <3>2. Holds(status, routes)
      BY <1>1, <2>1 DEF SurfaceInv, ViewFits, MadeUp, WithSave, Saved
    <3> QED
      BY <3>1, <3>2 DEF Holds
  <2> QED
    BY <1>1, <2>1 DEF SurfaceInv, SlackPaneIsHonest, ShowsTheApi
<1> QED
  BY <1>1, SlackInvariant, PTL

=============================================================================
