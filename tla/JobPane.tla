------------------------------- MODULE JobPane -------------------------------
(* The inspector of the selected job on the dispatcher's console: its message thread,    *)
(* polled while the job is shown (JobMessageThread.tsx), and the text that announces the *)
(* technician (NotifyEtaControl).  Neither is keyed by the job, so both live on when     *)
(* another job is selected, and answers land beside the selection, the poll and each     *)
(* other.  The endpoints are jobMessages.ts and sms.ts, one step each.                  *)
EXTENDS Integers, FiniteSets, SequencesExt

CONSTANTS Job, Empty,
    MaxPaneActs, MaxLoads, MaxPaneFaults   \* bounds on acts of people, polls and lost answers

VARIABLES
    job,             \* the job in the pane, or Empty: the pane is not mounted
    mount, effect,   \* how often it was mounted; how often its polling began
    shown,           \* messages on the screen: [job, text, nth], text 0 for the technician's
    writing, sendBusy, typed,      \* the text being written, numbered as typed
    result,          \* the job the line about the text to the customer speaks of
    thread,          \* what the API has stored, per job
    loads, sends, notices,   \* requests: [effect, job, answer, nth], [mount, job, text,
                             \* stored], [mount, job, sent, nth]
    landed,          \* history: a load of this selection has landed
    stray,           \* history: messages posted to a job that was not selected any more
    lostSends,       \* history: per text, posts whose answer was lost
    texts, clicks,   \* history: texts sent and asked for, per job
    paneActs, polls, paneFaults

Message == [job : Job, text : Nat, nth : Nat]

\* Nothing is no job, no message and no answer to a poll.
ASSUME PaneAssumption ==
    /\ Empty \notin Job /\ Empty \notin Message /\ Empty \notin Seq(Message)
    /\ MaxPaneActs \in Nat

paneScreen == <<job, mount, effect, shown, writing, sendBusy, typed, result, landed, stray>>
paneRequests == <<loads, sends, notices>>
paneApi == <<thread, lostSends, texts, clicks>>
paneCounts == <<paneActs, polls, paneFaults>>
paneVars == <<paneScreen, paneRequests, paneApi, paneCounts>>

PaneInit ==
    /\ job = Empty /\ mount = 0 /\ effect = 0 /\ shown = <<>>
    /\ writing = 0 /\ sendBusy = FALSE /\ typed = 0 /\ result = Empty
    /\ thread = [j \in Job |-> <<>>]
    /\ loads = {} /\ sends = {} /\ notices = {}
    /\ landed = FALSE /\ stray = {} /\ lostSends = [n \in 1..MaxPaneActs |-> 0]
    /\ texts = [j \in Job |-> 0] /\ clicks = texts
    /\ paneActs = 0 /\ polls = 0 /\ paneFaults = 0

PaneAct == paneActs < MaxPaneActs /\ paneActs' = paneActs + 1 /\ UNCHANGED paneFaults
PaneFault == paneFaults < MaxPaneFaults /\ paneFaults' = paneFaults + 1
PaneQuiet == UNCHANGED paneCounts

NewLoad(j, e) == [effect |-> e, job |-> j, answer |-> Empty, nth |-> polls]
\* The effect of [jobId] runs: the old poll is dead, the new one asks at once.
Begin(j) ==
    /\ polls < MaxLoads /\ polls' = polls + 1
    /\ effect' = effect + 1 /\ loads' = loads \cup {NewLoad(j, effect + 1)} /\ landed' = FALSE

FreshPane == shown' = <<>> /\ writing' = 0 /\ sendBusy' = FALSE /\ result' = Empty /\ stray' = {}
Select(j) ==
    /\ PaneAct /\ j # job /\ job' = j /\ Begin(j)
    /\ IF job = Empty THEN mount' = mount + 1 /\ FreshPane
       ELSE UNCHANGED <<mount, shown, writing, sendBusy, result, stray>>
    /\ UNCHANGED <<typed, sends, notices, paneApi>>
\* Nothing selected, or the sync pane in its place.
Leave ==
    /\ PaneAct /\ job # Empty /\ job' = Empty /\ mount' = mount + 1 /\ effect' = effect + 1
    /\ FreshPane /\ landed' = FALSE
    /\ UNCHANGED <<typed, paneRequests, paneApi, polls>>

-----------------------------------------------------------------------------
(* Polling *)

PollAgain ==
    /\ job # Empty /\ polls < MaxLoads /\ polls' = polls + 1
    /\ loads' = loads \cup {NewLoad(job, effect)}
    /\ UNCHANGED <<paneScreen, sends, notices, paneApi, paneActs, paneFaults>>
AnswerLoad(l) ==
    /\ l.answer = Empty
    /\ loads' = (loads \ {l}) \cup {[l EXCEPT !.answer = thread[l.job]]}
    /\ UNCHANGED <<paneScreen, sends, notices, paneApi>> /\ PaneQuiet

\* Mutant of Alive: a load is dropped only when the pane has gone.
AliveWhileMounted(l) == job # Empty

Alive(l) == l.effect = effect
LoadLands(l) ==
    /\ l.answer # Empty /\ loads' = loads \ {l}
    /\ IF Alive(l) THEN shown' = l.answer /\ landed' = TRUE ELSE UNCHANGED <<shown, landed>>
    /\ UNCHANGED <<job, mount, effect, writing, sendBusy, typed, result, stray, sends,
       notices, paneApi>>
    /\ PaneQuiet
LoadFails(l) ==
    /\ PaneFault /\ loads' = loads \ {l}
    /\ UNCHANGED <<paneScreen, sends, notices, paneApi, paneActs, polls>>

-----------------------------------------------------------------------------
(* Posting *)

NewMessage(j, text) == [job |-> j, text |-> text, nth |-> Len(thread[j]) + 1]
TechnicianWrites(j) ==
    /\ PaneAct /\ thread' = [thread EXCEPT ![j] = Append(@, NewMessage(j, 0))]
    /\ UNCHANGED <<paneScreen, paneRequests, lostSends, texts, clicks, polls>>
TypeText ==
    /\ PaneAct /\ job # Empty /\ typed' = typed + 1 /\ writing' = typed'
    /\ UNCHANGED <<job, mount, effect, shown, sendBusy, result, landed, stray, paneRequests,
       paneApi, polls>>
SendPost ==
    /\ PaneAct /\ job # Empty /\ writing # 0 /\ ~sendBusy /\ sendBusy' = TRUE
    /\ sends' = sends \cup {[mount |-> mount, job |-> job, text |-> writing, stored |-> Empty]}
    /\ UNCHANGED <<job, mount, effect, shown, writing, typed, result, landed, stray, loads,
       notices, paneApi, polls>>
StorePost(p) ==
    /\ p.stored = Empty /\ thread' = [thread EXCEPT ![p.job] = Append(@, NewMessage(p.job, p.text))]
    /\ sends' = (sends \ {p}) \cup {[p EXCEPT !.stored = NewMessage(p.job, p.text)]}
    /\ UNCHANGED <<paneScreen, loads, notices, lostSends, texts, clicks>> /\ PaneQuiet

\* The answer of a pane that was left changes nothing.
InView(p) == p.mount = mount
Added(m) == IF m \in ToSet(shown) THEN shown ELSE Append(shown, m)
PostLands(p) ==
    /\ p.stored # Empty /\ sends' = sends \ {p}
    /\ IF InView(p)
       THEN /\ shown' = Added(p.stored) /\ writing' = 0 /\ sendBusy' = FALSE
            /\ stray' = IF p.job = job THEN stray ELSE stray \cup {p.stored}
       ELSE UNCHANGED <<shown, writing, sendBusy, stray>>
    /\ UNCHANGED <<job, mount, effect, typed, result, landed, loads, notices, paneApi>> /\ PaneQuiet
PostFails(p) ==
    /\ PaneFault /\ sends' = sends \ {p}
    /\ sendBusy' = IF InView(p) THEN FALSE ELSE sendBusy
    /\ lostSends' = IF p.stored = Empty THEN lostSends ELSE [lostSends EXCEPT ![p.text] = @ + 1]
    /\ UNCHANGED <<job, mount, effect, shown, writing, typed, result, landed, stray, loads, notices,
                   thread, texts, clicks, paneActs, polls>>

-----------------------------------------------------------------------------
(* The text to the customer *)

Notify ==
    /\ PaneAct /\ job # Empty /\ clicks' = [clicks EXCEPT ![job] = @ + 1]
    /\ notices' = notices \cup {[mount |-> mount, job |-> job, sent |-> FALSE, nth |-> paneActs]}
    /\ UNCHANGED <<paneScreen, loads, sends, thread, lostSends, texts, polls>>
SendText(n) ==
    /\ ~n.sent /\ texts' = [texts EXCEPT ![n.job] = @ + 1]
    /\ notices' = (notices \ {n}) \cup {[n EXCEPT !.sent = TRUE]}
    /\ UNCHANGED <<paneScreen, loads, sends, thread, lostSends, clicks>> /\ PaneQuiet
NoticeLands(n) ==
    /\ n.sent \/ (paneFaults < MaxPaneFaults)
    /\ paneFaults' = IF n.sent THEN paneFaults ELSE paneFaults + 1
    /\ notices' = notices \ {n}
    /\ result' = IF InView(n) THEN n.job ELSE result
    /\ UNCHANGED <<job, mount, effect, shown, writing, sendBusy, typed, landed, stray, loads,
       sends, paneApi, paneActs, polls>>

PaneNext ==
    \/ \E j \in Job : Select(j) \/ TechnicianWrites(j)
    \/ Leave \/ PollAgain \/ TypeText \/ SendPost \/ Notify
    \/ \E l \in loads : AnswerLoad(l) \/ LoadLands(l) \/ LoadFails(l)
    \/ \E p \in sends : StorePost(p) \/ PostLands(p) \/ PostFails(p)
    \/ \E n \in notices : SendText(n) \/ NoticeLands(n)

PaneSpec == PaneInit /\ [][PaneNext]_paneVars

-----------------------------------------------------------------------------
\* Once a poll of the selection has landed, the pane shows messages of another job only
\* where a post that was under way when the selection changed has landed since; every
\* message is stored and shown once (JobMessageThread.tsx, load and send).
ThreadIsOfJob ==
    /\ \A i \in DOMAIN shown :
        /\ shown[i] \in ToSet(thread[shown[i].job])
        /\ landed => shown[i].job = job \/ shown[i] \in stray
    /\ Cardinality(ToSet(shown)) = Len(shown)

Stored(n) == {m \in UNION {ToSet(thread[j]) : j \in Job} : m.text = n}

\* The button waits for the post of this pane and no other, and a text is stored again
\* only after an answer was lost.
PostsAreSingle ==
    /\ sendBusy <=> \E p \in sends : InView(p)
    /\ \A n \in 1..MaxPaneActs : Cardinality(Stored(n)) <= 1 + lostSends[n]

\* The pane shows the messages of the selected job only, and stores a text once, whatever
\* loads and posts are under way when another job is selected (JobMessageThread.tsx).
PaneIsHonest == ThreadIsOfJob /\ PostsAreSingle

\* Three wishes that the pane does not fulfil: messages of the selected job only, the
\* line about the customer of the selected job only, and words on the way to a job are
\* no reason to lose those that are being typed.
OnlyThisJob == \A i \in DOMAIN shown : shown[i].job = job
NoticeIsOfJob == result \in {Empty, job}
DraftIsKept ==
    [][writing # 0 /\ writing' = 0 => job' = Empty \/ job = Empty
        \/ \E p \in sends \ sends' : p.text = writing]_paneVars

=============================================================================
