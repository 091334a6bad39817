----------------------------- MODULE JobThread -----------------------------
(***************************************************************************)
(* The bridge between a job's messages and its Slack thread                *)
(* (lib/slackJobThreads.ts, lib/slack.ts, routes/jobMessages.ts,           *)
(* routes/slack.ts, routes/slackEvents.ts): posts of the field and of      *)
(* dispatch go to the thread through the outbox, replies typed in Slack    *)
(* come back through the Events endpoint, while the office connects and    *)
(* disconnects workspaces and routes the channel.                          *)
(*                                                                         *)
(* One job, of organization Home.  A Slack team has one channel, which     *)
(* only a token of that team can post to; a thread is the number of its    *)
(* parent message.  A row of SlackWorkspace is its team and how often the  *)
(* team was connected anew.  The delivery of a message is reduced to what  *)
(* DeliveryQueue promises: one worker at a time holds it, unless it        *)
(* crashes or outlasts its lease, and a failure that may pass is tried     *)
(* again until the attempts are used up.                                   *)
(***************************************************************************)
EXTENDS Naturals, Sequences

CONSTANTS
    Actor,        \* request handlers and workers that run at once
    SlackTeam,    \* Slack teams
    Message,      \* posts, each with its opId
    Reply,        \* replies people type in Slack
    Home, Other,  \* organizations; the job is Home's
    Nothing,      \* no row, nothing read
    ThreadAttempts,    \* MAX_ATTEMPTS of the delivery worker
    MaxOfficeActs,     \* bound: changes the offices make
    MaxThreadFaults     \* bound: crashes, overrun leases, refusals and lost answers

Organization == {Home, Other}
Thread == [team : SlackTeam, ws : SlackTeam \X Nat, org : Organization, parent : Nat]

ASSUME NothingAssumption == Nothing \notin Organization \cup Thread \cup Nat
ASSUME WorkerAssumption == Nothing \notin Actor /\ ThreadAttempts \in Nat \ {0}
ASSUME ReplyAssumption == Reply \cap Message = {}

VARIABLES
    org, age, routed,   \* SlackWorkspace and its SlackChannelRoute, by team
    thread,             \* the SlackJobThread of the job
    installed,          \* the OAuth round trip
    stored,             \* the JobMessage rows, by opId and by slackTs
    delivery, lease, tries, \* the outbox and delivery of each message, its attemptCount
    parents, shown,     \* Slack: thread parents by number, replies the bot posted
    typed, acked,       \* Slack: replies people typed, and their events' acknowledgements
    act,                \* the actors
    recorded, unlinked, refused,   \* history
    office, threadFaults

workspaceVars == <<org, age, routed, thread>>
deliveryVars == <<delivery, lease, tries>>
slackVars == <<parents, shown, typed>>
pastVars == <<recorded, unlinked, refused>>
countVars == <<office, threadFaults>>
threadVars == <<workspaceVars, installed, stored, deliveryVars, slackVars, acked, act,
                pastVars, countVars>>

\* An idle actor; a busy one is at a step, about a message or a reply.
IdleActor == [pc |-> "idle", about |-> Nothing, ws |-> Nothing, at |-> Nothing, linked |-> FALSE]

Row(t) == <<t, age[t]>>
RowExists(ws) == org[ws[1]] # Nothing /\ age[ws[1]] = ws[2]
WorkspacesOf(o) == {t \in SlackTeam : org[t] = o}

\* Home has connected a workspace and routed the job messages to its channel.
ThreadInit ==
    /\ \E t \in SlackTeam :
          /\ org = [u \in SlackTeam |-> IF u = t THEN Home ELSE Nothing]
          /\ routed = {t}
    /\ age = [t \in SlackTeam |-> 0] /\ thread = Nothing /\ installed = "none"
    /\ stored = {} /\ delivery = [m \in Message |-> "none"] /\ lease = [m \in Message |-> Nothing]
    /\ tries = [m \in Message |-> 0]
    /\ parents = <<>> /\ shown = {} /\ typed = [r \in Reply |-> Nothing] /\ acked = {}
    /\ act = [a \in Actor |-> IdleActor]
    /\ recorded = {} /\ unlinked = FALSE /\ refused = FALSE
    /\ office = 0 /\ threadFaults = 0

ThreadFault == threadFaults < MaxThreadFaults /\ threadFaults' = threadFaults + 1 /\ UNCHANGED office

AtStep(a, point) == act[a].pc = point
Start(a, point, what) == act' = [act EXCEPT ![a] = [IdleActor EXCEPT !.pc = point, !.about = what]]
Rest(a) == act' = [act EXCEPT ![a] = IdleActor]

-----------------------------------------------------------------------------
(* POST /jobs/:id/messages.  A post whose opId is found answers with its row. *)

\* jobThreadBridgeStatus, of the workspace that findFirst happens to return.
AskPost(a, m) ==
    /\ AtStep(a, "idle") /\ m \notin stored
    /\ \/ WorkspacesOf(Home) = {} /\ Start(a, "post", m)
       \/ \E t \in WorkspacesOf(Home) :
             act' = [act EXCEPT ![a] = [IdleActor EXCEPT !.pc = "post", !.about = m,
                                                    !.linked = t \in routed]]
    /\ UNCHANGED <<workspaceVars, installed, stored, deliveryVars, slackVars, acked,
                   pastVars, countVars>>

\* One transaction; the loser of two retries answers with the winner's row.
CommitPost(a) ==
    /\ AtStep(a, "post")
    /\ LET m == act[a].about
       IN  /\ stored' = stored \cup {m}
           /\ delivery' = IF m \notin stored /\ act[a].linked
                            THEN [delivery EXCEPT ![m] = "queued"] ELSE delivery
    /\ Rest(a)
    /\ UNCHANGED <<workspaceVars, installed, lease, tries, slackVars, acked, pastVars, countVars>>

-----------------------------------------------------------------------------
(* deliverToJobThread *)

Claim(a, m) ==
    /\ AtStep(a, "idle") /\ delivery[m] = "queued"
    /\ delivery' = [delivery EXCEPT ![m] = "leased"]
    /\ lease' = [lease EXCEPT ![m] = a]
    /\ tries' = [tries EXCEPT ![m] = @ + 1]
    /\ Start(a, "load", m)
    /\ UNCHANGED <<workspaceVars, installed, stored, slackVars, acked, pastVars, countVars>>

MoveTo(a, point, ws, at) ==
    act' = [act EXCEPT ![a] = [@ EXCEPT !.pc = point, !.ws = ws, !.at = at]]

\* What the worker writes at the end, if the lease is still its own.
Settle(a, result) ==
    LET m == act[a].about
    IN  /\ Rest(a) /\ UNCHANGED tries
        /\ IF lease[m] = a
             THEN delivery' = [delivery EXCEPT ![m] = result] /\ lease' = [lease EXCEPT ![m] = Nothing]
             ELSE UNCHANGED <<delivery, lease>>

\* Mutant of AfterRetryable: a failure that may pass is taken for a refusal.
AfterRetryableFailed(m) == "failed"

\* What becomes of a message after a failure that may pass: a later attempt, or none when
\* this one was the last.
AfterRetryable(m) == IF tries[m] >= ThreadAttempts THEN "failed" ELSE "queued"

\* relayToSlackForOrg: without a workspace the message fails for good.
LoadWorkspace(a) ==
    /\ AtStep(a, "load")
    /\ \/ WorkspacesOf(Home) = {} /\ Settle(a, "failed")
       \/ \E t \in WorkspacesOf(Home) : MoveTo(a, "find", Row(t), Nothing) /\ UNCHANGED deliveryVars
    /\ UNCHANGED <<workspaceVars, installed, stored, slackVars, acked, pastVars, countVars>>

\* The thread by its job, whatever workspace it is in; the route by the row of the workspace.
FindThread(a) ==
    /\ AtStep(a, "find")
    /\ LET ws == act[a].ws
       IN  CASE thread # Nothing -> MoveTo(a, "reply", ws, thread) /\ UNCHANGED deliveryVars
             [] thread = Nothing /\ RowExists(ws) /\ ws[1] \in routed ->
                    MoveTo(a, "parent", ws, Nothing) /\ UNCHANGED deliveryVars
             [] OTHER -> Settle(a, "failed")
    /\ UNCHANGED <<workspaceVars, installed, stored, slackVars, acked, pastVars, countVars>>

\* classify: a terminal error of Slack; or a retryable one, or no answer in 8 seconds.
SlackFails(a, accepted) ==
    /\ ThreadFault
    /\ \/ ~accepted /\ Settle(a, "failed") /\ refused' = TRUE
       \/ Settle(a, AfterRetryable(act[a].about)) /\ UNCHANGED refused
    /\ UNCHANGED <<recorded, unlinked>>

PostParent(a) ==
    /\ AtStep(a, "parent")
    /\ LET ws == act[a].ws
           at == [team |-> ws[1], ws |-> ws, org |-> Home, parent |-> Len(parents) + 1]
       IN  \/ /\ parents' = Append(parents, ws[1])
              /\ \/ MoveTo(a, "record", ws, at)
                    /\ UNCHANGED <<deliveryVars, pastVars, countVars>>
                 \/ SlackFails(a, TRUE)
           \/ UNCHANGED parents /\ SlackFails(a, FALSE)
    /\ UNCHANGED <<workspaceVars, installed, stored, shown, typed, acked>>

\* The jobId is unique, and the row of the workspace must still be there.
RecordThread(a) ==
    /\ AtStep(a, "record")
    /\ LET at == act[a].at
       IN  IF thread = Nothing /\ RowExists(at.ws)
             THEN /\ thread' = at /\ recorded' = recorded \cup {at.parent}
                  /\ MoveTo(a, "reply", act[a].ws, at)
             ELSE /\ MoveTo(a, "reread", act[a].ws, at)
                  /\ UNCHANGED <<thread, recorded>>
    /\ UNCHANGED <<org, age, routed, installed, stored, deliveryVars, slackVars, acked,
                   unlinked, refused, countVars>>

\* The loser of a race for the first message replies into the winner's thread.
RereadThread(a) ==
    /\ AtStep(a, "reread")
    /\ IF thread # Nothing
         THEN MoveTo(a, "reply", act[a].ws, thread) /\ UNCHANGED deliveryVars
         ELSE Settle(a, AfterRetryable(act[a].about))
    /\ UNCHANGED <<workspaceVars, installed, stored, slackVars, acked, pastVars, countVars>>

\* To the channel of the thread with the token of the workspace that was loaded: Slack
\* knows no channel of another team.
PostReply(a) ==
    /\ AtStep(a, "reply")
    /\ LET at == act[a].at
           post == shown \cup {<<act[a].about, at.parent>>}
       IN  IF act[a].ws[1] # at.team
             THEN Settle(a, "failed") /\ UNCHANGED <<shown, pastVars, countVars>>
             ELSE \/ /\ shown' = post
                     /\ \/ Settle(a, "delivered") /\ UNCHANGED <<pastVars, countVars>>
                        \/ SlackFails(a, TRUE)
                  \/ UNCHANGED shown /\ SlackFails(a, FALSE)
    /\ UNCHANGED <<workspaceVars, installed, stored, parents, typed, acked>>

LeaseOverrun(m) ==
    /\ delivery[m] = "leased" /\ ThreadFault
    /\ delivery' = [delivery EXCEPT ![m] = "queued"]
    /\ lease' = [lease EXCEPT ![m] = Nothing]
    /\ UNCHANGED <<workspaceVars, installed, stored, tries, slackVars, acked, act, pastVars>>

\* The process dies: a request goes unanswered, an abandoned lease expires.
Crash(a) ==
    /\ ~AtStep(a, "idle") /\ ThreadFault
    /\ IF act[a].about \in Message /\ ~AtStep(a, "post")
         THEN Settle(a, "queued") ELSE Rest(a) /\ UNCHANGED deliveryVars
    /\ UNCHANGED <<workspaceVars, installed, stored, slackVars, acked, pastVars>>

-----------------------------------------------------------------------------
(* POST /slack/events.  Slack reports the bot's messages too, and reports   *)
(* again what was not acknowledged.                                         *)

\* Somebody replies to a parent, be it the job's thread or one nobody recorded.
Type(r) ==
    /\ typed[r] = Nothing
    /\ \E p \in 1..Len(parents) : typed' = [typed EXCEPT ![r] = p]
    /\ UNCHANGED <<workspaceVars, installed, stored, deliveryVars, parents, shown, acked, act,
                   pastVars, countVars>>

Events == {[about |-> r, parent |-> typed[r]] : r \in {x \in Reply \ acked : typed[x] # Nothing}}
          \cup {[about |-> x[1], parent |-> x[2]] : x \in shown}

\* bot_id
IsHuman(e) == e.about \in Reply

Acknowledge(r) == acked' = acked \cup ({r} \cap Reply)

\* resolveOrgForTeam; what is no plain reply of a human is acknowledged and ignored.
Receive(a, e) ==
    /\ AtStep(a, "idle")
    /\ LET o == org[parents[e.parent]]
       IN  IF IsHuman(e) /\ o # Nothing
             THEN /\ act' = [act EXCEPT ![a] = [IdleActor EXCEPT !.pc = "match", !.about = e.about,
                                                            !.ws = o, !.at = e.parent]]
                  /\ UNCHANGED acked
             ELSE Acknowledge(e.about) /\ UNCHANGED act
    /\ UNCHANGED <<workspaceVars, installed, stored, deliveryVars, slackVars, pastVars, countVars>>

\* The thread by its channel and parent; it must be the organization's.
MatchThread(a) ==
    /\ AtStep(a, "match")
    /\ IF thread # Nothing /\ thread.parent = act[a].at /\ thread.org = act[a].ws
         THEN MoveTo(a, "store", act[a].ws, act[a].at) /\ UNCHANGED acked
         ELSE Rest(a) /\ Acknowledge(act[a].about)
    /\ UNCHANGED <<workspaceVars, installed, stored, deliveryVars, slackVars, pastVars, countVars>>

\* After the author's name was asked for; a second row of the same slackTs is refused.
StoreReply(a) ==
    /\ AtStep(a, "store")
    /\ stored' = stored \cup {<<act[a].about, act[a].at>>}
    /\ Rest(a) /\ Acknowledge(act[a].about)
    /\ UNCHANGED <<workspaceVars, installed, deliveryVars, slackVars, pastVars, countVars>>

-----------------------------------------------------------------------------
(* routes/slack.ts *)

OfficeActs == office < MaxOfficeActs /\ office' = office + 1 /\ UNCHANGED threadFaults

\* Upsert by the team: a team that another organization had connected changes hands, with
\* its routes and threads.
Upsert(o, t) ==
    /\ org' = [org EXCEPT ![t] = o]
    /\ unlinked' = (unlinked \/ (Home \in {o, org[t]} /\ WorkspacesOf(Home) # {t})
                             \/ (o # Home /\ org[t] = Home))
    /\ UNCHANGED <<age, routed, thread, recorded, refused>>

ConnectTeam(o, t) ==
    /\ OfficeActs /\ Upsert(o, t)
    /\ UNCHANGED <<installed, stored, deliveryVars, slackVars, acked, act>>

\* DELETE /workspace: the routes and the threads go with the rows.
Disconnect(o) ==
    /\ OfficeActs /\ WorkspacesOf(o) # {}
    /\ org' = [t \in SlackTeam |-> IF org[t] = o THEN Nothing ELSE org[t]]
    /\ age' = [t \in SlackTeam |-> IF org[t] = o THEN age[t] + 1 ELSE age[t]]
    /\ routed' = routed \ WorkspacesOf(o)
    /\ thread' = IF thread # Nothing /\ thread.team \in WorkspacesOf(o) THEN Nothing ELSE thread
    /\ unlinked' = (unlinked \/ o = Home)
    /\ UNCHANGED <<installed, stored, deliveryVars, slackVars, acked, act, recorded, refused>>

\* PUT and DELETE /routes/job.message_posted.
SetRoute(o, t) ==
    /\ OfficeActs /\ t \in WorkspacesOf(o) \ routed
    /\ routed' = routed \cup {t}
    /\ UNCHANGED <<org, age, thread, installed, stored, deliveryVars, slackVars, acked, act, pastVars>>

ClearRoute(o, t) ==
    /\ OfficeActs /\ t \in WorkspacesOf(o) \cap routed
    /\ routed' = routed \ {t}
    /\ unlinked' = (unlinked \/ o = Home)
    /\ UNCHANGED <<org, age, thread, installed, stored, deliveryVars, slackVars, acked, act,
                   recorded, refused>>

\* GET /oauth/url, and the consent screen.
AskConsent ==
    /\ installed = "none" /\ OfficeActs
    /\ installed' \in {"granted", "denied"}
    /\ UNCHANGED <<workspaceVars, stored, deliveryVars, slackVars, acked, act, pastVars>>

\* The organization the callback acts for: the hook lets the redirect pass before it looks
\* for a session.
CallbackOrganization == Nothing

\* GET /oauth/callback with the right state and a code that Slack exchanges.
Callback(t) ==
    /\ installed \in {"granted", "denied"}
    /\ IF installed = "granted" /\ CallbackOrganization # Nothing
         THEN installed' = "connected" /\ Upsert(CallbackOrganization, t)
         ELSE /\ installed' = IF installed = "denied" THEN "declined" ELSE "failed"
              /\ UNCHANGED <<workspaceVars, pastVars>>
    /\ UNCHANGED <<stored, deliveryVars, slackVars, acked, act, countVars>>

-----------------------------------------------------------------------------
Deliver(a) ==
    \/ \E m \in Message : Claim(a, m)
    \/ LoadWorkspace(a) \/ FindThread(a)
    \/ PostParent(a) \/ RecordThread(a) \/ RereadThread(a) \/ PostReply(a)

Bridge(a) ==
    \/ \E e \in Events : Receive(a, e)
    \/ MatchThread(a) \/ StoreReply(a)

Office ==
    \/ \E o \in Organization :
          \/ Disconnect(o)
          \/ \E t \in SlackTeam : ConnectTeam(o, t) \/ SetRoute(o, t) \/ ClearRoute(o, t)
    \/ AskConsent
    \/ \E t \in SlackTeam : Callback(t)

ThreadNext ==
    \/ \E a \in Actor :
          \/ \E m \in Message : AskPost(a, m)
          \/ CommitPost(a) \/ Deliver(a) \/ Bridge(a) \/ Crash(a)
    \/ \E m \in Message : LeaseOverrun(m)
    \/ \E r \in Reply : Type(r)
    \/ Office

ThreadSpec == ThreadInit /\ [][ThreadNext]_threadVars

-----------------------------------------------------------------------------
(* Properties *)

\* "Every job gets ONE Slack thread": whoever wins the race for the first message, every
\* message is a reply in a thread that was recorded for the job, and in one and the same as
\* long as the office keeps its workspace.
OneThreadPerJob ==
    /\ \A x \in shown : x[2] \in recorded
    /\ ~unlinked => \A x, y \in shown : x[2] = y[2]

\* "a message can't bounce between the two sides": what comes back from Slack was typed by
\* somebody in a thread recorded for the job, whoever owned the team by then.
OnlyRepliesComeBack ==
    \A s \in stored \ Message : s[1] \in Reply /\ s[2] = typed[s[1]] /\ s[2] \in recorded

\* A message that was queued for the thread is given up only because the office changed its
\* workspace, Slack refused it for good, or as many faults as the queue has attempts have
\* used them up: races of workers cost no message, and fewer faults than that cost none.
GivenUpOnlyForCause ==
    \A m \in Message : delivery[m] = "failed" =>
        unlinked \/ refused \/ threadFaults >= ThreadAttempts

\* Together: one thread, no echo, and nothing given up without one of these causes.
ThreadIsSound == OneThreadPerJob /\ OnlyRepliesComeBack /\ GivenUpOnlyForCause

\* "Reply in this thread — replies go straight to the job": a reply whose event was
\* acknowledged is stored.  One that was typed under a parent that lost the race, or before
\* the thread was recorded, is dropped.
AcknowledgedReplyIsStored ==
    \A r \in acked : ~unlinked => <<r, typed[r]>> \in stored

\* "GET /oauth/callback exchanges the code": the consent of an admin connects the workspace.
ConsentConnects == installed # "failed"

=============================================================================
