----------------------------- MODULE SlackPane -----------------------------
(* The Slack surface of the console (features/slack/SlackSurface.tsx) over the workspace,  *)
(* routing and history endpoints of routes/slack.ts, while other offices connect,         *)
(* disconnect and route the same organization and other organizations take its teams.     *)
EXTENDS Integers, FiniteSets

CONSTANTS Team, ChannelsOf,    \* Slack teams and the channels the bot sees in each
    Event, Nil,
    MaxReads,                  \* bound on workspace reads under way beside a disconnect's
    MaxSlackActs, MaxSlackFaults    \* bounds on what offices do, and on lost answers

VARIABLES
    teams, routesOf,           \* the API: workspaces of the organization; the routes of each
    status, routes,            \* the surface: a team, "off" or Nil; channel by event
    channels, active, messages,    \* the list, the selected channel, whose history is shown
    error, outcome,
    calls,                     \* calls of the two effects that may still be heard
    load, busy,                \* workspace reads under way; the mutation under way
    behind,                    \* history: the surface lacks a change of the API
    slackActs, slackFaults

slackApi == <<teams, routesOf>>
listVars == <<channels, active, messages, calls>>
slackScreen == <<status, routes, error, outcome, listVars>>
slackVars == <<slackApi, slackScreen, load, busy, behind, slackActs, slackFaults>>

Channel == UNION {ChannelsOf[t] : t \in Team}
Slots == 0..MaxReads           \* the read after a disconnect; those on mount and "Refresh"
Routing == [Event -> Channel \cup {Nil}]
Ages == {"new", "mended", "passed"}
Reads == [at : {"asked"}, age : {"new"}] \cup [at : Team \cup {"off"}, age : Ages, routes : Routing]
Writes ==
    [kind : {"connect", "disconnect", "route"}, event : Event \cup {Nil},
     channel : Channel \cup {Nil}, at : {"asked", "done", "refused", "reload"}, age : Ages]

\* Nothing is no team, no channel and nothing that is under way, and the words for what
\* becomes of a call name neither.
ASSUME SlackAssumption ==
    /\ \A x \in {Nil, "asked", "refused", "off"} : x \notin Team \cup Channel
    /\ Nil \notin Reads \cup Writes \cup {"asked", "refused", "off"}
    /\ MaxReads \in Nat
NoRoutes == [e \in Event |-> Nil]
Connected(s) == s \in Team
AskedRead == [at |-> "asked", age |-> "new"]

FreshSurface ==
    /\ status' = Nil /\ routes' = NoRoutes /\ channels' = {} /\ active' = Nil /\ messages' = Nil
    /\ error' = FALSE /\ calls' = {}
    /\ load' = [i \in Slots |-> IF i = 1 THEN AskedRead ELSE Nil] /\ busy' = Nil /\ behind' = TRUE
SlackInit ==
    /\ teams \in {{}} \cup {{t} : t \in Team} /\ routesOf = [t \in Team |-> NoRoutes]
    /\ status = Nil /\ routes = NoRoutes /\ channels = {} /\ active = Nil /\ messages = Nil
    /\ error = FALSE /\ outcome = Nil /\ calls = {}
    /\ load = [i \in Slots |-> IF i = 1 THEN AskedRead ELSE Nil] /\ busy = Nil /\ behind = TRUE
    /\ slackActs = 0 /\ slackFaults = 0

SlackAct == slackActs < MaxSlackActs /\ slackActs' = slackActs + 1 /\ UNCHANGED slackFaults
SlackFault == slackFaults < MaxSlackFaults /\ slackFaults' = slackFaults + 1 /\ UNCHANGED slackActs
SlackQuiet == UNCHANGED <<slackActs, slackFaults>>

-----------------------------------------------------------------------------
(* loadWorkspace, which no effect or later read can call off *)

Served(call) == call # Nil /\ call.at # "asked"
\* How the reads that are answered age when the API is written: past mending by the
\* mutation that wrote, or not.
Aged(age) ==
    [i \in Slots |-> IF Served(load[i]) /\ load[i].age # "passed"
        THEN [load[i] EXCEPT !.age = age] ELSE load[i]]

\* The button is there while connected, and asks again while another read is under way.
ReadAgain ==
    /\ SlackAct /\ Connected(status)
    /\ \E i \in Slots \ {0} :
          /\ load[i] = Nil /\ \A k \in 1..(i - 1) : load[k] # Nil
          /\ load' = [load EXCEPT ![i] = AskedRead]
    /\ UNCHANGED <<slackApi, slackScreen, busy, behind>>
\* findFirst: with two workspaces, either.
ServeLoad(i) ==
    /\ load[i] # Nil /\ load[i].at = "asked" /\ SlackQuiet
    /\ \/ /\ teams = {}
          /\ load' = [load EXCEPT ![i] = [at |-> "off", age |-> "new", routes |-> NoRoutes]]
       \/ \E t \in teams :
             load' = [load EXCEPT ![i] = [at |-> t, age |-> "new", routes |-> routesOf[t]]]
    /\ UNCHANGED <<slackApi, slackScreen, busy, behind>>

\* The effect on `connected` starts anew only when that turns.  A call whose effect has been
\* cleaned up changes nothing any more.
CallOf(effect, c) == [effect |-> effect, of |-> c, at |-> "asked"]
\* Mutant of StillHeard: the cleanup of an effect is forgotten.
HeardForever(effects) == calls
StillHeard(effects) == {call \in calls : call.effect \notin effects}
ListsFor(s) ==
    IF Connected(s) = Connected(status) THEN UNCHANGED listVars
    ELSE /\ channels' = {} /\ active' = Nil /\ messages' = Nil
         /\ calls' = StillHeard({"channels", "history"})
                     \cup IF Connected(s) THEN {CallOf("channels", Nil)} ELSE {}
Reloaded(i) == IF i = 0 THEN Nil ELSE busy
ReadLands(i) ==
    /\ Served(load[i]) /\ load' = [load EXCEPT ![i] = Nil] /\ busy' = Reloaded(i)
    /\ status' = load[i].at /\ routes' = load[i].routes /\ ListsFor(load[i].at)
    /\ behind' = (load[i].age = "passed") /\ SlackQuiet /\ UNCHANGED <<slackApi, error, outcome>>
ReadLost(i) ==
    /\ load[i] # Nil /\ SlackFault /\ load' = [load EXCEPT ![i] = Nil] /\ busy' = Reloaded(i)
    /\ error' = TRUE /\ behind' = (behind \/ i = 0)
    /\ UNCHANGED <<slackApi, status, routes, outcome, listVars>>

-----------------------------------------------------------------------------
(* The lists *)

Pick(c) ==
    /\ SlackAct /\ Connected(status) /\ c \in channels /\ c # active
    /\ active' = c /\ messages' = Nil /\ calls' = StillHeard({"history"}) \cup {CallOf("history", c)}
    /\ UNCHANGED <<slackApi, status, routes, error, outcome, channels, load, busy, behind>>

\* Without a workspace both are refused; Slack refuses a channel of another team.
Answers(call) ==
    (IF call.effect = "channels" THEN teams
        ELSE {c \in {call.of} : \E t \in teams : c \in ChannelsOf[t]})
    \cup IF teams = {} \/ (call.effect = "history" /\ \E t \in teams : call.of \notin ChannelsOf[t])
         THEN {"refused"} ELSE {}
ServeCall(call) ==
    /\ call.at = "asked" /\ SlackQuiet
    /\ \E a \in Answers(call) : calls' = (calls \ {call}) \cup {[call EXCEPT !.at = a]}
    /\ UNCHANGED <<slackApi, status, routes, error, outcome, channels, active, messages, load,
       busy, behind>>
CallLands(call) ==
    /\ call.at # "asked" /\ calls' = calls \ {call} /\ SlackQuiet
    /\ error' = (error \/ call.at = "refused")
    /\ channels' = IF call.at # "refused" /\ call.effect = "channels" THEN ChannelsOf[call.at]
       ELSE channels
    /\ messages' = IF call.at # "refused" /\ call.effect = "history" THEN call.at ELSE messages
    /\ UNCHANGED <<slackApi, status, routes, outcome, active, load, busy, behind>>
CallLost(call) ==
    /\ SlackFault /\ calls' = calls \ {call} /\ error' = TRUE
    /\ UNCHANGED <<slackApi, status, routes, outcome, channels, active, messages, load, busy,
       behind>>

-----------------------------------------------------------------------------
(* Connecting, disconnecting and routing *)

\* The three mutations share one flag, which disables their controls.
Start(kind, e, c) ==
    /\ SlackAct /\ busy = Nil
    /\ busy' = [kind |-> kind, event |-> e, channel |-> c, at |-> "asked", age |-> "new"]
    /\ error' = (kind = "disconnect" /\ error)
    /\ UNCHANGED <<slackApi, status, routes, outcome, listVars, load, behind>>

\* The call to action is there until a workspace is known to be connected.
Connect == ~Connected(status) /\ Start("connect", Nil, Nil)
\* A route to a channel that is not listed is shown as none, which cannot be chosen again.
Shown(e) == IF routes[e] \in channels THEN routes[e] ELSE Nil
SaveRoute(e, c) ==
    Connected(status) /\ c \in channels \cup {Nil} /\ c # Shown(e) /\ Start("route", e, c)
Disconnect == Connected(status) /\ Start("disconnect", Nil, Nil)

\* No Slack app is configured, or the call fails.
ConnectFails ==
    /\ busy # Nil /\ busy.kind = "connect" /\ busy' = Nil /\ error' = TRUE /\ SlackQuiet
    /\ UNCHANGED <<slackApi, status, routes, outcome, listVars, load, behind>>

\* A surface that is opened anew hears nothing of what was under way; a write that is served
\* after all is to it what an act of another office is.
Opened(o) == outcome' = o /\ FreshSurface
Reopen == SlackAct /\ Opened(Nil) /\ UNCHANGED slackApi
\* The page is left for Slack's consent; its callback loads it anew with the outcome.  The
\* callback is let in without a session (lib/tenant.ts), so it finds no organization and
\* connects nothing whatever was consented to.
ReturnFromSlack(o) ==
    /\ busy # Nil /\ busy.kind = "connect" /\ Opened(o) /\ SlackQuiet
    /\ UNCHANGED slackApi

\* The routes go with their workspaces.
Dropped == [t \in Team |-> IF t \in teams THEN NoRoutes ELSE routesOf[t]]
ServeDisconnect ==
    /\ busy # Nil /\ busy.kind = "disconnect" /\ busy.at = "asked" /\ SlackQuiet
    /\ teams' = {} /\ routesOf' = Dropped
    /\ busy' = [busy EXCEPT !.at = "done"] /\ load' = Aged("mended")
    /\ UNCHANGED <<slackScreen, behind>>
ServeRoute ==
    /\ busy # Nil /\ busy.kind = "route" /\ busy.at = "asked" /\ SlackQuiet
    /\ \/ /\ teams = {} /\ busy' = [busy EXCEPT !.at = "refused"] /\ UNCHANGED <<slackApi, load>>
       \/ \E t \in teams :
             /\ routesOf' = [routesOf EXCEPT ![t][busy.event] = busy.channel]
             /\ busy' = [busy EXCEPT !.at = "done", !.age = IF t = status THEN @ ELSE "passed"]
             /\ load' = Aged("mended") /\ UNCHANGED teams
    /\ UNCHANGED <<slackScreen, behind>>

\* A read that was answered before the save and lands after it is past mending.
Passed == [i \in Slots |-> IF Served(load[i]) /\ load[i].age = "mended"
    THEN [load[i] EXCEPT !.age = "passed"] ELSE load[i]]
DisconnectLands ==
    /\ busy # Nil /\ busy.kind = "disconnect" /\ busy.at = "done" /\ SlackQuiet
    /\ busy' = [busy EXCEPT !.at = "reload"] /\ load' = [Passed EXCEPT ![0] = AskedRead]
       /\ behind' = TRUE
    /\ UNCHANGED <<slackApi, slackScreen>>
RouteLands ==
    /\ busy # Nil /\ busy.kind = "route" /\ busy.at \in {"done", "refused"} /\ SlackQuiet
    /\ busy' = Nil /\ load' = Passed /\ error' = (busy.at = "refused" \/ error)
    /\ routes' = IF busy.at = "done" THEN [routes EXCEPT ![busy.event] = busy.channel] ELSE routes
    /\ behind' = (behind \/ busy.age = "passed")
    /\ UNCHANGED <<slackApi, status, outcome, listVars>>
SaveLost ==
    /\ busy # Nil /\ busy.kind # "connect" /\ busy.at # "reload" /\ SlackFault /\ busy' = Nil
    /\ load' = Passed
    /\ error' = TRUE /\ behind' = (behind \/ busy.at = "done")
    /\ UNCHANGED <<slackApi, status, routes, outcome, listVars>>

\* A team is connected with a token, by another organization even if it is connected here.
\* What is answered is old then, and a route that is being saved here may be overwritten.
OtherOffice ==
    /\ SlackAct
    /\ \/ \E t \in Team : teams' \in {teams \cup {t}, teams \ {t}} /\ UNCHANGED routesOf
       \/ teams' = {} /\ routesOf' = Dropped
       \/ \E t \in teams, e \in Event : \E c \in ChannelsOf[t] \cup {Nil} :
             routesOf' = [routesOf EXCEPT ![t][e] = c] /\ UNCHANGED teams
    /\ slackApi' # slackApi /\ behind' = TRUE /\ load' = Aged("passed")
    /\ busy' = IF Served(busy) THEN [busy EXCEPT !.age = "passed"] ELSE busy
    /\ UNCHANGED slackScreen

SlackNext ==
    \/ ReadAgain \/ Reopen \/ Connect \/ ConnectFails \/ Disconnect \/ OtherOffice
    \/ ServeDisconnect \/ ServeRoute \/ DisconnectLands \/ RouteLands \/ SaveLost
    \/ \E i \in Slots : ServeLoad(i) \/ ReadLands(i) \/ ReadLost(i)
    \/ \E call \in calls : ServeCall(call) \/ CallLands(call) \/ CallLost(call)
    \/ \E c \in Channel : Pick(c)
    \/ \E e \in Event, c \in Channel \cup {Nil} : SaveRoute(e, c)
    \/ \E o \in {"denied", "failed"} : ReturnFromSlack(o)

SlackSpec == SlackInit /\ [][SlackNext]_slackVars

-----------------------------------------------------------------------------
\* The history shown is the selected channel's, and without a workspace there is no list.
ListsFit ==
    /\ messages # Nil => messages = active
    /\ active # Nil => active \in channels
    /\ channels # {} => Connected(status)

\* Unless another office wrote, an answer was lost, or a read was answered before a save
\* and landed after it, the surface shows the workspace and the routes the API has; a read
\* that is answered after all of that makes up for it.
ShowsTheApi ==
    ~behind /\ busy = Nil /\ Cardinality(teams) <= 1 =>
        IF teams = {} THEN status = "off" /\ routes = NoRoutes
        ELSE status \in teams /\ routes = routesOf[status]

\* The Slack screen shows one workspace's channels and messages and follows what the
\* dispatcher chose last (SlackSurface.tsx).
SlackPaneIsHonest == ListsFit /\ ShowsTheApi

\* What the code does not give.  The list is of the team that is named; a refused or lost
\* call is told; "Loading channels" is said of a call.
ListIsOfTheTeam == channels # {} => channels = ChannelsOf[status]
ErrorIsTold == error => outcome = Nil
LoadingEnds == Connected(status) /\ channels = {} => \E call \in calls : call.effect = "channels"
=============================================================================
