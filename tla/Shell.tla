-------------------------------- MODULE Shell --------------------------------
(* The shell of the office console (features/shell/AppShell.tsx): the gate that lets a   *)
(* session in, the first-run landing, the poll that feeds the board or latches it into   *)
(* demo data (features/board/useBoardLifecycle.ts), and the sliding renewal of the       *)
(* session that rides on it (lib/api.ts).  Answers may be lost, late or 401s.           *)
EXTENDS Integers, FiniteSets

CONSTANTS
    Production,       \* NODE_ENV = "production": polling goes on in demo mode
    Life, Lead,       \* life of a session; RENEWAL_LEAD_SECONDS, both in ticks
    Absent,
    MaxTime, MaxShellActs, MaxShellFaults   \* bounds on the clock, operators and failures

VARIABLES
    now, until, revoked,       \* the clock; the session's row: its end, and revocation
    inProgress,                \* the organization's setup
    staff,                     \* role of the member: "owner" or "technician"
    gate, role, expiry,        \* authGate, sessionRole, sessionExpiresAtSeconds
    module, checked,           \* ?module= and firstRunChecked
    mode, data, pollError,         \* dataMode; the query: its data, its error
    probe, poll, renewal, ask, \* requests: Absent, "asked", or what the server answered
    beaten,                    \* history: a fresh poll landed while a renewal was due
    failedRenewal,             \* history: a renewal failed since the last that succeeded
    hijacked,                  \* history: the landing overrode a module the URL named
    shellActs, shellFaults

serverVars == <<now, until, revoked, inProgress, staff>>
gateVars == <<gate, role, probe>>
landVars == <<module, checked, ask, hijacked>>
feedVars == <<mode, data, pollError, poll>>
lifeVars == <<expiry, renewal, beaten, failedRenewal>>
shellCounts == <<shellActs, shellFaults>>
shellVars == <<serverVars, gateVars, landVars, feedVars, lifeVars, shellCounts>>

\* What a request for a time holds besides the time.
Asked == -1
Refused == -2

Modules == {"dispatch", "setup", "crews"}

\* A session lives, and nothing is no time and no answer.
ASSUME ShellAssumption ==
    /\ Life \in Nat \ {0} /\ Lead \in Int
    /\ Absent \notin Int \cup {"asked", "in_progress", "complete", "served", "refused", "board"}
SessionIsValid == ~revoked /\ now < until
ShellInit ==
    /\ now = 0 /\ until \in {1, Life} /\ revoked = FALSE
    /\ inProgress \in BOOLEAN /\ staff \in {"owner", "technician"}
    /\ gate = "checking" /\ role = Absent /\ probe = Asked
    /\ module \in {Absent, "dispatch"} /\ checked = FALSE /\ ask = Absent /\ hijacked = FALSE
    /\ mode = "connecting" /\ data = Absent /\ pollError = Absent /\ poll = Absent
    /\ expiry = Absent /\ renewal = Absent /\ beaten = FALSE /\ failedRenewal = FALSE
    /\ shellActs = 0 /\ shellFaults = 0

ShellAct == shellActs < MaxShellActs /\ shellActs' = shellActs + 1 /\ UNCHANGED shellFaults
ShellFault == shellFaults < MaxShellFaults /\ shellFaults' = shellFaults + 1 /\ UNCHANGED shellActs
Tick == now < MaxTime /\ now' = now + 1
        /\ UNCHANGED <<until, revoked, inProgress, staff, gateVars, landVars, feedVars,
           lifeVars, shellCounts>>
Revoke == ShellAct /\ ~revoked /\ revoked' = TRUE
          /\ UNCHANGED <<now, until, inProgress, staff, gateVars, landVars, feedVars, lifeVars>>

\* The renewal: past half the life, one at a time.
Due(e) == e # Absent /\ e - now < Lead
Renew == renewal' = IF Due(expiry) /\ renewal = Absent THEN Asked ELSE renewal

\* A full page load: what the page remembered is gone.
LoadPage ==
    /\ gate' = "checking" /\ role' = Absent /\ probe' = Asked
    /\ checked' = FALSE /\ ask' = Absent /\ hijacked' = FALSE
    /\ mode' = "connecting" /\ data' = Absent /\ pollError' = Absent /\ poll' = Absent
    /\ expiry' = Absent /\ renewal' = Absent /\ beaten' = FALSE /\ failedRenewal' = FALSE
Login ==
    /\ ShellAct /\ gate = "open" /\ until' = now + Life /\ revoked' = FALSE
    /\ LoadPage /\ module' = Absent /\ UNCHANGED <<now, inProgress, staff>>
Reload == ShellAct /\ LoadPage /\ UNCHANGED <<module, serverVars>>
\* The row is revoked unless the request is lost; the page leaves in either case.
SignOut ==
    /\ gate = "in"
    /\ \/ ShellAct /\ revoked' = TRUE
       \/ ShellFault /\ UNCHANGED revoked
    /\ gate' = "open" /\ expiry' = Absent
    /\ UNCHANGED <<now, until, inProgress, staff, role, probe, landVars, feedVars, renewal,
       beaten, failedRenewal>>

-----------------------------------------------------------------------------
(* The gate *)

ProbeAnswer == IF SessionIsValid THEN until ELSE Refused
ServeProbe == probe = Asked /\ probe' = ProbeAnswer
              /\ UNCHANGED <<serverVars, gate, role, landVars, feedVars, lifeVars, shellCounts>>
\* Only a 401 closes the console; a failure of the network leaves the demo fallback.
PassGate ==
    /\ gate = "checking" /\ probe \notin {Absent, Asked} /\ probe' = Absent
    /\ IF probe = Refused
       THEN gate' = "open" /\ UNCHANGED <<role, expiry>>
       ELSE gate' = "in" /\ role' = staff /\ expiry' = probe
    /\ UNCHANGED <<serverVars, landVars, feedVars, renewal, beaten, failedRenewal, shellCounts>>
ProbeFails ==
    /\ gate = "checking" /\ ShellFault /\ probe' = Absent /\ gate' = "in"
    /\ UNCHANGED <<serverVars, role, landVars, feedVars, lifeVars>>

-----------------------------------------------------------------------------
(* The first-run landing *)

Eligible == module = Absent /\ role = "owner"
\* Modules the role may not see fall back to the dispatch board.
Shows(m, c) ==
    /\ gate = "in" /\ ~(m = Absent /\ role = "owner" /\ ~c)
    /\ m \in {Absent, "dispatch"} \/ (m = "setup" /\ role # "owner")
OnBoard == Shows(module, checked)

\* A board that comes to the screen acts on what its query holds.
GoesTo(m, c) ==
    LET fed == Shows(m, c) /\ ~OnBoard /\ data # Absent
    IN  /\ module' = m /\ checked' = c
        /\ gate' = IF fed /\ pollError = "401" THEN "open" ELSE gate
        /\ mode' = IF fed /\ pollError # "401" THEN "live" ELSE mode
        /\ IF fed /\ pollError # "401" THEN Renew ELSE UNCHANGED renewal
        /\ UNCHANGED <<serverVars, role, probe, data, pollError, poll, expiry, beaten,
           failedRenewal>>

AskSetup ==
    /\ gate = "in" /\ Eligible /\ ~checked /\ ask = Absent /\ ask' = "asked"
    /\ UNCHANGED <<serverVars, gateVars, module, checked, hijacked, feedVars, lifeVars,
       shellCounts>>
ServeSetup ==
    /\ ask = "asked" /\ ask' = IF SessionIsValid /\ inProgress THEN "in_progress" ELSE "complete"
    /\ UNCHANGED <<serverVars, gateVars, module, checked, hijacked, feedVars, lifeVars,
       shellCounts>>
LandSetup ==
    /\ ask \in {"in_progress", "complete"} /\ ask' = Absent
    /\ GoesTo(IF ask = "in_progress" THEN "setup" ELSE module, TRUE)
    /\ hijacked' = (hijacked \/ (ask = "in_progress" /\ module # Absent)) /\ UNCHANGED shellCounts
SetupFails ==
    /\ ask # Absent /\ ShellFault /\ ask' = Absent
    /\ GoesTo(module, TRUE) /\ UNCHANGED hijacked

\* Mutant of CheckAfter: the check goes on after the operator has moved.
CheckSurvives(m) == ask

\* The check is dead once the operator goes to a module of his own.
CheckAfter(m) == IF m = Absent THEN ask ELSE Absent
Navigate(m) ==
    /\ ShellAct /\ gate = "in" /\ m # module
    /\ GoesTo(m, checked) /\ ask' = CheckAfter(m) /\ UNCHANGED hijacked
FinishSetup == ShellAct /\ inProgress /\ inProgress' = FALSE
    /\ UNCHANGED <<now, until, revoked, staff, gateVars, landVars, feedVars, lifeVars>>

-----------------------------------------------------------------------------
(* The renewal, by the poll's beat or a tab that is shown *)

ShowTab == ShellAct /\ gate # "open" /\ Renew
    /\ UNCHANGED <<serverVars, gateVars, landVars, feedVars, expiry, beaten, failedRenewal>>
ServeRenewal ==
    /\ renewal = Asked
    /\ until' = IF SessionIsValid THEN now + Life ELSE until
    /\ renewal' = IF SessionIsValid THEN until' ELSE Refused
    /\ UNCHANGED <<now, revoked, inProgress, staff, gateVars, landVars, feedVars, expiry,
       beaten, failedRenewal, shellCounts>>
LandRenewal ==
    /\ renewal \notin {Absent, Asked} /\ gate # "open" /\ renewal' = Absent
    /\ IF renewal = Refused
       THEN expiry' = Absent /\ gate' = "open" /\ UNCHANGED <<beaten, failedRenewal>>
       ELSE expiry' = renewal /\ beaten' = FALSE /\ failedRenewal' = FALSE /\ UNCHANGED gate
    /\ UNCHANGED <<serverVars, role, probe, landVars, feedVars, shellCounts>>
RenewalFails ==
    /\ renewal # Absent /\ gate # "open" /\ ShellFault /\ renewal' = Absent /\ failedRenewal' = TRUE
    /\ UNCHANGED <<serverVars, gateVars, landVars, feedVars, expiry, beaten>>

-----------------------------------------------------------------------------
(* The poll of the board *)

AskBoard ==
    /\ OnBoard /\ poll = Absent /\ (mode # "demo" \/ Production) /\ poll' = "asked"
    /\ UNCHANGED <<serverVars, gateVars, landVars, mode, data, pollError, lifeVars, shellCounts>>
ServeBoard ==
    /\ poll = "asked" /\ poll' = IF SessionIsValid THEN "served" ELSE "refused"
    /\ UNCHANGED <<serverVars, gateVars, landVars, mode, data, pollError, lifeVars, shellCounts>>
\* The board is filled, and the renewal takes the beat; without a board on the screen the
\* answer only reaches the cache.
BoardLands ==
    /\ poll = "served" /\ poll' = Absent /\ data' = "board" /\ pollError' = Absent
    /\ IF OnBoard THEN mode' = "live" /\ Renew /\ beaten' = (beaten \/ until - now < Lead)
       ELSE UNCHANGED <<mode, renewal, beaten>>
    /\ UNCHANGED <<serverVars, gateVars, landVars, expiry, failedRenewal, shellCounts>>
BoardRefused ==
    /\ poll = "refused" /\ poll' = Absent /\ pollError' = "401"
    /\ gate' = IF OnBoard THEN "open" ELSE gate
    /\ UNCHANGED <<serverVars, role, probe, landVars, mode, data, lifeVars, shellCounts>>
\* What the query still holds is shown as live; without it the board latches into demo
\* data, or admits that it is reconnecting.
ModeAfterFailure ==
    IF data # Absent THEN "live"
    ELSE CASE mode = "connecting" -> "demo" [] mode = "live" -> "connecting" [] OTHER -> mode
BoardFails ==
    /\ poll # Absent /\ ShellFault /\ poll' = Absent /\ pollError' = "network"
    /\ IF OnBoard THEN mode' = ModeAfterFailure ELSE UNCHANGED mode
    /\ IF OnBoard /\ data # Absent THEN Renew ELSE UNCHANGED renewal
    /\ UNCHANGED <<serverVars, gateVars, landVars, data, expiry, beaten, failedRenewal>>
Reconnect ==
    /\ ShellAct /\ OnBoard /\ mode = "demo" /\ mode' = "connecting" /\ pollError' = Absent
    /\ UNCHANGED <<serverVars, gateVars, landVars, data, poll, lifeVars>>
\* The query's cache is dropped when no board has been on the screen for a while.
Forget ==
    /\ ~OnBoard /\ data # Absent /\ data' = Absent /\ pollError' = Absent
    /\ UNCHANGED <<serverVars, gateVars, landVars, mode, poll, lifeVars, shellCounts>>

ShellNext ==
    \/ Tick \/ Revoke \/ Login \/ Reload \/ SignOut
    \/ ServeProbe \/ PassGate \/ ProbeFails
    \/ AskSetup \/ ServeSetup \/ LandSetup \/ SetupFails \/ FinishSetup
    \/ \E m \in Modules \cup {Absent} : Navigate(m)
    \/ ShowTab \/ ServeRenewal \/ LandRenewal \/ RenewalFails
    \/ AskBoard \/ ServeBoard \/ BoardLands \/ BoardRefused \/ BoardFails \/ Reconnect \/ Forget

ShellSpec == ShellInit /\ [][ShellNext]_shellVars

-----------------------------------------------------------------------------
\* A console that has been let in by a probe loses its session by the clock only when no
\* poll landed after the midpoint, or the renewal failed or is still under way (api.ts,
\* renewSessionIfDue).
ExpiresOnlyIdle ==
    gate = "in" /\ expiry # Absent /\ ~revoked /\ now >= until
        => ~beaten \/ failedRenewal \/ renewal # Absent

\* Demo data never stand where the query has a board, and the landing never overrides a
\* module the operator went to (useBoardLifecycle.ts, firstRun.ts).
DemoOnlyUnfed == mode = "demo" /\ OnBoard => data = Absent
NeverHijacks == ~hijacked

\* The shell renews a session that its polls use, keeps demo data apart from a board it has
\* fetched, and its landing check never takes an operator away from where he went
\* (useBoardLifecycle.ts and AppShell.tsx).
ShellIsHonest == ExpiresOnlyIdle /\ DemoOnlyUnfed /\ NeverHijacks

\* Two wishes of comments that fail: "Live" is not claimed over stale data, and a console
\* that polls is renewed whatever became of its probe.
LiveIsFresh == mode = "live" /\ OnBoard => pollError = Absent
RenewedIfPolled == [][BoardLands /\ OnBoard /\ until - now < Lead => renewal' # Absent]_shellVars

=============================================================================
