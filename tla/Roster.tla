------------------------------- MODULE Roster -------------------------------
(* The team screen of an owner or admin (features/team/TeamRoster.tsx): a member's        *)
(* skills are edited as a whole list that starts from the cached roster, while another    *)
(* console edits the same row, and the operator's own devices are signed out from a       *)
(* cached list.  The endpoints are routes/invites.ts and routes/auth.ts, one step each;   *)
(* the locks behind them are Team's.  The invites of InviteScreens share the screen with  *)
(* the roster and no state, so a behaviour of both is one of each.                        *)
EXTENDS InviteScreens

CONSTANTS Skill, Rank, Device, Here, Void,
    MaxRosterActs, MaxRosterFaults     \* bounds on edits and lost answers

VARIABLES
    skills, rank, member, \* the API: a member's skills and role, and whether he is one
    devices,              \* the API: the operator's live sessions
    cache, deviceList,    \* the cached roster (Void: not on it) and device list
    fetch, deviceRead,    \* refetches under way: Void, "asked", or what was read
    save,                 \* by Slot: the mutation under way, Void or [kind, value, at]
    revoking,             \* a device being signed out, as [device, at], or Void
    confirming,           \* the member's row asks whether he is to be removed
    failed, page,         \* the error line; "roster" or "login"
    rosterBehind,         \* history: changes that no later read has seen
    rosterActs, rosterFaults

memberVars == <<skills, rank, member, devices>>
screenVars == <<cache, deviceList, fetch, deviceRead, save, revoking, confirming, failed, page>>
rosterVars == <<memberVars, screenVars, rosterBehind, rosterActs, rosterFaults>>

Requested == [at |-> "asked"]
\* The mutation of the screen that is shown, and one that an earlier visit left under way.
Slot == {"shown", "left"}
Idle == [s \in Slot |-> Void]
MemberRow == [skills : SUBSET Skill, rank : Rank]
FetchedRow == [at : {"served"}, row : MemberRow \cup {Void}]
SaveRow == [kind : {"skills", "role", "remove", "signout"}, value : (SUBSET Skill) \cup Rank,
            at : {"asked", "done", "refused"}]
RevokeRow == [device : Device, at : {"asked", "done", "refused"}]

ASSUME RosterAssumption ==
    /\ Here \in Device
    /\ Void \notin {Requested} \cup FetchedRow \cup SaveRow \cup RevokeRow

Row == IF member THEN [skills |-> skills, rank |-> rank] ELSE Void
RosterInit ==
    /\ skills \in SUBSET Skill /\ rank \in Rank /\ member = TRUE /\ devices = Device
    /\ cache = Row /\ deviceList = Device /\ fetch = Void /\ deviceRead = Void
    /\ save = Idle /\ revoking = Void /\ confirming = FALSE /\ failed = FALSE /\ page = "roster"
    /\ rosterBehind = {} /\ rosterActs = 0 /\ rosterFaults = 0

Click == rosterActs < MaxRosterActs /\ rosterActs' = rosterActs + 1 /\ UNCHANGED rosterFaults
RosterAct == Click /\ UNCHANGED confirming
RosterFault ==
    /\ rosterFaults < MaxRosterFaults /\ rosterFaults' = rosterFaults + 1
    /\ UNCHANGED <<confirming, rosterActs>>
RosterQuiet == UNCHANGED <<confirming, rosterActs, rosterFaults>>

-----------------------------------------------------------------------------
(* Mutations: one at a time on the screen that is shown *)

StartSave(kind, value) ==
    /\ page = "roster" /\ save["shown"] = Void /\ cache # Void
    /\ save' = [save EXCEPT !["shown"] = [kind |-> kind, value |-> value, at |-> "asked"]]
    /\ UNCHANGED <<memberVars, cache, deviceList, fetch, deviceRead, revoking, failed, page, rosterBehind>>
AddSkill(k) ==
    RosterAct /\ cache # Void /\ k \notin cache.skills /\ StartSave("skills", cache.skills \cup {k})
RemoveSkill(k) ==
    RosterAct /\ cache # Void /\ k \in cache.skills /\ StartSave("skills", cache.skills \ {k})
ChangeRole(r) == RosterAct /\ cache # Void /\ r # cache.rank /\ StartSave("role", r)
\* The row asks first; the question can be dropped while another mutation is under way.
AskConfirm ==
    /\ page = "roster" /\ cache # Void /\ ~confirming /\ save["shown"] = Void /\ confirming' = TRUE
    /\ UNCHANGED <<memberVars, cache, deviceList, fetch, deviceRead, save, revoking, failed, page, rosterBehind,
                   rosterActs, rosterFaults>>
DropConfirm ==
    /\ page = "roster" /\ confirming /\ confirming' = FALSE
    /\ UNCHANGED <<memberVars, cache, deviceList, fetch, deviceRead, save, revoking, failed, page, rosterBehind,
                   rosterActs, rosterFaults>>
RemoveMember == Click /\ confirming /\ confirming' = FALSE /\ StartSave("remove", {})
SignOutMember == RosterAct /\ StartSave("signout", {})

\* A member who is gone is not found; the guards of roles and owners are Team's.
SaveAnswers(kind) == IF kind \in {"role", "remove"} THEN {member, FALSE} ELSE {member}
ServeSave(s) ==
    /\ save[s] # Void /\ save[s].at = "asked" /\ Here \in devices
    /\ \E granted \in SaveAnswers(save[s].kind) :
          /\ save' = [save EXCEPT ![s].at = IF granted THEN "done" ELSE "refused"]
          /\ skills' = IF granted /\ save[s].kind = "skills" THEN save[s].value ELSE skills
          /\ rank' = IF granted /\ save[s].kind = "role" THEN save[s].value ELSE rank
          /\ member' = (member /\ ~(granted /\ save[s].kind = "remove"))
          /\ rosterBehind' = IF granted /\ save[s].kind # "signout" THEN rosterBehind \cup {"own"}
                           ELSE rosterBehind
    /\ UNCHANGED <<devices, cache, deviceList, fetch, deviceRead, revoking, failed, page>>
    /\ RosterQuiet

\* invalidateQueries drops the read under way and starts another; busy ends at once.
RosterRefetched == Requested
\* The error line is that of the screen that is shown.
SaveLands(s) ==
    /\ save[s] # Void /\ save[s].at \in {"done", "refused"} /\ save' = [save EXCEPT ![s] = Void]
    /\ failed' = IF s = "shown" THEN save[s].at = "refused" ELSE failed
    /\ fetch' = IF save[s].at = "done" /\ save[s].kind # "signout" THEN RosterRefetched ELSE fetch
    /\ UNCHANGED <<memberVars, cache, deviceList, deviceRead, revoking, page, rosterBehind>>
    /\ RosterQuiet
SaveUnheard(s) ==
    /\ save[s] # Void /\ RosterFault /\ save' = [save EXCEPT ![s] = Void]
    /\ failed' = (failed \/ s = "shown")
    /\ rosterBehind' = IF "own" \in rosterBehind THEN (rosterBehind \ {"own"}) \cup {"lost"}
                     ELSE rosterBehind
    /\ UNCHANGED <<memberVars, cache, deviceList, fetch, deviceRead, revoking, page>>

OtherConsoleEdits ==
    /\ RosterAct /\ member
    /\ \/ skills' \in SUBSET Skill \ {skills} /\ UNCHANGED <<rank, member>>
       \/ rank' \in Rank \ {rank} /\ UNCHANGED <<skills, member>>
       \/ member' = FALSE /\ UNCHANGED <<skills, rank>>
    /\ rosterBehind' = rosterBehind \cup {"other"}
    /\ UNCHANGED <<devices, screenVars>>

-----------------------------------------------------------------------------
(* Reads: the roster is read again when it is stale and the screen is shown anew *)

\* A new visit has no error, no question and no mutation of its own: the button is free
\* though one may still be under way (one is followed; device sign-outs are not left).
Remount ==
    /\ Click /\ page = "roster" /\ revoking = Void /\ Void \in {save["shown"], save["left"]}
    /\ save' = [shown |-> Void, left |-> IF save["left"] = Void THEN save["shown"] ELSE save["left"]]
    /\ fetch' \in {fetch, IF fetch = Void THEN Requested ELSE fetch}
    /\ confirming' = FALSE /\ failed' = FALSE
    /\ UNCHANGED <<memberVars, cache, deviceList, deviceRead, revoking, page, rosterBehind>>
ServeFetch ==
    /\ fetch = Requested /\ Here \in devices /\ fetch' = [at |-> "served", row |-> Row]
    /\ rosterBehind' = {}
    /\ UNCHANGED <<memberVars, cache, deviceList, deviceRead, save, revoking, failed, page>>
    /\ RosterQuiet
FetchLands ==
    /\ fetch \notin {Void, Requested} /\ cache' = fetch.row /\ fetch' = Void
    /\ confirming' = (confirming /\ fetch.row # Void)
    /\ UNCHANGED <<memberVars, deviceList, deviceRead, save, revoking, failed, page, rosterBehind,
                   rosterActs, rosterFaults>>
FetchFails ==
    /\ fetch # Void /\ RosterFault /\ fetch' = Void
    /\ rosterBehind' = (rosterBehind \ {"own"}) \cup {"lost"}
    /\ UNCHANGED <<memberVars, cache, deviceList, deviceRead, save, revoking, failed, page>>

-----------------------------------------------------------------------------
(* Your devices *)

AskRevoke(d) ==
    /\ RosterAct /\ page = "roster" /\ d \in deviceList /\ revoking = Void
    /\ revoking' = [device |-> d, at |-> "asked"]
    /\ UNCHANGED <<memberVars, cache, deviceList, fetch, deviceRead, save, failed, page, rosterBehind>>
\* Once this device's session is gone every request of the console is a 401.
ServeRevoke ==
    /\ revoking # Void /\ revoking.at = "asked"
    /\ revoking' = [revoking EXCEPT !.at = IF {revoking.device, Here} \subseteq devices THEN "done" ELSE "refused"]
    /\ devices' = IF Here \in devices THEN devices \ {revoking.device} ELSE devices
    /\ UNCHANGED <<skills, rank, member, cache, deviceList, fetch, deviceRead, save, failed, page, rosterBehind>>
    /\ RosterQuiet

Leaves(d) == d = Here
RevokeLands ==
    /\ revoking # Void /\ revoking.at # "asked" /\ revoking' = Void
    /\ failed' = (revoking.at = "refused")
    /\ page' = IF revoking.at = "done" /\ Leaves(revoking.device) THEN "login" ELSE page
    /\ deviceRead' = IF revoking.at = "done" /\ ~Leaves(revoking.device) THEN Requested ELSE deviceRead
    /\ UNCHANGED <<memberVars, cache, deviceList, fetch, save, rosterBehind>> /\ RosterQuiet
RevokeLost ==
    /\ revoking # Void /\ RosterFault /\ revoking' = Void /\ failed' = TRUE
    /\ UNCHANGED <<memberVars, cache, deviceList, fetch, deviceRead, save, page, rosterBehind>>
\* Any request of a dead session is answered 401, and the shell leaves (AppShell.tsx).
Expired ==
    /\ Here \notin devices /\ page = "roster"
    /\ \/ Requested \in {fetch, deviceRead}
       \/ \E s \in Slot : save[s] # Void /\ save[s].at = "asked"
    /\ page' = "login" /\ fetch' = Void /\ deviceRead' = Void /\ save' = Idle
    /\ rosterBehind' = rosterBehind \cup {"lost"}
    /\ UNCHANGED <<memberVars, cache, deviceList, revoking, failed>> /\ RosterQuiet
OtherDeviceSignsOut(d) ==
    /\ RosterAct /\ d \in devices \ {Here} /\ devices' = devices \ {d}
    /\ UNCHANGED <<skills, rank, member, screenVars, rosterBehind>>
ServeList ==
    /\ deviceRead = Requested /\ Here \in devices
    /\ deviceRead' = [at |-> "served", rows |-> devices]
    /\ UNCHANGED <<memberVars, cache, deviceList, fetch, save, revoking, failed, page, rosterBehind>>
    /\ RosterQuiet
ListLands ==
    /\ deviceRead \notin {Void, Requested} /\ deviceList' = deviceRead.rows /\ deviceRead' = Void
    /\ UNCHANGED <<memberVars, cache, fetch, save, revoking, failed, page, rosterBehind>>
    /\ RosterQuiet

RosterNext ==
    \/ \E k \in Skill : AddSkill(k) \/ RemoveSkill(k)
    \/ \E r \in Rank : ChangeRole(r)
    \/ AskConfirm \/ DropConfirm \/ RemoveMember \/ SignOutMember \/ OtherConsoleEdits
    \/ \E s \in Slot : ServeSave(s) \/ SaveLands(s) \/ SaveUnheard(s)
    \/ Remount \/ ServeFetch \/ FetchLands \/ FetchFails
    \/ \E d \in Device : AskRevoke(d) \/ OtherDeviceSignsOut(d)
    \/ ServeRevoke \/ RevokeLands \/ RevokeLost \/ ServeList \/ ListLands \/ Expired

RosterSpec == RosterInit /\ [][RosterNext]_rosterVars

-----------------------------------------------------------------------------
\* When nothing is under way the roster shows what the API holds, unless another console
\* has changed it or an answer was lost since the last read (TeamRoster.tsx, the
\* invalidation of each mutation).
RosterFollows == page = "roster" /\ fetch = Void /\ save = Idle /\ rosterBehind = {} => cache = Row
OwnIsSeen == "own" \in rosterBehind /\ page = "roster" => save # Idle \/ fetch # Void

\* A console whose own session it has signed out leaves, unless the answer was lost.
LeavesDeadSession == Here \notin devices => page = "login" \/ revoking # Void \/ rosterFaults > 0

RosterIsHonest == RosterFollows /\ OwnIsSeen /\ LeavesDeadSession

\* What is not promised: a skill that was saved stays until somebody removes it.  The list
\* that an edit starts from may be older than a save of another console, or of a former
\* visit of this one (TeamRoster.tsx, setSkills).
SavedSkillStays ==
    [][\A s \in Slot : ServeSave(s) /\ save[s].kind = "skills" /\ cache # Void =>
        skills \ skills' \subseteq cache.skills]_rosterVars

-----------------------------------------------------------------------------
(* The screens on which a team is put together *)

TeamSpec == RosterSpec /\ JoiningSpec

\* The team screen catches up with the team, and a console that signed itself out leaves
\* (TeamRoster.tsx).  However an invite is sent, looked at, accepted, revoked and expires, one
\* of a person's links is used, what a page says of its link stays true, and the pending list
\* and the wizard's step catch up (routes/invites.ts, InviteStep.tsx, app/invite).
TeamScreensAreHonest == RosterIsHonest /\ JoiningIsSound /\ InvitesAreShown

=============================================================================
