--------------------------- MODULE InviteScreens ---------------------------
(* Invites as the people at both ends see them: the invite step of the setup wizard      *)
(* (setup/steps/InviteStep.tsx), the pending invites of the team screen (TeamRoster.tsx) *)
(* and the page that the link opens (app/invite/[token]/page.tsx), over the handlers of  *)
(* routes/invites.ts, whose check and write are separate statements.                     *)
EXTENDS Integers, FiniteSets

CONSTANTS Email, Window, Nothing,
    MaxInvites, MaxInviteActs, MaxInviteFaults   \* bounds: invites written, acts, lost answers

Invite == 1..MaxInvites      \* an invite and its link, in the order they are written

VARIABLES
    invite, account, members,           \* the API: invites, accounts with a password, the team
    invitations,                        \* sends under way, of this console (visit) and others (0)
    visit, last, invited, problem,      \* the invite step: visit, last answer, count, error
    pending, pendingRead, revocation, revokeFailed, \* the pending list, its read, a revocation, the error
    link,                               \* the pages opened on a link
    answered, overlapped, inviteBehind, \* history: sends answered here, emails whose checks
                                        \* overlapped, whether the list has missed a change
    inviteActs, inviteFaults

tableVars == <<invite, account, members>>
stepVars == <<invitations, visit, last, invited, problem, answered, overlapped>>
panelVars == <<pending, pendingRead, revocation, revokeFailed>>
boundVars == <<inviteActs, inviteFaults>>
joiningVars == <<tableVars, stepVars, panelVars, link, inviteBehind, boundVars>>

InviteAct == inviteActs < MaxInviteActs /\ inviteActs' = inviteActs + 1 /\ UNCHANGED inviteFaults
InviteFault == inviteFaults < MaxInviteFaults /\ inviteFaults' = inviteFaults + 1 /\ UNCHANGED inviteActs
InviteQuiet == UNCHANGED boundVars

Sent(e) == [email |-> e, accepted |-> FALSE, revoked |-> FALSE, expired |-> FALSE]
Outstanding(i) ==
    /\ invite[i] # Nothing
    /\ ~invite[i].accepted /\ ~invite[i].revoked /\ ~invite[i].expired
Pending == {i \in Invite : Outstanding(i)}
PendingFor(e) == {i \in Pending : invite[i].email = e}

ClosedLink == [at |-> "closed", invite |-> Nothing, accept |-> "none", error |-> "none", deaf |-> FALSE]

\* Rows of the invites, sends under way, revocations, and pages.
InviteRow == [email : Email, accepted : BOOLEAN, revoked : BOOLEAN, expired : BOOLEAN]
CallRow == [visit : Nat, email : Email, counted : Nat,
            at : {"asked", "checked", "refused", "written"}, invite : {Nothing} \cup Invite]
RevocationRow == [invite : Invite, at : {"asked", "found", "refused", "done"}]
ReadRow == [at : {"served"}, rows : SUBSET Invite]
LinkRow == [at : {"closed", "peeking", "valid", "gone", "ready", "invalid", "home"},
            invite : {Nothing} \cup Invite,
            accept : {"none", "asked", "found", "used", "exists", "accepted"},
            error : {"none", "used", "exists", "lost"}, deaf : BOOLEAN]

ListAsked == [at |-> "asked"]
ASSUME JoiningAssumption ==
    Nothing \notin Invite \cup InviteRow \cup RevocationRow \cup {ListAsked} \cup ReadRow

JoiningInit ==
    /\ invite = [i \in Invite |-> Nothing] /\ account = {} /\ members = {}
    /\ invitations = {} /\ visit = 1 /\ last = Nothing /\ invited = 0 /\ problem = FALSE
    /\ pending = {} /\ pendingRead = Nothing /\ revocation = Nothing /\ revokeFailed = FALSE
    /\ link = [t \in Window |-> ClosedLink]
    /\ answered = 0 /\ overlapped = {} /\ inviteBehind = FALSE
    /\ inviteActs = 0 /\ inviteFaults = 0

-----------------------------------------------------------------------------
(* The invite step *)

Call(v, e) == [visit |-> v, email |-> e, counted |-> invited, at |-> "asked", invite |-> Nothing]
Moved(c, stage, i) == invitations' = (invitations \ {c}) \cup {[c EXCEPT !.at = stage, !.invite = i]}

\* One send at a time for as long as the step is shown.
Send(e) ==
    /\ InviteAct /\ \A c \in invitations : c.visit # visit
    /\ invitations' = invitations \cup {Call(visit, e)} /\ problem' = FALSE
    /\ UNCHANGED <<tableVars, visit, last, invited, answered, overlapped, panelVars, link, inviteBehind>>
OtherSends(e) ==
    /\ InviteAct /\ invitations' = invitations \cup {Call(0, e)}
    /\ UNCHANGED <<tableVars, visit, last, invited, problem, answered, overlapped, panelVars, link, inviteBehind>>

Blocked(e) == e \in members \/ PendingFor(e) # {}
CheckSend(c) ==
    /\ c.at = "asked" /\ InviteQuiet
    /\ Moved(c, IF Blocked(c.email) THEN "refused" ELSE "checked", Nothing)
    /\ overlapped' = IF \E other \in invitations \ {c} : other.email = c.email /\ other.at = "checked"
                     THEN overlapped \cup {c.email} ELSE overlapped
    /\ UNCHANGED <<tableVars, visit, last, invited, problem, answered, panelVars, link, inviteBehind>>
WriteSend(c) ==
    /\ c.at = "checked" /\ InviteQuiet /\ inviteBehind' = TRUE
    /\ \E i \in Invite :
          /\ invite[i] = Nothing /\ \A j \in Invite : j < i => invite[j] # Nothing
          /\ invite' = [invite EXCEPT ![i] = Sent(c.email)]
          /\ Moved(c, "written", i)
    /\ UNCHANGED <<account, members, visit, last, invited, problem, answered, overlapped, panelVars, link>>

\* A visit that is over has no state to set; the wizard's count is the one the send began
\* with, plus one.
Next1(c) == c.counted + 1
SendLands(c) ==
    /\ c.at \in {"written", "refused"} /\ invitations' = invitations \ {c} /\ InviteQuiet
    /\ last' = IF c.visit = visit /\ c.at = "written" THEN c.invite ELSE last
    /\ problem' = IF c.visit = visit THEN c.at = "refused" ELSE problem
    /\ invited' = IF c.visit # 0 /\ c.at = "written" THEN Next1(c) ELSE invited
    /\ answered' = IF c.visit # 0 /\ c.at = "written" THEN answered + 1 ELSE answered
    /\ UNCHANGED <<tableVars, visit, overlapped, panelVars, link, inviteBehind>>
\* The connection breaks: the handler may go on, but nobody hears its answer.
SendLost(c) ==
    /\ c.visit # 0 /\ InviteFault
    /\ invitations' = (invitations \ {c}) \cup {[c EXCEPT !.visit = 0]}
    /\ problem' = IF c.visit = visit THEN TRUE ELSE problem
    /\ UNCHANGED <<tableVars, visit, last, invited, answered, overlapped, panelVars, link, inviteBehind>>
\* Another step of the wizard and back: the link that was shown is gone.
Revisit ==
    /\ InviteAct /\ visit' = visit + 1 /\ last' = Nothing /\ problem' = FALSE
    /\ UNCHANGED <<tableVars, invitations, invited, answered, overlapped, panelVars, link, inviteBehind>>

-----------------------------------------------------------------------------
(* The pending invites of the team screen *)

\* Every change of the team invalidates this list as well, and so does a visit.
Refresh ==
    /\ InviteAct /\ pendingRead' = ListAsked
    /\ UNCHANGED <<tableVars, stepVars, pending, revocation, revokeFailed, link, inviteBehind>>
ServeListing ==
    /\ pendingRead = ListAsked /\ pendingRead' = [at |-> "served", rows |-> Pending]
    /\ inviteBehind' = FALSE
    /\ UNCHANGED <<tableVars, stepVars, pending, revocation, revokeFailed, link>> /\ InviteQuiet
ListingLands ==
    /\ pendingRead \notin {Nothing, ListAsked} /\ pending' = pendingRead.rows
    /\ pendingRead' = Nothing
    /\ UNCHANGED <<tableVars, stepVars, revocation, revokeFailed, link, inviteBehind>>
    /\ InviteQuiet
ListingFails ==
    /\ pendingRead # Nothing /\ InviteFault /\ pendingRead' = Nothing /\ inviteBehind' = TRUE
    /\ UNCHANGED <<tableVars, stepVars, pending, revocation, revokeFailed, link>>

AskInviteRevoke(i) ==
    /\ InviteAct /\ i \in pending /\ revocation = Nothing
    /\ revocation' = [invite |-> i, at |-> "asked"]
    /\ UNCHANGED <<tableVars, stepVars, pending, pendingRead, revokeFailed, link, inviteBehind>>
FindInvite ==
    /\ revocation # Nothing /\ revocation.at = "asked" /\ InviteQuiet
    /\ revocation' = [revocation EXCEPT !.at = IF Outstanding(revocation.invite) THEN "found" ELSE "refused"]
    /\ UNCHANGED <<tableVars, stepVars, pending, pendingRead, revokeFailed, link, inviteBehind>>
\* An invite that was accepted in between is left as it is, and the answer is the same.
KillInvite ==
    /\ revocation # Nothing /\ revocation.at = "found"
    /\ revocation' = [revocation EXCEPT !.at = "done"]
    /\ invite' = [invite EXCEPT ![revocation.invite].revoked = ~invite[revocation.invite].accepted]
    /\ UNCHANGED <<account, members, stepVars, pending, pendingRead, revokeFailed, link, inviteBehind>>
    /\ InviteQuiet
ListRefetched == ListAsked
InviteRevokeLands ==
    /\ revocation # Nothing /\ revocation.at \in {"done", "refused"} /\ revocation' = Nothing
    /\ InviteQuiet
    /\ revokeFailed' = (revocation.at = "refused")
    /\ pendingRead' = IF revocation.at = "done" THEN ListRefetched ELSE pendingRead
    /\ UNCHANGED <<tableVars, stepVars, pending, link, inviteBehind>>
InviteRevokeLost ==
    /\ revocation # Nothing /\ revocation.at # "found" /\ InviteFault
    /\ revocation' = Nothing /\ revokeFailed' = TRUE /\ inviteBehind' = TRUE
    /\ UNCHANGED <<tableVars, stepVars, pending, pendingRead, link>>
OtherRevokes(i) ==
    /\ InviteAct /\ Outstanding(i) /\ invite' = [invite EXCEPT ![i].revoked = TRUE]
    /\ inviteBehind' = TRUE
    /\ UNCHANGED <<account, members, stepVars, panelVars, link>>
Expire(i) ==
    /\ InviteAct /\ Outstanding(i) /\ invite' = [invite EXCEPT ![i].expired = TRUE]
    /\ inviteBehind' = TRUE
    /\ UNCHANGED <<account, members, stepVars, panelVars, link>>

-----------------------------------------------------------------------------
(* The page of the link *)

Page(t, field, value) == link' = [link EXCEPT ![t][field] = value]

OpenLink(t, i) ==
    /\ InviteAct /\ link[t].at # "home" /\ link[t].accept = "none" /\ invite[i] # Nothing
    /\ link' = [link EXCEPT ![t] = [ClosedLink EXCEPT !.at = "peeking", !.invite = i]]
    /\ UNCHANGED <<tableVars, stepVars, panelVars, inviteBehind>>
Peek(t) ==
    /\ link[t].at = "peeking"
    /\ Page(t, "at", IF Outstanding(link[t].invite) THEN "valid" ELSE "gone")
    /\ UNCHANGED <<tableVars, stepVars, panelVars, inviteBehind>> /\ InviteQuiet
PeekLands(t) ==
    /\ link[t].at \in {"valid", "gone"}
    /\ Page(t, "at", IF link[t].at = "valid" THEN "ready" ELSE "invalid")
    /\ UNCHANGED <<tableVars, stepVars, panelVars, inviteBehind>> /\ InviteQuiet
\* A peek that fails shows the page of a dead link.
PeekLost(t) ==
    /\ link[t].at \in {"peeking", "valid", "gone"} /\ InviteFault
    /\ link' = [link EXCEPT ![t].at = "invalid", ![t].deaf = TRUE]
    /\ UNCHANGED <<tableVars, stepVars, panelVars, inviteBehind>>

SubmitLink(t) ==
    /\ link[t].at = "ready" /\ link[t].accept = "none"
    /\ link' = [link EXCEPT ![t].accept = "asked", ![t].error = "none"]
    /\ UNCHANGED <<tableVars, stepVars, panelVars, inviteBehind>> /\ InviteQuiet
FindAccept(t) ==
    /\ link[t].accept = "asked"
    /\ Page(t, "accept", IF Outstanding(link[t].invite) THEN "found" ELSE "used")
    /\ UNCHANGED <<tableVars, stepVars, panelVars, inviteBehind>> /\ InviteQuiet
\* Mutant of ClaimAnswer: what the first look found is taken for granted.
ClaimAnswerFromFirstLook(e, i) == IF e \in account THEN "exists" ELSE "accepted"

\* The transaction after the password is hashed: the claim is taken back when the email
\* already has an account.
ClaimAnswer(e, i) == IF ~Outstanding(i) THEN "used" ELSE IF e \in account THEN "exists" ELSE "accepted"
Claim(t) ==
    LET i == link[t].invite  e == invite[i].email  answer == ClaimAnswer(e, i)
    IN  /\ link[t].accept = "found" /\ Page(t, "accept", answer) /\ InviteQuiet
        /\ IF answer = "accepted"
           THEN /\ invite' = [invite EXCEPT ![i].accepted = TRUE]
                /\ account' = account \cup {e} /\ members' = members \cup {e}
                /\ inviteBehind' = TRUE
           ELSE UNCHANGED <<tableVars, inviteBehind>>
        /\ UNCHANGED <<stepVars, panelVars>>
\* The answer signs the person in; the button stays busy while the page is left.
AcceptLands(t) ==
    /\ link[t].accept \in {"accepted", "used", "exists"} /\ InviteQuiet
    /\ link' = [link EXCEPT ![t] =
                  IF link[t].accept = "accepted" THEN [@ EXCEPT !.at = "home", !.accept = "none"]
                  ELSE [@ EXCEPT !.error = link[t].accept, !.accept = "none"]]
    /\ UNCHANGED <<tableVars, stepVars, panelVars, inviteBehind>>
AcceptLost(t) ==
    /\ link[t].accept \notin {"none", "found"} /\ InviteFault
    /\ link' = [link EXCEPT ![t].error = "lost", ![t].accept = "none"]
    /\ UNCHANGED <<tableVars, stepVars, panelVars, inviteBehind>>
\* The person signs up on his own, for an organization of his own.
SignsUp(e) ==
    /\ InviteAct /\ e \notin account /\ account' = account \cup {e}
    /\ UNCHANGED <<invite, members, stepVars, panelVars, link, inviteBehind>>

-----------------------------------------------------------------------------
JoiningNext ==
    \/ \E e \in Email : Send(e) \/ OtherSends(e) \/ SignsUp(e)
    \/ \E c \in invitations : CheckSend(c) \/ WriteSend(c) \/ SendLands(c) \/ SendLost(c)
    \/ Revisit \/ Refresh \/ ServeListing \/ ListingLands \/ ListingFails
    \/ \E i \in Invite : AskInviteRevoke(i) \/ OtherRevokes(i) \/ Expire(i)
    \/ FindInvite \/ KillInvite \/ InviteRevokeLands \/ InviteRevokeLost
    \/ \E t \in Window :
          \/ \E i \in Invite : OpenLink(t, i)
          \/ Peek(t) \/ PeekLands(t) \/ PeekLost(t)
          \/ SubmitLink(t) \/ FindAccept(t) \/ Claim(t) \/ AcceptLands(t) \/ AcceptLost(t)

JoiningSpec == JoiningInit /\ [][JoiningNext]_joiningVars

-----------------------------------------------------------------------------
\* Two invites are out for one email only if two sends checked before either wrote.
OneInvitePerEmail == \A e \in Email : Cardinality(PendingFor(e)) > 1 => e \in overlapped

\* However many links a person holds, one of them is used, and never a revoked one.
OneJoinPerEmail ==
    /\ \A i, j \in Invite : i # j /\ invite[i] # Nothing /\ invite[j] # Nothing
          /\ invite[i].accepted /\ invite[j].accepted => invite[i].email # invite[j].email
    /\ \A i \in Invite : invite[i] # Nothing => ~(invite[i].accepted /\ invite[i].revoked)
    /\ \A t, u \in Window : t # u /\ link[t].at = "home" /\ link[u].at = "home" =>
          link[t].invite # link[u].invite

\* What a page says of its link stays true: a dead link is dead unless the look failed, an
\* email in use has an account, and who is let in is on the team.
PagesTellTrue ==
    \A t \in Window : link[t].invite # Nothing =>
        /\ link[t].at = "invalid" => ~Outstanding(link[t].invite) \/ link[t].deaf
        /\ link[t].error = "used" => ~Outstanding(link[t].invite)
        /\ link[t].error = "exists" => invite[link[t].invite].email \in account
        /\ link[t].at = "home" => /\ invite[link[t].invite].accepted
                                 /\ invite[link[t].invite].email \in members

JoiningIsSound == OneInvitePerEmail /\ OneJoinPerEmail /\ PagesTellTrue

\* The list shows what is outstanding once nothing is under way, unless somebody else
\* changed an invite or an answer was lost since it was read.
ListFollows == pendingRead = Nothing /\ revocation = Nothing /\ ~inviteBehind => pending = Pending

\* For as long as the step is not left it counts its sends exactly and keeps the last
\* answer in view; it never counts one too many.
StepCounts ==
    /\ invited <= answered
    /\ visit = 1 => invited = answered /\ (answered > 0 => last # Nothing)

InvitesAreShown == ListFollows /\ StepCounts

=============================================================================
