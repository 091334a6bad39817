-------------------------------- MODULE Team --------------------------------
(***************************************************************************)
(* The team of one organization: memberships, invites, accounts and        *)
(* sessions (routes/invites.ts, routes/accounts.ts, routes/auth.ts,        *)
(* lib/sessions.ts, and the hook of lib/tenant.ts that admits requests).   *)
(*                                                                         *)
(* A handler reads first and writes later, at READ COMMITTED.  Role        *)
(* changes, and removals of somebody read as an owner, take a per-          *)
(* organization advisory lock for their transaction; sign-ins, accepted    *)
(* invites and the other removals do not.  All that a handler reads before *)
(* its transaction is read in one step.                                    *)
(*                                                                         *)
(* Roles that differ neither in what they may do to a team nor in the      *)
(* length of their sessions are one role here: admin stands for itself,    *)
(* technician for everybody who may not administer the team.               *)
(***************************************************************************)
EXTENDS Naturals, FiniteSets

CONSTANTS
    Person,       \* people, each with an e-mail address
    Handler,      \* handlers the API runs at once
    None,         \* no membership, no lock, nothing read
    Invite,       \* bound: invites that may be written
    MaxRequests   \* bound: requests of several steps

Roles == {"owner", "admin", "technician"}
WriteRoles == {"owner", "admin"}
Operations == {"role", "remove", "login", "renew", "invite", "accept"}
Number == 1..(MaxRequests + 1)
Session == Person \X Number
HolderOf(s) == s[1]

ASSUME BoundAssumption == MaxRequests \in Nat
ASSUME NoneAssumption == None \notin Person \cup Handler \cup Roles

VARIABLES
    role,       \* OrganizationMembership: the role of each member
    account,    \* people with a User row and a password
    session,    \* the sessions table
    invite,     \* the invites table
    lock,       \* holder of pg_advisory_xact_lock(org-owners)
    pc, op, about, as,   \* the handlers: step, operation, whom it is about, which role
    requests,   \* made so far
    overtaken,  \* history: sessions opened with a role that had changed since it was read
    unguarded   \* history: an owner was removed without the lock

tableVars == <<role, account, session, invite>>
handlerVars == <<pc, op, about, as>>
historyVars == <<requests, overtaken, unguarded>>
vars == <<tableVars, lock, handlerVars, historyVars>>

Owners == {p \in Person : role[p] = "owner"}
LastOwner == Cardinality(Owners) <= 1

SessionRow == [role : Roles \cup {None}, state : {"none", "live", "expired", "revoked"}]
NoSession == [role |-> None, state |-> "none"]
InviteRow == [person : Person \cup {None}, role : Roles \cup {None},
              state : {"none", "pending", "accepted", "revoked", "expired"}]
NoInvite == [person |-> None, role |-> None, state |-> "none"]

\* Every member has an account and is signed in on a device; somebody is the owner.
Init ==
    /\ role \in [Person -> Roles \cup {None}] /\ Owners # {}
    /\ account = {p \in Person : role[p] # None}
    /\ session = [s \in Session |->
                    IF s[2] = 1 /\ role[HolderOf(s)] # None
                      THEN [role |-> role[HolderOf(s)], state |-> "live"] ELSE NoSession]
    /\ invite = [i \in Invite |-> NoInvite]
    /\ lock = None
    /\ pc = [h \in Handler |-> "idle"] /\ op = [h \in Handler |-> None]
    /\ about = [h \in Handler |-> None] /\ as = [h \in Handler |-> None]
    /\ requests = 0 /\ overtaken = {} /\ unguarded = FALSE

-----------------------------------------------------------------------------
(* Handlers *)

\* The hook admits a request of a live session, with the role in the session's row.
Admits(s, roles) == session[s].state = "live" /\ session[s].role \in roles

Ask(h, operation, subject, r, next) ==
    /\ pc[h] = "idle" /\ requests < MaxRequests
    /\ requests' = requests + 1
    /\ pc' = [pc EXCEPT ![h] = next]
    /\ op' = [op EXCEPT ![h] = operation]
    /\ about' = [about EXCEPT ![h] = subject]
    /\ as' = [as EXCEPT ![h] = r]
    /\ UNCHANGED <<tableVars, lock, overtaken, unguarded>>

At(h, operation, point) == op[h] = operation /\ pc[h] = point

GoTo(h, point) == pc' = [pc EXCEPT ![h] = point] /\ UNCHANGED <<op, about, as>>

\* The answer; the transaction, if there is one, ends with it.
Leave(h) ==
    /\ pc' = [pc EXCEPT ![h] = "idle"]
    /\ op' = [op EXCEPT ![h] = None]
    /\ about' = [about EXCEPT ![h] = None]
    /\ as' = [as EXCEPT ![h] = None]
    /\ lock' = IF lock = h THEN None ELSE lock

Lock(h) ==
    /\ pc[h] = "lock" /\ lock = None
    /\ lock' = h
    /\ GoTo(h, "check")
    /\ UNCHANGED <<tableVars, historyVars>>

-----------------------------------------------------------------------------
(* PATCH /team/members/:userId with a role *)

\* The owner boundary, before the transaction.
MayChange(actor, p, r) ==
    /\ p # HolderOf(actor)
    /\ "owner" \in {r, role[p]} => session[actor].role = "owner"
    /\ role[p] = "owner" => ~LastOwner

AskRole(h, actor, p, r) ==
    /\ Admits(actor, WriteRoles)
    /\ role[p] \notin {None, r}
    /\ MayChange(actor, p, r)
    /\ Ask(h, "role", p, r, "lock")

\* Mutant of KeepsOwner: the count before the transaction is trusted.
KeepsOwnerAsRead(h) == TRUE

\* The recheck behind the lock.
KeepsOwner(h) == role[about[h]] = "owner" /\ as[h] # "owner" => ~LastOwner

CheckRole(h) ==
    /\ At(h, "role", "check")
    /\ IF role[about[h]] # None /\ KeepsOwner(h)
         THEN GoTo(h, "write") /\ UNCHANGED lock
         ELSE Leave(h)
    /\ UNCHANGED <<tableVars, historyVars>>

\* setUserSessionsRole: every session that is not revoked.
Restamped(p, r) ==
    [s \in Session |-> IF HolderOf(s) = p /\ session[s].state \in {"live", "expired"}
                         THEN [session[s] EXCEPT !.role = r] ELSE session[s]]

\* The update throws if the membership has gone since.
WriteRole(h) ==
    /\ At(h, "role", "write")
    /\ LET p == about[h]
       IN  IF role[p] = None
             THEN UNCHANGED <<role, session, overtaken>>
             ELSE /\ role' = [role EXCEPT ![p] = as[h]]
                  /\ session' = Restamped(p, as[h])
                  /\ overtaken' = {s \in overtaken : HolderOf(s) # p}
    /\ Leave(h)
    /\ UNCHANGED <<account, invite, requests, unguarded>>

-----------------------------------------------------------------------------
(* DELETE /team/members/:userId *)

MayRemove(actor, p) ==
    /\ p # HolderOf(actor)
    /\ role[p] = "owner" => session[actor].role = "owner" /\ ~LastOwner

\* Only the removal of somebody who is read as an owner takes the lock.
AskRemoval(h, actor, p) ==
    /\ Admits(actor, WriteRoles)
    /\ role[p] # None
    /\ MayRemove(actor, p)
    /\ Ask(h, "remove", p, None, IF role[p] = "owner" THEN "lock" ELSE "write")

CheckRemoval(h) ==
    /\ At(h, "remove", "check")
    /\ IF LastOwner THEN Leave(h) ELSE GoTo(h, "write") /\ UNCHANGED lock
    /\ UNCHANGED <<tableVars, historyVars>>

\* revokeUserSessions: every session of the person that is not revoked yet.
RevokedOf(p) ==
    [s \in Session |-> IF HolderOf(s) = p /\ session[s].state \in {"live", "expired"}
                         THEN [session[s] EXCEPT !.state = "revoked"] ELSE session[s]]

WriteRemoval(h) ==
    /\ At(h, "remove", "write")
    /\ LET p == about[h]
       IN  IF role[p] = None
             THEN UNCHANGED <<role, session, overtaken, unguarded>>
             ELSE /\ role' = [role EXCEPT ![p] = None]
                  /\ session' = RevokedOf(p)
                  /\ unguarded' = (unguarded \/ (role[p] = "owner" /\ lock # h))
                  /\ overtaken' = {s \in overtaken : HolderOf(s) # p}
    /\ Leave(h)
    /\ UNCHANGED <<account, invite, requests>>

\* POST /team/members/:userId/sign-out.
SignOutMember(actor, p) ==
    /\ Admits(actor, WriteRoles) /\ role[p] # None
    /\ role[p] = "owner" => session[actor].role = "owner"
    /\ session' = RevokedOf(p)
    /\ UNCHANGED <<role, account, invite, lock, handlerVars, historyVars>>

-----------------------------------------------------------------------------
(* Sessions: POST /auth/login, /renew, /sign-out, DELETE /auth/sessions/:id *)

AskLogin(h, p) ==
    /\ p \in account /\ role[p] # None
    /\ Ask(h, "login", p, role[p], "open")

Unused(p) == {n \in Number : session[<<p, n>>].state = "none"}

\* createSession with the role read before; login and accepted invites end with it.
OpenSession(h) ==
    /\ pc[h] = "open"
    /\ \E n \in Unused(about[h]) :
          /\ \A k \in Unused(about[h]) : n <= k
          /\ LET s == <<about[h], n>>
             IN  /\ session' = [session EXCEPT ![s] = [role |-> as[h], state |-> "live"]]
                 /\ overtaken' = IF role[about[h]] = as[h] THEN overtaken ELSE overtaken \cup {s}
    /\ Leave(h)
    /\ UNCHANGED <<role, account, invite, requests, unguarded>>

AskRenewal(h, s) ==
    /\ Admits(s, Roles)
    /\ Ask(h, "renew", s, None, "write")

Renewable(s) == session[s].state \in {"live", "expired"}

Renew(h) ==
    /\ At(h, "renew", "write")
    /\ session' = IF Renewable(about[h])
                    THEN [session EXCEPT ![about[h]].state = "live"] ELSE session
    /\ Leave(h)
    /\ UNCHANGED <<role, account, invite, historyVars>>

\* A person signs out, here or on another device of their own.
SignOut(s, t) ==
    /\ Admits(s, Roles) /\ HolderOf(s) = HolderOf(t) /\ Renewable(t)
    /\ session' = [session EXCEPT ![t].state = "revoked"]
    /\ UNCHANGED <<role, account, invite, lock, handlerVars, historyVars>>

Expire(s) ==
    /\ session[s].state = "live"
    /\ session' = [session EXCEPT ![s].state = "expired"]
    /\ UNCHANGED <<role, account, invite, lock, handlerVars, historyVars>>

-----------------------------------------------------------------------------
(* Invites *)

Pending(p) == {i \in Invite : invite[i].person = p /\ invite[i].state = "pending"}

\* POST /team/invites: neither a member nor an invite that is out, as far as is read.
AskInvite(h, actor, p, r) ==
    /\ Admits(actor, WriteRoles)
    /\ r = "owner" => session[actor].role = "owner"
    /\ role[p] = None /\ Pending(p) = {}
    /\ Ask(h, "invite", p, r, "write")

CreateInvite(h) ==
    /\ At(h, "invite", "write")
    /\ \E i \in Invite :
          /\ invite[i] = NoInvite
          /\ invite' = [invite EXCEPT ![i] =
                          [person |-> about[h], role |-> as[h], state |-> "pending"]]
    /\ Leave(h)
    /\ UNCHANGED <<role, account, session, historyVars>>

\* POST /team/invites/:id/revoke, whose update is conditional.
RevokeInvite(actor, i) ==
    /\ Admits(actor, WriteRoles) /\ invite[i].state = "pending"
    /\ invite[i].role = "owner" => session[actor].role = "owner"
    /\ invite' = [invite EXCEPT ![i].state = "revoked"]
    /\ UNCHANGED <<role, account, session, lock, handlerVars, historyVars>>

ExpireInvite(i) ==
    /\ invite[i].state = "pending"
    /\ invite' = [invite EXCEPT ![i].state = "expired"]
    /\ UNCHANGED <<role, account, session, lock, handlerVars, historyVars>>

\* POST /invites/:token/accept, up to the hash of the password.
AskAccept(h, i) ==
    /\ invite[i].state = "pending"
    /\ Ask(h, "accept", i, None, "write")

\* Mutant of Claims: the invite is claimed as it was read.
ClaimsAsRead(i) == TRUE

\* The conditional update of the invite.
Claims(i) == invite[i].state = "pending"

\* One transaction: claim, account, membership.  An account that exists rolls it back.
Accept(h) ==
    /\ At(h, "accept", "write")
    /\ LET i == about[h]
           p == invite[i].person
       IN  IF Claims(i) /\ p \notin account
             THEN /\ invite' = [invite EXCEPT ![i].state = "accepted"]
                  /\ account' = account \cup {p}
                  /\ role' = [role EXCEPT ![p] = invite[i].role]
                  /\ pc' = [pc EXCEPT ![h] = "open"]
                  /\ about' = [about EXCEPT ![h] = p]
                  /\ as' = [as EXCEPT ![h] = invite[i].role]
                  /\ UNCHANGED <<op, lock>>
             ELSE Leave(h) /\ UNCHANGED <<invite, account, role>>
    /\ UNCHANGED <<session, historyVars>>

-----------------------------------------------------------------------------
RoleStep(h) ==
    \/ \E s \in Session, p \in Person, r \in Roles : AskRole(h, s, p, r)
    \/ CheckRole(h) \/ WriteRole(h)

RemovalStep(h) ==
    \/ \E s \in Session, p \in Person : AskRemoval(h, s, p)
    \/ CheckRemoval(h) \/ WriteRemoval(h)

SessionStep(h) ==
    \/ \E p \in Person : AskLogin(h, p)
    \/ \E s \in Session : AskRenewal(h, s)
    \/ OpenSession(h) \/ Renew(h)

InviteStep(h) ==
    \/ \E s \in Session, p \in Person, r \in Roles : AskInvite(h, s, p, r)
    \/ \E i \in Invite : AskAccept(h, i)
    \/ CreateInvite(h) \/ Accept(h)

Next ==
    \/ \E h \in Handler :
          RoleStep(h) \/ RemovalStep(h) \/ SessionStep(h) \/ InviteStep(h) \/ Lock(h)
    \/ \E s \in Session :
          \/ Expire(s)
          \/ \E p \in Person : SignOutMember(s, p)
          \/ \E t \in Session : SignOut(s, t)
          \/ \E i \in Invite : RevokeInvite(s, i)
    \/ \E i \in Invite : ExpireInvite(i)

Spec == Init /\ [][Next]_vars

-----------------------------------------------------------------------------
(* Properties *)

\* Types of the tables and the handlers.
TypeOK ==
    /\ role \in [Person -> Roles \cup {None}] /\ account \subseteq Person
    /\ session \in [Session -> SessionRow] /\ invite \in [Invite -> InviteRow]
    /\ lock \in Handler \cup {None}
    /\ pc \in [Handler -> {"idle", "lock", "check", "write", "open"}]
    /\ op \in [Handler -> Operations \cup {None}]
    /\ about \in [Handler -> Person \cup Session \cup Invite \cup {None}]
    /\ as \in [Handler -> Roles \cup {None}]
    /\ requests \in 0..MaxRequests /\ overtaken \subseteq Session /\ unguarded \in BOOLEAN

\* The advisory lock "serializes every owner-boundary write": the organization always
\* has an owner.
OwnerRemains == Owners # {}

\* What the lock achieves: no interleaving of role changes and of removals of owners ends
\* with the organization ownerless.  Only a removal that has read its member as somebody
\* else than an owner, and so takes no lock, can do that.
OwnerRemainsIfGuarded == Owners = {} => unguarded

\* "The row's role is authoritative at request time": the hook admits a session with the
\* role of its membership, and nobody else, unless the sign-in that opened it was
\* overtaken by a change.
SessionsFollowTeam ==
    \A s \in Session \ overtaken :
        session[s].state = "live" => session[s].role = role[HolderOf(s)]

\* Owners and sessions: the lock keeps an owner, and sessions carry the roles of the team.
TeamIsSound == OwnerRemainsIfGuarded /\ SessionsFollowTeam

\* "revokedAt is how sign-out, member removal and invite loss actually log someone out":
\* a renewal that was admitted before never brings a revoked session back, and an invite
\* that was revoked, used or has expired admits nobody, not even the acceptance that had
\* found it pending.
RevokedForGood ==
    [][/\ \A s \in Session : session[s].state = "revoked" => session'[s].state = "revoked"
       /\ \A i \in Invite : invite[i].state \in {"accepted", "revoked", "expired"} =>
             invite'[i] = invite[i]]_vars

=============================================================================
