--------------------------- MODULE ServiceProofs ---------------------------
(***************************************************************************)
(* Theorems about Team, Connections and Captures for every number of       *)
(* people, requests, providers and invites: one inductive invariant each,  *)
(* IInv, LinkInv and CaptureInv.                                           *)
(***************************************************************************)
EXTENDS Team, Connections, Captures, FiniteSetTheorems, TLAPS

-----------------------------------------------------------------------------
(* The inductive invariant *)

\* A member has an account, and so has whoever was ever signed in; accounts stay.
AccountsStay ==
    /\ \A p \in Person : role[p] # None => p \in account
    /\ \A s \in Session : session[s].state # "none" => HolderOf(s) \in account

\* An invite that was written names a person and a role.
InvitesAreFull ==
    \A i \in Invite : invite[i].state # "none" =>
        invite[i].person \in Person /\ invite[i].role \in Roles

\* What a handler has read is complete, and whom it changes, removes or signs in has an
\* account.
Full(h) ==
    pc[h] # "idle" =>
        /\ op[h] \in Operations
        /\ op[h] \in {"role", "remove"} => about[h] \in account
        /\ op[h] \in {"role", "invite"} => as[h] \in Roles
        /\ op[h] = "invite" => about[h] \in Person
        /\ op[h] = "renew" => about[h] \in Session
        /\ op[h] = "accept" /\ pc[h] = "write" =>
              about[h] \in Invite /\ invite[about[h]].state # "none"
        /\ pc[h] = "open" => about[h] \in account /\ as[h] \in Roles
RequestIsFull == \A h \in Handler : Full(h)

\* A role change writes behind the lock, a removal checks behind it, and nobody takes the
\* lock home.
LockFits(h) ==
    /\ op[h] = "role" /\ pc[h] = "write" => lock = h
    /\ pc[h] = "check" => lock = h
    /\ pc[h] = "lock" => op[h] \in {"role", "remove"}
    /\ lock = h => pc[h] \in {"check", "write"} /\ op[h] \in {"role", "remove"}
LockIsHeld == \A h \in Handler : LockFits(h)

\* What was counted behind the lock holds until the write, whatever the handlers without
\* the lock do, unless one of them removes an owner: somebody else is an owner too.
Others(h) == \E q \in Owners : q # about[h]
CheckHoldsFor(h) ==
    /\ pc[h] = "write" /\ lock = h /\ ~unguarded
    /\ op[h] = "role" => role[about[h]] = "owner" /\ as[h] # "owner"
    => Others(h)
CheckHolds == \A h \in Handler : CheckHoldsFor(h)

\* Sessions that could be renewed follow the team, like those in force.
RenewableFollowTeam ==
    \A s \in Session \ overtaken :
        session[s].state \in {"live", "expired"} => session[s].role = role[HolderOf(s)]

IInv ==
    /\ TypeOK
    /\ AccountsStay
    /\ InvitesAreFull
    /\ RequestIsFull
    /\ LockIsHeld
    /\ CheckHolds
    /\ OwnerRemainsIfGuarded
    /\ RenewableFollowTeam

-----------------------------------------------------------------------------
(* Sessions and owners *)

LEMMA SessionsHaveHolders ==
    /\ \A s \in Session : HolderOf(s) \in Person
    /\ \A p \in Person, n \in Number : <<p, n>> \in Session /\ HolderOf(<<p, n>>) = p
  BY DEF Session, HolderOf

\* However many people there are: who is not the last owner leaves one behind.
LEMMA OthersRemain ==
  ASSUME NEW p, ~LastOwner
  PROVE  \E q \in Owners : q # p
<1>1. Owners # {}
  BY FS_EmptySet DEF LastOwner
<1>2. Owners # {p}
  BY FS_Singleton DEF LastOwner
<1> QED
  BY <1>1, <1>2

-----------------------------------------------------------------------------
(* The invariant is inductive *)

\* The answer of a handler leaves its fields typed.
LEMMA LeaveKeepsTypes ==
  ASSUME TypeOK, NEW h \in Handler, Leave(h)
  PROVE  /\ pc' \in [Handler -> {"idle", "lock", "check", "write", "open"}]
         /\ op' \in [Handler -> Operations \cup {None}]
         /\ about' \in [Handler -> Person \cup Session \cup Invite \cup {None}]
         /\ as' \in [Handler -> Roles \cup {None}]
         /\ lock' \in Handler \cup {None}
  BY DEF TypeOK, Leave

\* A request that begins has typed fields.
LEMMA AskKeepsTypes ==
  ASSUME TypeOK, NEW h \in Handler, NEW o \in Operations,
         NEW x \in Person \cup Session \cup Invite, NEW r \in Roles \cup {None},
         NEW n \in {"lock", "write", "open"}, Ask(h, o, x, r, n)
  PROVE  TypeOK'
<1>1. requests' \in 0..MaxRequests
  BY BoundAssumption DEF TypeOK, Ask
<1> QED
  BY <1>1 DEF TypeOK, Ask, tableVars

\* Rows of the sessions table stay rows when their role or state is set.
LEMMA SessionRowsStayTyped ==
  ASSUME NEW row \in SessionRow
  PROVE  /\ \A r \in Roles : [row EXCEPT !.role = r] \in SessionRow
         /\ \A r : [row EXCEPT !.role = r].state = row.state
         /\ \A r : [row EXCEPT !.state = r].role = row.role
         /\ \A st \in {"none", "live", "expired", "revoked"} :
               [row EXCEPT !.state = st] \in SessionRow
         /\ \A r \in Roles : [role |-> r, state |-> "live"] \in SessionRow
  BY DEF SessionRow

\* Rows of the invites table stay rows when their state is set.
LEMMA InviteRowsStayTyped ==
  /\ \A row \in InviteRow, st \in {"accepted", "revoked", "expired"} :
        [row EXCEPT !.state = st] \in InviteRow
  /\ \A p \in Person, r \in Roles :
        [person |-> p, role |-> r, state |-> "pending"] \in InviteRow
  BY DEF InviteRow

\* Every step keeps the types.
LEMMA StepKeepsTypes == IInv /\ [Next]_vars => TypeOK'
<1> SUFFICES ASSUME IInv, [Next]_vars PROVE TypeOK'
  OBVIOUS
<1> USE DEF IInv
<1>1. ASSUME NEW h \in Handler, NEW s \in Session, NEW p \in Person, NEW r \in Roles,
             AskRole(h, s, p, r)
      PROVE  TypeOK'
  BY <1>1, AskKeepsTypes DEF TypeOK, AskRole, Operations
<1>2. ASSUME NEW h \in Handler, CheckRole(h) PROVE TypeOK'
  BY <1>2, LeaveKeepsTypes DEF TypeOK, CheckRole, GoTo, tableVars, historyVars
<1>3. ASSUME NEW h \in Handler, WriteRole(h) PROVE TypeOK'
  <2>1. about[h] \in Person /\ as[h] \in Roles
    BY <1>3 DEF TypeOK, RequestIsFull, Full, WriteRole, At
  <2>2. Restamped(about[h], as[h]) \in [Session -> SessionRow]
    BY <2>1, SessionRowsStayTyped DEF TypeOK, Restamped
  <2>3. role' \in [Person -> Roles \cup {None}] /\ session' \in [Session -> SessionRow]
    BY <1>3, <2>1, <2>2 DEF TypeOK, WriteRole
  <2> QED
    BY <1>3, <2>3, LeaveKeepsTypes DEF TypeOK, WriteRole
<1>4. ASSUME NEW h \in Handler, NEW s \in Session, NEW p \in Person, AskRemoval(h, s, p)
      PROVE  TypeOK'
  BY <1>4, AskKeepsTypes DEF TypeOK, AskRemoval, Operations
<1>5. ASSUME NEW h \in Handler, CheckRemoval(h) PROVE TypeOK'
  BY <1>5, LeaveKeepsTypes DEF TypeOK, CheckRemoval, GoTo, tableVars, historyVars
<1>6. ASSUME NEW h \in Handler, WriteRemoval(h) PROVE TypeOK'
  <2>1. about[h] \in Person
    BY <1>6 DEF TypeOK, RequestIsFull, Full, WriteRemoval, At
  <2>2. RevokedOf(about[h]) \in [Session -> SessionRow]
    BY SessionRowsStayTyped DEF TypeOK, RevokedOf
  <2>3. role' \in [Person -> Roles \cup {None}] /\ session' \in [Session -> SessionRow]
    BY <1>6, <2>1, <2>2 DEF TypeOK, WriteRemoval
  <2> QED
    BY <1>6, <2>3, LeaveKeepsTypes DEF TypeOK, WriteRemoval
<1>7. ASSUME NEW h \in Handler, NEW p \in Person, AskLogin(h, p) PROVE TypeOK'
  BY <1>7, AskKeepsTypes DEF TypeOK, AskLogin, Operations
<1>8. ASSUME NEW h \in Handler, NEW s \in Session, AskRenewal(h, s) PROVE TypeOK'
  BY <1>8, AskKeepsTypes DEF TypeOK, AskRenewal, Operations
<1>9. ASSUME NEW h \in Handler, OpenSession(h) PROVE TypeOK'
  <2>1. about[h] \in Person /\ as[h] \in Roles
    BY <1>9 DEF TypeOK, RequestIsFull, Full, OpenSession
  <2>2. PICK n \in Number :
           /\ session' = [session EXCEPT ![<<about[h], n>>] = [role |-> as[h], state |-> "live"]]
           /\ overtaken' = IF role[about[h]] = as[h] THEN overtaken
                           ELSE overtaken \cup {<<about[h], n>>}
    BY <1>9 DEF OpenSession, Unused
  <2>3. session' \in [Session -> SessionRow] /\ overtaken' \subseteq Session
    BY <2>1, <2>2, SessionsHaveHolders, SessionRowsStayTyped DEF TypeOK
  <2> QED
    BY <1>9, <2>3, LeaveKeepsTypes DEF TypeOK, OpenSession
<1>10. ASSUME NEW h \in Handler, Renew(h) PROVE TypeOK'
  <2>1. session' \in [Session -> SessionRow]
    BY <1>10, SessionRowsStayTyped DEF TypeOK, RequestIsFull, Full, Renew, At
  <2> QED
    BY <1>10, <2>1, LeaveKeepsTypes DEF TypeOK, Renew, historyVars
<1>11. ASSUME NEW h \in Handler, NEW s \in Session, NEW p \in Person, NEW r \in Roles,
              AskInvite(h, s, p, r)
       PROVE  TypeOK'
  BY <1>11, AskKeepsTypes DEF TypeOK, AskInvite, Operations
<1>12. ASSUME NEW h \in Handler, NEW i \in Invite, AskAccept(h, i) PROVE TypeOK'
  BY <1>12, AskKeepsTypes DEF TypeOK, AskAccept, Operations
<1>13. ASSUME NEW h \in Handler, CreateInvite(h) PROVE TypeOK'
  <2>1. about[h] \in Person /\ as[h] \in Roles
    BY <1>13 DEF TypeOK, RequestIsFull, Full, CreateInvite, At, Operations
  <2>2. invite' \in [Invite -> InviteRow]
    <3>1. PICK i \in Invite : invite' = [invite EXCEPT ![i] =
                        [person |-> about[h], role |-> as[h], state |-> "pending"]]
      BY <1>13 DEF CreateInvite
    <3>2. [person |-> about[h], role |-> as[h], state |-> "pending"] \in InviteRow
      BY <2>1, InviteRowsStayTyped
    <3> QED
      BY <3>1, <3>2 DEF TypeOK
  <2> QED
    BY <1>13, <2>2, LeaveKeepsTypes DEF TypeOK, CreateInvite, historyVars
<1>14. ASSUME NEW h \in Handler, Accept(h) PROVE TypeOK'
  <2> DEFINE i == about[h]
  <2>1. i \in Invite /\ invite[i].person \in Person /\ invite[i].role \in Roles
    BY <1>14 DEF RequestIsFull, Full, InvitesAreFull, Accept, At
  <2>2. UNCHANGED <<session, requests, overtaken, unguarded>>
    BY <1>14 DEF Accept, historyVars
  <2>3. CASE Claims(i) /\ invite[i].person \notin account
    <3>1. invite' \in [Invite -> InviteRow] /\ account' \subseteq Person
      <4>1. /\ invite' = [invite EXCEPT ![i].state = "accepted"]
            /\ account' = account \cup {invite[i].person}
        BY <1>14, <2>3 DEF Accept
      <4> QED
        BY <2>1, <4>1, InviteRowsStayTyped DEF TypeOK
    <3>2. /\ role' \in [Person -> Roles \cup {None}]
          /\ about' \in [Handler -> Person \cup Session \cup Invite \cup {None}]
          /\ as' \in [Handler -> Roles \cup {None}]
          /\ pc' \in [Handler -> {"idle", "lock", "check", "write", "open"}]
          /\ UNCHANGED <<op, lock>>
      BY <1>14, <2>1, <2>3 DEF TypeOK, Accept
    <3> QED
      BY <2>2, <3>1, <3>2 DEF TypeOK
  <2>4. CASE ~(Claims(i) /\ invite[i].person \notin account)
    <3>1. Leave(h) /\ UNCHANGED <<invite, account, role>>
      BY <1>14, <2>4 DEF Accept
    <3> QED
      BY <2>2, <3>1, LeaveKeepsTypes DEF TypeOK
  <2> QED
    BY <2>3, <2>4
<1>15. ASSUME NEW h \in Handler, Lock(h) PROVE TypeOK'
  BY <1>15 DEF TypeOK, Lock, GoTo, tableVars, historyVars
<1>16. ASSUME NEW s \in Session, Expire(s) PROVE TypeOK'
  <2>1. session' \in [Session -> SessionRow]
    BY <1>16, SessionRowsStayTyped DEF TypeOK, Expire
  <2> QED
    BY <1>16, <2>1 DEF TypeOK, Expire, handlerVars, historyVars
<1>17. ASSUME NEW s \in Session, NEW p \in Person, SignOutMember(s, p) PROVE TypeOK'
  <2>1. session' \in [Session -> SessionRow]
    BY <1>17, SessionRowsStayTyped DEF TypeOK, SignOutMember, RevokedOf
  <2> QED
    BY <1>17, <2>1 DEF TypeOK, SignOutMember, handlerVars, historyVars
<1>18. ASSUME NEW s \in Session, NEW t \in Session, SignOut(s, t) PROVE TypeOK'
  <2>1. session' \in [Session -> SessionRow]
    BY <1>18, SessionRowsStayTyped DEF TypeOK, SignOut
  <2> QED
    BY <1>18, <2>1 DEF TypeOK, SignOut, handlerVars, historyVars
<1>19. ASSUME NEW s \in Session, NEW i \in Invite, RevokeInvite(s, i) PROVE TypeOK'
  <2>1. invite' \in [Invite -> InviteRow]
    BY <1>19, InviteRowsStayTyped DEF TypeOK, RevokeInvite
  <2> QED
    BY <1>19, <2>1 DEF TypeOK, RevokeInvite, handlerVars, historyVars
<1>20. ASSUME NEW i \in Invite, ExpireInvite(i) PROVE TypeOK'
  <2>1. invite' \in [Invite -> InviteRow]
    BY <1>20, InviteRowsStayTyped DEF TypeOK, ExpireInvite
  <2> QED
    BY <1>20, <2>1 DEF TypeOK, ExpireInvite, handlerVars, historyVars
<1>21. CASE UNCHANGED vars
  BY <1>21 DEF vars, tableVars, handlerVars, historyVars, TypeOK
<1> QED
  BY <1>1, <1>2, <1>3, <1>4, <1>5, <1>6, <1>7, <1>8, <1>9, <1>10, <1>11, <1>12, <1>13, <1>14,
     <1>15, <1>16, <1>17, <1>18, <1>19, <1>20, <1>21 DEF Next, RoleStep, RemovalStep,
     SessionStep, InviteStep

\* No account goes, and no written invite.
AccountsGrow == AccountsStay' /\ account \subseteq account'
InvitesGrow ==
    /\ InvitesAreFull'
    /\ \A i \in Invite : invite[i].state # "none" => invite'[i].state # "none"

\* Every step keeps accounts.
LEMMA StepKeepsAccounts == IInv /\ [Next]_vars => AccountsGrow
<1> SUFFICES ASSUME IInv, [Next]_vars PROVE AccountsGrow
  OBVIOUS
<1> USE DEF IInv, TypeOK, RequestIsFull, Full
<1>1. ASSUME NEW h \in Handler, NEW s \in Session, NEW p \in Person, NEW r \in Roles,
             AskRole(h, s, p, r)
      PROVE  AccountsGrow
  BY <1>1, NoneAssumption, SessionsHaveHolders DEF AskRole, Ask, tableVars, AccountsGrow,
     AccountsStay
<1>2. ASSUME NEW h \in Handler, CheckRole(h) PROVE AccountsGrow
  BY <1>2, NoneAssumption, SessionsHaveHolders DEF CheckRole, GoTo, Leave, At, tableVars,
     historyVars, AccountsGrow, AccountsStay
<1>3. ASSUME NEW h \in Handler, WriteRole(h) PROVE AccountsGrow
  <2>1. about[h] \in account /\ account \subseteq Person /\ as[h] \in Roles
    BY <1>3 DEF TypeOK, RequestIsFull, Full, WriteRole, At
  <2>2. \A s \in Session : session'[s].state = session[s].state
    <3>1. \/ UNCHANGED session
          \/ session' = Restamped(about[h], as[h])
      BY <1>3 DEF WriteRole
    <3>2. \A s \in Session : Restamped(about[h], as[h])[s].state = session[s].state
      BY SessionRowsStayTyped DEF TypeOK, Restamped
    <3> QED
      BY <3>1, <3>2
  <2>3. account' = account /\ \A p \in Person : role'[p] # None => p \in account
    BY <1>3, <2>1 DEF TypeOK, AccountsStay, WriteRole
  <2> QED
    BY <2>2, <2>3 DEF AccountsStay, AccountsGrow
<1>4. ASSUME NEW h \in Handler, NEW s \in Session, NEW p \in Person, AskRemoval(h, s, p)
      PROVE  AccountsGrow
  BY <1>4, NoneAssumption, SessionsHaveHolders DEF AskRemoval, Ask, tableVars, AccountsGrow,
     AccountsStay
<1>5. ASSUME NEW h \in Handler, CheckRemoval(h) PROVE AccountsGrow
  BY <1>5, NoneAssumption, SessionsHaveHolders DEF CheckRemoval, GoTo, Leave, At, tableVars,
     historyVars, AccountsGrow, AccountsStay
<1>6. ASSUME NEW h \in Handler, WriteRemoval(h) PROVE AccountsGrow
  BY <1>6, NoneAssumption, SessionsHaveHolders DEF WriteRemoval, RevokedOf, Leave, At,
     AccountsGrow, AccountsStay
<1>7. ASSUME NEW h \in Handler, NEW p \in Person, AskLogin(h, p) PROVE AccountsGrow
  BY <1>7, NoneAssumption, SessionsHaveHolders DEF AskLogin, Ask, tableVars, AccountsGrow,
     AccountsStay
<1>8. ASSUME NEW h \in Handler, NEW s \in Session, AskRenewal(h, s) PROVE AccountsGrow
  BY <1>8, NoneAssumption, SessionsHaveHolders DEF AskRenewal, Ask, tableVars, AccountsGrow,
     AccountsStay
<1>9. ASSUME NEW h \in Handler, OpenSession(h) PROVE AccountsGrow
  <2>1. about[h] \in account /\ account \subseteq Person
    BY <1>9 DEF TypeOK, RequestIsFull, Full, OpenSession
  <2>2. PICK n \in Unused(about[h]) :
           session' = [session EXCEPT ![<<about[h], n>>] = [role |-> as[h], state |-> "live"]]
    BY <1>9 DEF OpenSession
  <2>3. \A s \in Session : session'[s].state # "none" => HolderOf(s) \in account
    BY <2>1, <2>2, SessionsHaveHolders DEF TypeOK, AccountsStay, Unused
  <2> QED
    BY <1>9, <2>3 DEF AccountsStay, AccountsGrow, OpenSession
<1>10. ASSUME NEW h \in Handler, Renew(h) PROVE AccountsGrow
  BY <1>10, NoneAssumption, SessionsHaveHolders DEF Renew, Renewable, Leave, At, historyVars,
     AccountsGrow, AccountsStay
<1>11. ASSUME NEW h \in Handler, NEW s \in Session, NEW p \in Person, NEW r \in Roles,
              AskInvite(h, s, p, r)
       PROVE  AccountsGrow
  BY <1>11, NoneAssumption, SessionsHaveHolders DEF AskInvite, Ask, tableVars, AccountsGrow,
     AccountsStay
<1>12. ASSUME NEW h \in Handler, NEW i \in Invite, AskAccept(h, i) PROVE AccountsGrow
  BY <1>12, NoneAssumption, SessionsHaveHolders DEF AskAccept, Ask, tableVars, AccountsGrow,
     AccountsStay
<1>13. ASSUME NEW h \in Handler, CreateInvite(h) PROVE AccountsGrow
  BY <1>13, NoneAssumption, SessionsHaveHolders DEF CreateInvite, Leave, At, historyVars,
     AccountsGrow, AccountsStay
<1>14. ASSUME NEW h \in Handler, Accept(h) PROVE AccountsGrow
  <2>1. CASE UNCHANGED <<account, role>>
    BY <1>14, <2>1 DEF Accept, AccountsStay, AccountsGrow
  <2>2. CASE ~UNCHANGED <<account, role>>
    <3>1. /\ account' = account \cup {invite[about[h]].person}
          /\ role' = [role EXCEPT ![invite[about[h]].person] = invite[about[h]].role]
          /\ UNCHANGED session
      BY <1>14, <2>2 DEF Accept
    <3> QED
      BY <3>1 DEF TypeOK, AccountsStay, AccountsGrow
  <2> QED
    BY <2>1, <2>2
<1>15. ASSUME NEW h \in Handler, Lock(h) PROVE AccountsGrow
  BY <1>15, NoneAssumption, SessionsHaveHolders DEF Lock, GoTo, tableVars, historyVars,
     AccountsGrow, AccountsStay
<1>16. ASSUME NEW s \in Session, Expire(s) PROVE AccountsGrow
  BY <1>16, NoneAssumption, SessionsHaveHolders DEF Expire, handlerVars, historyVars,
     AccountsGrow, AccountsStay
<1>17. ASSUME NEW s \in Session, NEW p \in Person, SignOutMember(s, p) PROVE AccountsGrow
  BY <1>17, NoneAssumption, SessionsHaveHolders DEF SignOutMember, RevokedOf, handlerVars,
     historyVars, AccountsGrow, AccountsStay
<1>18. ASSUME NEW s \in Session, NEW t \in Session, SignOut(s, t) PROVE AccountsGrow
  BY <1>18, NoneAssumption, SessionsHaveHolders DEF SignOut, Renewable, handlerVars,
     historyVars, AccountsGrow, AccountsStay
<1>19. ASSUME NEW s \in Session, NEW i \in Invite, RevokeInvite(s, i) PROVE AccountsGrow
  BY <1>19, NoneAssumption, SessionsHaveHolders DEF RevokeInvite, handlerVars, historyVars,
     AccountsGrow, AccountsStay
<1>20. ASSUME NEW i \in Invite, ExpireInvite(i) PROVE AccountsGrow
  BY <1>20, NoneAssumption, SessionsHaveHolders DEF ExpireInvite, handlerVars, historyVars,
     AccountsGrow, AccountsStay
<1>21. CASE UNCHANGED vars
  BY <1>21 DEF vars, tableVars, handlerVars, historyVars, AccountsGrow, AccountsStay
<1> QED
  BY <1>1, <1>2, <1>3, <1>4, <1>5, <1>6, <1>7, <1>8, <1>9, <1>10, <1>11, <1>12, <1>13, <1>14,
     <1>15, <1>16, <1>17, <1>18, <1>19, <1>20, <1>21 DEF Next, RoleStep, RemovalStep,
     SessionStep, InviteStep

\* Every step keeps written invites.
LEMMA StepKeepsInvites == IInv /\ [Next]_vars => InvitesGrow
<1> SUFFICES ASSUME IInv, [Next]_vars PROVE InvitesGrow
  OBVIOUS
<1> USE DEF IInv, TypeOK, RequestIsFull, Full
<1>1. ASSUME NEW h \in Handler, NEW s \in Session, NEW p \in Person, NEW r \in Roles,
             AskRole(h, s, p, r)
      PROVE  InvitesGrow
  BY <1>1, NoneAssumption DEF AskRole, Ask, tableVars, InvitesGrow, InvitesAreFull
<1>2. ASSUME NEW h \in Handler, CheckRole(h) PROVE InvitesGrow
  BY <1>2, NoneAssumption DEF CheckRole, GoTo, Leave, At, tableVars, historyVars, InvitesGrow,
     InvitesAreFull
<1>3. ASSUME NEW h \in Handler, WriteRole(h) PROVE InvitesGrow
  BY <1>3, NoneAssumption DEF WriteRole, Restamped, Leave, At, InvitesGrow, InvitesAreFull
<1>4. ASSUME NEW h \in Handler, NEW s \in Session, NEW p \in Person, AskRemoval(h, s, p)
      PROVE  InvitesGrow
  BY <1>4, NoneAssumption DEF AskRemoval, Ask, tableVars, InvitesGrow, InvitesAreFull
<1>5. ASSUME NEW h \in Handler, CheckRemoval(h) PROVE InvitesGrow
  BY <1>5, NoneAssumption DEF CheckRemoval, GoTo, Leave, At, tableVars, historyVars,
     InvitesGrow, InvitesAreFull
<1>6. ASSUME NEW h \in Handler, WriteRemoval(h) PROVE InvitesGrow
  BY <1>6, NoneAssumption DEF WriteRemoval, RevokedOf, Leave, At, InvitesGrow, InvitesAreFull
<1>7. ASSUME NEW h \in Handler, NEW p \in Person, AskLogin(h, p) PROVE InvitesGrow
  BY <1>7, NoneAssumption DEF AskLogin, Ask, tableVars, InvitesGrow, InvitesAreFull
<1>8. ASSUME NEW h \in Handler, NEW s \in Session, AskRenewal(h, s) PROVE InvitesGrow
  BY <1>8, NoneAssumption DEF AskRenewal, Ask, tableVars, InvitesGrow, InvitesAreFull
<1>9. ASSUME NEW h \in Handler, OpenSession(h) PROVE InvitesGrow
  BY <1>9, NoneAssumption DEF OpenSession, Leave, Unused, InvitesGrow, InvitesAreFull
<1>10. ASSUME NEW h \in Handler, Renew(h) PROVE InvitesGrow
  BY <1>10, NoneAssumption DEF Renew, Renewable, Leave, At, historyVars, InvitesGrow,
     InvitesAreFull
<1>11. ASSUME NEW h \in Handler, NEW s \in Session, NEW p \in Person, NEW r \in Roles,
              AskInvite(h, s, p, r)
       PROVE  InvitesGrow
  BY <1>11, NoneAssumption DEF AskInvite, Ask, tableVars, InvitesGrow, InvitesAreFull
<1>12. ASSUME NEW h \in Handler, NEW i \in Invite, AskAccept(h, i) PROVE InvitesGrow
  BY <1>12, NoneAssumption DEF AskAccept, Ask, tableVars, InvitesGrow, InvitesAreFull
<1>13. ASSUME NEW h \in Handler, CreateInvite(h) PROVE InvitesGrow
  <2>1. about[h] \in Person /\ as[h] \in Roles
    BY <1>13 DEF RequestIsFull, Full, CreateInvite, At, Operations
  <2>2. PICK i \in Invite : invite' = [invite EXCEPT ![i] =
                      [person |-> about[h], role |-> as[h], state |-> "pending"]]
    BY <1>13 DEF CreateInvite
  <2> QED
    BY <2>1, <2>2 DEF TypeOK, InvitesAreFull, InvitesGrow
<1>14. ASSUME NEW h \in Handler, Accept(h) PROVE InvitesGrow
  <2>1. about[h] \in Invite /\ invite[about[h]].state # "none"
    BY <1>14 DEF RequestIsFull, Full, Accept, At
  <2>2. \/ UNCHANGED invite
        \/ invite' = [invite EXCEPT ![about[h]].state = "accepted"]
    BY <1>14 DEF Accept
  <2> QED
    BY <2>1, <2>2 DEF TypeOK, InviteRow, InvitesAreFull, InvitesGrow
<1>15. ASSUME NEW h \in Handler, Lock(h) PROVE InvitesGrow
  BY <1>15, NoneAssumption DEF Lock, GoTo, tableVars, historyVars, InvitesGrow, InvitesAreFull
<1>16. ASSUME NEW s \in Session, Expire(s) PROVE InvitesGrow
  BY <1>16, NoneAssumption DEF Expire, handlerVars, historyVars, InvitesGrow, InvitesAreFull
<1>17. ASSUME NEW s \in Session, NEW p \in Person, SignOutMember(s, p) PROVE InvitesGrow
  BY <1>17, NoneAssumption DEF SignOutMember, RevokedOf, handlerVars, historyVars, InvitesGrow,
     InvitesAreFull
<1>18. ASSUME NEW s \in Session, NEW t \in Session, SignOut(s, t) PROVE InvitesGrow
  BY <1>18, NoneAssumption DEF SignOut, Renewable, handlerVars, historyVars, InvitesGrow,
     InvitesAreFull
<1>19. ASSUME NEW s \in Session, NEW i \in Invite, RevokeInvite(s, i) PROVE InvitesGrow
  BY <1>19, NoneAssumption DEF RevokeInvite, handlerVars, historyVars, InvitesGrow,
     InvitesAreFull
<1>20. ASSUME NEW i \in Invite, ExpireInvite(i) PROVE InvitesGrow
  BY <1>20, NoneAssumption DEF ExpireInvite, handlerVars, historyVars, InvitesGrow,
     InvitesAreFull
<1>21. CASE UNCHANGED vars
  BY <1>21 DEF vars, tableVars, handlerVars, historyVars, InvitesGrow, InvitesAreFull
<1> QED
  BY <1>1, <1>2, <1>3, <1>4, <1>5, <1>6, <1>7, <1>8, <1>9, <1>10, <1>11, <1>12, <1>13, <1>14,
     <1>15, <1>16, <1>17, <1>18, <1>19, <1>20, <1>21 DEF Next, RoleStep, RemovalStep,
     SessionStep, InviteStep

\* A handler's step leaves the other handlers where they are.
Alone(h) ==
    \A k \in Handler \ {h} :
        pc'[k] = pc[k] /\ op'[k] = op[k] /\ about'[k] = about[k] /\ as'[k] = as[k]

LEMMA HandlersMoveAlone ==
  ASSUME TypeOK, NEW h \in Handler
  PROVE  /\ \A n : GoTo(h, n) =>
               Alone(h) /\ pc'[h] = n /\ op'[h] = op[h] /\ about'[h] = about[h] /\ as'[h] = as[h]
         /\ Leave(h) => Alone(h) /\ pc'[h] = "idle"
  BY DEF TypeOK, GoTo, Leave, Alone

\* Others stay full, as accounts and invites stay.
LEMMA OthersStayFull ==
  ASSUME IInv, [Next]_vars, NEW h, Alone(h), Full(h)'
  PROVE  RequestIsFull'
  BY StepKeepsAccounts, StepKeepsInvites DEF IInv, AccountsGrow, InvitesGrow, RequestIsFull, Full,
     Alone

\* Every step keeps requests full.
LEMMA StepKeepsRequests == IInv /\ [Next]_vars => RequestIsFull'
<1> SUFFICES ASSUME IInv, [Next]_vars PROVE RequestIsFull'
  OBVIOUS
<1> USE DEF IInv
<1>1. ASSUME NEW h \in Handler, NEW s \in Session, NEW p \in Person, NEW r \in Roles,
             AskRole(h, s, p, r)
      PROVE  RequestIsFull'
  <2>1. Ask(h, "role", p, r, "lock")
    BY <1>1 DEF AskRole
  <2>2. p \in account
    BY <1>1 DEF TypeOK, AccountsStay, AskRole
  <2>3. /\ Alone(h) /\ UNCHANGED <<account, invite>>
        /\ pc'[h] = "lock"
        /\ op'[h] = "role" /\ about'[h] = p /\ as'[h] = r
    BY <2>1 DEF TypeOK, Ask, tableVars, Alone
  <2>4. Full(h)'
    BY <2>2, <2>3 DEF Full, Operations
  <2> QED
    BY <2>3, <2>4, OthersStayFull
<1>2. ASSUME NEW h \in Handler, CheckRole(h) PROVE RequestIsFull'
  <2>1. (\E n \in {"check", "write"} : GoTo(h, n)) \/ Leave(h)
    BY <1>2 DEF CheckRole
  <2>2. pc[h] # "idle" /\ op[h] \in {"role", "remove"} /\ account' = account
    BY <1>2 DEF CheckRole, At, LockIsHeld, LockFits, tableVars
  <2>3. Alone(h) /\ Full(h)'
    BY <2>1, <2>2, HandlersMoveAlone DEF RequestIsFull, Full
  <2> QED
    BY <2>3, OthersStayFull
<1>3. ASSUME NEW h \in Handler, WriteRole(h) PROVE RequestIsFull'
  <2>1. Alone(h) /\ Full(h)'
    BY <1>3, HandlersMoveAlone DEF WriteRole, Full
  <2> QED
    BY <2>1, OthersStayFull
<1>4. ASSUME NEW h \in Handler, NEW s \in Session, NEW p \in Person, AskRemoval(h, s, p)
      PROVE  RequestIsFull'
  <2>1. Ask(h, "remove", p, None, IF role[p] = "owner" THEN "lock" ELSE "write")
    BY <1>4 DEF AskRemoval
  <2>2. p \in account
    BY <1>4 DEF TypeOK, AccountsStay, AskRemoval
  <2>3. /\ Alone(h) /\ UNCHANGED <<account, invite>>
        /\ pc'[h] = (IF role[p] = "owner" THEN "lock" ELSE "write")
        /\ op'[h] = "remove" /\ about'[h] = p /\ as'[h] = None
    BY <2>1 DEF TypeOK, Ask, tableVars, Alone
  <2>4. Full(h)'
    BY <2>2, <2>3 DEF Full, Operations
  <2> QED
    BY <2>3, <2>4, OthersStayFull
<1>5. ASSUME NEW h \in Handler, CheckRemoval(h) PROVE RequestIsFull'
  <2>1. (\E n \in {"check", "write"} : GoTo(h, n)) \/ Leave(h)
    BY <1>5 DEF CheckRemoval
  <2>2. pc[h] # "idle" /\ op[h] \in {"role", "remove"} /\ account' = account
    BY <1>5 DEF CheckRemoval, At, LockIsHeld, LockFits, tableVars
  <2>3. Alone(h) /\ Full(h)'
    BY <2>1, <2>2, HandlersMoveAlone DEF RequestIsFull, Full
  <2> QED
    BY <2>3, OthersStayFull
<1>6. ASSUME NEW h \in Handler, WriteRemoval(h) PROVE RequestIsFull'
  <2>1. Alone(h) /\ Full(h)'
    BY <1>6, HandlersMoveAlone DEF WriteRemoval, Full
  <2> QED
    BY <2>1, OthersStayFull
<1>7. ASSUME NEW h \in Handler, NEW p \in Person, AskLogin(h, p) PROVE RequestIsFull'
  <2>1. Ask(h, "login", p, role[p], "open")
    BY <1>7 DEF AskLogin
  <2>2. p \in account /\ role[p] \in Roles
    BY <1>7 DEF TypeOK, AccountsStay, AskLogin
  <2>3. /\ Alone(h) /\ UNCHANGED <<account, invite>>
        /\ pc'[h] = "open"
        /\ op'[h] = "login" /\ about'[h] = p /\ as'[h] = role[p]
    BY <2>1 DEF TypeOK, Ask, tableVars, Alone
  <2>4. Full(h)'
    BY <2>2, <2>3 DEF Full, Operations
  <2> QED
    BY <2>3, <2>4, OthersStayFull
<1>8. ASSUME NEW h \in Handler, NEW s \in Session, AskRenewal(h, s) PROVE RequestIsFull'
  <2>1. Ask(h, "renew", s, None, "write")
    BY <1>8 DEF AskRenewal
  <2>3. /\ Alone(h) /\ UNCHANGED <<account, invite>>
        /\ pc'[h] = "write"
        /\ op'[h] = "renew" /\ about'[h] = s /\ as'[h] = None
    BY <2>1 DEF TypeOK, Ask, tableVars, Alone
  <2>4. Full(h)'
    BY <2>3 DEF Full, Operations
  <2> QED
    BY <2>3, <2>4, OthersStayFull
<1>9. ASSUME NEW h \in Handler, OpenSession(h) PROVE RequestIsFull'
  <2>1. Alone(h) /\ Full(h)'
    BY <1>9, HandlersMoveAlone DEF OpenSession, Full
  <2> QED
    BY <2>1, OthersStayFull
<1>10. ASSUME NEW h \in Handler, Renew(h) PROVE RequestIsFull'
  <2>1. Alone(h) /\ Full(h)'
    BY <1>10, HandlersMoveAlone DEF Renew, Full
  <2> QED
    BY <2>1, OthersStayFull
<1>11. ASSUME NEW h \in Handler, NEW s \in Session, NEW p \in Person, NEW r \in Roles,
              AskInvite(h, s, p, r)
       PROVE  RequestIsFull'
  <2>1. Ask(h, "invite", p, r, "write")
    BY <1>11 DEF AskInvite
  <2>3. /\ Alone(h) /\ UNCHANGED <<account, invite>>
        /\ pc'[h] = "write"
        /\ op'[h] = "invite" /\ about'[h] = p /\ as'[h] = r
    BY <2>1 DEF TypeOK, Ask, tableVars, Alone
  <2>4. Full(h)'
    BY <2>3 DEF Full, Operations
  <2> QED
    BY <2>3, <2>4, OthersStayFull
<1>12. ASSUME NEW h \in Handler, NEW i \in Invite, AskAccept(h, i) PROVE RequestIsFull'
  <2>1. Ask(h, "accept", i, None, "write")
    BY <1>12 DEF AskAccept
  <2>2. invite[i].state # "none"
    BY <1>12 DEF TypeOK, AccountsStay, AskAccept
  <2>3. /\ Alone(h) /\ UNCHANGED <<account, invite>>
        /\ pc'[h] = "write"
        /\ op'[h] = "accept" /\ about'[h] = i /\ as'[h] = None
    BY <2>1 DEF TypeOK, Ask, tableVars, Alone
  <2>4. Full(h)'
    BY <2>2, <2>3 DEF Full, Operations
  <2> QED
    BY <2>3, <2>4, OthersStayFull
<1>13. ASSUME NEW h \in Handler, CreateInvite(h) PROVE RequestIsFull'
  <2>1. Alone(h) /\ Full(h)'
    BY <1>13, HandlersMoveAlone DEF CreateInvite, Full
  <2> QED
    BY <2>1, OthersStayFull
<1>14. ASSUME NEW h \in Handler, Accept(h) PROVE RequestIsFull'
  <2>1. CASE Leave(h)
    BY <2>1, HandlersMoveAlone, OthersStayFull DEF Full
  <2>2. CASE ~Leave(h)
    <3>1. /\ pc' = [pc EXCEPT ![h] = "open"] /\ UNCHANGED op
          /\ about' = [about EXCEPT ![h] = invite[about[h]].person]
          /\ as' = [as EXCEPT ![h] = invite[about[h]].role]
          /\ account' = account \cup {invite[about[h]].person}
      BY <1>14, <2>2 DEF Accept
    <3>2. /\ op[h] = "accept" /\ invite[about[h]].person \in Person
          /\ invite[about[h]].role \in Roles
      BY <1>14 DEF RequestIsFull, Full, InvitesAreFull, Accept, At
    <3>3. Alone(h) /\ Full(h)'
      BY <3>1, <3>2 DEF TypeOK, Alone, Full, Operations
    <3> QED
      BY <3>3, OthersStayFull
  <2> QED
    BY <2>1, <2>2
<1>15. ASSUME NEW h \in Handler, Lock(h) PROVE RequestIsFull'
  <2>1. (\E n \in {"check", "write"} : GoTo(h, n)) \/ Leave(h)
    BY <1>15 DEF Lock
  <2>2. pc[h] # "idle" /\ op[h] \in {"role", "remove"} /\ account' = account
    BY <1>15 DEF Lock, At, LockIsHeld, LockFits, tableVars
  <2>3. Alone(h) /\ Full(h)'
    BY <2>1, <2>2, HandlersMoveAlone DEF RequestIsFull, Full
  <2> QED
    BY <2>3, OthersStayFull
<1>16. ASSUME NEW s \in Session, Expire(s) PROVE RequestIsFull'
  BY <1>16, StepKeepsAccounts, StepKeepsInvites DEF AccountsGrow, InvitesGrow, RequestIsFull,
     Full, Expire, handlerVars
<1>17. ASSUME NEW s \in Session, NEW p \in Person, SignOutMember(s, p) PROVE RequestIsFull'
  BY <1>17, StepKeepsAccounts, StepKeepsInvites DEF AccountsGrow, InvitesGrow, RequestIsFull,
     Full, SignOutMember, handlerVars
<1>18. ASSUME NEW s \in Session, NEW t \in Session, SignOut(s, t) PROVE RequestIsFull'
  BY <1>18, StepKeepsAccounts, StepKeepsInvites DEF AccountsGrow, InvitesGrow, RequestIsFull,
     Full, SignOut, handlerVars
<1>19. ASSUME NEW s \in Session, NEW i \in Invite, RevokeInvite(s, i) PROVE RequestIsFull'
  BY <1>19, StepKeepsAccounts, StepKeepsInvites DEF AccountsGrow, InvitesGrow, RequestIsFull,
     Full, RevokeInvite, handlerVars
<1>20. ASSUME NEW i \in Invite, ExpireInvite(i) PROVE RequestIsFull'
  BY <1>20, StepKeepsAccounts, StepKeepsInvites DEF AccountsGrow, InvitesGrow, RequestIsFull,
     Full, ExpireInvite, handlerVars
<1>21. CASE UNCHANGED vars
  BY <1>21 DEF vars, tableVars, handlerVars, historyVars, RequestIsFull, Full
<1> QED
  BY <1>1, <1>2, <1>3, <1>4, <1>5, <1>6, <1>7, <1>8, <1>9, <1>10, <1>11, <1>12, <1>13, <1>14,
     <1>15, <1>16, <1>17, <1>18, <1>19, <1>20, <1>21 DEF Next, RoleStep, RemovalStep,
     SessionStep, InviteStep

\* Others hold the lock, or wait for it, as before.
LEMMA OthersLockFits ==
  ASSUME IInv, NEW h \in Handler, Alone(h), LockFits(h)',
         lock' = lock \/ (lock = None /\ lock' = h) \/ (lock = h /\ lock' = None)
  PROVE  LockIsHeld'
<1>1. ASSUME NEW k \in Handler, k # h PROVE LockFits(k)'
  BY <1>1, NoneAssumption DEF IInv, LockIsHeld, LockFits, Alone
<1> QED
  BY <1>1 DEF LockIsHeld

\* Every step keeps the lock where it belongs.
LEMMA StepKeepsLock == IInv /\ [Next]_vars => LockIsHeld'
<1> SUFFICES ASSUME IInv, [Next]_vars PROVE LockIsHeld'
  OBVIOUS
<1> USE DEF IInv
<1>1. ASSUME NEW h \in Handler, NEW s \in Session, NEW p \in Person, NEW r \in Roles,
             AskRole(h, s, p, r)
      PROVE  LockIsHeld'
  BY <1>1 DEF TypeOK, LockIsHeld, LockFits, AskRole, Ask
<1>2. ASSUME NEW h \in Handler, CheckRole(h) PROVE LockIsHeld'
  <2>1. Alone(h)
    BY <1>2 DEF TypeOK, CheckRole, Leave, GoTo, Alone
  <2>2. LockFits(h)'
    BY <1>2, NoneAssumption DEF TypeOK, LockIsHeld, LockFits, CheckRole, Leave, GoTo, At
  <2>3. lock' = lock \/ (lock = None /\ lock' = h) \/ (lock = h /\ lock' = None)
    BY <1>2 DEF CheckRole, Leave, GoTo
  <2> QED
    BY <2>1, <2>2, <2>3, OthersLockFits
<1>3. ASSUME NEW h \in Handler, WriteRole(h) PROVE LockIsHeld'
  <2>1. Alone(h)
    BY <1>3 DEF TypeOK, WriteRole, Leave, Alone
  <2>2. LockFits(h)'
    BY <1>3, NoneAssumption DEF TypeOK, LockIsHeld, LockFits, WriteRole, Leave, At
  <2>3. lock' = lock \/ (lock = None /\ lock' = h) \/ (lock = h /\ lock' = None)
    BY <1>3 DEF WriteRole, Leave
  <2> QED
    BY <2>1, <2>2, <2>3, OthersLockFits
<1>4. ASSUME NEW h \in Handler, NEW s \in Session, NEW p \in Person, AskRemoval(h, s, p)
      PROVE  LockIsHeld'
  BY <1>4 DEF TypeOK, LockIsHeld, LockFits, AskRemoval, Ask
<1>5. ASSUME NEW h \in Handler, CheckRemoval(h) PROVE LockIsHeld'
  <2>1. Alone(h)
    BY <1>5 DEF TypeOK, CheckRemoval, Leave, GoTo, Alone
  <2>2. LockFits(h)'
    BY <1>5, NoneAssumption DEF TypeOK, LockIsHeld, LockFits, CheckRemoval, Leave, GoTo, At
  <2>3. lock' = lock \/ (lock = None /\ lock' = h) \/ (lock = h /\ lock' = None)
    BY <1>5 DEF CheckRemoval, Leave, GoTo
  <2> QED
    BY <2>1, <2>2, <2>3, OthersLockFits
<1>6. ASSUME NEW h \in Handler, WriteRemoval(h) PROVE LockIsHeld'
  <2>1. Alone(h)
    BY <1>6 DEF TypeOK, WriteRemoval, Leave, Alone
  <2>2. LockFits(h)'
    BY <1>6, NoneAssumption DEF TypeOK, LockIsHeld, LockFits, WriteRemoval, Leave, At
  <2>3. lock' = lock \/ (lock = None /\ lock' = h) \/ (lock = h /\ lock' = None)
    BY <1>6 DEF WriteRemoval, Leave
  <2> QED
    BY <2>1, <2>2, <2>3, OthersLockFits
<1>7. ASSUME NEW h \in Handler, NEW p \in Person, AskLogin(h, p) PROVE LockIsHeld'
  BY <1>7 DEF TypeOK, LockIsHeld, LockFits, AskLogin, Ask
<1>8. ASSUME NEW h \in Handler, NEW s \in Session, AskRenewal(h, s) PROVE LockIsHeld'
  BY <1>8 DEF TypeOK, LockIsHeld, LockFits, AskRenewal, Ask
<1>9. ASSUME NEW h \in Handler, OpenSession(h) PROVE LockIsHeld'
  <2>1. Alone(h)
    BY <1>9 DEF TypeOK, OpenSession, Leave, Alone
  <2>2. LockFits(h)'
    BY <1>9, NoneAssumption DEF TypeOK, LockIsHeld, LockFits, OpenSession, Leave
  <2>3. lock' = lock \/ (lock = None /\ lock' = h) \/ (lock = h /\ lock' = None)
    BY <1>9 DEF OpenSession, Leave
  <2> QED
    BY <2>1, <2>2, <2>3, OthersLockFits
<1>10. ASSUME NEW h \in Handler, Renew(h) PROVE LockIsHeld'
  <2>1. Alone(h)
    BY <1>10 DEF TypeOK, Renew, Leave, Alone
  <2>2. LockFits(h)'
    BY <1>10, NoneAssumption DEF TypeOK, LockIsHeld, LockFits, Renew, Leave, At
  <2>3. lock' = lock \/ (lock = None /\ lock' = h) \/ (lock = h /\ lock' = None)
    BY <1>10 DEF Renew, Leave
  <2> QED
    BY <2>1, <2>2, <2>3, OthersLockFits
<1>11. ASSUME NEW h \in Handler, NEW s \in Session, NEW p \in Person, NEW r \in Roles,
              AskInvite(h, s, p, r)
       PROVE  LockIsHeld'
  BY <1>11 DEF TypeOK, LockIsHeld, LockFits, AskInvite, Ask
<1>12. ASSUME NEW h \in Handler, NEW i \in Invite, AskAccept(h, i) PROVE LockIsHeld'
  BY <1>12 DEF TypeOK, LockIsHeld, LockFits, AskAccept, Ask
<1>13. ASSUME NEW h \in Handler, CreateInvite(h) PROVE LockIsHeld'
  <2>1. Alone(h)
    BY <1>13 DEF TypeOK, CreateInvite, Leave, Alone
  <2>2. LockFits(h)'
    BY <1>13, NoneAssumption DEF TypeOK, LockIsHeld, LockFits, CreateInvite, Leave, At
  <2>3. lock' = lock \/ (lock = None /\ lock' = h) \/ (lock = h /\ lock' = None)
    BY <1>13 DEF CreateInvite, Leave
  <2> QED
    BY <2>1, <2>2, <2>3, OthersLockFits
<1>14. ASSUME NEW h \in Handler, Accept(h) PROVE LockIsHeld'
  <2>1. Alone(h)
    BY <1>14 DEF TypeOK, Accept, Leave, Alone
  <2>2. LockFits(h)'
    BY <1>14, NoneAssumption DEF TypeOK, LockIsHeld, LockFits, Accept, Leave, At
  <2>3. lock' = lock \/ (lock = None /\ lock' = h) \/ (lock = h /\ lock' = None)
    BY <1>14 DEF Accept, Leave
  <2> QED
    BY <2>1, <2>2, <2>3, OthersLockFits
<1>15. ASSUME NEW h \in Handler, Lock(h) PROVE LockIsHeld'
  <2>1. Alone(h)
    BY <1>15 DEF TypeOK, Lock, GoTo, Alone
  <2>2. LockFits(h)'
    BY <1>15, NoneAssumption DEF TypeOK, LockIsHeld, LockFits, Lock, GoTo
  <2>3. lock' = lock \/ (lock = None /\ lock' = h) \/ (lock = h /\ lock' = None)
    BY <1>15 DEF Lock, GoTo
  <2> QED
    BY <2>1, <2>2, <2>3, OthersLockFits
<1>16. ASSUME NEW s \in Session, Expire(s) PROVE LockIsHeld'
  BY <1>16 DEF Expire, handlerVars, historyVars, LockIsHeld, LockFits
<1>17. ASSUME NEW s \in Session, NEW p \in Person, SignOutMember(s, p) PROVE LockIsHeld'
  BY <1>17 DEF SignOutMember, RevokedOf, handlerVars, historyVars, LockIsHeld, LockFits
<1>18. ASSUME NEW s \in Session, NEW t \in Session, SignOut(s, t) PROVE LockIsHeld'
  BY <1>18 DEF SignOut, Renewable, handlerVars, historyVars, LockIsHeld, LockFits
<1>19. ASSUME NEW s \in Session, NEW i \in Invite, RevokeInvite(s, i) PROVE LockIsHeld'
  BY <1>19 DEF RevokeInvite, handlerVars, historyVars, LockIsHeld, LockFits
<1>20. ASSUME NEW i \in Invite, ExpireInvite(i) PROVE LockIsHeld'
  BY <1>20 DEF ExpireInvite, handlerVars, historyVars, LockIsHeld, LockFits
<1>21. CASE UNCHANGED vars
  BY <1>21 DEF vars, tableVars, handlerVars, historyVars, LockIsHeld, LockFits
<1> QED
  BY <1>1, <1>2, <1>3, <1>4, <1>5, <1>6, <1>7, <1>8, <1>9, <1>10, <1>11, <1>12, <1>13, <1>14,
     <1>15, <1>16, <1>17, <1>18, <1>19, <1>20, <1>21 DEF Next, RoleStep, RemovalStep,
     SessionStep, InviteStep

\* What a step owes to the owners.
OwnersKept == CheckHolds' /\ OwnerRemainsIfGuarded'

\* Steps that neither change a role nor let a handler write leave the owners alone.
LEMMA OwnersUntouched ==
  ASSUME IInv, UNCHANGED <<role, unguarded>>,
         \A k \in Handler : pc'[k] = "write" /\ lock' = k =>
             \/ CheckHoldsFor(k)'
             \/ pc[k] = "write" /\ lock = k /\ UNCHANGED <<op[k], about[k], as[k]>>
  PROVE  OwnersKept
<1>1. Owners' = Owners
  BY DEF Owners
<1>2. ASSUME NEW k \in Handler PROVE CheckHoldsFor(k)'
  BY <1>1 DEF IInv, CheckHolds, CheckHoldsFor, Others
<1> QED
  BY <1>1, <1>2 DEF IInv, OwnersKept, CheckHolds, OwnerRemainsIfGuarded

LEMMA LeavingTouchesNoOwner ==
  ASSUME IInv, NEW h \in Handler, Leave(h), UNCHANGED <<role, unguarded>>
  PROVE  OwnersKept
<1>1. ASSUME NEW k \in Handler, pc'[k] = "write", lock' = k
      PROVE  pc[k] = "write" /\ lock = k /\ UNCHANGED <<op[k], about[k], as[k]>>
  BY <1>1, NoneAssumption DEF IInv, TypeOK, Leave
<1> QED
  BY <1>1, OwnersUntouched

\* Every step keeps what was counted, and an owner.
LEMMA StepKeepsOwners == IInv /\ [Next]_vars => OwnersKept
<1> SUFFICES ASSUME IInv, [Next]_vars PROVE OwnersKept
  OBVIOUS
<1> USE DEF IInv
<1>1. ASSUME NEW h \in Handler, NEW s \in Session, NEW p \in Person, NEW r \in Roles,
             AskRole(h, s, p, r)
      PROVE  OwnersKept
  BY <1>1, OwnersUntouched DEF TypeOK, LockIsHeld, LockFits, AskRole, Ask, tableVars
<1>2. ASSUME NEW h \in Handler, CheckRole(h) PROVE OwnersKept
  <2>1. CASE Leave(h)
    BY <1>2, <2>1, LeavingTouchesNoOwner DEF CheckRole, tableVars, historyVars
  <2>2. CASE KeepsOwner(h) /\ GoTo(h, "write") /\ UNCHANGED lock
    <3>1. role[about[h]] = "owner" /\ as[h] # "owner" => Others(h)
      <4> SUFFICES ASSUME role[about[h]] = "owner", as[h] # "owner" PROVE Others(h)
        OBVIOUS
      <4>1. ~LastOwner
        BY <2>2 DEF KeepsOwner
      <4> QED
        BY <4>1, OthersRemain DEF Others
    <3>2. CheckHoldsFor(h)'
      BY <1>2, <2>2, <3>1 DEF TypeOK, CheckRole, At, GoTo, tableVars, historyVars, CheckHoldsFor,
         Others, Owners
    <3> QED
      BY <1>2, <2>2, <3>2, OwnersUntouched DEF TypeOK, CheckRole, GoTo, tableVars, historyVars
  <2> QED
    BY <1>2, <2>1, <2>2 DEF CheckRole
<1>3. ASSUME NEW h \in Handler, WriteRole(h) PROVE OwnersKept
  <2> DEFINE p == about[h]
  <2>1. lock = h /\ pc[h] = "write" /\ op[h] = "role" /\ p \in Person
    BY <1>3 DEF TypeOK, LockIsHeld, LockFits, RequestIsFull, Full, WriteRole, At
  <2>2. lock' = None /\ unguarded' = unguarded /\ CheckHolds'
    BY <1>3, <2>1, NoneAssumption DEF WriteRole, Leave, CheckHolds, CheckHoldsFor
  <2>3. CASE role' = role
    BY <2>2, <2>3 DEF OwnersKept, OwnerRemainsIfGuarded, Owners
  <2>4. CASE role' = [role EXCEPT ![p] = as[h]]
    <3>1. CASE as[h] = "owner"
      BY <2>1, <2>2, <2>4, <3>1 DEF TypeOK, OwnersKept, OwnerRemainsIfGuarded, Owners
    <3>2. CASE as[h] # "owner" /\ role[p] = "owner"
      BY <2>1, <2>2, <2>4, <3>2 DEF TypeOK, CheckHolds, CheckHoldsFor, Others, OwnersKept,
         OwnerRemainsIfGuarded, Owners
    <3>3. CASE role[p] # "owner"
      BY <2>1, <2>2, <2>4, <3>3 DEF TypeOK, OwnersKept, OwnerRemainsIfGuarded, Owners
    <3> QED
      BY <3>1, <3>2, <3>3
  <2> QED
    BY <1>3, <2>3, <2>4 DEF WriteRole
<1>4. ASSUME NEW h \in Handler, NEW s \in Session, NEW p \in Person, AskRemoval(h, s, p)
      PROVE  OwnersKept
  BY <1>4, OwnersUntouched DEF TypeOK, LockIsHeld, LockFits, AskRemoval, Ask, tableVars
<1>5. ASSUME NEW h \in Handler, CheckRemoval(h) PROVE OwnersKept
  <2>1. CASE Leave(h)
    BY <1>5, <2>1, LeavingTouchesNoOwner DEF CheckRemoval, tableVars, historyVars
  <2>2. CASE ~LastOwner /\ GoTo(h, "write") /\ UNCHANGED lock
    <3>1. Others(h)
      BY <2>2, OthersRemain DEF Others
    <3>2. CheckHoldsFor(h)'
      BY <1>5, <2>2, <3>1 DEF TypeOK, CheckRemoval, At, GoTo, tableVars, historyVars,
         CheckHoldsFor, Others, Owners
    <3> QED
      BY <1>5, <2>2, <3>2, OwnersUntouched DEF TypeOK, CheckRemoval, GoTo, tableVars, historyVars
  <2> QED
    BY <1>5, <2>1, <2>2 DEF CheckRemoval
<1>6. ASSUME NEW h \in Handler, WriteRemoval(h) PROVE OwnersKept
  <2> DEFINE p == about[h]
  <2>1. pc[h] = "write" /\ op[h] = "remove" /\ p \in Person
    BY <1>6 DEF TypeOK, RequestIsFull, Full, WriteRemoval, At
  <2>2. \A k \in Handler : pc'[k] = "write" /\ lock' = k =>
           pc[k] = "write" /\ lock = k /\ k # h /\ UNCHANGED <<op[k], about[k], as[k]>>
    BY <1>6, NoneAssumption DEF TypeOK, WriteRemoval, Leave
  <2>3. CASE role[p] = None
    BY <1>6, <2>2, <2>3, OwnersUntouched DEF WriteRemoval
  <2>4. CASE role[p] # None
    <3>1. /\ role' = [role EXCEPT ![p] = None]
          /\ unguarded' = (unguarded \/ (role[p] = "owner" /\ lock # h))
      BY <1>6, <2>4 DEF WriteRemoval
    <3>2. CASE role[p] # "owner"
      <4>1. Owners' = Owners
        BY <2>1, <3>1, <3>2, NoneAssumption DEF TypeOK, Owners, Roles
      <4>5. unguarded' = unguarded
        BY <3>1, <3>2 DEF TypeOK
      <4>2. ASSUME NEW k \in Handler PROVE CheckHoldsFor(k)'
        <5>1. role'[about[k]] = "owner" => role[about[k]] = "owner"
          BY <2>1, <3>1, NoneAssumption DEF TypeOK, Roles
        <5> QED
          BY <2>2, <4>1, <4>5, <5>1 DEF CheckHolds, CheckHoldsFor, Others
      <4> QED
        BY <4>1, <4>2, <4>5 DEF OwnersKept, CheckHolds, OwnerRemainsIfGuarded
    <3>3. CASE role[p] = "owner" /\ lock # h
      BY <3>1, <3>3 DEF OwnersKept, CheckHolds, CheckHoldsFor, OwnerRemainsIfGuarded
    <3>4. CASE role[p] = "owner" /\ lock = h
      <4>1. CheckHolds'
        BY <2>2, <3>4 DEF CheckHolds, CheckHoldsFor
      <4>2. unguarded \/ Others(h)
        BY <2>1, <3>4 DEF CheckHolds, CheckHoldsFor
      <4> QED
        BY <2>1, <3>1, <4>1, <4>2 DEF TypeOK, OwnersKept, OwnerRemainsIfGuarded, Others, Owners
    <3> QED
      BY <3>2, <3>3, <3>4
  <2> QED
    BY <2>3, <2>4
<1>7. ASSUME NEW h \in Handler, NEW p \in Person, AskLogin(h, p) PROVE OwnersKept
  BY <1>7, OwnersUntouched DEF TypeOK, LockIsHeld, LockFits, AskLogin, Ask, tableVars
<1>8. ASSUME NEW h \in Handler, NEW s \in Session, AskRenewal(h, s) PROVE OwnersKept
  BY <1>8, OwnersUntouched DEF TypeOK, LockIsHeld, LockFits, AskRenewal, Ask, tableVars
<1>9. ASSUME NEW h \in Handler, OpenSession(h) PROVE OwnersKept
  BY <1>9, LeavingTouchesNoOwner DEF OpenSession, historyVars
<1>10. ASSUME NEW h \in Handler, Renew(h) PROVE OwnersKept
  BY <1>10, LeavingTouchesNoOwner DEF Renew, historyVars
<1>11. ASSUME NEW h \in Handler, NEW s \in Session, NEW p \in Person, NEW r \in Roles,
              AskInvite(h, s, p, r)
       PROVE  OwnersKept
  BY <1>11, OwnersUntouched DEF TypeOK, LockIsHeld, LockFits, AskInvite, Ask, tableVars
<1>12. ASSUME NEW h \in Handler, NEW i \in Invite, AskAccept(h, i) PROVE OwnersKept
  BY <1>12, OwnersUntouched DEF TypeOK, LockIsHeld, LockFits, AskAccept, Ask, tableVars
<1>13. ASSUME NEW h \in Handler, CreateInvite(h) PROVE OwnersKept
  BY <1>13, LeavingTouchesNoOwner DEF CreateInvite, historyVars
<1>14. ASSUME NEW h \in Handler, Accept(h) PROVE OwnersKept
  <2> DEFINE p == invite[about[h]].person
  <2>1. CASE Leave(h) /\ UNCHANGED role
    BY <1>14, <2>1, LeavingTouchesNoOwner DEF Accept, historyVars
  <2>2. CASE ~(Leave(h) /\ UNCHANGED role)
    <3>1. /\ p \notin account /\ role' = [role EXCEPT ![p] = invite[about[h]].role]
          /\ pc' = [pc EXCEPT ![h] = "open"] /\ about' = [about EXCEPT ![h] = p]
          /\ as' = [as EXCEPT ![h] = invite[about[h]].role]
          /\ UNCHANGED <<op, lock, unguarded>>
      BY <1>14, <2>2 DEF Accept, historyVars
    <3>2. p \in Person
      BY <1>14 DEF RequestIsFull, Full, InvitesAreFull, Accept, At
    <3>3. Owners \subseteq Owners'
      BY <3>1, <3>2, NoneAssumption DEF TypeOK, AccountsStay, Owners, Roles
    <3>4. ASSUME NEW k \in Handler PROVE CheckHoldsFor(k)'
      <4>1. CASE k = h
        BY <3>1, <4>1 DEF TypeOK, CheckHoldsFor
      <4>2. CASE k # h /\ lock = k /\ pc[k] = "write"
        <5>1. about[k] \in account /\ about'[k] = about[k] /\ as'[k] = as[k]
          BY <3>1, <4>2 DEF TypeOK, LockIsHeld, LockFits, RequestIsFull, Full
        <5>2. role'[about[k]] = role[about[k]]
          BY <3>1, <3>2, <5>1 DEF TypeOK
        <5> QED
          BY <3>1, <3>3, <4>2, <5>1, <5>2 DEF CheckHolds, CheckHoldsFor, Others
      <4>3. CASE k # h /\ ~(lock = k /\ pc[k] = "write")
        BY <3>1, <4>3 DEF TypeOK, CheckHoldsFor
      <4> QED
        BY <4>1, <4>2, <4>3
    <3> QED
      BY <3>1, <3>3, <3>4 DEF OwnersKept, CheckHolds, OwnerRemainsIfGuarded
  <2> QED
    BY <2>1, <2>2
<1>15. ASSUME NEW h \in Handler, Lock(h) PROVE OwnersKept
  BY <1>15, OwnersUntouched DEF TypeOK, Lock, GoTo, tableVars, historyVars
<1>16. ASSUME NEW s \in Session, Expire(s) PROVE OwnersKept
  BY <1>16, OwnersUntouched DEF Expire, handlerVars, historyVars
<1>17. ASSUME NEW s \in Session, NEW p \in Person, SignOutMember(s, p) PROVE OwnersKept
  BY <1>17, OwnersUntouched DEF SignOutMember, handlerVars, historyVars
<1>18. ASSUME NEW s \in Session, NEW t \in Session, SignOut(s, t) PROVE OwnersKept
  BY <1>18, OwnersUntouched DEF SignOut, handlerVars, historyVars
<1>19. ASSUME NEW s \in Session, NEW i \in Invite, RevokeInvite(s, i) PROVE OwnersKept
  BY <1>19, OwnersUntouched DEF RevokeInvite, handlerVars, historyVars
<1>20. ASSUME NEW i \in Invite, ExpireInvite(i) PROVE OwnersKept
  BY <1>20, OwnersUntouched DEF ExpireInvite, handlerVars, historyVars
<1>21. CASE UNCHANGED vars
  BY <1>21, OwnersUntouched DEF vars, tableVars, handlerVars, historyVars
<1> QED
  BY <1>1, <1>2, <1>3, <1>4, <1>5, <1>6, <1>7, <1>8, <1>9, <1>10, <1>11, <1>12, <1>13, <1>14,
     <1>15, <1>16, <1>17, <1>18, <1>19, <1>20, <1>21 DEF Next, RoleStep, RemovalStep,
     SessionStep, InviteStep

\* Every step keeps sessions true to the team.
LEMMA StepKeepsSessions == IInv /\ [Next]_vars => RenewableFollowTeam'
<1> SUFFICES ASSUME IInv, [Next]_vars PROVE RenewableFollowTeam'
  OBVIOUS
<1> USE DEF IInv
<1>1. ASSUME NEW h \in Handler, NEW s \in Session, NEW p \in Person, NEW r \in Roles,
             AskRole(h, s, p, r)
      PROVE  RenewableFollowTeam'
  BY <1>1 DEF RenewableFollowTeam, AskRole, Ask, tableVars
<1>2. ASSUME NEW h \in Handler, CheckRole(h) PROVE RenewableFollowTeam'
  BY <1>2 DEF RenewableFollowTeam, CheckRole, tableVars, historyVars
<1>3. ASSUME NEW h \in Handler, WriteRole(h) PROVE RenewableFollowTeam'
  <2> DEFINE p == about[h]
  <2>1. CASE UNCHANGED <<role, session, overtaken>>
    BY <2>1 DEF RenewableFollowTeam
  <2>2. CASE /\ role' = [role EXCEPT ![p] = as[h]]
             /\ session' = Restamped(p, as[h])
             /\ overtaken' = {s \in overtaken : HolderOf(s) # p}
    <3> SUFFICES ASSUME NEW s \in Session, s \notin overtaken',
                 session'[s].state \in {"live", "expired"}
                 PROVE  session'[s].role = role'[HolderOf(s)]
      BY DEF RenewableFollowTeam
    <3>1. session[s] \in SessionRow /\ HolderOf(s) \in Person
      BY SessionsHaveHolders DEF TypeOK
    <3>2. CASE HolderOf(s) # p
      BY <2>2, <3>1, <3>2 DEF TypeOK, RenewableFollowTeam, Restamped
    <3>3. CASE HolderOf(s) = p
      <4>1. session[s].state \in {"live", "expired"}
        BY <2>2, <3>1, <3>3, SessionRowsStayTyped DEF Restamped
      <4>2. session'[s].role = as[h]
        BY <2>2, <3>1, <3>3, <4>1 DEF Restamped, SessionRow
      <4> QED
        BY <2>2, <3>1, <3>3, <4>2 DEF TypeOK
    <3> QED
      BY <3>2, <3>3
  <2> QED
    BY <1>3, <2>1, <2>2 DEF WriteRole
<1>4. ASSUME NEW h \in Handler, NEW s \in Session, NEW p \in Person, AskRemoval(h, s, p)
      PROVE  RenewableFollowTeam'
  BY <1>4 DEF RenewableFollowTeam, AskRemoval, Ask, tableVars
<1>5. ASSUME NEW h \in Handler, CheckRemoval(h) PROVE RenewableFollowTeam'
  BY <1>5 DEF RenewableFollowTeam, CheckRemoval, tableVars, historyVars
<1>6. ASSUME NEW h \in Handler, WriteRemoval(h) PROVE RenewableFollowTeam'
  <2> DEFINE p == about[h]
  <2>1. CASE UNCHANGED <<role, session, overtaken>>
    BY <2>1 DEF RenewableFollowTeam
  <2>2. CASE /\ role' = [role EXCEPT ![p] = None]
             /\ session' = RevokedOf(p)
             /\ overtaken' = {s \in overtaken : HolderOf(s) # p}
    <3> SUFFICES ASSUME NEW s \in Session, s \notin overtaken',
                 session'[s].state \in {"live", "expired"}
                 PROVE  session'[s].role = role'[HolderOf(s)]
      BY DEF RenewableFollowTeam
    <3>1. session[s] \in SessionRow /\ HolderOf(s) \in Person
      BY SessionsHaveHolders DEF TypeOK
    <3>2. HolderOf(s) # p
      BY <2>2, <3>1 DEF RevokedOf, SessionRow
    <3> QED
      BY <2>2, <3>1, <3>2 DEF TypeOK, RenewableFollowTeam, RevokedOf
  <2> QED
    BY <1>6, <2>1, <2>2 DEF WriteRemoval
<1>7. ASSUME NEW h \in Handler, NEW p \in Person, AskLogin(h, p) PROVE RenewableFollowTeam'
  BY <1>7 DEF RenewableFollowTeam, AskLogin, Ask, tableVars
<1>8. ASSUME NEW h \in Handler, NEW s \in Session, AskRenewal(h, s) PROVE RenewableFollowTeam'
  BY <1>8 DEF RenewableFollowTeam, AskRenewal, Ask, tableVars
<1>9. ASSUME NEW h \in Handler, OpenSession(h) PROVE RenewableFollowTeam'
  <2>1. about[h] \in Person /\ as[h] \in Roles
    BY <1>9 DEF TypeOK, RequestIsFull, Full, OpenSession
  <2>2. PICK n \in Number :
           /\ session' = [session EXCEPT ![<<about[h], n>>] = [role |-> as[h], state |-> "live"]]
           /\ overtaken' = IF role[about[h]] = as[h] THEN overtaken
                           ELSE overtaken \cup {<<about[h], n>>}
    BY <1>9 DEF OpenSession, Unused
  <2>3. <<about[h], n>> \in Session /\ HolderOf(<<about[h], n>>) = about[h] /\ role' = role
    BY <1>9, <2>1, SessionsHaveHolders DEF OpenSession
  <2> QED
    BY <2>1, <2>2, <2>3 DEF TypeOK, RenewableFollowTeam
<1>10. ASSUME NEW h \in Handler, Renew(h) PROVE RenewableFollowTeam'
  <2>1. role' = role /\ overtaken' = overtaken
    BY <1>10 DEF Renew, historyVars
  <2>2. CASE session' = session
    BY <2>1, <2>2 DEF RenewableFollowTeam
  <2>3. CASE Renewable(about[h]) /\ session' = [session EXCEPT ![about[h]].state = "live"]
    BY <2>1, <2>3, SessionRowsStayTyped DEF TypeOK, RenewableFollowTeam, Renewable
  <2> QED
    BY <1>10, <2>2, <2>3 DEF Renew
<1>11. ASSUME NEW h \in Handler, NEW s \in Session, NEW p \in Person, NEW r \in Roles,
              AskInvite(h, s, p, r)
       PROVE  RenewableFollowTeam'
  BY <1>11 DEF RenewableFollowTeam, AskInvite, Ask, tableVars
<1>12. ASSUME NEW h \in Handler, NEW i \in Invite, AskAccept(h, i) PROVE RenewableFollowTeam'
  BY <1>12 DEF RenewableFollowTeam, AskAccept, Ask, tableVars
<1>13. ASSUME NEW h \in Handler, CreateInvite(h) PROVE RenewableFollowTeam'
  BY <1>13 DEF RenewableFollowTeam, CreateInvite, historyVars
<1>14. ASSUME NEW h \in Handler, Accept(h) PROVE RenewableFollowTeam'
  <2>1. CASE UNCHANGED role
    BY <1>14, <2>1 DEF RenewableFollowTeam, Accept, historyVars
  <2>2. CASE ~UNCHANGED role
    <3>1. /\ role' = [role EXCEPT ![invite[about[h]].person] = invite[about[h]].role]
          /\ invite[about[h]].person \notin account /\ UNCHANGED <<session, overtaken>>
      BY <1>14, <2>2 DEF Accept, historyVars
    <3> QED
      BY <3>1, SessionsHaveHolders DEF TypeOK, AccountsStay, RenewableFollowTeam
  <2> QED
    BY <2>1, <2>2
<1>15. ASSUME NEW h \in Handler, Lock(h) PROVE RenewableFollowTeam'
  BY <1>15 DEF RenewableFollowTeam, Lock, tableVars, historyVars
<1>16. ASSUME NEW s \in Session, Expire(s) PROVE RenewableFollowTeam'
  BY <1>16, SessionRowsStayTyped DEF TypeOK, RenewableFollowTeam, Expire, historyVars
<1>17. ASSUME NEW s \in Session, NEW p \in Person, SignOutMember(s, p)
       PROVE  RenewableFollowTeam'
  <2>1. session' = RevokedOf(p) /\ UNCHANGED <<role, overtaken>>
    BY <1>17 DEF SignOutMember, historyVars
  <2>2. \A x \in Session : session'[x] = session[x] \/ session'[x].state = "revoked"
    BY <2>1 DEF TypeOK, RevokedOf, SessionRow
  <2> QED
    BY <2>1, <2>2 DEF RenewableFollowTeam
<1>18. ASSUME NEW s \in Session, NEW t \in Session, SignOut(s, t) PROVE RenewableFollowTeam'
  <2>1. session' = [session EXCEPT ![t].state = "revoked"] /\ UNCHANGED <<role, overtaken>>
    BY <1>18 DEF SignOut, historyVars
  <2>2. \A x \in Session : x # t => session'[x] = session[x]
    BY <2>1 DEF TypeOK
  <2>3. session'[t].state = "revoked"
    BY <2>1 DEF TypeOK, SessionRow
  <2> QED
    BY <2>1, <2>2, <2>3 DEF RenewableFollowTeam
<1>19. ASSUME NEW s \in Session, NEW i \in Invite, RevokeInvite(s, i) PROVE RenewableFollowTeam'
  BY <1>19 DEF RenewableFollowTeam, RevokeInvite, historyVars
<1>20. ASSUME NEW i \in Invite, ExpireInvite(i) PROVE RenewableFollowTeam'
  BY <1>20 DEF RenewableFollowTeam, ExpireInvite, historyVars
<1>21. CASE UNCHANGED vars
  BY <1>21 DEF vars, tableVars, handlerVars, historyVars, RenewableFollowTeam
<1> QED
  BY <1>1, <1>2, <1>3, <1>4, <1>5, <1>6, <1>7, <1>8, <1>9, <1>10, <1>11, <1>12, <1>13, <1>14,
     <1>15, <1>16, <1>17, <1>18, <1>19, <1>20, <1>21 DEF Next, RoleStep, RemovalStep,
     SessionStep, InviteStep

LEMMA InitEstablishesIInv == Init => IInv
<1> SUFFICES ASSUME Init PROVE IInv
  OBVIOUS
<1> USE DEF Init
<1>1. TypeOK
  <2>1. session \in [Session -> SessionRow]
    BY SessionsHaveHolders DEF SessionRow, NoSession
  <2>2. invite \in [Invite -> InviteRow] /\ requests \in 0..MaxRequests
    BY BoundAssumption DEF InviteRow, NoInvite
  <2> QED
    BY <2>1, <2>2 DEF TypeOK
<1>2. AccountsStay
  BY SessionsHaveHolders DEF AccountsStay, NoSession
<1>3. InvitesAreFull /\ RequestIsFull
  BY DEF InvitesAreFull, RequestIsFull, Full, NoInvite
<1>4. LockIsHeld /\ CheckHolds
  BY NoneAssumption DEF LockIsHeld, LockFits, CheckHolds, CheckHoldsFor
<1>5. OwnerRemainsIfGuarded
  BY DEF OwnerRemainsIfGuarded
<1>6. RenewableFollowTeam
  BY SessionsHaveHolders DEF RenewableFollowTeam, NoSession
<1> QED
  BY <1>1, <1>2, <1>3, <1>4, <1>5, <1>6 DEF IInv

\* The inductive invariant holds in every reachable state.
THEOREM Invariant == Spec => []IInv
<1>1. IInv /\ [Next]_vars => IInv'
  BY StepKeepsTypes, StepKeepsAccounts, StepKeepsInvites, StepKeepsRequests, StepKeepsLock,
     StepKeepsOwners, StepKeepsSessions DEF IInv, AccountsGrow, InvitesGrow, OwnersKept
<1> QED
  BY InitEstablishesIInv, <1>1, PTL DEF Spec

-----------------------------------------------------------------------------
(* What the invariant gives *)

\* The tables and the handlers keep their types.
THEOREM TypeCorrect == Spec => []TypeOK
<1>1. IInv => TypeOK
  BY DEF IInv
<1> QED
  BY Invariant, <1>1, PTL

\* For any number of people and of handlers at once: the lock keeps an owner in the
\* organization as long as no owner is removed without it, and the hook admits nobody with
\* another role than the team gives, overtaken sign-ins aside.
THEOREM TeamStaysSound == Spec => []TeamIsSound
<1>1. IInv => TeamIsSound
  BY DEF IInv, RenewableFollowTeam, TeamIsSound, SessionsFollowTeam
<1> QED
  BY Invariant, <1>1, PTL

\* No step revives a revoked session or a settled invite.
LEMMA StepRevivesNothing ==
  IInv /\ [Next]_vars =>
    [/\ \A s \in Session : session[s].state = "revoked" => session'[s].state = "revoked"
     /\ \A i \in Invite : invite[i].state \in {"accepted", "revoked", "expired"} =>
           invite'[i] = invite[i]]_vars
<1> DEFINE Kept == /\ \A s \in Session :
                         session[s].state = "revoked" => session'[s].state = "revoked"
                   /\ \A i \in Invite : invite[i].state \in {"accepted", "revoked", "expired"} =>
                         invite'[i] = invite[i]
<1> SUFFICES ASSUME IInv, Next PROVE Kept
  BY DEF vars
<1> USE DEF IInv
<1>1. ASSUME NEW h \in Handler, NEW s \in Session, NEW p \in Person, NEW r \in Roles,
             AskRole(h, s, p, r)
      PROVE  Kept
  BY <1>1 DEF AskRole, Ask, tableVars
<1>2. ASSUME NEW h \in Handler, CheckRole(h) PROVE Kept
  BY <1>2 DEF CheckRole, tableVars
<1>3. ASSUME NEW h \in Handler, WriteRole(h) PROVE Kept
  <2>1. UNCHANGED invite /\ (UNCHANGED session \/ session' = Restamped(about[h], as[h]))
    BY <1>3 DEF WriteRole
  <2> QED
    BY <2>1 DEF TypeOK, Restamped
<1>4. ASSUME NEW h \in Handler, NEW s \in Session, NEW p \in Person, AskRemoval(h, s, p)
      PROVE  Kept
  BY <1>4 DEF AskRemoval, Ask, tableVars
<1>5. ASSUME NEW h \in Handler, CheckRemoval(h) PROVE Kept
  BY <1>5 DEF CheckRemoval, tableVars
<1>6. ASSUME NEW h \in Handler, WriteRemoval(h) PROVE Kept
  <2>1. UNCHANGED invite /\ (UNCHANGED session \/ session' = RevokedOf(about[h]))
    BY <1>6 DEF WriteRemoval
  <2> QED
    BY <2>1 DEF TypeOK, RevokedOf
<1>7. ASSUME NEW h \in Handler, NEW p \in Person, AskLogin(h, p) PROVE Kept
  BY <1>7 DEF AskLogin, Ask, tableVars
<1>8. ASSUME NEW h \in Handler, NEW s \in Session, AskRenewal(h, s) PROVE Kept
  BY <1>8 DEF AskRenewal, Ask, tableVars
<1>9. ASSUME NEW h \in Handler, OpenSession(h) PROVE Kept
  <2>1. PICK k \in Unused(about[h]) :
           session' = [session EXCEPT ![<<about[h], k>>] = [role |-> as[h], state |-> "live"]]
    BY <1>9 DEF OpenSession
  <2>2. UNCHANGED invite /\ session[<<about[h], k>>].state = "none"
    BY <1>9 DEF OpenSession, Unused
  <2> QED
    BY <2>1, <2>2 DEF TypeOK
<1>10. ASSUME NEW h \in Handler, Renew(h) PROVE Kept
  BY <1>10 DEF TypeOK, Renew, Renewable
<1>11. ASSUME NEW h \in Handler, NEW s \in Session, NEW p \in Person, NEW r \in Roles,
              AskInvite(h, s, p, r)
       PROVE  Kept
  BY <1>11 DEF AskInvite, Ask, tableVars
<1>12. ASSUME NEW h \in Handler, NEW i \in Invite, AskAccept(h, i) PROVE Kept
  BY <1>12 DEF AskAccept, Ask, tableVars
<1>13. ASSUME NEW h \in Handler, CreateInvite(h) PROVE Kept
  <2>1. PICK i \in Invite : invite[i] = NoInvite /\ \A k \in Invite \ {i} : invite'[k] = invite[k]
    BY <1>13 DEF TypeOK, CreateInvite
  <2>2. UNCHANGED session
    BY <1>13 DEF CreateInvite
  <2> QED
    BY <2>1, <2>2 DEF NoInvite
<1>14. ASSUME NEW h \in Handler, Accept(h) PROVE Kept
  <2>1. UNCHANGED session
    BY <1>14 DEF Accept
  <2>2. \/ UNCHANGED invite
        \/ /\ invite[about[h]].state = "pending"
           /\ invite' = [invite EXCEPT ![about[h]].state = "accepted"]
    BY <1>14 DEF Accept, Claims
  <2> QED
    BY <2>1, <2>2 DEF TypeOK
<1>15. ASSUME NEW h \in Handler, Lock(h) PROVE Kept
  BY <1>15 DEF Lock, tableVars
<1>16. ASSUME NEW s \in Session, Expire(s) PROVE Kept
  BY <1>16 DEF TypeOK, Expire
<1>17. ASSUME NEW s \in Session, NEW p \in Person, SignOutMember(s, p) PROVE Kept
  BY <1>17 DEF TypeOK, SignOutMember, RevokedOf
<1>18. ASSUME NEW s \in Session, NEW t \in Session, SignOut(s, t) PROVE Kept
  <2>1. session'[t].state = "revoked"
    BY <1>18 DEF TypeOK, SignOut, SessionRow
  <2>2. UNCHANGED invite /\ \A x \in Session : x # t => session'[x] = session[x]
    BY <1>18 DEF TypeOK, SignOut
  <2> QED
    BY <2>1, <2>2
<1>19. ASSUME NEW s \in Session, NEW i \in Invite, RevokeInvite(s, i) PROVE Kept
  BY <1>19 DEF TypeOK, RevokeInvite
<1>20. ASSUME NEW i \in Invite, ExpireInvite(i) PROVE Kept
  BY <1>20 DEF TypeOK, ExpireInvite
<1> QED
  BY <1>1, <1>2, <1>3, <1>4, <1>5, <1>6, <1>7, <1>8, <1>9, <1>10, <1>11, <1>12, <1>13, <1>14,
     <1>15,
     <1>16, <1>17, <1>18, <1>19, <1>20 DEF Next, RoleStep, RemovalStep, SessionStep, InviteStep

\* For any number of handlers at once: what was revoked, used or has expired stays so.
THEOREM RevokedStaysRevoked == Spec => RevokedForGood
  BY Invariant, StepRevivesNothing, PTL DEF Spec, RevokedForGood

-----------------------------------------------------------------------------
(* Connections: the inductive invariant *)

AuthorizationRow == [provider : OAuthProvider, consumed : BOOLEAN]
LinkPoints == {"idle", "consume", "exchange", "failed", "upsert"}
LinkTypes ==
    /\ authorization \in [Authorization -> AuthorizationRow \cup {NoLink}]
    /\ consent \in [Authorization -> {"none", "asked", "approved", "declined"}]
    /\ exchanges \in [Authorization -> Nat] /\ linkFaults \in Nat
    /\ redeemed \subseteq Authorization /\ raced \subseteq Authorization
    /\ DOMAIN connection = Provider
    /\ conn = [h \in LinkHandler |-> conn[h]]
    /\ \A h \in LinkHandler :
           /\ conn[h] = [pc |-> conn[h].pc, provider |-> conn[h].provider, of |-> conn[h].of]
           /\ conn[h].pc \in LinkPoints

\* An authorization that was asked for has its row, and only a code that was sent is
\* redeemed.
ConsentFits ==
    /\ \A n \in Authorization : consent[n] # "none" => authorization[n] # NoLink
    /\ \A n \in redeemed : exchanges[n] > 0

\* Something took the connection down.
HasCause == linkFaults > 0 \/ raced # {}

\* The provider granted the tokens of n, which was started for p.
Granted(p, n) ==
    /\ n \in Authorization /\ consent[n] = "approved" /\ n \in redeemed
    /\ authorization[n] # NoLink /\ authorization[n].consumed /\ authorization[n].provider = p

\* A callback that has found its row.
Holds(r, n) == r.pc \in {"consume", "exchange"} /\ r.of = n

\* What a request has read fits the rows.
LinkFits(r) ==
    /\ r.pc \in {"consume", "exchange"} =>
           /\ r.of \in Authorization /\ authorization[r.of] # NoLink
           /\ r.provider = authorization[r.of].provider
           /\ consent[r.of] \in {"approved", "declined"}
    /\ r.pc = "exchange" => consent[r.of] = "approved" /\ authorization[r.of].consumed
    /\ r.pc = "failed" => HasCause
    /\ r.pc = "upsert" => r.provider \in Provider /\ (r.provider \in OAuthProvider => Granted(r.provider, r.of))
LinksFit == \A h \in LinkHandler : LinkFits(conn[h])

\* The code of a row that is not marked was not sent.
UnmarkedIsUnsent ==
    \A n \in Authorization :
        authorization[n] = NoLink \/ ~ authorization[n].consumed => exchanges[n] = 0

\* Without a race one callback holds a row, and sends its code once.
HeldByOne ==
    \A n \in Authorization \ raced :
        /\ exchanges[n] <= 1
        /\ \A h \in LinkHandler : Holds(conn[h], n) =>
               exchanges[n] = 0 /\ \A g \in LinkHandler : Holds(conn[g], n) => g = h

ConnectionsFit ==
    \A p \in OAuthProvider : connection[p] # NoLink =>
        /\ Granted(p, connection[p].credential)
        /\ connection[p].status = "needs_attention" => HasCause

LinkInv ==
    LinkTypes /\ ConsentFits /\ LinksFit /\ UnmarkedIsUnsent /\ HeldByOne /\ ConnectionsFit

LEMMA LinkStarts == LinkInit => LinkInv
  BY DEF LinkInit, LinkInv, LinkTypes, ConsentFits, LinksFit, LinkFits, UnmarkedIsUnsent,
     HeldByOne, Holds,
       ConnectionsFit, IdleLink, LinkPoints, Provider

\* No step takes back what a provider granted, nor a cause.
GrantsGrow ==
    /\ \A n \in Authorization : authorization[n] # NoLink =>
           /\ authorization'[n] # NoLink /\ authorization'[n].provider = authorization[n].provider
           /\ authorization[n].consumed => authorization'[n].consumed
    /\ \A n \in Authorization :
           consent[n] \in {"approved", "declined"} => consent'[n] = consent[n]
    /\ redeemed \subseteq redeemed' /\ (HasCause => HasCause')

LEMMA GrantStays ==
  ASSUME GrantsGrow
  PROVE  /\ \A p, n : Granted(p, n) => Granted(p, n)'
         /\ \A r : LinkFits(r) => LinkFits(r)'
<1>1. \A p, n : Granted(p, n) => Granted(p, n)'
  BY DEF GrantsGrow, Granted
<1>2. ASSUME NEW r, LinkFits(r) PROVE LinkFits(r)'
  BY <1>1, <1>2 DEF GrantsGrow, LinkFits
<1> QED
  BY <1>1, <1>2

LEMMA ConnectionsStayFit ==
  ASSUME ConnectionsFit, GrantsGrow, UNCHANGED connection
  PROVE  ConnectionsFit'
  BY GrantStays DEF ConnectionsFit, GrantsGrow

\* What a step of request h changes: r is what h becomes.
LinkBecomes(h, r) ==
    /\ conn' = [g \in LinkHandler |-> conn'[g]] /\ conn'[h] = r
    /\ \A g \in LinkHandler \ {h} : conn'[g] = conn[g]

LEMMA LinksStayFit ==
  ASSUME LinksFit, GrantsGrow, NEW h \in LinkHandler, NEW r, LinkBecomes(h, r), LinkFits(r)'
  PROVE  LinksFit'
  BY GrantStays DEF LinksFit, LinkBecomes

LEMMA LinkSteps ==
  ASSUME LinkTypes, NEW h \in LinkHandler
  PROVE  /\ LinkEnds(h) => LinkBecomes(h, IdleLink)
         /\ \A point : LinkTo(h, point) =>
                LinkBecomes(h, [pc |-> point, provider |-> conn[h].provider, of |-> conn[h].of])
         /\ \A point, p, of : Begin(h, point, p, of) =>
                LinkBecomes(h, [pc |-> point, provider |-> p, of |-> of])
<1>1. LinkEnds(h) => LinkBecomes(h, IdleLink)
  BY DEF LinkTypes, LinkEnds, LinkBecomes
<1>2. ASSUME NEW point, LinkTo(h, point)
      PROVE  LinkBecomes(h, [pc |-> point, provider |-> conn[h].provider, of |-> conn[h].of])
  <2>1. conn[h] = [pc |-> conn[h].pc, provider |-> conn[h].provider, of |-> conn[h].of]
    BY DEF LinkTypes
  <2>2. conn'[h] = [conn[h] EXCEPT !.pc = point]
    BY <1>2 DEF LinkTypes, LinkTo
  <2>3. conn'[h] = [pc |-> point, provider |-> conn[h].provider, of |-> conn[h].of]
    BY <2>1, <2>2
  <2> QED
    BY <1>2, <2>3 DEF LinkTypes, LinkTo, LinkBecomes
<1>3. ASSUME NEW point, NEW p, NEW of, Begin(h, point, p, of)
      PROVE  LinkBecomes(h, [pc |-> point, provider |-> p, of |-> of])
  BY <1>3 DEF LinkTypes, Begin, LinkBecomes
<1> QED
  BY <1>1, <1>2, <1>3

LEMMA HandlersKeepType ==
  ASSUME LinkTypes, NEW h \in LinkHandler, NEW point \in LinkPoints, NEW p, NEW of,
         LinkBecomes(h, [pc |-> point, provider |-> p, of |-> of])
  PROVE  /\ conn' = [g \in LinkHandler |-> conn'[g]]
         /\ \A g \in LinkHandler :
                /\ conn'[g] = [pc |-> conn'[g].pc, provider |-> conn'[g].provider, of |-> conn'[g].of]
                /\ conn'[g].pc \in LinkPoints
  BY DEF LinkTypes, LinkBecomes

\* A request that holds nothing afterwards.
LEMMA HeldByFewer ==
  ASSUME HeldByOne, NEW h \in LinkHandler, NEW r, LinkBecomes(h, r),
         r.pc \notin {"consume", "exchange"}, UNCHANGED <<exchanges, raced>>
  PROVE  HeldByOne'
  BY DEF HeldByOne, Holds, LinkBecomes

LEMMA ConsentKeepsInv ==
  ASSUME LinkInv, NEW n \in Authorization, ConsentStep(n)
  PROVE  LinkInv'
<1>1. conn' = conn /\ UNCHANGED <<connection, exchanges, raced, redeemed, linkFaults>>
  BY DEF ConsentStep, StartConsent, AnswerConsent, ExpireConsent, linkCounts, rowVars
<1>2. LinkTypes' /\ ConsentFits' /\ UnmarkedIsUnsent' /\ GrantsGrow
  <2>1. CASE \E p \in OAuthProvider : StartConsent(p, n)
    <3>1. PICK p \in OAuthProvider : StartConsent(p, n)
      BY <2>1
    <3>2. [provider |-> p, consumed |-> FALSE] \in AuthorizationRow
      BY DEF AuthorizationRow
    <3>3. [provider |-> p, consumed |-> FALSE] # NoLink
      BY <3>2, LinkAssumption DEF AuthorizationRow
    <3>4. consent[n] = "none" /\ authorization[n] = NoLink
      BY <3>1 DEF StartConsent, LinkInv, LinkTypes, ConsentFits
    <3>5. /\ authorization' = [authorization EXCEPT ![n] = [provider |-> p, consumed |-> FALSE]]
          /\ consent' = [consent EXCEPT ![n] = "asked"]
      BY <3>1 DEF StartConsent
    <3>6. LinkTypes'
      BY <1>1, <3>2, <3>5 DEF LinkInv, LinkTypes
    <3>7. ConsentFits'
      BY <1>1, <3>3, <3>5 DEF LinkInv, LinkTypes, ConsentFits
    <3>8. UnmarkedIsUnsent'
      BY <1>1, <3>4, <3>5 DEF LinkInv, LinkTypes, UnmarkedIsUnsent
    <3>9. GrantsGrow
      BY <1>1, <3>4, <3>5 DEF LinkInv, LinkTypes, GrantsGrow, HasCause
    <3> QED
      BY <3>6, <3>7, <3>8, <3>9
  <2>2. CASE AnswerConsent(n)
    <3>1. PICK answer \in {"approved", "declined"} : consent' = [consent EXCEPT ![n] = answer]
      BY <2>2 DEF AnswerConsent
    <3>2. authorization' = authorization /\ consent[n] = "asked"
      BY <2>2 DEF AnswerConsent, rowVars
    <3> QED
      BY <1>1, <3>1, <3>2 DEF LinkInv, LinkTypes, ConsentFits, UnmarkedIsUnsent, GrantsGrow,
         HasCause
  <2>3. CASE ExpireConsent(n)
    BY <1>1, <2>3 DEF ExpireConsent, rowVars, LinkInv, LinkTypes, ConsentFits, UnmarkedIsUnsent,
       GrantsGrow, HasCause
  <2> QED
    BY <2>1, <2>2, <2>3 DEF ConsentStep
<1>3. LinksFit'
  BY <1>1, <1>2, GrantStays DEF LinkInv, LinksFit
<1>4. HeldByOne'
  BY <1>1 DEF LinkInv, HeldByOne
<1>5. ConnectionsFit'
  BY <1>1, <1>2, ConnectionsStayFit DEF LinkInv
<1> QED
  BY <1>2, <1>3, <1>4, <1>5 DEF LinkInv

LEMMA FindKeepsInv ==
  ASSUME LinkInv, NEW h \in LinkHandler, NEW n \in Authorization, FindAuthorization(h, n)
  PROVE  LinkInv'
<1>0. PICK p : p = authorization[n].provider
  OBVIOUS
<1> DEFINE r == [pc |-> "consume", provider |-> p, of |-> n]
<1>1. LinkBecomes(h, r) /\ conn[h].pc = "idle"
  BY <1>0, LinkSteps DEF FindAuthorization, LinkInv, LinkAt
<1>2. UNCHANGED <<connection, authorization, consent, redeemed, exchanges, linkFaults>>
  BY DEF FindAuthorization, rowVars, providerVars, linkCounts
<1>3. /\ raced' \in {raced, raced \cup {n}}
      /\ \A g \in LinkHandler : conn[g].pc = "consume" /\ conn[g].of = n => n \in raced'
  BY DEF FindAuthorization, LinkAt
<1>4. consent[n] \in {"approved", "declined"} /\ authorization[n] # NoLink /\ ~ authorization[n].consumed
  BY DEF FindAuthorization, Usable, LinkInv, ConsentFits
<1>5. GrantsGrow
  BY <1>2, <1>3 DEF GrantsGrow, HasCause
<1>6. LinkFits(r)'
  BY <1>0, <1>2, <1>4 DEF LinkFits
<1>7. LinkTypes'
  <2>1. "consume" \in LinkPoints
    BY DEF LinkPoints
  <2> QED
    BY <1>1, <1>2, <1>3, <2>1, HandlersKeepType DEF LinkInv, LinkTypes
<1>8. ConsentFits' /\ UnmarkedIsUnsent'
  BY <1>2 DEF LinkInv, ConsentFits, UnmarkedIsUnsent
<1>9. HeldByOne'
  <2>1. ASSUME n \notin raced', NEW g \in LinkHandler PROVE ~ Holds(conn[g], n)
    BY <1>3, <1>4, <2>1 DEF Holds, LinkInv, LinksFit, LinkFits
  <2>2. exchanges[n] = 0
    BY <1>4 DEF LinkInv, UnmarkedIsUnsent
  <2>3. \A m \in Authorization, g \in LinkHandler : m # n /\ Holds(conn'[g], m) => Holds(conn[g], m)
    BY <1>1 DEF LinkBecomes, Holds
  <2>4. \A g \in LinkHandler : n \notin raced' /\ Holds(conn'[g], n) => g = h
    BY <1>1, <2>1 DEF LinkBecomes
  <2> QED
    BY <1>2, <1>3, <2>2, <2>3, <2>4 DEF LinkInv, HeldByOne
<1>10. ConnectionsFit'
  BY <1>2, <1>5, ConnectionsStayFit DEF LinkInv
<1>11. LinksFit'
  BY <1>1, <1>5, <1>6, LinksStayFit DEF LinkInv
<1> QED
  BY <1>7, <1>8, <1>9, <1>10, <1>11 DEF LinkInv

LEMMA ConsumeKeepsInv ==
  ASSUME LinkInv, NEW h \in LinkHandler, Consume(h)
  PROVE  LinkInv'
<1> DEFINE n == conn[h].of
<1>1. conn[h].pc = "consume" /\ n \in Authorization /\ authorization[n] # NoLink
      /\ conn[h].provider = authorization[n].provider
      /\ consent[n] \in {"approved", "declined"}
  BY DEF Consume, LinkAt, LinkInv, LinksFit, LinkFits
<1>2. UNCHANGED <<connection, consent, redeemed, exchanges, raced, linkFaults>>
  BY DEF Consume, providerVars, linkCounts
<1>3. authorization' = [authorization EXCEPT ![n].consumed = TRUE]
  BY DEF Consume
<1>4. authorization[n] \in AuthorizationRow
  BY <1>1 DEF LinkInv, LinkTypes
<1>5. authorization'[n] = [provider |-> authorization[n].provider, consumed |-> TRUE]
      /\ \A m \in Authorization \ {n} : authorization'[m] = authorization[m]
  BY <1>1, <1>3, <1>4 DEF LinkInv, LinkTypes, AuthorizationRow
<1>6. authorization'[n] \in AuthorizationRow /\ authorization'[n] # NoLink
  <2>1. authorization[n].provider \in OAuthProvider
    BY <1>4 DEF AuthorizationRow
  <2>2. [provider |-> authorization[n].provider, consumed |-> TRUE] \in AuthorizationRow
    BY <2>1 DEF AuthorizationRow
  <2> QED
    BY <1>5, <2>2, LinkAssumption, Zenon DEF AuthorizationRow
<1>7. GrantsGrow
  BY <1>2, <1>5, <1>6 DEF GrantsGrow, HasCause
<1>20. PICK point \in {"idle", "exchange"} : \E p, of :
          /\ LinkBecomes(h, [pc |-> point, provider |-> p, of |-> of])
          /\ point = "exchange" => consent[n] = "approved" /\ p = conn[h].provider /\ of = n
  <2>1. CASE consent[n] = "declined"
    BY <2>1, LinkSteps DEF Consume, LinkInv, IdleLink
  <2>2. CASE consent[n] = "approved"
    BY <2>2, LinkSteps DEF Consume, LinkInv
  <2> QED
    BY <1>1, <2>1, <2>2
<1>8. PICK p, of :
          /\ LinkBecomes(h, [pc |-> point, provider |-> p, of |-> of])
          /\ point = "exchange" => consent[n] = "approved" /\ p = conn[h].provider /\ of = n
  BY <1>20
<1> DEFINE r == [pc |-> point, provider |-> p, of |-> of]
<1>9. LinkFits(r)'
  BY <1>1, <1>2, <1>5, <1>6, <1>8 DEF LinkFits
<1>10. LinkTypes'
  <2>1. point \in LinkPoints
    BY DEF LinkPoints
  <2>2. authorization' \in [Authorization -> AuthorizationRow \cup {NoLink}]
    BY <1>3, <1>5, <1>6 DEF LinkInv, LinkTypes
  <2> QED
    BY <1>2, <1>8, <2>1, <2>2, HandlersKeepType DEF LinkInv, LinkTypes
<1>11. ConsentFits' /\ UnmarkedIsUnsent'
  BY <1>2, <1>5, <1>6 DEF LinkInv, ConsentFits, UnmarkedIsUnsent
<1>12. HeldByOne'
  <2>1. \A m \in Authorization, g \in LinkHandler : Holds(conn'[g], m) => Holds(conn[g], m)
    BY <1>1, <1>8 DEF LinkBecomes, Holds
  <2> QED
    BY <1>2, <2>1 DEF LinkInv, HeldByOne
<1>13. ConnectionsFit'
  BY <1>2, <1>7, ConnectionsStayFit DEF LinkInv
<1>14. LinksFit'
  BY <1>7, <1>8, <1>9, LinksStayFit DEF LinkInv
<1> QED
  BY <1>10, <1>11, <1>12, <1>13, <1>14 DEF LinkInv

\* The code is sent; a fault, or a request that had sent it before, makes it fail.
LEMMA ExchangeKeepsInv ==
  ASSUME LinkInv, NEW h \in LinkHandler, Exchange(h) \/ ExchangeFails(h)
  PROVE  LinkInv'
<1>0. PICK n, p : n = conn[h].of /\ p = conn[h].provider
  OBVIOUS
<1>1. /\ conn[h].pc = "exchange" /\ n \in Authorization /\ authorization[n] # NoLink
      /\ p = authorization[n].provider
      /\ consent[n] = "approved" /\ authorization[n].consumed
  BY <1>0 DEF Exchange, ExchangeFails, LinkAt, LinkInv, LinksFit, LinkFits
<1>2. UNCHANGED <<connection, authorization, consent, raced>>
  BY DEF Exchange, ExchangeFails, rowVars
<1>3. /\ exchanges' = [exchanges EXCEPT ![n] = @ + 1]
      /\ redeemed' \in {redeemed, redeemed \cup {n}}
  BY <1>0 DEF Exchange, ExchangeFails
<1>4. exchanges'[n] = exchanges[n] + 1 /\ \A m \in Authorization \ {n} : exchanges'[m] = exchanges[m]
  BY <1>1, <1>3 DEF LinkInv, LinkTypes
<1>5. linkFaults' \in Nat /\ linkFaults' >= linkFaults
  BY DEF Exchange, ExchangeFails, LinkFault, linkCounts, LinkInv, LinkTypes
<1>6. GrantsGrow
  BY <1>2, <1>3, <1>5 DEF GrantsGrow, HasCause, LinkInv, LinkTypes
<1>7. PICK point \in {"failed", "upsert"} :
          /\ LinkTo(h, point)
          /\ point = "failed" => linkFaults' > 0 \/ n \in redeemed
          /\ point = "upsert" => n \in redeemed'
  <2>1. CASE Exchange(h)
    BY <1>0, <2>1 DEF Exchange
  <2>2. CASE ExchangeFails(h)
    BY <1>0, <2>2 DEF ExchangeFails, LinkFault, LinkInv, LinkTypes
  <2> QED
    BY <2>1, <2>2
<1> DEFINE r == [pc |-> point, provider |-> p, of |-> n]
<1>8. LinkBecomes(h, r)
  BY <1>0, <1>7, LinkSteps DEF LinkInv
<1>9. n \in redeemed => n \in raced
  <2> SUFFICES ASSUME n \in redeemed, n \notin raced PROVE FALSE
    OBVIOUS
  <2>1. exchanges[n] > 0
    BY DEF LinkInv, ConsentFits
  <2>2. exchanges[n] = 0
    BY <1>0, <1>1 DEF LinkInv, HeldByOne, Holds
  <2> QED
    BY <2>1, <2>2
<1>10. LinkFits(r)'
  <2>1. CASE point = "failed"
    BY <1>2, <1>7, <1>9, <2>1 DEF LinkFits, HasCause
  <2>2. CASE point = "upsert"
    <3>1. p \in OAuthProvider
      BY <1>1 DEF LinkInv, LinkTypes, AuthorizationRow
    <3> QED
      BY <1>1, <1>2, <1>7, <2>2, <3>1 DEF LinkFits, Granted, Provider
  <2> QED
    BY <2>1, <2>2
<1>11. LinkTypes'
  <2>1. point \in LinkPoints
    BY DEF LinkPoints
  <2>2. exchanges' \in [Authorization -> Nat] /\ redeemed' \subseteq Authorization
    BY <1>1, <1>3 DEF LinkInv, LinkTypes
  <2> QED
    BY <1>2, <1>5, <1>8, <2>1, <2>2, HandlersKeepType DEF LinkInv, LinkTypes
<1>12. ConsentFits' /\ UnmarkedIsUnsent'
  BY <1>1, <1>2, <1>3, <1>4 DEF LinkInv, LinkTypes, ConsentFits, UnmarkedIsUnsent
<1>13. HeldByOne'
  <2>1. \A m \in Authorization, g \in LinkHandler : Holds(conn'[g], m) => Holds(conn[g], m) /\ g # h
    BY <1>8 DEF LinkBecomes, Holds
  <2>2. n \notin raced => exchanges[n] = 0 /\ \A g \in LinkHandler : Holds(conn[g], n) => g = h
    BY <1>0, <1>1 DEF LinkInv, HeldByOne, Holds
  <2> QED
    BY <1>2, <1>4, <2>1, <2>2 DEF LinkInv, HeldByOne
<1>14. ConnectionsFit'
  BY <1>2, <1>6, ConnectionsStayFit DEF LinkInv
<1>15. LinksFit'
  BY <1>6, <1>8, <1>10, LinksStayFit DEF LinkInv
<1> QED
  BY <1>11, <1>12, <1>13, <1>14, <1>15 DEF LinkInv

\* The last statement of a request, a key that was checked, and a crash: nothing is granted.
LEMMA RestKeepsInv ==
  ASSUME LinkInv, NEW h \in LinkHandler,
         \/ MarkFailed(h) \/ StoreCredential(h) \/ LinkCrash(h)
         \/ \E p \in KeyProvider, k \in Key : VerifyKey(h, p, k)
  PROVE  LinkInv'
<1>1. UNCHANGED <<authorization, consent, redeemed, exchanges, raced>>
  BY DEF MarkFailed, StoreCredential, LinkCrash, VerifyKey, rowVars, providerVars
<1>2. linkFaults' \in Nat /\ linkFaults' >= linkFaults
  BY DEF MarkFailed, StoreCredential, LinkCrash, VerifyKey, LinkFault, LinkAct, linkCounts,
     LinkInv, LinkTypes
<1>3. GrantsGrow
  BY <1>1, <1>2 DEF GrantsGrow, HasCause, LinkInv, LinkTypes
<1>12. PICK point \in {"idle", "upsert"} : \E p, of :
          /\ conn' = conn \/ LinkBecomes(h, [pc |-> point, provider |-> p, of |-> of])
          /\ point = "upsert" => p \in KeyProvider
  <2>1. CASE MarkFailed(h) \/ StoreCredential(h) \/ LinkCrash(h)
    BY <2>1, LinkSteps DEF MarkFailed, StoreCredential, LinkCrash, LinkInv, IdleLink
  <2>2. CASE \E p \in KeyProvider, k \in Key : VerifyKey(h, p, k)
    BY <2>2, LinkSteps DEF VerifyKey, LinkInv
  <2> QED
    BY <2>1, <2>2
<1>4. PICK p, of :
          /\ conn' = conn \/ LinkBecomes(h, [pc |-> point, provider |-> p, of |-> of])
          /\ point = "upsert" => p \in KeyProvider
  BY <1>12
<1>5. LinkFits([pc |-> point, provider |-> p, of |-> of])'
  BY <1>4, LinkAssumption DEF LinkFits, Provider
<1>6. DOMAIN connection' = Provider
  BY DEF MarkFailed, StoreCredential, LinkCrash, VerifyKey, rowVars, LinkInv, LinkTypes
<1>7. LinkTypes'
  <2>1. point \in LinkPoints
    BY DEF LinkPoints
  <2>2. CASE conn' = conn
    BY <1>1, <1>2, <1>6, <2>2 DEF LinkInv, LinkTypes
  <2>3. CASE LinkBecomes(h, [pc |-> point, provider |-> p, of |-> of])
    BY <1>1, <1>2, <1>6, <2>1, <2>3, HandlersKeepType DEF LinkInv, LinkTypes
  <2> QED
    BY <1>4, <2>2, <2>3
<1>8. ConsentFits' /\ UnmarkedIsUnsent'
  BY <1>1 DEF LinkInv, ConsentFits, UnmarkedIsUnsent
<1>9. HeldByOne'
  <2>1. \A m \in Authorization, g \in LinkHandler : Holds(conn'[g], m) => Holds(conn[g], m)
    BY <1>4 DEF LinkBecomes, Holds
  <2> QED
    BY <1>1, <2>1 DEF LinkInv, HeldByOne
<1>10. LinksFit'
  <2>1. CASE conn' = conn
    BY <1>3, <2>1, GrantStays DEF LinkInv, LinksFit
  <2>2. CASE LinkBecomes(h, [pc |-> point, provider |-> p, of |-> of])
    BY <1>3, <1>5, <2>2, LinksStayFit DEF LinkInv
  <2> QED
    BY <1>4, <2>1, <2>2
<1>11. ConnectionsFit'
  <2>1. CASE LinkCrash(h) \/ \E q \in KeyProvider, k \in Key : VerifyKey(h, q, k)
    <3>1. connection' = connection
      BY <2>1 DEF LinkCrash, VerifyKey, rowVars
    <3> QED
      BY <1>3, <3>1, ConnectionsStayFit DEF LinkInv
  <2>2. CASE MarkFailed(h)
    <3>1. HasCause
      BY <2>2 DEF MarkFailed, LinkAt, LinkInv, LinksFit, LinkFits
    <3>2. ASSUME NEW q \in OAuthProvider, connection'[q] # NoLink
          PROVE  connection[q] # NoLink /\ connection'[q].credential = connection[q].credential
      BY <2>2, <3>2 DEF MarkFailed, NeedsAttention, LinkInv, LinkTypes, Provider
    <3> QED
      BY <1>3, <3>1, <3>2, GrantStays DEF LinkInv, ConnectionsFit, GrantsGrow
  <2>3. CASE StoreCredential(h)
    <3> DEFINE q == conn[h].provider
    <3>1. q \in Provider /\ (q \in OAuthProvider => Granted(q, conn[h].of))
      BY <2>3 DEF StoreCredential, LinkAt, LinkInv, LinksFit, LinkFits
    <3>2. connection' = [connection EXCEPT ![q] = Connected(conn[h].of)]
      BY <2>3 DEF StoreCredential
    <3>3. connection'[q].credential = conn[h].of /\ connection'[q].status = "connected"
          /\ \A o \in Provider \ {q} : connection'[o] = connection[o]
      BY <3>1, <3>2 DEF Connected, LinkInv, LinkTypes
    <3> QED
      BY <1>3, <3>1, <3>3, GrantStays DEF LinkInv, ConnectionsFit, GrantsGrow, Provider
  <2> QED
    BY <2>1, <2>2, <2>3
<1> QED
  BY <1>7, <1>8, <1>9, <1>10, <1>11 DEF LinkInv

LEMMA LinkStepKeepsInv == LinkInv /\ [LinkNext]_linkVars => LinkInv'
<1> SUFFICES ASSUME LinkInv, [LinkNext]_linkVars PROVE LinkInv'
  OBVIOUS
<1>1. CASE \E n \in Authorization : ConsentStep(n)
  BY <1>1, ConsentKeepsInv
<1>2. CASE \E h \in LinkHandler : RequestStep(h)
  BY <1>2, FindKeepsInv, ConsumeKeepsInv, ExchangeKeepsInv, RestKeepsInv DEF RequestStep
<1>3. CASE \/ \E p \in Provider : DisconnectProvider(p) \/ RegisterInterest(p)
           \/ \E k \in Key : WithdrawKey(k)
           \/ UNCHANGED linkVars
  <2>1. UNCHANGED <<authorization, consent, redeemed, exchanges, raced, conn>>
    BY <1>3 DEF DisconnectProvider, RegisterInterest, WithdrawKey, linkVars, rowVars, providerVars
  <2>2. linkFaults' \in Nat /\ linkFaults' >= linkFaults
    BY <1>3 DEF DisconnectProvider, RegisterInterest, WithdrawKey, linkVars, LinkFault, LinkAct,
       linkCounts,
       LinkInv, LinkTypes
  <2>3. connection' = connection \/ \E p \in Provider : connection' = [connection EXCEPT ![p] = NoLink]
    BY <1>3 DEF DisconnectProvider, RegisterInterest, WithdrawKey, linkVars, rowVars
  <2>4. GrantsGrow
    BY <2>1, <2>2 DEF GrantsGrow, HasCause, LinkInv, LinkTypes
  <2>5. LinkTypes' /\ ConsentFits' /\ UnmarkedIsUnsent' /\ HeldByOne'
    BY <2>1, <2>2, <2>3 DEF LinkInv, LinkTypes, ConsentFits, UnmarkedIsUnsent, HeldByOne
  <2>6. LinksFit'
    BY <2>1, <2>4, GrantStays DEF LinkInv, LinksFit
  <2>7. ConnectionsFit'
    <3>1. \A p \in OAuthProvider : connection'[p] # NoLink => connection'[p] = connection[p]
      BY <2>3 DEF LinkInv, LinkTypes, Provider
    <3> QED
      BY <2>4, <3>1, GrantStays DEF LinkInv, ConnectionsFit, GrantsGrow
  <2> QED
    BY <2>5, <2>6, <2>7 DEF LinkInv
<1> QED
  BY <1>1, <1>2, <1>3 DEF LinkNext

\* The inductive invariant holds in every state of the connections.
THEOREM LinkInvariant == LinkSpec => []LinkInv
<1> QED
  BY LinkStarts, LinkStepKeepsInv, PTL DEF LinkSpec

\* For any number of providers, keys, round trips and requests at once: a stored credential
\* was granted, a connection asks for attention only with a cause, and a code is sent twice
\* only when two callbacks raced (GET /oauth/callback/:provider).
THEOREM ConnectionsStayHonest == LinkSpec => []ConnectionIsHonest
<1>1. LinkInv => SentOnceUnlessRaced
  BY DEF LinkInv, LinkTypes, HeldByOne, SentOnceUnlessRaced
<1>2. LinkInv => AttentionHasCause /\ CredentialWasGranted
  BY DEF LinkInv, LinkTypes, ConnectionsFit, Granted, HasCause, AttentionHasCause,
     CredentialWasGranted
<1>3. LinkInv => ConnectionIsHonest
  BY <1>1, <1>2 DEF ConnectionIsHonest
<1> QED
  BY LinkInvariant, <1>3, PTL

-----------------------------------------------------------------------------
(* Captures: the inductive invariant *)

CapturePoints ==
    {"idle", "intent", "photo", "document", "record", "replay", "send", "note"}
CaptureTypes ==
    /\ asset \in {NoRow, "pending", "uploaded"} /\ sms \in {NoRow, "sent", "provider_unconfigured"}
    /\ photosMade \in {0, 1} /\ photo \in {NoRow, 1} /\ named \subseteq {NoRow, 1}
    /\ texts \in Nat /\ captureFaults \in Nat
    /\ req \in [Request -> CapturePoints]

\* A completion is under way only for a stored file, and a photo is recorded for an asset
\* that was marked.
FileComesFirst ==
    /\ \A r \in Request : req[r] \in {"photo", "document", "record"} => object
    /\ \A r \in Request : req[r] \in {"record", "replay"} => asset = "uploaded"
    /\ photosMade = 1 => asset = "uploaded" /\ object
    /\ photo # NoRow => photosMade = 1

\* The request that marked the asset is alone in recording its photo.
RecordedByOne ==
    \A r \in Request : req[r] = "record" =>
        photosMade = 0 /\ \A q \in Request : req[q] = "record" => q = r

\* What is recorded, or about to be, as sent was sent.
SentComesFirst ==
    /\ \A r \in Request : req[r] = "note" /\ Configured => texts > 0
    /\ sms = "sent" => texts > 0

\* Without a race or a fault one request sends, and none after it.
SentByOne ==
    ~ smsRaced /\ captureFaults = 0 =>
        /\ \A q, r \in Request : req[q] \in {"send", "note"} /\ req[r] \in {"send", "note"} => q = r
        /\ \A r \in Request : req[r] = "send" => texts = 0
        /\ texts = 0 \/ (texts = 1 /\ (sms # NoRow \/ \E r \in Request : req[r] = "note"))

CaptureInv == CaptureTypes /\ FileComesFirst /\ RecordedByOne /\ SentComesFirst /\ SentByOne

LEMMA CaptureStarts == CaptureInit => CaptureInv
<1> SUFFICES ASSUME CaptureInit PROVE CaptureInv
  OBVIOUS
<1>1. CaptureTypes
  BY DEF CaptureInit, CaptureTypes, CapturePoints
<1>2. FileComesFirst /\ RecordedByOne
  BY DEF CaptureInit, FileComesFirst, RecordedByOne
<1>3. SentComesFirst
  BY NoRowAssumption DEF CaptureInit, SentComesFirst
<1>4. texts = 0 /\ \A r \in Request : req[r] = "idle"
  BY DEF CaptureInit
<1>5. SentByOne
  BY <1>4 DEF SentByOne
<1> QED
  BY <1>1, <1>2, <1>3, <1>5 DEF CaptureInv

\* The handlers of the photo leave the text alone.
LEMMA MediaKeepsText ==
  ASSUME CaptureInv, NEW r \in Request, NEW point \in CapturePoints \ {"send", "note"},
         req' = req \/ (req' = [req EXCEPT ![r] = point] /\ req[r] \notin {"send", "note"}),
         UNCHANGED smsVars, UNCHANGED captureFaults
  PROVE  SentComesFirst' /\ SentByOne'
<1> USE DEF CaptureInv, CaptureTypes, smsVars
<1>1. \A q \in Request : req'[q] \in {"send", "note"} \/ req[q] \in {"send", "note"} => req'[q] = req[q]
  OBVIOUS
<1>2. SentComesFirst'
  BY <1>1 DEF SentComesFirst
<1>3. SentByOne'
  BY <1>1 DEF SentByOne
<1> QED
  BY <1>2, <1>3

\* The handlers of the text leave the photo alone.
LEMMA TextKeepsMedia ==
  ASSUME CaptureInv, NEW r \in Request, NEW point \in {"idle", "send", "note"},
         req' = [req EXCEPT ![r] = point], UNCHANGED mediaVars
  PROVE  FileComesFirst' /\ RecordedByOne'
<1> USE DEF CaptureInv, CaptureTypes, mediaVars
<1>1. \A q \in Request :
        req'[q] \in {"photo", "document", "record", "replay"} => req'[q] = req[q]
  OBVIOUS
<1>2. FileComesFirst'
  BY <1>1 DEF FileComesFirst
<1>3. RecordedByOne'
  BY <1>1 DEF RecordedByOne
<1> QED
  BY <1>2, <1>3

LEMMA MediaKeepsInv ==
  ASSUME CaptureInv, NEW r \in Request, MediaStep(r)
  PROVE  CaptureInv'
<1> USE DEF CaptureTo, CaptureAt, Respond, ReceiveCapture
<1>1. CASE FindIntent(r)
  <2>1. CaptureTypes' /\ FileComesFirst' /\ RecordedByOne'
    BY <1>1 DEF FindIntent, CaptureInv, CaptureTypes, CapturePoints, FileComesFirst,
       RecordedByOne, smsVars
  <2>2. SentComesFirst' /\ SentByOne'
    BY <1>1, MediaKeepsText DEF FindIntent, CapturePoints
  <2> QED
    BY <2>1, <2>2 DEF CaptureInv
<1>2. CASE CreateIntent(r)
  <2>1. CaptureTypes' /\ FileComesFirst' /\ RecordedByOne'
    BY <1>2, NoRowAssumption DEF CreateIntent, CaptureInv, CaptureTypes, CapturePoints,
       FileComesFirst, RecordedByOne, smsVars, captureCounts
  <2>2. SentComesFirst' /\ SentByOne'
    BY <1>2, MediaKeepsText DEF CreateIntent, CapturePoints, captureCounts
  <2> QED
    BY <2>1, <2>2 DEF CaptureInv
<1>3. CASE FindAsset(r)
  <2>0. PICK point \in {"replay", "photo", "document", "idle"} :
            /\ req' = [req EXCEPT ![r] = point] /\ req[r] = "idle"
            /\ point = "replay" => asset = "uploaded"
    BY <1>3 DEF FindAsset
  <2>1. CaptureTypes' /\ FileComesFirst' /\ RecordedByOne'
    BY <1>3, <2>0 DEF FindAsset, CaptureInv, CaptureTypes, CapturePoints, FileComesFirst,
       RecordedByOne, smsVars, mediaVars
  <2>2. SentComesFirst' /\ SentByOne'
    BY <1>3, <2>0, MediaKeepsText DEF FindAsset, CapturePoints
  <2> QED
    BY <2>1, <2>2 DEF CaptureInv
<1>4. CASE MarkUploaded(r)
  <2>1. CaptureTypes' /\ FileComesFirst' /\ RecordedByOne'
    BY <1>4, NoRowAssumption DEF MarkUploaded, CaptureInv, CaptureTypes, CapturePoints,
       FileComesFirst, RecordedByOne, smsVars, captureCounts
  <2>2. SentComesFirst' /\ SentByOne'
    BY <1>4, MediaKeepsText DEF MarkUploaded, CapturePoints, captureCounts
  <2> QED
    BY <2>1, <2>2 DEF CaptureInv
<1>5. CASE RecordPhoto(r)
  <2>1. CaptureTypes' /\ FileComesFirst' /\ RecordedByOne'
    BY <1>5, NoRowAssumption DEF RecordPhoto, CaptureInv, CaptureTypes, CapturePoints,
       FileComesFirst, RecordedByOne, smsVars, captureCounts
  <2>2. SentComesFirst' /\ SentByOne'
    BY <1>5, MediaKeepsText DEF RecordPhoto, CapturePoints, captureCounts
  <2> QED
    BY <2>1, <2>2 DEF CaptureInv
<1>6. CASE AnswerReplay(r)
  <2>1. CaptureTypes' /\ FileComesFirst' /\ RecordedByOne'
    BY <1>6 DEF AnswerReplay, CaptureInv, CaptureTypes, CapturePoints, FileComesFirst,
       RecordedByOne, smsVars, captureCounts
  <2>2. SentComesFirst' /\ SentByOne'
    BY <1>6, MediaKeepsText DEF AnswerReplay, CapturePoints, captureCounts
  <2> QED
    BY <2>1, <2>2 DEF CaptureInv
<1>7. CASE DeletePhoto(r)
  <2>1. CaptureTypes' /\ FileComesFirst' /\ RecordedByOne'
    BY <1>7 DEF DeletePhoto, CaptureInv, CaptureTypes, CapturePoints, FileComesFirst,
       RecordedByOne, smsVars
  <2>2. SentComesFirst' /\ SentByOne'
    BY <1>7, MediaKeepsText DEF DeletePhoto, CapturePoints
  <2> QED
    BY <2>1, <2>2 DEF CaptureInv
<1> QED
  BY <1>1, <1>2, <1>3, <1>4, <1>5, <1>6, <1>7 DEF MediaStep

LEMMA TextKeepsInv ==
  ASSUME CaptureInv, NEW r \in Request, SmsStep(r) \/ CaptureCrash(r)
  PROVE  CaptureInv'
<1> USE DEF CaptureTo, CaptureAt, Respond, ReceiveCapture, CaptureFault
<1>1. CASE FindPrior(r)
  <2>1. CaptureTypes'
    BY <1>1 DEF FindPrior, CaptureInv, CaptureTypes, CapturePoints, mediaVars
  <2>2. SentComesFirst'
    BY <1>1 DEF FindPrior, CaptureInv, CaptureTypes, SentComesFirst
  <2>3. SentByOne'
    BY <1>1 DEF FindPrior, CaptureInv, CaptureTypes, SentByOne
  <2>4. FileComesFirst' /\ RecordedByOne'
    BY <1>1, TextKeepsMedia DEF FindPrior
  <2> QED
    BY <2>1, <2>2, <2>3, <2>4 DEF CaptureInv
<1>2. CASE SendSms(r)
  <2>1. CaptureTypes'
    BY <1>2 DEF SendSms, CaptureInv, CaptureTypes, CapturePoints, mediaVars, captureCounts
  <2>2. SentComesFirst'
    BY <1>2 DEF SendSms, CaptureInv, CaptureTypes, SentComesFirst
  <2>3. SentByOne'
    BY <1>2 DEF SendSms, CaptureInv, CaptureTypes, SentByOne, captureCounts
  <2>4. FileComesFirst' /\ RecordedByOne'
    BY <1>2, TextKeepsMedia DEF SendSms
  <2> QED
    BY <2>1, <2>2, <2>3, <2>4 DEF CaptureInv
<1>3. CASE SendFails(r)
  <2>1. CaptureTypes'
    BY <1>3 DEF SendFails, CaptureInv, CaptureTypes, CapturePoints, mediaVars
  <2>2. SentComesFirst'
    BY <1>3 DEF SendFails, CaptureInv, CaptureTypes, SentComesFirst
  <2>3. SentByOne'
    BY <1>3 DEF SendFails, CaptureInv, CaptureTypes, SentByOne
  <2>4. FileComesFirst' /\ RecordedByOne'
    BY <1>3, TextKeepsMedia DEF SendFails
  <2> QED
    BY <2>1, <2>2, <2>3, <2>4 DEF CaptureInv
<1>4. CASE RecordSms(r)
  <2>1. CaptureTypes'
    BY <1>4 DEF RecordSms, CaptureInv, CaptureTypes, CapturePoints, mediaVars, captureCounts
  <2>2. SentComesFirst'
    BY <1>4 DEF RecordSms, CaptureInv, CaptureTypes, SentComesFirst
  <2>3. SentByOne'
    BY <1>4, NoRowAssumption DEF RecordSms, CaptureInv, CaptureTypes, SentByOne, captureCounts
  <2>4. FileComesFirst' /\ RecordedByOne'
    BY <1>4, TextKeepsMedia DEF RecordSms
  <2> QED
    BY <2>1, <2>2, <2>3, <2>4 DEF CaptureInv
<1>5. CASE CaptureCrash(r)
  <2>1. CaptureTypes'
    BY <1>5 DEF CaptureCrash, CaptureInv, CaptureTypes, CapturePoints, mediaVars, smsVars
  <2>2. SentComesFirst'
    BY <1>5 DEF CaptureCrash, CaptureInv, CaptureTypes, SentComesFirst, smsVars
  <2>3. SentByOne'
    BY <1>5 DEF CaptureCrash, CaptureInv, CaptureTypes, SentByOne
  <2>4. FileComesFirst' /\ RecordedByOne'
    BY <1>5, TextKeepsMedia DEF CaptureCrash
  <2> QED
    BY <2>1, <2>2, <2>3, <2>4 DEF CaptureInv
<1> QED
  BY <1>1, <1>2, <1>3, <1>4, <1>5 DEF SmsStep

LEMMA CaptureStepKeepsInv == CaptureInv /\ [CaptureNext]_captureVars => CaptureInv'
<1> SUFFICES ASSUME CaptureInv, [CaptureNext]_captureVars PROVE CaptureInv'
  OBVIOUS
<1>1. CASE \E r \in Request : MediaStep(r) \/ SmsStep(r) \/ CaptureCrash(r)
  BY <1>1, MediaKeepsInv, TextKeepsInv
<1>2. CASE PutFile
  BY <1>2 DEF PutFile, CaptureInv, CaptureTypes, FileComesFirst, RecordedByOne, SentComesFirst,
     SentByOne, smsVars, captureCounts
<1>3. CASE ExpireIntent
  BY <1>3 DEF ExpireIntent, CaptureInv, CaptureTypes, FileComesFirst, RecordedByOne,
     SentComesFirst,
     SentByOne, smsVars, captureCounts
<1>4. CASE UNCHANGED captureVars
  BY <1>4 DEF captureVars, mediaVars, smsVars, captureCounts, CaptureInv, CaptureTypes,
     FileComesFirst,
     RecordedByOne, SentComesFirst, SentByOne
<1> QED
  BY <1>1, <1>2, <1>3, <1>4 DEF CaptureNext

\* The inductive invariant holds in every state of the two operations.
THEOREM CaptureInvariant == CaptureSpec => []CaptureInv
<1> QED
  BY CaptureStarts, CaptureStepKeepsInv, PTL DEF CaptureSpec

\* For any number of requests, however they are repeated and interleaved: an upload has one
\* photo row at most, with one id, and a customer is texted again only after a race or a
\* fault (routes/media.ts, routes/sms.ts).
THEOREM CapturesStayHarmless == CaptureSpec => []RetriesAreHarmless
<1>1. CaptureInv => RetriesAreHarmless
  BY DEF CaptureInv, CaptureTypes, FileComesFirst, SentComesFirst, SentByOne, RetriesAreHarmless,
     PhotoIsUnique, TextedOnceUnlessRacedOrFailed
<1> QED
  BY CaptureInvariant, <1>1, PTL
=============================================================================
