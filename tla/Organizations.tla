----------------------------- MODULE Organizations -----------------------------
(***************************************************************************)
(* Organizations, memberships, roles and invitations (app/auth).           *)
(*                                                                         *)
(* A request about a member reads the role of its caller, then the role of *)
(* the member, each in a connection of its own; then one transaction locks *)
(* the member's row, counts owners without a lock, and writes.  What it    *)
(* read may be out of date whenever it is used.  Any request may be lost.  *)
(*                                                                         *)
(* Users stand for their addresses.  An invitation is one row per          *)
(* organization and address, and holds the one token that is of use: those *)
(* of the rows it replaced match nothing.                                  *)
(***************************************************************************)
EXTENDS Naturals, FiniteSets

CONSTANTS
  Orgs,
  Users,
  OrgCalls,     \* slots of requests in progress (bound)
  Clearances,   \* levels of clearance
  Default,      \* the one a new member has
  Invited,      \* the roles users are invited with
  Changes,      \* what requests about a member ask for
  Nobody

ASSUME OrgAssumption ==
  /\ Orgs # {}
  /\ Default \in Clearances
  /\ Invited \subseteq {"viewer", "member", "admin", "owner"}
  /\ Changes \subseteq
       [remove : BOOLEAN, role : {"viewer", "member", "admin", "owner", "none"},
        level : Clearances \cup {"none"}]
  /\ \A b \in Changes : b.remove = (b.role = "none" /\ b.level = "none")
  /\ Nobody \notin Users

VARIABLES
  member,      \* rag_memberships: the role of a user in an organization, or "none"
  clearance,   \* and the clearance
  founded,     \* rag_organizations
  invitation,  \* rag_invitations
  ocall,       \* requests in progress
  owned,       \* <<o, u>> such that u was an owner of o at some time
  usurped,     \* memberships given a privileged role by somebody who never was an owner
  expelled,    \* memberships that came from an invitation and were removed
  raced        \* organizations where two changes of owners overlapped

orgVars == <<member, clearance, founded, invitation, ocall, owned, usurped, expelled, raced>>
-----------------------------------------------------------------------------
Roles == {"viewer", "member", "admin", "owner"}
Rank(r) == CASE r = "viewer" -> 0 [] r = "member" -> 1 [] r = "admin" -> 2 [] r = "owner" -> 3
                [] OTHER -> 0
Privileged == {"admin", "owner"}

\* Somebody with role r may do what asks for role required ("none": not a member).
RoleAllows(r, required) == r # "none" /\ Rank(r) >= Rank(required)

InvitationType ==
  [state : {"none", "pending", "accepted"}, role : Roles, by : Users \cup {Nobody}]
CallKinds == {"none", "invite", "look", "change", "locked", "clear"}
\* actorRole is of use until the member's role was read.  remove: DELETE; else role is the new one, "none" if the request changes the clearance only.
OrgCallType ==
  [kind : CallKinds, org : Orgs, actor : Users \cup {Nobody}, actorRole : Roles,
   target : Users \cup {Nobody}, remove : BOOLEAN, role : Roles \cup {"none"},
   level : Clearances \cup {"none"}]

\* Types of the rows and the calls.
OrgTypeOK ==
  /\ member \in [Orgs \X Users -> Roles \cup {"none"}]
  /\ clearance \in [Orgs \X Users -> Clearances]
  /\ founded \subseteq Orgs
  /\ invitation \in [Orgs \X Users -> InvitationType]
  /\ ocall \in [OrgCalls -> OrgCallType]
  /\ usurped \subseteq Orgs \X Users
  /\ expelled \subseteq Orgs \X Users
  /\ owned \subseteq Orgs \X Users
  /\ raced \subseteq Orgs

AnOrg == CHOOSE o \in Orgs : TRUE
NoOrgCall ==
  [kind |-> "none", org |-> AnOrg, actor |-> Nobody, actorRole |-> "viewer", target |-> Nobody,
   remove |-> FALSE, role |-> "none", level |-> "none"]

NoInvitation == [state |-> "none", role |-> "viewer", by |-> Nobody]

OrgInit ==
  /\ member = [m \in Orgs \X Users |-> "none"]
  /\ clearance = [m \in Orgs \X Users |-> Default]
  /\ founded = {}
  /\ invitation = [m \in Orgs \X Users |->
       NoInvitation]
  /\ ocall = [c \in OrgCalls |-> NoOrgCall]
  /\ usurped = {}
  /\ expelled = {}
  /\ owned = {}
  /\ raced = {}

Owners(o) == {u \in Users : member[<<o, u>>] = "owner"}

Done(c) == ocall' = [ocall EXCEPT ![c] = NoOrgCall]
-----------------------------------------------------------------------------
(* POST /orgs, and the personal organization of a new account *)
CreateOrganization(o, u) ==
  /\ o \notin founded
  /\ founded' = founded \cup {o}
  /\ member' = [member EXCEPT ![<<o, u>>] = "owner"]
  /\ owned' = owned \cup {<<o, u>>}
  /\ UNCHANGED <<clearance, invitation, ocall, usurped, expelled, raced>>

(* POST /orgs/{org_id}/invitations *)

\* Mutant: an administrator may grant any role.
AdminMayGrant(role, actorRole) == RoleAllows(actorRole, "admin")

MayGrant(role, actorRole) ==
  /\ RoleAllows(actorRole, "admin")
  /\ role \in Privileged => RoleAllows(actorRole, "owner")

AskInvite(c, o, u, t, r) ==
  /\ ocall[c].kind = "none"
  /\ MayGrant(r, member[<<o, u>>])
  /\ ocall' = [ocall EXCEPT ![c] =
       [NoOrgCall EXCEPT !.kind = "invite", !.org = o, !.actor = u, !.target = t, !.role = r]]
  /\ UNCHANGED <<member, clearance, founded, invitation, owned, usurped, expelled, raced>>

\* Mutant: an accepted row makes way as well.
ReplacesAny(m) == TRUE

\* Rows that were not accepted are deleted; one that was refuses the new one (409).
Replaceable(m) == invitation[m].state # "accepted"

Invite(c) ==
  LET q == ocall[c] m == <<q.org, q.target>> IN
  /\ q.kind = "invite"
  /\ IF Replaceable(m)
     THEN invitation' = [invitation EXCEPT ![m] =
            [state |-> "pending", role |-> q.role, by |-> q.actor]]
     ELSE UNCHANGED invitation
  /\ Done(c)
  /\ UNCHANGED <<member, clearance, founded, owned, usurped, expelled, raced>>

(* POST /orgs/invitations/accept *)

\* History: who was an owner, and whose role came from somebody who never was.
Given(m, role, by) ==
  /\ owned' = IF role = "owner" THEN owned \cup {m} ELSE owned
  /\ usurped' = IF role \in Privileged /\ <<m[1], by>> \notin owned THEN usurped \cup {m} ELSE usurped

Acceptable(m) == invitation[m].state = "pending"

\* By the user with the address it was sent to; who belongs already is answered 409, and the
\* invitation stays.
Accept(m) ==
  /\ Acceptable(m)
  /\ member[m] = "none"
  /\ member' = [member EXCEPT ![m] = invitation[m].role]
  /\ clearance' = [clearance EXCEPT ![m] = Default]
  /\ invitation' = [invitation EXCEPT ![m].state = "accepted"]
  /\ Given(m, invitation[m].role, invitation[m].by)
  /\ UNCHANGED <<founded, ocall, expelled, raced>>

\* Three days pass: the row stays, and is of no use until it is replaced.
InvitationLapses(m) ==
  /\ invitation[m].state = "pending"
  /\ invitation' = [invitation EXCEPT ![m] = NoInvitation]
  /\ UNCHANGED <<member, clearance, founded, ocall, owned, usurped, expelled, raced>>
-----------------------------------------------------------------------------
(* PATCH and DELETE /orgs/{org_id}/members/{user_id} *)

\* The caller's role is read (require_org_role) ...
Ask(c, o, u, t, body) ==
  /\ ocall[c].kind = "none"
  /\ RoleAllows(member[<<o, u>>], "admin")
  /\ ocall' = [ocall EXCEPT ![c] =
       [kind |-> "look", org |-> o, actor |-> u, actorRole |-> member[<<o, u>>], target |-> t,
        remove |-> body.remove, role |-> body.role, level |-> body.level]]
  /\ UNCHANGED <<member, clearance, founded, invitation, owned, usurped, expelled, raced>>

\* Only an owner may grant or take the roles of administrators and owners; an administrator may
\* leave.
MayChange(q, current) ==
  \/ RoleAllows(q.actorRole, "owner")
  \/ IF q.remove THEN current \notin Privileged \/ q.target = q.actor
     ELSE q.role = "none" \/ {q.role, current} \cap Privileged = {}

\* ... then the member's role, on which the answer is refused or not.
Look(c) ==
  LET q == ocall[c] current == member[<<q.org, q.target>>] IN
  /\ q.kind = "look"
  /\ IF current # "none" /\ MayChange(q, current)
     THEN ocall' = [ocall EXCEPT
            ![c].kind = IF q.remove \/ q.role # "none" THEN "change" ELSE "clear",
            ![c].actorRole = "viewer"]
     ELSE Done(c)
  /\ UNCHANGED <<member, clearance, founded, invitation, owned, usurped, expelled, raced>>

RowLocked(m) == \E c \in OrgCalls : ocall[c].kind = "locked" /\ <<ocall[c].org, ocall[c].target>> = m

\* The request takes an owner away.
TakesOwner(q) == member[<<q.org, q.target>>] = "owner" /\ (q.remove \/ q.role # "owner")

\* Mutant: nobody counts the owners.
EnoughOwners(o) == FALSE

LastOwner(o) == Cardinality(Owners(o)) <= 1

\* A change of the owners that has counted them and not written yet.
ChangesOwners(c, o) == ocall[c].kind = "locked" /\ ocall[c].org = o /\ TakesOwner(ocall[c])

\* The row is locked and the owners are counted: 404, LastOwnerError, or on to the write.
LockAndCount(c) ==
  LET q == ocall[c] m == <<q.org, q.target>> IN
  /\ q.kind = "change"
  /\ ~RowLocked(m)
  /\ IF member[m] = "none" \/ (TakesOwner(q) /\ LastOwner(q.org))
     THEN Done(c) /\ UNCHANGED raced
     ELSE /\ ocall' = [ocall EXCEPT ![c].kind = "locked"]
          /\ raced' = IF TakesOwner(q) /\ \E d \in OrgCalls : ChangesOwners(d, q.org)
                      THEN raced \cup {q.org} ELSE raced
  /\ UNCHANGED <<member, clearance, founded, invitation, owned, usurped, expelled>>

\* set_role or remove_member commits; a change of clearance follows in a transaction of its own.
Commit(c) ==
  LET q == ocall[c] m == <<q.org, q.target>> IN
  /\ q.kind = "locked"
  /\ member' = [member EXCEPT ![m] = q.role]
  /\ Given(m, q.role, q.actor)
  /\ expelled' = IF q.remove /\ invitation[m].state = "accepted" THEN expelled \cup {m} ELSE expelled
  /\ IF q.level = "none" THEN Done(c) ELSE ocall' = [ocall EXCEPT ![c].kind = "clear"]
  /\ UNCHANGED <<clearance, founded, invitation, raced>>

SetClearance(c) ==
  LET q == ocall[c] m == <<q.org, q.target>> IN
  /\ q.kind = "clear"
  /\ ~RowLocked(m)
  /\ clearance' = IF member[m] = "none" THEN clearance ELSE [clearance EXCEPT ![m] = q.level]
  /\ Done(c)
  /\ UNCHANGED <<member, founded, invitation, owned, usurped, expelled, raced>>

OrgCallLost(c) ==
  /\ ocall[c].kind # "none"
  /\ Done(c)
  /\ UNCHANGED <<member, clearance, founded, invitation, owned, usurped, expelled, raced>>
-----------------------------------------------------------------------------
OrgNext ==
  \/ \E o \in Orgs, u \in Users :
       \/ CreateOrganization(o, u)
       \/ Accept(<<o, u>>)
       \/ InvitationLapses(<<o, u>>)
  \/ \E c \in OrgCalls :
       \/ \E o \in Orgs, u, t \in Users :
            \/ \E r \in Invited : AskInvite(c, o, u, t, r)
            \/ \E body \in Changes : Ask(c, o, u, t, body)
       \/ Invite(c) \/ Look(c) \/ LockAndCount(c) \/ Commit(c) \/ SetClearance(c) \/ OrgCallLost(c)

OrgSpec == OrgInit /\ [][OrgNext]_orgVars
-----------------------------------------------------------------------------
(* Properties *)

\* An organization keeps an owner, as LastOwnerError says, unless two requests that each took an
\* owner away were between their count and their write at the same time.
OwnerKept == \A o \in founded \ raced : Owners(o) # {}

\* Whoever is an administrator or an owner, or is invited as one, was made so by somebody who
\* was an owner: what administrators do, alone or together, never leads beyond "member".
PrivilegeFromOwner ==
  /\ usurped = {}
  /\ \A o \in Orgs, u \in Users :
       invitation[<<o, u>>].state = "pending" /\ invitation[<<o, u>>].role \in Privileged =>
         <<o, invitation[<<o, u>>].by>> \in owned

\* A member who joined by an invitation and was removed does not come back: the accepted row
\* refuses every new invitation of the address ("already a member").
RemovedStayOut == \A m \in expelled : member[m] = "none"
=============================================================================
