--------------------------- MODULE OrgMembership ---------------------------
(***************************************************************************)
(* Organizations, their members and the invitations to them: owner.ts (the *)
(* members' own routes), admin.ts (the routes of the server's              *)
(* administrator, under /v1/admin) and cascade.ts (deletion of an          *)
(* organization or a user).                                                *)
(*                                                                         *)
(* A handler that awaits nothing is one step.  Only the administrator's    *)
(* route that adds a member awaits, between its look at the index and its  *)
(* writes.  A handler that writes several files can be cut short by a      *)
(* crash between two of them.                                              *)
(*                                                                         *)
(* Membership files decide who may do what; the copy of them in state.md   *)
(* is only counted, and left out.  The names, slugs and contacts of an     *)
(* organization play no part here.                                         *)
(***************************************************************************)
EXTENDS Naturals, Functions

CONSTANTS
    User,           \* user_principal_id values
    Org,            \* org_id values
    Invite,         \* invite_id values
    Role,           \* OrgRole
    Call,           \* calls of the administrator's add route in flight
    None,           \* no organization
    MaxCrashes      \* bound on crashes

ASSUME RoleAssumption == "org_admin" \in Role
ASSUME NoneAssumption == None \notin Org
ASSUME CrashAssumption == MaxCrashes \in Nat

VARIABLES
    users,      \* users in state.md
    userFiles,  \* users whose file exists
    orgs,       \* organizations in state.md
    orgFiles,   \* organizations whose file exists
    members,    \* the membership files
    invites,    \* the invite files
    adding,     \* calls of the add route, across its await
    ids,        \* history: the organizations and invites there ever were
    overruled,  \* history: organizations that lost a member, or part of their
                \* files, by other means than their members' own decisions
    raced,      \* history: organizations that got a member after deletion
    admitted,   \* history: memberships written on the strength of an invite
    crashes     \* history: crashes so far

vars == <<users, userFiles, orgs, orgFiles, members, invites, adding, ids,
          overruled, raced, admitted, crashes>>

-----------------------------------------------------------------------------

\* by tells creators, invited members and those the administrator put in.
Member == [org : Org, user : User, role : Role,
           by : {"creator", "invite", "server"}]

\* lapsed says that expires_at has passed.
Letter == [org : Org, user : User, role : Role,
           status : {"pending", "accepted", "declined", "expired"},
           lapsed : BOOLEAN]

\* seen is the array of users in the state the call read before its await.
Idle == [org |-> None, seen |-> {}]

TypeOK ==
    /\ users \subseteq User /\ userFiles \subseteq User
    /\ orgs \subseteq Org /\ orgFiles \subseteq Org
    /\ members \subseteq Member
    /\ DOMAIN invites \subseteq Invite /\ invites \in [DOMAIN invites -> Letter]
    /\ adding \in [Call -> [org : Org \cup {None}, seen : SUBSET User]]
    /\ ids \subseteq Org \cup Invite
    /\ overruled \subseteq Org /\ raced \subseteq Org
    /\ admitted \in [Invite -> Nat]
    /\ crashes \in Nat

Init ==
    /\ users = User /\ userFiles = User
    /\ orgs = {} /\ orgFiles = {}
    /\ members = {}
    /\ invites = << >>
    /\ adding = [c \in Call |-> Idle]
    /\ ids = {} /\ overruled = {} /\ raced = {}
    /\ admitted = [i \in Invite |-> 0]
    /\ crashes = 0

-----------------------------------------------------------------------------

\* ownerAuth: a valid session of a user in the index whose file can be read.
LoggedIn(u) == u \in users /\ u \in userFiles

Of(o, u) == {m \in members : m.org = o /\ m.user = u}
AdminsOf(o) == {m \in members : m.org = o /\ m.role = "org_admin"}

\* requireOrgRole(session, orgId, "org_admin") lets somebody pass; it does not
\* look for the organization itself.
Managed(o) == \E m \in AdminsOf(o) : LoggedIn(m.user)

\* The invites that can still be accepted, declined or cancelled.
Pending == {i \in DOMAIN invites : invites[i].status = "pending"}
IsFor(i, o, u) == invites[i].org = o /\ invites[i].user = u

Close(i, status) == invites' = [invites EXCEPT ![i].status = status]

\* A handler that runs to its end, or is cut short by a crash, which ends the
\* calls in flight as well.
Ended(cut) ==
    \/ ~cut /\ UNCHANGED <<adding, crashes>>
    \/ /\ cut /\ crashes < MaxCrashes
       /\ crashes' = crashes + 1
       /\ adding' = [c \in Call |-> Idle]

-----------------------------------------------------------------------------
(* Organizations.                                                          *)

\* Written in this order: the organization, its first member, the index; a
\* crash leaves the first one or two.
Found(u, o, by, written) ==
    /\ o \notin ids
    /\ ids' = ids \cup {o}
    /\ orgFiles' = orgFiles \cup {o}
    /\ members' = IF written < 2 THEN members
                  ELSE members \cup {[org |-> o, user |-> u,
                                      role |-> "org_admin", by |-> by]}
    /\ orgs' = IF written < 3 THEN orgs ELSE orgs \cup {o}
    /\ overruled' = IF written < 3 THEN overruled \cup {o} ELSE overruled
    /\ Ended(written < 3)
    /\ UNCHANGED <<users, userFiles, invites, raced, admitted>>

CreateOrg(u, o, written) == LoggedIn(u) /\ Found(u, o, "creator", written)

\* The administrator names the creator; nobody checks that there is such a user.
CreateOrgFor(u, o, written) == Found(u, o, "server", written)

MembersOf(o) == {m \in members : m.org = o}
InvitesTo(o) == {i \in DOMAIN invites : invites[i].org = o}
MembershipsOf(u) == {m \in members : m.user = u}
InvitesFor(u) == {i \in DOMAIN invites : invites[i].user = u}

DropInvites(is) == invites' = Restrict(invites, DOMAIN invites \ is)

\* The loops of a cascade over membership and invite files and its last writes.
\* ms and is are the files deleted when it ends, out of those there are; file
\* and entry say whether it came to the file of the deleted and to the index.
Cascade(ms, allMs, is, allIs, file, entry) ==
    /\ is # {} \/ file => ms = allMs
    /\ file => is = allIs
    /\ entry => file
    /\ members' = members \ ms
    /\ DropInvites(is)
    /\ Ended(~entry)

\* Mutant of DropOrg: the invites stay.
DropOrgNotInvites(o, ms, is, file, entry) ==
    /\ Cascade(ms, MembersOf(o), {}, {}, file, entry)
    /\ orgFiles' = IF file THEN orgFiles \ {o} ELSE orgFiles
    /\ orgs' = IF entry THEN orgs \ {o} ELSE orgs
    /\ overruled' = IF entry THEN overruled ELSE overruled \cup {o}
    /\ UNCHANGED <<users, userFiles, ids, raced, admitted>>

\* cascadeDeleteOrg, as far as members and invites go.
DropOrg(o, ms, is, file, entry) ==
    /\ Cascade(ms, MembersOf(o), is, InvitesTo(o), file, entry)
    /\ orgFiles' = IF file THEN orgFiles \ {o} ELSE orgFiles
    /\ orgs' = IF entry THEN orgs \ {o} ELSE orgs
    /\ overruled' = IF entry THEN overruled ELSE overruled \cup {o}
    /\ UNCHANGED <<users, userFiles, ids, raced, admitted>>

\* By a member who may, or by the administrator, who must find it in the index.
DeleteOrg(o, ms, is, file, entry) ==
    /\ o \in orgs \/ Managed(o)
    /\ DropOrg(o, ms, is, file, entry)

\* cascadeDeleteUser likewise: by the administrator, or the user closes the
\* account.  It takes the memberships along, whatever the user's role.
DeleteUser(u, ms, is, file, entry) ==
    /\ u \in users
    /\ Cascade(ms, MembershipsOf(u), is, InvitesFor(u), file, entry)
    /\ userFiles' = IF file THEN userFiles \ {u} ELSE userFiles
    /\ users' = IF entry THEN users \ {u} ELSE users
    /\ overruled' = overruled \cup {m.org : m \in ms}
    /\ UNCHANGED <<orgs, orgFiles, ids, raced, admitted>>

-----------------------------------------------------------------------------
(* Invitations.                                                            *)

\* ALREADY_INVITED looks at the status alone.
Uninvited(o, u) == \A i \in Pending : ~IsFor(i, o, u)

Send(o, u, role, i) ==
    /\ Managed(o)
    /\ u \in users
    /\ Of(o, u) = {}
    /\ Uninvited(o, u)
    /\ i \notin ids
    /\ ids' = ids \cup {i}
    /\ invites' = [j \in DOMAIN invites \cup {i} |->
                     IF j = i THEN [org |-> o, user |-> u, role |-> role,
                                    status |-> "pending", lapsed |-> FALSE]
                     ELSE invites[j]]
    /\ UNCHANGED <<users, userFiles, orgs, orgFiles, members, adding,
                   overruled, raced, admitted, crashes>>

\* Seven days pass.
Lapse(i) ==
    /\ i \in Pending /\ ~invites[i].lapsed
    /\ invites' = [invites EXCEPT ![i].lapsed = TRUE]
    /\ UNCHANGED <<users, userFiles, orgs, orgFiles, members, adding, ids,
                   overruled, raced, admitted, crashes>>

Admit(i) == members' = members \cup {[org |-> invites[i].org,
                                      user |-> invites[i].user,
                                      role |-> invites[i].role,
                                      by |-> "invite"]}

\* Mutant of Accept: the membership is written before the invite is closed.
AcceptThenClose(i, cut) ==
    /\ i \in Pending /\ LoggedIn(invites[i].user)
    /\ ~invites[i].lapsed
    /\ Of(invites[i].org, invites[i].user) = {}
    /\ IF cut THEN UNCHANGED invites ELSE Close(i, "accepted")
    /\ Admit(i)
    /\ admitted' = [admitted EXCEPT ![i] = @ + 1]
    /\ Ended(cut)
    /\ UNCHANGED <<users, userFiles, orgs, orgFiles, ids, overruled, raced>>

\* The invite is closed before the membership is written.
Accept(i, cut) ==
    /\ i \in Pending /\ LoggedIn(invites[i].user)
    /\ ~invites[i].lapsed
    /\ Of(invites[i].org, invites[i].user) = {}
    /\ Close(i, "accepted")
    /\ IF cut THEN UNCHANGED <<members, admitted>>
       ELSE /\ Admit(i)
            /\ admitted' = [admitted EXCEPT ![i] = @ + 1]
    /\ Ended(cut)
    /\ UNCHANGED <<users, userFiles, orgs, orgFiles, ids, overruled, raced>>

\* The other ends of an invite: accepted too late (INVITE_EXPIRED), accepted by
\* a member (ALREADY_MEMBER), declined.
End(i, status) ==
    /\ i \in Pending
    /\ Close(i, status)
    /\ UNCHANGED <<users, userFiles, orgs, orgFiles, members, adding, ids,
                   overruled, raced, admitted, crashes>>

AcceptLate(i) ==
    /\ End(i, "expired")
    /\ LoggedIn(invites[i].user) /\ invites[i].lapsed

AcceptAgain(i) ==
    /\ End(i, "accepted")
    /\ LoggedIn(invites[i].user) /\ ~invites[i].lapsed
    /\ Of(invites[i].org, invites[i].user) # {}

Decline(i) == End(i, "declined") /\ LoggedIn(invites[i].user)

\* A manager takes a pending invite back: its file is deleted.
Cancel(i) ==
    /\ i \in Pending
    /\ Managed(invites[i].org)
    /\ DropInvites({i})
    /\ UNCHANGED <<users, userFiles, orgs, orgFiles, members, adding, ids,
                   overruled, raced, admitted, crashes>>

-----------------------------------------------------------------------------
(* Members.                                                                *)

\* Mutant of Replaceable: another member will do.
ReplaceableByAnyone(m) == \E n \in members : n.org = m.org /\ n # m

\* Last-admin protection: adminCount, which counts m, is above 1.
Replaceable(m) == \E n \in AdminsOf(m.org) : n # m

SetRole(m, role) ==
    /\ members' = (members \ {m}) \cup {[m EXCEPT !.role = role]}
    /\ UNCHANGED <<users, userFiles, orgs, orgFiles, invites, adding, ids,
                   raced, admitted, crashes>>

Expel(m) ==
    /\ members' = members \ {m}
    /\ UNCHANGED <<users, userFiles, orgs, orgFiles, invites, adding, ids,
                   raced, admitted, crashes>>

UpdateRole(m, role) ==
    /\ Managed(m.org)
    /\ m.role = "org_admin" /\ role # "org_admin" => Replaceable(m)
    /\ SetRole(m, role)
    /\ UNCHANGED overruled

Remove(m) ==
    /\ Managed(m.org)
    /\ m.role = "org_admin" => Replaceable(m)
    /\ Expel(m)
    /\ UNCHANGED overruled

Leave(m) ==
    /\ LoggedIn(m.user)
    /\ m.role = "org_admin" => Replaceable(m)
    /\ Expel(m)
    /\ UNCHANGED overruled

\* The administrator's routes know no last-admin protection.
UpdateRoleByServer(m, role) ==
    /\ SetRole(m, role)
    /\ overruled' = overruled \cup {m.org}

RemoveByServer(m) ==
    /\ Expel(m)
    /\ overruled' = overruled \cup {m.org}

-----------------------------------------------------------------------------
(* POST /v1/admin/organizations/:orgId/members                             *)

\* Up to the await of import("@openleash/core").
BeginAdd(c, o) ==
    /\ adding[c] = Idle
    /\ o \in orgs
    /\ adding' = [adding EXCEPT ![c] = [org |-> o, seen |-> users]]
    /\ UNCHANGED <<users, userFiles, orgs, orgFiles, members, invites, ids,
                   overruled, raced, admitted, crashes>>

Answered(c) == adding' = [adding EXCEPT ![c] = Idle]

\* INVALID_ROLE, USER_NOT_FOUND by the old index, ALREADY_MEMBER by the files
\* of now.
RejectAdd(c) ==
    /\ adding[c] # Idle
    /\ Answered(c)
    /\ UNCHANGED <<users, userFiles, orgs, orgFiles, members, invites, ids,
                   overruled, raced, admitted, crashes>>

\* Mutant of Add: the members are looked up before the await, and not again.
AddUnchecked(c, u, role) ==
    LET o == adding[c].org IN
    /\ adding[c] # Idle
    /\ u \in adding[c].seen
    /\ members' = members \cup {[org |-> o, user |-> u, role |-> role, by |-> "server"]}
    /\ raced' = IF o \in orgFiles THEN raced ELSE raced \cup {o}
    /\ Answered(c)
    /\ UNCHANGED <<users, userFiles, orgs, orgFiles, invites, ids, overruled,
                   admitted, crashes>>

\* Whether the organization is still there is found out after the writes.
Add(c, u, role) ==
    LET o == adding[c].org IN
    /\ adding[c] # Idle
    /\ u \in adding[c].seen
    /\ Of(o, u) = {}
    /\ members' = members \cup {[org |-> o, user |-> u, role |-> role, by |-> "server"]}
    /\ raced' = IF o \in orgFiles THEN raced ELSE raced \cup {o}
    /\ Answered(c)
    /\ UNCHANGED <<users, userFiles, orgs, orgFiles, invites, ids, overruled,
                   admitted, crashes>>

Crash ==
    /\ Ended(TRUE)
    /\ UNCHANGED <<users, userFiles, orgs, orgFiles, members, invites, ids,
                   overruled, raced, admitted>>

-----------------------------------------------------------------------------

Next ==
    \/ \E u \in User, o \in Org, written \in 1..3 :
          CreateOrg(u, o, written) \/ CreateOrgFor(u, o, written)
    \/ \E o \in Org, file, entry \in BOOLEAN :
          \E ms \in SUBSET MembersOf(o), is \in SUBSET InvitesTo(o) :
             DeleteOrg(o, ms, is, file, entry)
    \/ \E u \in User, file, entry \in BOOLEAN :
          \E ms \in SUBSET MembershipsOf(u), is \in SUBSET InvitesFor(u) :
             DeleteUser(u, ms, is, file, entry)
    \/ \E o \in Org, u \in User, role \in Role, i \in Invite : Send(o, u, role, i)
    \/ \E i \in DOMAIN invites :
          \/ Lapse(i) \/ AcceptLate(i) \/ AcceptAgain(i) \/ Decline(i) \/ Cancel(i)
          \/ \E cut \in BOOLEAN : Accept(i, cut)
    \/ \E m \in members :
          \/ Remove(m) \/ Leave(m) \/ RemoveByServer(m)
          \/ \E role \in Role : UpdateRole(m, role) \/ UpdateRoleByServer(m, role)
    \/ \E c \in Call, o \in Org : BeginAdd(c, o)
    \/ \E c \in Call : RejectAdd(c) \/ \E u \in User, role \in Role : Add(c, u, role)
    \/ Crash

Spec == Init /\ [][Next]_vars

-----------------------------------------------------------------------------
(* Properties.                                                             *)

\* An organization keeps an administrator among its members: whatever they do
\* to each other's roles and memberships, in whatever order, one is left, unless
\* the server's administrator, the end of an account or a crash took the last.
AdminKept == \A o \in orgs \ overruled : AdminsOf(o) # {}

\* Nobody is a member twice, and nobody has two open invites to one
\* organization, by whichever of the three ways members come in.
OneOfEach ==
    /\ \A m, n \in members : m.org = n.org /\ m.user = n.user => m = n
    /\ \A i, j \in Pending : IsFor(i, invites[j].org, invites[j].user) => i = j

\* An invite admits at most once: a member who was removed, or left, does not
\* come back on the old one, not even after a crash halfway through accepting.
AdmitsOnce == \A i \in Invite : admitted[i] <= 1

\* Members hold no open invite to their own organization, which would let them
\* back in after a removal; only one whom the server's administrator put in
\* past a pending invite does.
OpenInvitesOutside ==
    \A i \in Pending : \A m \in members :
        IsFor(i, m.org, m.user) => m.by = "server"

\* Both of it: an invite lets its user in once, and none lets a member back in
\* (owner.ts:1600, where the invite is closed before the member is written).
InvitesSound == AdmitsOnce /\ OpenInvitesOutside

\* A deletion leaves no member behind: every member is a user with a file, of an
\* organization with a file, but for what an add of the server's administrator
\* wrote after the deletion it overlapped.
MembersBacked ==
    \A m \in members :
        /\ m.org \in orgFiles \cup raced
        /\ m.user \in userFiles \/ m.by = "server"

=============================================================================
