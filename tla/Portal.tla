------------------------------- MODULE Portal -------------------------------
(***************************************************************************)
(* What the owner portal and the owner's API show to whom: the pages of    *)
(* gui.ts, the GET routes of owner.ts and transformations.ts, and the      *)
(* counts of open requests (scope.ts).                                     *)
(*                                                                         *)
(* A record (an agent, a policy, an approval request, ...) names its owner *)
(* in its file and in its entry of state.md.  Most lists go by the entry,  *)
(* some by the file.  The two differ after a crash between the two writes  *)
(* that make, move, resolve or delete a record.  The pages read the files  *)
(* for what they print; a file that cannot be read is printed as unknown,  *)
(* which plays a part only for requests.                                   *)
(***************************************************************************)
EXTENDS Scopes, FiniteSets

CONSTANT Record     \* ids of agents, policies, requests and so on

\* Ids are UUIDs, never given twice.
ASSUME ScopeAssumption == User \cap Org = {}

VARIABLE records    \* the records there are

portalVars == <<vars, scopeVars, records>>

Kind == {"agent", "policy", "draft", "request", "group", "provisioner", "transformation"}
Scope == User \cup Org

\* file and entry are the owner named there, None where there is none.  open
\* and due say that a request is PENDING in its file and in its entry.
RecordType == [kind : Kind, file : Scope \cup {None}, entry : Scope \cup {None},
               open : BOOLEAN, due : BOOLEAN, lapsed : BOOLEAN]

PortalTypeOK ==
    /\ ScopesTypeOK
    /\ DOMAIN records \subseteq Record
    /\ records \in [DOMAIN records -> RecordType]

PortalInit == ScopesInit /\ records = << >>

-----------------------------------------------------------------------------
(* What happens to records.                                                *)

Put(r, rec) == records' = [x \in DOMAIN records \cup {r} |-> IF x = r THEN rec ELSE records[x]]

\* A handler of one record that runs to its end or is cut short by a crash
\* after its first write.
OneRecord(cut) ==
    /\ Ended(cut)
    /\ UNCHANGED <<users, userFiles, orgs, orgFiles, members, invites, ids,
                   overruled, raced, admitted, scopeVars>>

\* Transformations are the users' own, groups the organizations'.
CanOwn(w, kind) == /\ w \in users \cup orgs
                   /\ kind = "transformation" => w \in User
                   /\ kind = "group" => w \in Org

Make(r, kind, w, cut) ==
    /\ r \notin DOMAIN records
    /\ CanOwn(w, kind)
    /\ Put(r, [kind |-> kind, file |-> w, entry |-> IF cut THEN None ELSE w,
               open |-> kind = "request", due |-> kind = "request" /\ ~cut,
               lapsed |-> FALSE])
    /\ OneRecord(cut)

\* Provisioners are revoked, never deleted.
Discard(r, cut) ==
    /\ records[r].kind # "provisioner" /\ records[r].entry # None
    /\ IF cut THEN Put(r, [records[r] EXCEPT !.file = None])
       ELSE records' = Restrict(records, DOMAIN records \ {r})
    /\ OneRecord(cut)

\* A user hands an own agent to an organization as one of its administrators.
HandOver(r, u, o, cut) ==
    /\ records[r].kind = "agent" /\ records[r].file # None /\ records[r].entry = u
    /\ LoggedIn(u) /\ o \in orgs
    /\ \E m \in Of(o, u) : m.role = "org_admin"
    /\ Put(r, [records[r] EXCEPT !.file = o, !.entry = IF cut THEN u ELSE o])
    /\ OneRecord(cut)

Expire(r) ==
    /\ records[r].kind = "request" /\ ~records[r].lapsed
    /\ Put(r, [records[r] EXCEPT !.lapsed = TRUE])
    /\ UNCHANGED <<vars, scopeVars>>

Closed(rec, cut) == [rec EXCEPT !.open = FALSE, !.due = @ /\ cut]

\* Approved, denied, or found to be expired by one of these two.
Resolve(r, cut) ==
    /\ records[r].entry # None /\ records[r].file # None /\ records[r].open
    /\ Put(r, Closed(records[r], cut))
    /\ OneRecord(cut)

\* Deletion of an owner takes records along, but not groups, provisioners and
\* transformations.  gone and torn are those the cascade came to, file and
\* entry, or the file alone.
Swept(w) == {r \in DOMAIN records : /\ records[r].entry = w
                                    /\ records[r].kind \notin {"group", "provisioner", "transformation"}}
DropRecords(w, gone, half, entry) ==
    /\ entry => gone = Swept(w)
    /\ records' = [r \in DOMAIN records \ gone |->
                     IF r \in half THEN [records[r] EXCEPT !.file = None] ELSE records[r]]

DropOrgRecords(o, ms, is, gone, half, file, entry) ==
    /\ CloseOrg(o, ms, is, file, entry)
    /\ DropRecords(o, gone, half, entry)

DropUserRecords(u, ms, is, gone, half, file, entry) ==
    /\ DeleteUser(u, ms, is, file, entry)
    /\ DropRecords(u, gone, half, entry)
    /\ UNCHANGED scopeVars

-----------------------------------------------------------------------------
(* The pages of one scope.                                                 *)

Listed(w, kind) == {r \in DOMAIN records : records[r].kind = kind /\ records[r].entry = w}
Filed(w, kind) == {r \in DOMAIN records : records[r].kind = kind /\ records[r].file = w}
Readable(rs) == {r \in rs : records[r].file # None}

AgentsPage(w) == Listed(w, "agent")
PoliciesPage(w) == Listed(w, "policy") \cup Listed(w, "draft")
PolicyCreatePage(w) == Listed(w, "agent") \cup (IF w \in Org THEN Filed(w, "group") ELSE {})
PolicyEditPage(w) == Readable(Listed(w, "policy"))
GroupsPage(w) == IF w \in Org THEN Filed(w, "group") ELSE {}
GroupPage(w) == GroupsPage(w) \cup (IF w \in Org THEN Listed(w, "agent") \cup Listed(w, "policy") ELSE {})
OrgPage(w) == IF w \in orgFiles THEN Listed(w, "agent") \cup Listed(w, "policy") ELSE {}
ProvisionersPage(u) == Listed(u, "provisioner")
TransformationsPage(u) == Filed(u, "transformation")

\* The open requests of a list of entries: a record that has expired is left
\* out, one that cannot be read stays.
StillOpen(rs) == {r \in rs : /\ records[r].due
                             /\ ~(records[r].file # None /\ records[r].lapsed)}
ApprovalsPage(w) ==
    StillOpen(Listed(w, "request")) \cup {r \in Listed(w, "request") : ~records[r].due}

\* Mutant of Actionable: expired requests count.
ActionableAll(rs) == {r \in rs : records[r].due}

\* isActionablePending, by the entry alone.
Actionable(rs) == {r \in rs : records[r].due /\ ~records[r].lapsed}
Dashboard(w) ==
    Listed(w, "agent") \cup Listed(w, "policy") \cup Listed(w, "draft")
    \cup Actionable(Listed(w, "request"))

ScopePages(u, w) ==
    UNION {AgentsPage(w), PoliciesPage(w), PolicyCreatePage(w), PolicyEditPage(w),
           GroupsPage(w), GroupPage(w), OrgPage(w), ApprovalsPage(w), Dashboard(w),
           ProvisionersPage(u), TransformationsPage(u)}

-----------------------------------------------------------------------------
(* Pages and routes across scopes.                                         *)

MyOrgs(u) == {o \in Org : IsMember(u, o)}

\* An agent is found without a scope; its entry says whose it is.
AgentPage(u) ==
    Readable({r \in DOMAIN records : records[r].kind = "agent"
                                     /\ records[r].entry \in {u} \cup MyOrgs(u)})

Requests(ws) == UNION {Listed(w, "request") : w \in ws}

\* The badge counts by memberships, the inbox lists by available scopes.
Badge(u) == Actionable(Requests({u} \cup MyOrgs(u)))
Inbox(u) == StillOpen(Requests({u} \cup Available(u)))
InboxPage(u) == Inbox(u) \cup {r \in Requests({u} \cup Available(u)) : ~records[r].due}

\* GET /v1/owner/approvals?status=PENDING goes by the files.
PendingByApi(u) ==
    {r \in Readable(Requests({u} \cup Available(u))) : records[r].open /\ ~records[r].lapsed}

\* What the owner's API lists of a user's own, and of an organization for those
\* whose role is high enough (requireOrgRole).  Groups and transformations are
\* listed by their files.
ApiAgents(u) == Listed(u, "agent")
ApiProvisioners(u) == Listed(u, "provisioner")
ApiPolicies(u) == Listed(u, "policy")
ApiPolicy(u) == Readable(Listed(u, "policy"))
ApiRequests(u) == Listed(u, "request")
ApiRequest(u) == Readable(Listed(u, "request"))
ApiDrafts(u) == Listed(u, "draft")
ApiDraft(u) == Readable(Listed(u, "draft"))
ApiTransformations(u) == Filed(u, "transformation")
ApiPersonal(u) ==
    UNION {ApiAgents(u), ApiProvisioners(u), ApiPolicies(u), ApiPolicy(u), ApiRequests(u),
           ApiRequest(u), ApiDrafts(u), ApiDraft(u), ApiTransformations(u)}

Level == [org_viewer |-> 1, org_member |-> 2, org_admin |-> 3]
ASSUME LevelAssumption == Role \subseteq DOMAIN Level

RoleOf(u, o, least) == \E m \in Of(o, u) : Level[m.role] >= Level[least]
For(u, o, least, rs) == IF RoleOf(u, o, least) THEN rs ELSE {}

ApiOrgAgents(u, o) == For(u, o, "org_viewer", Listed(o, "agent"))
ApiOrgProvisioners(u, o) == For(u, o, "org_viewer", Listed(o, "provisioner"))
ApiOrgPolicies(u, o) == For(u, o, "org_viewer", Listed(o, "policy"))
ApiOrgGroups(u, o) == For(u, o, "org_viewer", Filed(o, "group"))
ApiOrgGroup(u, o) == For(u, o, "org_viewer", Filed(o, "group") \cup Listed(o, "policy"))
ApiOrgRequests(u, o) == For(u, o, "org_member", Listed(o, "request"))
ApiOrgDrafts(u, o) == For(u, o, "org_member", Listed(o, "draft"))
ApiOrgDraft(u, o) == For(u, o, "org_member", Readable(Listed(o, "draft")))
ApiOrgAudit(u, o) == For(u, o, "org_viewer", Listed(o, "agent"))
ApiOrg(u, o) ==
    UNION {ApiOrgAgents(u, o), ApiOrgProvisioners(u, o), ApiOrgPolicies(u, o),
           ApiOrgGroups(u, o), ApiOrgGroup(u, o), ApiOrgRequests(u, o),
           ApiOrgDrafts(u, o), ApiOrgDraft(u, o), ApiOrgAudit(u, o)}

\* Whose trail of events is shown: the owner's and the owner's agents'.
AuditPage(u, w) == IF w = u THEN Listed(u, "agent")
                   ELSE IF w \in MyOrgs(u) THEN Listed(w, "agent") ELSE {}
ApiAudit(u) == Listed(u, "agent")
\* The trail of one agent goes by the owner in its file.
ApiAgentAudit(u) ==
    {r \in DOMAIN records : records[r].kind = "agent" /\ records[r].file \in {u} \cup MyOrgs(u)}

Reach(u) ==
    (UNION {ScopePages(u, w) \cup AuditPage(u, w) : w \in VisitableScopes(u)})
    \cup (UNION {AgentPage(u), InboxPage(u), Badge(u), ApiPersonal(u), ApiAudit(u), ApiAgentAudit(u)})
    \cup (UNION {ApiOrg(u, o) : o \in Org})

\* The pages and routes of the server's administrator know no owners.
Entries(kind) == {r \in DOMAIN records : records[r].kind = kind /\ records[r].entry # None}
AdminAgents == Entries("agent")
AdminAgent == Readable(Entries("agent"))
AdminPolicies == Entries("policy")
AdminPolicy == Readable(Entries("policy"))
\* A user's or an organization's page counts and lists what the entries say.
AdminUserPage(u) == IF u \in users \cap userFiles THEN Listed(u, "agent") \cup Listed(u, "policy") ELSE {}
AdminOrgPage(o) == IF o \in orgs \cap orgFiles THEN Listed(o, "agent") \cup Listed(o, "policy") ELSE {}
AdminReach ==
    (UNION {AdminAgents, AdminAgent, AdminPolicies, AdminPolicy})
    \cup (UNION {AdminUserPage(u) : u \in User}) \cup (UNION {AdminOrgPage(o) : o \in Org})

\* Showing the inbox, or the approvals of a scope, closes the requests it finds
\* expired, one after the other; a crash leaves some, and one half closed.
ShowRequests(u, ws, scope, done, half) ==
    LET stale == {r \in Readable(Requests(ws)) : /\ records[r].due /\ records[r].open
                                                 /\ records[r].lapsed}
        cut   == done # stale
    IN /\ done \cup half \subseteq stale /\ done \cap half = {}
       /\ Cardinality(half) <= 1 /\ (~cut => half = {})
       /\ records' = [r \in DOMAIN records |->
                        IF r \in done \cup half THEN Closed(records[r], r \in half)
                        ELSE records[r]]
       /\ Remember(u, scope)
       /\ Ended(cut)
       /\ UNCHANGED <<users, userFiles, orgs, orgFiles, members, invites, ids,
                      overruled, raced, admitted>>

-----------------------------------------------------------------------------

PortalNext ==
    \/ \E r \in Record, kind \in Kind, w \in Scope, cut \in BOOLEAN : Make(r, kind, w, cut)
    \/ \E r \in DOMAIN records, cut \in BOOLEAN :
          \/ Discard(r, cut) \/ Resolve(r, cut)
          \/ \E u \in User, o \in Org : HandOver(r, u, o, cut)
    \/ \E r \in DOMAIN records : Expire(r)
    \/ \E u \in User : \E done, half \in SUBSET DOMAIN records :
          \/ \E scope \in InCookie(u) :
                ShowRequests(u, {u} \cup Available(u), scope, done, half)
          \/ \E scope \in VisitableScopes(u) : ShowRequests(u, {scope}, scope, done, half)
    \/ \E file, entry \in BOOLEAN : \E gone, half \in SUBSET DOMAIN records :
          \/ \E o \in Org : \E ms \in SUBSET MembersOf(o), is \in SUBSET InvitesTo(o) :
                DropOrgRecords(o, ms, is, gone, half, file, entry)
          \/ \E u \in User : \E ms \in SUBSET MembershipsOf(u), is \in SUBSET InvitesFor(u) :
                DropUserRecords(u, ms, is, gone, half, file, entry)
    \/ /\ ScopesNext
       /\ users' = users /\ orgs \subseteq orgs' /\ orgFiles \subseteq orgFiles'
       /\ UNCHANGED records

PortalSpec == PortalInit /\ [][PortalNext]_portalVars

-----------------------------------------------------------------------------
(* Properties.                                                             *)

\* A record whose file and entry agree on its owner.
Settled(r) == records[r].file = records[r].entry /\ records[r].file # None

\* Whatever a user opens, with whatever old address and old cookie, and whatever
\* the memberships, names and owners went through, the portal and the API show
\* records of the user and of the organizations the user is a member of now, and
\* no other; and every one of them somewhere, but for requests that have expired
\* and wait for somebody to find that out, and organizations a crash left half
\* named or half deleted (scope.ts:138, gui.ts:816, owner.ts:1015).  Agents and
\* policies are found by the server's administrator too, whoever owns them.
PortalShowsOwn ==
    \A r \in DOMAIN records : Settled(r) =>
        /\ \A u \in User : LoggedIn(u) =>
              LET mine == records[r].entry \in {u} \cup MyOrgs(u)
              IN /\ r \in Reach(u) => mine
                 /\ mine /\ ~(records[r].due /\ records[r].lapsed)
                         /\ records[r].entry \notin torn \cup raced => r \in Reach(u)
        /\ records[r].kind \in {"agent", "policy"} => r \in AdminReach

\* The badge, the inbox and the API count the same open requests (scope.ts:224:
\* "Without this check the badge/banner counts diverge from the inbox list"),
\* but for requests that a crash left half written and organizations of which
\* only a membership is left.
BadgeAgrees ==
    \A u \in User : LoggedIn(u) =>
        \A r \in DOMAIN records :
            Settled(r) /\ records[r].open = records[r].due /\ records[r].entry \notin raced =>
                /\ r \in Badge(u) <=> r \in Inbox(u)
                /\ r \in Badge(u) <=> r \in PendingByApi(u)

=============================================================================
