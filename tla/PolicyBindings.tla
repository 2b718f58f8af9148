--------------------------- MODULE PolicyBindings ---------------------------
(***************************************************************************)
(* Policies, their bindings, policy groups and policy drafts: owner.ts     *)
(* (users and organizations), agent-self.ts (drafts), provisioner.ts (bind *)
(* and unbind), agents.ts (enrolment), cascade.ts (deletion) and the       *)
(* policy command of the CLI; and which bindings authorize.ts consults for *)
(* an agent, in which order.                                               *)
(*                                                                         *)
(* Every write here happens after the last await of its handler, so one    *)
(* request is one step.  Only the index (state.md) is written as a whole:  *)
(* a policy's file is written before its entry and removed before it, and  *)
(* a crash may fall between the two (cut = TRUE).                          *)
(*                                                                         *)
(* Ranks are counted in steps of 100, the only values the code writes.     *)
(***************************************************************************)
EXTENDS Naturals, FiniteSets, Sequences, SequencesExt

CONSTANTS
    User, Org,      \* owners of the two types
    Agent,          \* agents (agent_principal_id)
    Group,          \* policy groups, which only organizations have
    Policy,         \* policies (policy_id)
    Draft,          \* policy drafts (policy_draft_id)
    None,           \* null
    MaxAppends,     \* bound on the bindings ever written
    MaxCrashes      \* bound on crashes

ASSUME NoneAssumption == None \notin User \cup Org \cup Agent \cup Group
ASSUME OwnerAssumption == User \cap Org = {}
ASSUME BoundAssumption == MaxAppends \in Nat /\ MaxCrashes \in Nat

VARIABLES
    owners,     \* the users and organizations that exist
    agents,     \* registered agents -> owner
    groups,     \* policy groups -> organization
    members,    \* agent_group_memberships: pairs <<agent, group>>
    policies,   \* policy entries of state.md, by policy_id
    files,      \* the policies whose YAML file exists
    bindings,   \* bindings of state.md
    drafts,     \* policy drafts that exist
    ids,        \* history: the UUIDs handed out so far
    appended,   \* history: how many bindings were ever pushed
    crashes     \* history: crashes so far

vars == <<owners, agents, groups, members, policies, files, bindings, drafts,
          ids, appended, crashes>>

-----------------------------------------------------------------------------

Owner == User \cup Org

Tiers == {"agent", "group", "owner_wide"}

Entry == [owner : Owner,
          agent : Agent \cup {None},
          group : Group \cup {None}]

\* at is the place in the array; rank 0 stands for an absent rank.
Binding == [owner : Owner,
            policy : Policy,
            agent : Agent \cup {None},
            group : Group \cup {None},
            rank : Nat,
            at : Nat]

DraftFile == [owner : Owner,
              by : Agent,
              agent : Agent \cup {None},
              status : {"PENDING", "APPROVED", "DENIED"}]

TypeOK ==
    /\ owners \subseteq Owner
    /\ DOMAIN agents \subseteq Agent /\ agents \in [DOMAIN agents -> Owner]
    /\ DOMAIN groups \subseteq Group /\ groups \in [DOMAIN groups -> Org]
    /\ members \subseteq Agent \X Group
    /\ DOMAIN policies \subseteq Policy /\ policies \in [DOMAIN policies -> Entry]
    /\ files \subseteq Policy
    /\ bindings \subseteq Binding
    /\ DOMAIN drafts \subseteq Draft /\ drafts \in [DOMAIN drafts -> DraftFile]
    /\ ids \subseteq Agent \cup Group \cup Policy \cup Draft
    /\ appended \in Nat
    /\ crashes \in Nat

Init ==
    /\ owners = Owner
    /\ agents = << >>
    /\ groups = << >>
    /\ members = {}
    /\ policies = << >>
    /\ files = {}
    /\ bindings = {}
    /\ drafts = << >>
    /\ ids = {}
    /\ appended = 0
    /\ crashes = 0

\* f with x mapped to v; f without the members of S.
Put(f, x, v) == [y \in DOMAIN f \cup {x} |-> IF y = x THEN v ELSE f[y]]
Without(f, S) == [y \in DOMAIN f \ S |-> f[y]]

\* crypto.randomUUID()
Fresh(x) == x \notin ids
Use(x) == ids' = ids \cup {x}

\* A step of a handler whose last write may be lost.
Crashed(cut) ==
    /\ cut => crashes < MaxCrashes
    /\ crashes' = IF cut THEN crashes + 1 ELSE crashes

-----------------------------------------------------------------------------
(* Ranks and tiers.                                                        *)

TierOf(b) ==
    CASE b.agent # None -> "agent"
      [] b.agent = None /\ b.group # None -> "group"
      [] OTHER -> "owner_wide"

InScope(o, tier) == {b \in bindings : b.owner = o /\ TierOf(b) = tier}

\* An absent rank reads as 100.
Rank(b) == IF b.rank = 0 THEN 1 ELSE b.rank

\* Mutant of IsNextRank: the first free place of the tier.
IsNextRankFirstFree(rank, o, tier) ==
    LET ranks == {Rank(b) : b \in InScope(o, tier)} IN
    rank \notin ranks /\ 1..(rank - 1) \subseteq ranks

\* nextRankInTier: one step beyond the highest rank of the tier.
IsNextRank(rank, o, tier) ==
    LET ranks == {0} \cup {Rank(b) : b \in InScope(o, tier)} IN
    /\ rank - 1 \in ranks
    /\ \A r \in ranks : r < rank

Ranks == 1..(MaxAppends + 1)

\* Pushing a binding onto the array.
Push(o, p, a, g, rank) ==
    /\ appended < MaxAppends
    /\ appended' = appended + 1
    /\ bindings' = bindings \cup {[owner |-> o, policy |-> p, agent |-> a,
                                   group |-> g, rank |-> rank, at |-> appended]}

TierFor(a, g) ==
    IF a # None THEN "agent" ELSE IF g # None THEN "group" ELSE "owner_wide"

PushRanked(o, p, a, g) ==
    \E rank \in Ranks :
        /\ IsNextRank(rank, o, TierFor(a, g))
        /\ Push(o, p, a, g, rank)

Drop(S) == bindings' = bindings \ S

-----------------------------------------------------------------------------
(* Policies of an owner.                                                   *)

OwnAgent(o, a) == a \in DOMAIN agents /\ agents[a] = o
OwnGroup(o, g) == g \in DOMAIN groups /\ groups[g] = o
OwnPolicy(o, p) == p \in DOMAIN policies /\ policies[p].owner = o

\* POST of a policy, by a user (no group) or an organization's administrator.
CreatePolicy(o, p, a, g, cut) ==
    /\ o \in owners /\ Fresh(p)
    /\ a = None \/ g = None
    /\ a # None => OwnAgent(o, a)
    /\ g # None => OwnGroup(o, g)
    /\ files' = files \cup {p}
    /\ Use(p)
    /\ Crashed(cut)
    /\ IF cut THEN UNCHANGED <<policies, bindings, appended>>
       ELSE /\ policies' = Put(policies, p, [owner |-> o, agent |-> a, group |-> g])
            /\ PushRanked(o, p, a, g)
    /\ UNCHANGED <<owners, agents, groups, members, drafts>>

\* PUT of a policy writes its file, whether or not it is there.
SavePolicy(o, p) ==
    /\ o \in owners /\ OwnPolicy(o, p)
    /\ files' = files \cup {p}
    /\ UNCHANGED <<owners, agents, groups, members, policies, bindings, drafts,
                   ids, appended, crashes>>

\* DELETE of a policy, by its owner or from the command line.  A user's call
\* looks the entry up before the check of the second factor and deletes after
\* it; the check waits for nothing, so no other call gets a turn in between.
DeletePolicy(p, cut) ==
    /\ p \in DOMAIN policies
    /\ files' = files \ {p}
    /\ Crashed(cut)
    /\ IF cut THEN UNCHANGED <<policies, bindings>>
       ELSE /\ policies' = Without(policies, {p})
            /\ Drop({b \in bindings : b.policy = p})
    /\ UNCHANGED <<owners, agents, groups, members, drafts, ids, appended>>

InTier(o, tier) == {b.policy : b \in InScope(o, tier)}

\* The first binding of a policy in a tier, in array order.
FirstOf(o, tier, p) ==
    CHOOSE b \in InScope(o, tier) :
        /\ b.policy = p
        /\ \A c \in InScope(o, tier) : c.policy = p => b.at <= c.at

Position(order, p) == CHOOSE i \in DOMAIN order : order[i] = p

IsReranked(b, o, tier, order) ==
    /\ b \in InScope(o, tier)
    /\ \E i \in DOMAIN order : order[i] = b.policy
    /\ b = FirstOf(o, tier, b.policy)

\* Mutant of Reranked: the list is read from its end.
RerankedBackwards(b, o, tier, order) ==
    IF IsReranked(b, o, tier, order)
    THEN [b EXCEPT !.rank = Len(order) + 1 - Position(order, b.policy)]
    ELSE b

Reranked(b, o, tier, order) ==
    IF IsReranked(b, o, tier, order)
    THEN [b EXCEPT !.rank = Position(order, b.policy)]
    ELSE b

\* reorderPoliciesForTier: a permutation of the tier's policies; the first
\* binding of each gets the rank of its place.
Reorder(o, tier, order) ==
    /\ o \in owners
    /\ order \in SetToSeqs(InTier(o, tier))
    /\ bindings' = {Reranked(b, o, tier, order) : b \in bindings}
    /\ UNCHANGED <<owners, agents, groups, members, policies, files, drafts,
                   ids, appended, crashes>>

-----------------------------------------------------------------------------
(* The command line, a process of its own that writes the same files.      *)

\* policy upsert, of an id that the operator may choose: the file of a policy
\* there is, or a policy, of which neither owner nor agent is looked up.
UpsertByCli(o, p, a) ==
    /\ files' = files \cup {p}
    /\ \/ /\ p \in DOMAIN policies
          /\ UNCHANGED <<policies, bindings, ids, appended>>
       \/ /\ p \notin DOMAIN policies
          /\ Use(p)
          /\ policies' = Put(policies, p, [owner |-> o, agent |-> a, group |-> None])
          /\ Push(o, p, a, None, 0)
    /\ UNCHANGED <<owners, agents, groups, members, drafts, crashes>>

\* policy unbind, of one owner's bindings or of all.
UnbindByCli(p, whose) ==
    /\ Drop({b \in bindings : b.policy = p /\ b.owner \in whose})
    /\ bindings' # bindings
    /\ UNCHANGED <<owners, agents, groups, members, policies, files, drafts,
                   ids, appended, crashes>>

-----------------------------------------------------------------------------
(* Policy groups.                                                          *)

CreateGroup(o, g) ==
    /\ o \in owners \cap Org /\ Fresh(g)
    /\ groups' = Put(groups, g, o)
    /\ Use(g)
    /\ UNCHANGED <<owners, agents, members, policies, files, bindings, drafts,
                   appended, crashes>>

\* Mutant of DeleteGroup: policies bound to the group do not stand in the way.
DeleteGroupBound(o, g) ==
    /\ o \in owners /\ OwnGroup(o, g)
    /\ members' = {m \in members : m[2] # g}
    /\ groups' = Without(groups, {g})
    /\ UNCHANGED <<owners, agents, policies, files, bindings, drafts,
                   ids, appended, crashes>>

\* Refused while a policy of the organization is bound to the group.
DeleteGroup(o, g) ==
    /\ o \in owners /\ OwnGroup(o, g)
    /\ \A p \in DOMAIN policies : policies[p].owner = o => policies[p].group # g
    /\ members' = {m \in members : m[2] # g}
    /\ groups' = Without(groups, {g})
    /\ UNCHANGED <<owners, agents, policies, files, bindings, drafts,
                   ids, appended, crashes>>

\* By an administrator or by a provisioner.
AddToGroup(o, g, a) ==
    /\ o \in owners /\ OwnGroup(o, g) /\ OwnAgent(o, a)
    /\ members' = members \cup {<<a, g>>}
    /\ UNCHANGED <<owners, agents, groups, policies, files, bindings, drafts,
                   ids, appended, crashes>>

RemoveFromGroup(o, g, a) ==
    /\ o \in owners /\ OwnGroup(o, g)
    /\ members' = members \ {<<a, g>>}
    /\ UNCHANGED <<owners, agents, groups, policies, files, bindings, drafts,
                   ids, appended, crashes>>

-----------------------------------------------------------------------------
(* Agents and provisioners.                                                *)

\* register-with-invite: the invite names the owner and, if a provisioner made
\* it, a policy and a group, either of which may be gone by now.
Enrol(o, a, p, g) ==
    /\ Fresh(a)
    /\ Use(a)
    /\ agents' = Put(agents, a, o)
    /\ IF OwnPolicy(o, p) THEN PushRanked(o, p, a, None)
       ELSE UNCHANGED <<bindings, appended>>
    /\ members' = IF OwnGroup(o, g) THEN members \cup {<<a, g>>} ELSE members
    /\ UNCHANGED <<owners, groups, policies, files, drafts, crashes>>

Bind(o, a, p) ==
    /\ o \in owners /\ OwnAgent(o, a) /\ OwnPolicy(o, p)
    /\ \A b \in bindings : ~(b.owner = o /\ b.policy = p /\ b.agent = a)
    /\ PushRanked(o, p, a, None)
    /\ UNCHANGED <<owners, agents, groups, members, policies, files, drafts,
                   ids, crashes>>

Unbind(o, a, p) ==
    /\ o \in owners /\ OwnAgent(o, a)
    /\ Drop({b \in bindings : b.owner = o /\ b.policy = p /\ b.agent = a})
    /\ bindings' # bindings
    /\ UNCHANGED <<owners, agents, groups, members, policies, files, drafts,
                   ids, appended, crashes>>

\* A user hands an agent over to an organization: nothing else moves along.
Transfer(a, u, o) ==
    /\ u \in owners \cap User /\ o \in owners \cap Org /\ OwnAgent(u, a)
    /\ agents' = [agents EXCEPT ![a] = o]
    /\ UNCHANGED <<owners, groups, members, policies, files, bindings, drafts,
                   ids, appended, crashes>>

-----------------------------------------------------------------------------
(* Policy drafts.                                                          *)

\* An agent proposes a policy, for itself, a sibling or all of its owner's.
Propose(a, d, target) ==
    /\ a \in DOMAIN agents /\ Fresh(d)
    /\ target # None => OwnAgent(agents[a], target)
    /\ Use(d)
    /\ drafts' = Put(drafts, d, [owner |-> agents[a], by |-> a,
                                 agent |-> target, status |-> "PENDING"])
    /\ UNCHANGED <<owners, agents, groups, members, policies, files, bindings,
                   appended, crashes>>

\* Mutant of ApproveDraft: the agent's owner is not looked up again.
ApproveDraftUnseen(d, p) ==
    LET o == drafts[d].owner IN
    /\ d \in DOMAIN drafts /\ o \in owners /\ drafts[d].status = "PENDING"
    /\ Fresh(p)
    /\ Use(p)
    /\ files' = files \cup {p}
    /\ drafts' = [drafts EXCEPT ![d].status = "APPROVED"]
    /\ policies' = Put(policies, p, [owner |-> o, agent |-> drafts[d].agent,
                                     group |-> None])
    /\ Push(o, p, drafts[d].agent, None, 0)
    /\ UNCHANGED <<owners, agents, groups, members, crashes>>

\* The binding of an approved draft carries no rank.
ApproveDraft(d, p) ==
    LET o == drafts[d].owner
        target == drafts[d].agent
    IN
    /\ d \in DOMAIN drafts /\ o \in owners /\ drafts[d].status = "PENDING"
    /\ target # None => OwnAgent(o, target)
    /\ Fresh(p)
    /\ Use(p)
    /\ files' = files \cup {p}
    /\ drafts' = [drafts EXCEPT ![d].status = "APPROVED"]
    /\ policies' = Put(policies, p, [owner |-> o, agent |-> target, group |-> None])
    /\ Push(o, p, target, None, 0)
    /\ UNCHANGED <<owners, agents, groups, members, crashes>>

DenyDraft(d) ==
    /\ d \in DOMAIN drafts /\ drafts[d].owner \in owners
    /\ drafts[d].status = "PENDING"
    /\ drafts' = [drafts EXCEPT ![d].status = "DENIED"]
    /\ UNCHANGED <<owners, agents, groups, members, policies, files, bindings,
                   ids, appended, crashes>>

-----------------------------------------------------------------------------
(* Cascades.                                                               *)

WrittenFor(S) == {p \in DOMAIN policies : policies[p].agent \in S}
ProposedBy(S) == {d \in DOMAIN drafts : drafts[d].by \in S}

\* Mutant of DeleteAgent: every policy bound to the agent goes.
DeleteAgentAndBound(a, cut) ==
    LET gone == {p \in DOMAIN policies :
                   \E b \in bindings : b.policy = p /\ b.agent = a} IN
    /\ a \in DOMAIN agents
    /\ files' = files \ gone
    /\ Crashed(cut)
    /\ IF cut THEN UNCHANGED <<agents, policies, bindings, drafts>>
       ELSE /\ agents' = Without(agents, {a})
            /\ policies' = Without(policies, gone)
            /\ Drop({b \in bindings : b.policy \in gone \/ b.agent = a})
            /\ drafts' = Without(drafts, ProposedBy({a}))
    /\ UNCHANGED <<owners, groups, members, ids, appended>>

\* cascadeDeleteAgent: the policies written for the agent, whoever owns them,
\* and every binding to it; its group memberships stay.
DeleteAgent(a, cut) ==
    LET gone == WrittenFor({a}) IN
    /\ a \in DOMAIN agents
    /\ files' = files \ gone
    /\ Crashed(cut)
    /\ IF cut THEN UNCHANGED <<agents, policies, bindings, drafts>>
       ELSE /\ agents' = Without(agents, {a})
            /\ policies' = Without(policies, gone)
            /\ Drop({b \in bindings : b.policy \in gone \/ b.agent = a})
            /\ drafts' = Without(drafts, ProposedBy({a}))
    /\ UNCHANGED <<owners, groups, members, ids, appended>>

\* cascadeDeleteUser and cascadeDeleteOrg: the owner's agents one by one, then
\* what else is the owner's; policy groups stay.
DeleteOwner(o) ==
    LET orphans == {a \in DOMAIN agents : agents[a] = o}
        gone == WrittenFor(orphans)
                  \cup {p \in DOMAIN policies : policies[p].owner = o}
    IN
    /\ o \in owners
    /\ owners' = owners \ {o}
    /\ agents' = Without(agents, orphans)
    /\ policies' = Without(policies, gone)
    /\ files' = files \ gone
    /\ Drop({b \in bindings : \/ b.policy \in WrittenFor(orphans)
                              \/ b.agent \in orphans
                              \/ b.owner = o})
    /\ drafts' = Without(drafts, ProposedBy(orphans)
                   \cup {d \in DOMAIN drafts : drafts[d].owner = o})
    /\ UNCHANGED <<groups, members, ids, appended, crashes>>

-----------------------------------------------------------------------------

Known(S) == (S \cap ids) \cup {None}

Next ==
    \/ \E o \in Owner, p \in Policy, cut \in BOOLEAN,
          a \in Known(Agent), g \in Known(Group) : CreatePolicy(o, p, a, g, cut)
    \/ \E o \in Owner, p \in Policy : SavePolicy(o, p)
    \/ \E p \in Policy, cut \in BOOLEAN : DeletePolicy(p, cut)
    \/ \E o \in Owner, tier \in Tiers :
          \E order \in SetToSeqs(InTier(o, tier)) : Reorder(o, tier, order)
    \/ \E o \in Owner, p \in Policy, a \in Known(Agent) : UpsertByCli(o, p, a)
    \/ \E p \in Policy, whose \in {{o} : o \in Owner} \cup {Owner} :
          UnbindByCli(p, whose)
    \/ \E o \in Org, g \in Group : CreateGroup(o, g) \/ DeleteGroup(o, g)
    \/ \E o \in Org, g \in Group, a \in Agent :
          AddToGroup(o, g, a) \/ RemoveFromGroup(o, g, a)
    \/ \E o \in Owner, a \in Agent, p \in Known(Policy), g \in Known(Group) :
          Enrol(o, a, p, g)
    \/ \E o \in Owner, a \in Agent, p \in Policy : Bind(o, a, p) \/ Unbind(o, a, p)
    \/ \E a \in Agent, u \in User, o \in Org : Transfer(a, u, o)
    \/ \E a \in Agent, d \in Draft, target \in Known(Agent) : Propose(a, d, target)
    \/ \E d \in DOMAIN drafts, p \in Policy : ApproveDraft(d, p)
    \/ \E d \in DOMAIN drafts : DenyDraft(d)
    \/ \E a \in Agent, cut \in BOOLEAN : DeleteAgent(a, cut)
    \/ \E o \in Owner : DeleteOwner(o)

Spec == Init /\ [][Next]_vars

-----------------------------------------------------------------------------
(* What authorize consults.                                                *)

\* Mutant of Applies: bindings of other owners count as well.
AppliesAnyOwner(a, b) ==
    \/ b.agent = a
    \/ b.group # None /\ <<a, b.group>> \in members
    \/ b.agent = None /\ b.group = None

Applies(a, b) ==
    /\ b.owner = agents[a]
    /\ \/ b.agent = a
       \/ b.group # None /\ <<a, b.group>> \in members
       \/ b.agent = None /\ b.group = None

\* The bindings whose policies are merged for an agent; one without a policy
\* entry is skipped.
Layers(a) == {b \in bindings : Applies(a, b) /\ b.policy \in DOMAIN policies}

\* orderBindingsBySpecificity within one tier: by rank, then by place.
Before(b, c) == Rank(b) < Rank(c) \/ (Rank(b) = Rank(c) /\ b.at < c.at)

-----------------------------------------------------------------------------
(* Properties.                                                             *)

\* Every binding belongs to a policy of the same owner: deletions, cascades and
\* the command line leave no binding behind whose policy is gone.
BindingsBacked ==
    \A b \in bindings : OwnPolicy(b.owner, b.policy)

\* No agent is ever judged by a policy of anyone but its present owner, through
\* transfers, shared policies and unchecked command-line bindings.
OwnPoliciesOnly ==
    \A a \in DOMAIN agents : \A b \in Layers(a) : OwnPolicy(agents[a], b.policy)

\* A binding to a group always has its group, and the group has its owner: a
\* group cannot go while a rule depends on it.
GroupsBacked ==
    \A b \in bindings : b.group # None => OwnGroup(b.owner, b.group)

\* A membership is one in an existing group of the agent's own organization,
\* however enrolment, transfer and deletion of groups and agents follow.
MembersBacked ==
    \A m \in members :
        /\ m[2] \in DOMAIN groups
        /\ m[1] \in DOMAIN agents => agents[m[1]] = groups[m[2]]

\* Unless a deletion was cut by a crash, every policy entry has its file, so
\* authorize never fails on a missing one.
FilesBacked == crashes = 0 => DOMAIN policies \subseteq files

\* No reference dangles: none of the four above.
NothingDangles == BindingsBacked /\ GroupsBacked /\ MembersBacked /\ FilesBacked

\* The binding a step adds to the array, if any.
Pushed == {b \in bindings' : b.at = appended}

\* A ranked binding is pushed behind everything in its tier: a new policy never
\* overrules an older one of equal specificity.
NewestLast ==
    [][\A b \in Pushed :
         b.rank # 0 =>
            \A c \in bindings :
                c.owner = b.owner /\ TierOf(c) = TierOf(b) => Before(c, b)]_vars

\* The API binds a policy to an agent only if both have one owner at that time,
\* also when the agent changed hands since the policy was drafted.  (Bindings
\* without a rank are from drafts or the command line, which does not check.)
TargetsOwn ==
    [][\A b \in Pushed :
         b.agent # None /\ (b.rank # 0 \/ drafts' # drafts) =>
            b.agent \in DOMAIN agents' /\ agents'[b.agent] = b.owner]_vars

\* An agent loses rules by the deletion of another only if they were written
\* for that other agent, and by the deletion of an owner only of its own.
DeletionContained ==
    [][\A a \in DOMAIN agents \cap DOMAIN agents' :
         LET deleted == DOMAIN agents \ DOMAIN agents' IN
         deleted # {} =>
            \A b \in Layers(a) :
                \/ b \in bindings'
                \/ policies[b.policy].agent \in deleted]_vars

Alone(b) == \A c \in bindings :
              c.owner = b.owner /\ c.policy = b.policy /\ TierOf(c) = TierOf(b) => c = b

\* After a reorder of a tier, policies with one binding in it are evaluated in
\* the order that was asked for.
ReorderObeyed ==
    [][\A o \in Owner, tier \in Tiers :
         \A order \in SetToSeqs(InTier(o, tier)) :
            Reorder(o, tier, order) =>
                \A b, c \in InScope(o, tier)' :
                    /\ Alone(b)' /\ Alone(c)'
                    /\ Position(order, b.policy) < Position(order, c.policy)
                    => Before(b, c)]_vars

\* The documented promise: the order endpoint sets the order in which the
\* policies of a tier run, for every agent.
ReorderObeyedByAll ==
    [][\A o \in Owner, tier \in Tiers :
         \A order \in SetToSeqs(InTier(o, tier)) :
            Reorder(o, tier, order) =>
                \A a \in DOMAIN agents : \A b, c \in Layers(a)' :
                    /\ b.owner = o /\ c.owner = o
                    /\ TierOf(b) = tier /\ TierOf(c) = tier
                    /\ Position(order, b.policy) < Position(order, c.policy)
                    => Before(b, c)]_vars

=============================================================================
