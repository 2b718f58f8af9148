-------------------------- MODULE MCOrgMembership --------------------------
(* Instances of OrgMembership, Scopes and Portal for TLC: three smaller     *)
(* ones, told apart by the plan of a behaviour.                            *)
EXTENDS Portal, TLC

VARIABLE plan

\* A role that may manage and one that may not, nor read everything.
RolesUsed == {"org_admin", "org_viewer"}

FirstOrg == CHOOSE o \in Org : TRUE
FirstSlug == CHOOSE s \in Slug : TRUE

Draft == [kind |-> "draft", file |-> FirstOrg, entry |-> FirstOrg,
          open |-> FALSE, due |-> FALSE, lapsed |-> FALSE]

\* The members of one organization, their invites and the administrator.
MembersPlan == [part : {"members"}, actors : {User}]
\* The addresses of two organizations a user may belong to.
AddressPlan == [part : {"addresses"}, actors : {{u} : u \in User}]
\* The records of a user and of one organization.
RecordPlan == [part : {"records"}, actors : {{u} : u \in User}]

MCInit == PortalInit /\ plan \in MembersPlan \cup AddressPlan \cup RecordPlan

\* Addresses and records need one user and, but for addresses, one organization.
InPlan ==
    /\ UNCHANGED plan
    /\ {m.user : m \in members'} \subseteq plan.actors
    /\ \A u \in User \ plan.actors : UNCHANGED <<cookie[u]>>
    /\ UNCHANGED <<users, invites>>
    /\ plan.part = "records" => slug'[FirstOrg] \in {NoSlug, FirstSlug}

MCNext ==
    \* Names and records play no part among the members of one organization.
    \/ /\ plan.part = "members"
       /\ Next
       /\ ids' \cap Org \subseteq {FirstOrg}
       /\ crashes' = 0 \/ UNCHANGED adding
       /\ UNCHANGED <<scopeVars, records, plan>>
    \/ /\ plan.part = "addresses"
       /\ PortalNext
       /\ InPlan
       /\ UNCHANGED adding
       /\ \A m \in members' : m.role = "org_admin" /\ m.by = "creator"
       /\ \A r \in DOMAIN records' : records'[r] = Draft
    \/ /\ plan.part = "records"
       /\ PortalNext
       /\ InPlan
       /\ ids' \cap Org \subseteq {FirstOrg}

MCSpec == MCInit /\ [][MCNext]_<<portalVars, plan>>

\* Users and invites are interchangeable.
IdSymmetry == Permutations(User) \cup Permutations(Invite)
=============================================================================
