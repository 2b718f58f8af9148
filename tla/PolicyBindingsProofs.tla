------------------------ MODULE PolicyBindingsProofs ------------------------
(* Theorems about PolicyBindings, for any owners, agents, groups, policies and *)
(* drafts, and any number of bindings and crashes.                             *)
EXTENDS PolicyBindings, FiniteSetTheorems, TLAPS

\* What exists was given its id, and an id is given once.
Allotted ==
    /\ DOMAIN policies \subseteq ids
    /\ DOMAIN groups \subseteq ids
    /\ DOMAIN agents \subseteq ids
    /\ \A m \in members : m[1] \in ids

\* A binding to a group says what its policy's entry says.
GroupsTold ==
    \A b \in bindings : b.group # None => policies[b.policy].group = b.group

\* A policy for a group has its group.
GroupsHeld ==
    \A p \in DOMAIN policies :
        policies[p].group # None => OwnGroup(policies[p].owner, policies[p].group)

IInv == /\ TypeOK /\ Allotted /\ BindingsBacked /\ GroupsTold /\ GroupsHeld
        /\ MembersBacked /\ FilesBacked

-----------------------------------------------------------------------------
(* The initial state and the pieces the actions share.                         *)

LEMMA InitInv == Init => IInv
<1> SUFFICES ASSUME Init PROVE IInv
  OBVIOUS
<1>1. DOMAIN << >> = {}
  OBVIOUS
<1>2. TypeOK
  BY <1>1 DEF Init, TypeOK
<1>3. Allotted /\ BindingsBacked /\ GroupsTold /\ GroupsHeld /\ MembersBacked /\ FilesBacked
  BY <1>1 DEF Init, Allotted, BindingsBacked, GroupsTold, GroupsHeld,
              MembersBacked, FilesBacked
<1>4. QED
  BY <1>2, <1>3 DEF IInv

\* What a pushed binding looks like, whatever its rank.
LEMMA PushFact ==
    ASSUME TypeOK, NEW o \in Owner, NEW p \in Policy, NEW a \in Agent \cup {None},
           NEW g \in Group \cup {None}, NEW rank \in Nat, Push(o, p, a, g, rank)
    PROVE  \E b \in Binding :
              /\ b.owner = o /\ b.policy = p /\ b.agent = a /\ b.group = g
              /\ bindings' = bindings \cup {b}
              /\ appended' \in Nat
<1> DEFINE b == [owner |-> o, policy |-> p, agent |-> a,
                 group |-> g, rank |-> rank, at |-> appended]
<1>1. b \in Binding
  BY DEF TypeOK, Binding
<1>2. bindings' = bindings \cup {b} /\ appended' \in Nat
  BY DEF Push, TypeOK
<1>3. QED
  BY <1>1, <1>2

LEMMA PushRankedFact ==
    ASSUME TypeOK, NEW o \in Owner, NEW p \in Policy, NEW a \in Agent \cup {None},
           NEW g \in Group \cup {None}, PushRanked(o, p, a, g)
    PROVE  \E b \in Binding :
              /\ b.owner = o /\ b.policy = p /\ b.agent = a /\ b.group = g
              /\ bindings' = bindings \cup {b}
              /\ appended' \in Nat
<1>1. PICK rank \in Ranks : Push(o, p, a, g, rank)
  BY DEF PushRanked
<1>2. rank \in Nat
  BY BoundAssumption DEF Ranks
<1>3. QED
  BY <1>1, <1>2, PushFact DEF Push

LEMMA PushUnrankedFact ==
    ASSUME TypeOK, NEW o \in Owner, NEW p \in Policy, NEW a \in Agent \cup {None},
           Push(o, p, a, None, 0)
    PROVE  \E b \in Binding :
              /\ b.owner = o /\ b.policy = p /\ b.agent = a /\ b.group = None
              /\ bindings' = bindings \cup {b}
              /\ appended' \in Nat
<1>1. None \in Group \cup {None} /\ 0 \in Nat
  OBVIOUS
<1>2. QED
  BY <1>1, PushFact DEF Push

\* Bindings may go at any time: what is left is as sound as before.
LEMMA DropFact ==
    ASSUME IInv, bindings' \subseteq bindings, policies' = policies, groups' = groups
    PROVE  bindings' \subseteq Binding /\ BindingsBacked' /\ GroupsTold'
BY DEF IInv, TypeOK, BindingsBacked, GroupsTold, OwnPolicy

\* A policy is added with its binding, under an id that no policy has.
LEMMA AddPolicy ==
    ASSUME IInv, NEW o \in Owner, NEW p \in Policy, NEW a \in Agent \cup {None},
           NEW g \in Group \cup {None}, p \notin DOMAIN policies, Use(p),
           g # None => OwnGroup(o, g),
           policies' = Put(policies, p, [owner |-> o, agent |-> a, group |-> g]),
           NEW b \in Binding, b.owner = o, b.policy = p, b.group = g,
           bindings' = bindings \cup {b},
           files' = files \cup {p},
           UNCHANGED <<agents, groups, members, crashes>>
    PROVE  /\ DOMAIN policies' \subseteq Policy
           /\ policies' \in [DOMAIN policies' -> Entry]
           /\ bindings' \subseteq Binding
           /\ files' \subseteq Policy
           /\ ids' \subseteq Agent \cup Group \cup Policy \cup Draft
           /\ Allotted' /\ BindingsBacked' /\ GroupsTold' /\ GroupsHeld'
           /\ MembersBacked' /\ FilesBacked'
<1> DEFINE e == [owner |-> o, agent |-> a, group |-> g]
<1>1. e \in Entry
  BY DEF Entry
<1>2. p \notin DOMAIN policies /\ ids' = ids \cup {p}
  BY DEF Use
<1>3. /\ DOMAIN policies' = DOMAIN policies \cup {p}
      /\ policies'[p] = e
      /\ \A q \in DOMAIN policies : policies'[q] = policies[q]
  BY <1>2 DEF Put
<1>4. /\ DOMAIN policies' \subseteq Policy
      /\ policies' \in [DOMAIN policies' -> Entry]
  BY <1>1 DEF Put, IInv, TypeOK
<1>5. /\ bindings' \subseteq Binding /\ files' \subseteq Policy
      /\ ids' \subseteq Agent \cup Group \cup Policy \cup Draft
  BY <1>2 DEF IInv, TypeOK
<1>6. Allotted'
  BY <1>2, <1>3 DEF IInv, Allotted
<1>7. BindingsBacked'
  BY <1>3 DEF IInv, BindingsBacked, OwnPolicy
<1>8. GroupsTold'
  BY <1>3 DEF IInv, GroupsTold, BindingsBacked, OwnPolicy
<1>9. GroupsHeld'
  BY <1>3 DEF IInv, GroupsHeld, OwnGroup
<1>10. MembersBacked'
  BY DEF IInv, MembersBacked
<1>11. FilesBacked'
  BY <1>3 DEF IInv, FilesBacked
<1>12. QED
  BY <1>4, <1>5, <1>6, <1>7, <1>8, <1>9, <1>10, <1>11

\* Policies go with their files and all their bindings.
LEMMA RemovePolicies ==
    ASSUME IInv, NEW gone, policies' = Without(policies, gone),
           files' = files \ gone,
           bindings' \subseteq bindings,
           \A b \in bindings' : b.policy \notin gone,
           UNCHANGED <<groups, members, ids, crashes>>,
           DOMAIN agents' \subseteq DOMAIN agents,
           \A a \in DOMAIN agents' : agents'[a] = agents[a]
    PROVE  /\ DOMAIN policies' \subseteq Policy
           /\ policies' \in [DOMAIN policies' -> Entry]
           /\ bindings' \subseteq Binding
           /\ files' \subseteq Policy
           /\ Allotted' /\ BindingsBacked' /\ GroupsTold' /\ GroupsHeld'
           /\ MembersBacked' /\ FilesBacked'
<1>1. /\ DOMAIN policies' = DOMAIN policies \ gone
      /\ \A q \in DOMAIN policies' : policies'[q] = policies[q]
  BY DEF Without
<1>2. /\ DOMAIN policies' \subseteq Policy
      /\ policies' \in [DOMAIN policies' -> Entry]
  BY DEF Without, IInv, TypeOK
<1>3. bindings' \subseteq Binding /\ files' \subseteq Policy
  BY DEF IInv, TypeOK
<1>4. Allotted'
  BY <1>1 DEF IInv, Allotted
<1>5. BindingsBacked' /\ GroupsTold'
  BY <1>1 DEF IInv, BindingsBacked, GroupsTold, OwnPolicy
<1>6. GroupsHeld'
  BY <1>1 DEF IInv, GroupsHeld, OwnGroup
<1>7. MembersBacked'
  BY DEF IInv, MembersBacked
<1>8. FilesBacked'
  BY <1>1 DEF IInv, FilesBacked
<1>9. QED
  BY <1>2, <1>3, <1>4, <1>5, <1>6, <1>7, <1>8

-----------------------------------------------------------------------------
(* One lemma per kind of step.                                                 *)

LEMMA CreatePolicyStep ==
    ASSUME IInv, NEW o \in Owner, NEW p \in Policy, NEW cut \in BOOLEAN,
           NEW a \in Agent \cup {None}, NEW g \in Group \cup {None},
           CreatePolicy(o, p, a, g, cut)
    PROVE  IInv'
<1>1. CASE ~cut
  <2>1. PushRanked(o, p, a, g) /\ crashes' = crashes
    BY <1>1 DEF CreatePolicy, Crashed
  <2>2. PICK b \in Binding :
          /\ b.owner = o /\ b.policy = p /\ b.agent = a /\ b.group = g
          /\ bindings' = bindings \cup {b}
          /\ appended' \in Nat
    BY <2>1, PushRankedFact DEF IInv, PushRanked, Push
  <2>3. /\ p \notin DOMAIN policies /\ Use(p) /\ files' = files \cup {p}
        /\ g # None => OwnGroup(o, g)
        /\ policies' = Put(policies, p, [owner |-> o, agent |-> a, group |-> g])
        /\ UNCHANGED <<owners, agents, groups, members, drafts>>
    BY <1>1 DEF CreatePolicy, Fresh, IInv, Allotted
  <2>4. /\ DOMAIN policies' \subseteq Policy
        /\ policies' \in [DOMAIN policies' -> Entry]
        /\ bindings' \subseteq Binding
        /\ files' \subseteq Policy
        /\ ids' \subseteq Agent \cup Group \cup Policy \cup Draft
        /\ Allotted' /\ BindingsBacked' /\ GroupsTold' /\ GroupsHeld'
        /\ MembersBacked' /\ FilesBacked'
    BY <2>1, <2>2, <2>3, AddPolicy
       DEF Use, Put, OwnGroup
  <2>5. QED
    BY <2>1, <2>2, <2>3, <2>4 DEF IInv, TypeOK
<1>2. CASE cut
  <2>1. /\ files' = files \cup {p} /\ ids' = ids \cup {p}
        /\ crashes' = crashes + 1
        /\ UNCHANGED <<owners, agents, groups, members, policies, bindings,
                       appended, drafts>>
    BY <1>2 DEF CreatePolicy, Use, Crashed
  <2>2. QED
    BY <2>1 DEF IInv, TypeOK, Allotted, BindingsBacked, GroupsTold, GroupsHeld,
                MembersBacked, FilesBacked, OwnPolicy, OwnGroup
<1>3. QED
  BY <1>1, <1>2

LEMMA SavePolicyStep ==
    ASSUME IInv, NEW o \in Owner, NEW p \in Policy, SavePolicy(o, p)
    PROVE  IInv'
BY DEF SavePolicy, IInv, TypeOK, Allotted, BindingsBacked, GroupsTold, GroupsHeld,
       MembersBacked, FilesBacked, OwnPolicy, OwnGroup

\* What a torn deletion leaves: files gone, and a crash to show for it.
LEMMA TornStep ==
    ASSUME IInv, files' \subseteq files, crashes' = crashes + 1,
           UNCHANGED <<owners, agents, groups, members, policies, bindings,
                       drafts, ids, appended>>
    PROVE  IInv'
BY DEF IInv, TypeOK, Allotted, BindingsBacked, GroupsTold, GroupsHeld,
       MembersBacked, FilesBacked, OwnPolicy, OwnGroup

LEMMA DeletePolicyStep ==
    ASSUME IInv, NEW p \in Policy, NEW cut \in BOOLEAN, DeletePolicy(p, cut)
    PROVE  IInv'
<1>1. CASE ~cut
  <2>1. /\ policies' = Without(policies, {p})
        /\ files' = files \ {p}
        /\ bindings' = bindings \ {b \in bindings : b.policy = p}
        /\ UNCHANGED <<owners, agents, groups, members, drafts, ids, appended, crashes>>
    BY <1>1 DEF DeletePolicy, Crashed, Drop
  <2>2. bindings' \subseteq bindings /\ \A b \in bindings' : b.policy \notin {p}
    BY <2>1
  <2>3. /\ DOMAIN policies' \subseteq Policy
        /\ policies' \in [DOMAIN policies' -> Entry]
        /\ bindings' \subseteq Binding
        /\ files' \subseteq Policy
        /\ Allotted' /\ BindingsBacked' /\ GroupsTold' /\ GroupsHeld'
        /\ MembersBacked' /\ FilesBacked'
    BY <2>1, <2>2, RemovePolicies DEF Without
  <2>4. QED
    BY <2>1, <2>3 DEF IInv, TypeOK
<1>2. CASE cut
  BY <1>2, TornStep DEF DeletePolicy, Crashed
<1>3. QED
  BY <1>1, <1>2

\* A reorder changes ranks only.
LEMMA ReorderStep ==
    ASSUME IInv, NEW o \in Owner, NEW tier \in Tiers,
           NEW order \in SetToSeqs(InTier(o, tier)), Reorder(o, tier, order)
    PROVE  IInv'
<1>1. /\ bindings' = {Reranked(b, o, tier, order) : b \in bindings}
      /\ UNCHANGED <<owners, agents, groups, members, policies, files, drafts,
                     ids, appended, crashes>>
  BY DEF Reorder
<1>2. DOMAIN order \subseteq Nat
  BY DEF SetToSeqs
<1>3. ASSUME NEW b \in bindings
      PROVE  LET c == Reranked(b, o, tier, order) IN
             c \in Binding /\ c.owner = b.owner /\ c.policy = b.policy /\ c.group = b.group
  <2>1. b \in Binding
    BY DEF IInv, TypeOK
  <2>2. CASE IsReranked(b, o, tier, order)
    <3>1. Position(order, b.policy) \in Nat
      BY <1>2, <2>2 DEF IsReranked, Position
    <3>2. Reranked(b, o, tier, order) = [b EXCEPT !.rank = Position(order, b.policy)]
      BY <2>2 DEF Reranked
    <3>3. QED
      BY <2>1, <3>1, <3>2 DEF Binding
  <2>3. CASE ~IsReranked(b, o, tier, order)
    BY <2>1, <2>3 DEF Reranked
  <2>4. QED
    BY <2>2, <2>3
<1>4. \A c \in bindings' : \E b \in bindings :
         c \in Binding /\ c.owner = b.owner /\ c.policy = b.policy /\ c.group = b.group
  BY <1>1, <1>3
<1>5. bindings' \subseteq Binding /\ BindingsBacked' /\ GroupsTold'
  BY <1>1, <1>4 DEF IInv, BindingsBacked, GroupsTold, OwnPolicy
<1>6. QED
  BY <1>1, <1>5 DEF IInv, TypeOK, Allotted, GroupsHeld, MembersBacked, FilesBacked, OwnGroup

\* A policy comes with a binding that has no rank.
LEMMA AddUnranked ==
    ASSUME IInv, NEW o \in Owner, NEW p \in Policy, NEW a \in Agent \cup {None},
           p \notin DOMAIN policies, Use(p), files' = files \cup {p},
           policies' = Put(policies, p, [owner |-> o, agent |-> a, group |-> None]),
           Push(o, p, a, None, 0),
           UNCHANGED <<owners, agents, groups, members, crashes>>,
           DOMAIN drafts' \subseteq Draft, drafts' \in [DOMAIN drafts' -> DraftFile]
    PROVE  IInv'
<1>1. PICK b \in Binding :
        /\ b.owner = o /\ b.policy = p /\ b.agent = a /\ b.group = None
        /\ bindings' = bindings \cup {b}
        /\ appended' \in Nat
  <2>1. TypeOK
    BY DEF IInv
  <2>2. QED
    BY <2>1, PushUnrankedFact DEF Push
<1>2. /\ DOMAIN policies' \subseteq Policy
      /\ policies' \in [DOMAIN policies' -> Entry]
      /\ bindings' \subseteq Binding
      /\ files' \subseteq Policy
      /\ ids' \subseteq Agent \cup Group \cup Policy \cup Draft
      /\ Allotted' /\ BindingsBacked' /\ GroupsTold' /\ GroupsHeld'
      /\ MembersBacked' /\ FilesBacked'
  BY <1>1, AddPolicy DEF Use, Put, OwnGroup
<1>3. QED
  BY <1>1, <1>2 DEF IInv, TypeOK

LEMMA UpsertByCliStep ==
    ASSUME IInv, NEW o \in Owner, NEW p \in Policy, NEW a \in Agent \cup {None},
           UpsertByCli(o, p, a)
    PROVE  IInv'
<1>1. CASE p \in DOMAIN policies
  <2>1. /\ files' = files \cup {p}
        /\ UNCHANGED <<owners, agents, groups, members, policies, bindings, ids,
                       appended, drafts, crashes>>
    BY <1>1 DEF UpsertByCli
  <2>2. QED
    BY <2>1 DEF IInv, TypeOK, Allotted, BindingsBacked, GroupsTold, GroupsHeld,
                MembersBacked, FilesBacked, OwnPolicy, OwnGroup
<1>2. CASE p \notin DOMAIN policies
  <2>1. /\ Use(p) /\ files' = files \cup {p}
        /\ policies' = Put(policies, p, [owner |-> o, agent |-> a, group |-> None])
        /\ Push(o, p, a, None, 0)
        /\ UNCHANGED <<owners, agents, groups, members, drafts, crashes>>
    BY <1>2 DEF UpsertByCli
  <2>2. DOMAIN drafts' \subseteq Draft /\ drafts' \in [DOMAIN drafts' -> DraftFile]
    BY <2>1 DEF IInv, TypeOK
  <2>3. QED
    BY <1>2, <2>1, <2>2, AddUnranked DEF Use, Put, Push
<1>3. QED
  BY <1>1, <1>2

\* Steps that only take bindings away.
LEMMA DropStep ==
    ASSUME IInv, bindings' \subseteq bindings,
           UNCHANGED <<owners, agents, groups, members, policies, files, drafts,
                       ids, appended, crashes>>
    PROVE  IInv'
BY DropFact DEF IInv, TypeOK, Allotted, GroupsHeld, MembersBacked, FilesBacked, OwnGroup

LEMMA CreateGroupStep ==
    ASSUME IInv, NEW o \in Org, NEW g \in Group, CreateGroup(o, g)
    PROVE  IInv'
<1>1. /\ g \notin DOMAIN groups
      /\ ids' = ids \cup {g}
      /\ groups' = Put(groups, g, o)
      /\ UNCHANGED <<owners, agents, members, policies, files, bindings, drafts,
                     appended, crashes>>
  BY DEF CreateGroup, IInv, Allotted, Fresh, Use
<1>2. /\ DOMAIN groups' = DOMAIN groups \cup {g}
      /\ \A h \in DOMAIN groups : groups'[h] = groups[h]
      /\ DOMAIN groups' \subseteq Group /\ groups' \in [DOMAIN groups' -> Org]
  BY <1>1 DEF Put, IInv, TypeOK
<1>3. TypeOK' /\ Allotted'
  BY <1>1, <1>2 DEF IInv, TypeOK, Allotted
<1>4. BindingsBacked' /\ GroupsTold' /\ FilesBacked'
  BY <1>1 DEF IInv, BindingsBacked, GroupsTold, FilesBacked, OwnPolicy
<1>5. GroupsHeld' /\ MembersBacked'
  BY <1>1, <1>2 DEF IInv, GroupsHeld, MembersBacked, OwnGroup
<1>6. QED
  BY <1>3, <1>4, <1>5 DEF IInv

\* The guard on the organization's policies is enough: a policy for the group
\* belongs to the group's owner.
LEMMA DeleteGroupStep ==
    ASSUME IInv, NEW o \in Org, NEW g \in Group, DeleteGroup(o, g)
    PROVE  IInv'
<1>1. /\ OwnGroup(o, g)
      /\ \A p \in DOMAIN policies : policies[p].owner = o => policies[p].group # g
      /\ members' = {m \in members : m[2] # g}
      /\ groups' = Without(groups, {g})
      /\ UNCHANGED <<owners, agents, policies, files, bindings, drafts,
                     ids, appended, crashes>>
  BY DEF DeleteGroup
<1>2. /\ DOMAIN groups' = DOMAIN groups \ {g}
      /\ \A h \in DOMAIN groups' : groups'[h] = groups[h]
      /\ DOMAIN groups' \subseteq Group /\ groups' \in [DOMAIN groups' -> Org]
  BY <1>1 DEF Without, IInv, TypeOK
<1>3. TypeOK' /\ Allotted'
  BY <1>1, <1>2 DEF IInv, TypeOK, Allotted
<1>4. BindingsBacked' /\ GroupsTold' /\ FilesBacked'
  BY <1>1 DEF IInv, BindingsBacked, GroupsTold, FilesBacked, OwnPolicy
<1>5. \A p \in DOMAIN policies : policies[p].group # g
  <2>1. NoneAssumption /\ g # None
    BY NoneAssumption DEF NoneAssumption
  <2>2. QED
    BY <1>1, <2>1 DEF IInv, GroupsHeld, OwnGroup
<1>6. GroupsHeld' /\ MembersBacked'
  BY <1>1, <1>2, <1>5 DEF IInv, GroupsHeld, MembersBacked, OwnGroup
<1>7. QED
  BY <1>3, <1>4, <1>6 DEF IInv

LEMMA AddToGroupStep ==
    ASSUME IInv, NEW o \in Org, NEW g \in Group, NEW a \in Agent, AddToGroup(o, g, a)
    PROVE  IInv'
BY DEF AddToGroup, OwnAgent, IInv, TypeOK, Allotted, BindingsBacked, GroupsTold,
       GroupsHeld, MembersBacked, FilesBacked, OwnPolicy, OwnGroup

LEMMA RemoveFromGroupStep ==
    ASSUME IInv, NEW o \in Org, NEW g \in Group, NEW a \in Agent,
           RemoveFromGroup(o, g, a)
    PROVE  IInv'
BY DEF RemoveFromGroup, IInv, TypeOK, Allotted, BindingsBacked, GroupsTold,
       GroupsHeld, MembersBacked, FilesBacked, OwnPolicy, OwnGroup

\* A binding is added to a policy of its owner.
LEMMA AddBinding ==
    ASSUME IInv, NEW b \in Binding, bindings' = bindings \cup {b},
           OwnPolicy(b.owner, b.policy), b.group = None,
           policies' = policies, groups' = groups
    PROVE  bindings' \subseteq Binding /\ BindingsBacked' /\ GroupsTold'
BY DEF IInv, TypeOK, BindingsBacked, GroupsTold, OwnPolicy

LEMMA BindStep ==
    ASSUME IInv, NEW o \in Owner, NEW a \in Agent, NEW p \in Policy, Bind(o, a, p)
    PROVE  IInv'
<1>1. /\ OwnPolicy(o, p)
      /\ PushRanked(o, p, a, None)
      /\ UNCHANGED <<owners, agents, groups, members, policies, files, drafts,
                     ids, crashes>>
  BY DEF Bind
<1>2. PICK b \in Binding :
        /\ b.owner = o /\ b.policy = p /\ b.agent = a /\ b.group = None
        /\ bindings' = bindings \cup {b}
        /\ appended' \in Nat
  BY <1>1, PushRankedFact DEF IInv, PushRanked, Push
<1>3. bindings' \subseteq Binding /\ BindingsBacked' /\ GroupsTold'
  BY <1>1, <1>2, AddBinding DEF OwnPolicy
<1>4. QED
  BY <1>1, <1>2, <1>3 DEF IInv, TypeOK, Allotted, GroupsHeld, MembersBacked,
                          FilesBacked, OwnGroup

\* A new agent has no membership left over: its id is new.
LEMMA EnrolStep ==
    ASSUME IInv, NEW o \in Owner, NEW a \in Agent, NEW p \in Policy \cup {None},
           NEW g \in Group \cup {None}, Enrol(o, a, p, g)
    PROVE  IInv'
<1>1. /\ a \notin ids
      /\ ids' = ids \cup {a}
      /\ agents' = Put(agents, a, o)
      /\ IF OwnPolicy(o, p) THEN PushRanked(o, p, a, None)
         ELSE UNCHANGED <<bindings, appended>>
      /\ members' = IF OwnGroup(o, g) THEN members \cup {<<a, g>>} ELSE members
      /\ UNCHANGED <<owners, groups, policies, files, drafts, crashes>>
  BY DEF Enrol, Fresh, Use
<1>2. /\ DOMAIN agents' = DOMAIN agents \cup {a}
      /\ agents'[a] = o
      /\ \A x \in DOMAIN agents : agents'[x] = agents[x]
      /\ DOMAIN agents' \subseteq Agent /\ agents' \in [DOMAIN agents' -> Owner]
  BY <1>1 DEF Put, IInv, TypeOK, Allotted
<1>3. bindings' \subseteq Binding /\ BindingsBacked' /\ GroupsTold' /\ appended' \in Nat
  <2>1. CASE OwnPolicy(o, p)
    <3>1. p \in Policy
      BY <2>1 DEF OwnPolicy, IInv, TypeOK
    <3>2. PushRanked(o, p, a, None)
      BY <1>1, <2>1
    <3>3. PICK b \in Binding :
            /\ b.owner = o /\ b.policy = p /\ b.agent = a /\ b.group = None
            /\ bindings' = bindings \cup {b}
            /\ appended' \in Nat
      BY <3>1, <3>2, PushRankedFact DEF IInv, PushRanked, Push
    <3>4. QED
      BY <1>1, <2>1, <3>3, AddBinding DEF OwnPolicy
  <2>2. CASE ~OwnPolicy(o, p)
    BY <1>1, <2>2 DEF IInv, TypeOK, BindingsBacked, GroupsTold, OwnPolicy
  <2>3. QED
    BY <2>1, <2>2
<1>4. members' \subseteq Agent \X Group
  BY <1>1 DEF OwnGroup, IInv, TypeOK
<1>5. TypeOK'
  BY <1>1, <1>2, <1>3, <1>4 DEF IInv, TypeOK
<1>6. Allotted'
  BY <1>1, <1>2 DEF IInv, Allotted
<1>7. MembersBacked'
  <2>1. \A m \in members : m[1] # a
    BY <1>1 DEF IInv, Allotted
  <2>2. \A m \in members' : m \in members \/ (m = <<a, g>> /\ OwnGroup(o, g))
    BY <1>1
  <2>3. QED
    BY <1>1, <1>2, <2>1, <2>2 DEF IInv, MembersBacked, OwnGroup
<1>8. GroupsHeld' /\ FilesBacked'
  BY <1>1 DEF IInv, GroupsHeld, FilesBacked, OwnGroup
<1>9. QED
  BY <1>3, <1>5, <1>6, <1>7, <1>8 DEF IInv

\* A user's agent is in no group: groups are organizations'.
LEMMA TransferStep ==
    ASSUME IInv, NEW a \in Agent, NEW u \in User, NEW o \in Org, Transfer(a, u, o)
    PROVE  IInv'
<1>1. /\ a \in DOMAIN agents /\ agents[a] = u
      /\ agents' = [agents EXCEPT ![a] = o]
      /\ UNCHANGED <<owners, groups, members, policies, files, bindings, drafts,
                     ids, appended, crashes>>
  BY DEF Transfer, OwnAgent
<1>2. /\ DOMAIN agents' = DOMAIN agents
      /\ \A x \in DOMAIN agents : x # a => agents'[x] = agents[x]
      /\ agents' \in [DOMAIN agents' -> Owner]
  BY <1>1 DEF IInv, TypeOK, Owner
<1>3. \A m \in members : m[1] # a
  <2>1. User \cap Org = {}
    BY OwnerAssumption DEF OwnerAssumption
  <2>2. \A m \in members : groups[m[2]] \in Org
    BY DEF IInv, MembersBacked, TypeOK
  <2>3. QED
    BY <1>1, <2>1, <2>2 DEF IInv, MembersBacked
<1>4. MembersBacked'
  BY <1>1, <1>2, <1>3 DEF IInv, MembersBacked
<1>5. QED
  BY <1>1, <1>2, <1>4 DEF IInv, TypeOK, Allotted, BindingsBacked, GroupsTold,
                          GroupsHeld, FilesBacked, OwnPolicy, OwnGroup

LEMMA ProposeStep ==
    ASSUME IInv, NEW a \in Agent, NEW d \in Draft, NEW target \in Agent \cup {None},
           Propose(a, d, target)
    PROVE  IInv'
<1>1. /\ a \in DOMAIN agents
      /\ ids' = ids \cup {d}
      /\ drafts' = Put(drafts, d, [owner |-> agents[a], by |-> a,
                                   agent |-> target, status |-> "PENDING"])
      /\ UNCHANGED <<owners, agents, groups, members, policies, files, bindings,
                     appended, crashes>>
  BY DEF Propose, Use
<1>2. [owner |-> agents[a], by |-> a, agent |-> target, status |-> "PENDING"] \in DraftFile
  BY <1>1 DEF DraftFile, IInv, TypeOK
<1>3. DOMAIN drafts' \subseteq Draft /\ drafts' \in [DOMAIN drafts' -> DraftFile]
  BY <1>1, <1>2 DEF Put, IInv, TypeOK
<1>4. TypeOK' /\ Allotted'
  BY <1>1, <1>3 DEF IInv, TypeOK, Allotted
<1>5. QED
  BY <1>1, <1>4 DEF IInv, BindingsBacked, GroupsTold, GroupsHeld, MembersBacked,
                    FilesBacked, OwnPolicy, OwnGroup

\* Closing a draft leaves it a draft.
LEMMA ClosedDraft ==
    ASSUME TypeOK, NEW d \in DOMAIN drafts, NEW s \in {"APPROVED", "DENIED"},
           drafts' = [drafts EXCEPT ![d].status = s]
    PROVE  DOMAIN drafts' \subseteq Draft /\ drafts' \in [DOMAIN drafts' -> DraftFile]
BY DEF TypeOK, DraftFile

LEMMA ApproveDraftStep ==
    ASSUME IInv, NEW d \in DOMAIN drafts, NEW p \in Policy, ApproveDraft(d, p)
    PROVE  IInv'
<1>1. drafts[d].owner \in Owner /\ drafts[d].agent \in Agent \cup {None}
  BY DEF IInv, TypeOK, DraftFile
<1>2. PICK o \in Owner, a \in Agent \cup {None} :
        /\ p \notin DOMAIN policies /\ Use(p) /\ files' = files \cup {p}
        /\ policies' = Put(policies, p, [owner |-> o, agent |-> a, group |-> None])
        /\ Push(o, p, a, None, 0)
        /\ UNCHANGED <<owners, agents, groups, members, crashes>>
  BY <1>1 DEF ApproveDraft, Fresh, IInv, Allotted
<1>3. DOMAIN drafts' \subseteq Draft /\ drafts' \in [DOMAIN drafts' -> DraftFile]
  BY ClosedDraft DEF ApproveDraft, IInv
<1>4. QED
  BY <1>2, <1>3, AddUnranked DEF Use, Put, Push

LEMMA DenyDraftStep ==
    ASSUME IInv, NEW d \in DOMAIN drafts, DenyDraft(d)
    PROVE  IInv'
<1>1. /\ drafts' = [drafts EXCEPT ![d].status = "DENIED"]
      /\ UNCHANGED <<owners, agents, groups, members, policies, files, bindings,
                     ids, appended, crashes>>
  BY DEF DenyDraft
<1>2. DOMAIN drafts' \subseteq Draft /\ drafts' \in [DOMAIN drafts' -> DraftFile]
  BY <1>1, ClosedDraft DEF IInv
<1>3. QED
  BY <1>1, <1>2 DEF IInv, TypeOK, Allotted, BindingsBacked, GroupsTold, GroupsHeld,
                    MembersBacked, FilesBacked, OwnPolicy, OwnGroup

LEMMA WithoutAgents ==
    ASSUME TypeOK, NEW S, agents' = Without(agents, S)
    PROVE  /\ DOMAIN agents' \subseteq DOMAIN agents
           /\ \A a \in DOMAIN agents' : agents'[a] = agents[a]
           /\ DOMAIN agents' \subseteq Agent /\ agents' \in [DOMAIN agents' -> Owner]
BY DEF TypeOK, Without

LEMMA WithoutDrafts ==
    ASSUME TypeOK, NEW S, drafts' = Without(drafts, S)
    PROVE  DOMAIN drafts' \subseteq Draft /\ drafts' \in [DOMAIN drafts' -> DraftFile]
BY DEF TypeOK, Without

LEMMA DeleteAgentStep ==
    ASSUME IInv, NEW a \in Agent, NEW cut \in BOOLEAN, DeleteAgent(a, cut)
    PROVE  IInv'
<1> DEFINE gone == WrittenFor({a})
<1>1. CASE ~cut
  <2>1. /\ agents' = Without(agents, {a})
        /\ policies' = Without(policies, gone)
        /\ files' = files \ gone
        /\ bindings' = bindings \ {b \in bindings : b.policy \in gone \/ b.agent = a}
        /\ drafts' = Without(drafts, ProposedBy({a}))
        /\ UNCHANGED <<owners, groups, members, ids, appended, crashes>>
    BY <1>1 DEF DeleteAgent, Crashed, Drop
  <2> HIDE DEF gone
  <2>2. bindings' \subseteq bindings /\ \A b \in bindings' : b.policy \notin gone
    BY <2>1
  <2>3. /\ DOMAIN agents' \subseteq DOMAIN agents
        /\ \A x \in DOMAIN agents' : agents'[x] = agents[x]
        /\ DOMAIN agents' \subseteq Agent /\ agents' \in [DOMAIN agents' -> Owner]
    BY <2>1, WithoutAgents DEF Without, IInv
  <2>4. DOMAIN drafts' \subseteq Draft /\ drafts' \in [DOMAIN drafts' -> DraftFile]
    BY <2>1, WithoutDrafts DEF Without, IInv
  <2>5. /\ DOMAIN policies' \subseteq Policy
        /\ policies' \in [DOMAIN policies' -> Entry]
        /\ bindings' \subseteq Binding
        /\ files' \subseteq Policy
        /\ Allotted' /\ BindingsBacked' /\ GroupsTold' /\ GroupsHeld'
        /\ MembersBacked' /\ FilesBacked'
    BY <2>1, <2>2, <2>3, RemovePolicies DEF Without
  <2>6. QED
    BY <2>1, <2>3, <2>4, <2>5 DEF IInv, TypeOK
<1>2. CASE cut
  <2>1. /\ files' \subseteq files /\ crashes' = crashes + 1
        /\ UNCHANGED <<owners, agents, groups, members, policies, bindings,
                       drafts, ids, appended>>
    BY <1>2 DEF DeleteAgent, Crashed
  <2>2. QED
    BY <2>1, TornStep
<1>3. QED
  BY <1>1, <1>2

\* The owner's policies lose their bindings although the code only looks for
\* bindings of the owner: there are no others.
LEMMA DeleteOwnerStep ==
    ASSUME IInv, NEW o \in Owner, DeleteOwner(o)
    PROVE  IInv'
<1> DEFINE orphans == {a \in DOMAIN agents : agents[a] = o}
           theirs == WrittenFor(orphans)
           own == {p \in DOMAIN policies : policies[p].owner = o}
           gone == theirs \cup own
           left == ProposedBy(orphans) \cup {d \in DOMAIN drafts : drafts[d].owner = o}
<1>1. /\ owners' = owners \ {o}
      /\ agents' = Without(agents, orphans)
      /\ policies' = Without(policies, gone)
      /\ files' = files \ gone
      /\ bindings' = bindings \ {b \in bindings : \/ b.policy \in theirs
                                                  \/ b.agent \in orphans
                                                  \/ b.owner = o}
      /\ drafts' = Without(drafts, left)
      /\ UNCHANGED <<groups, members, ids, appended, crashes>>
  BY DEF DeleteOwner, Drop
<1>2. bindings' \subseteq bindings /\ \A b \in bindings' : b.policy \notin gone
  <2> HIDE DEF theirs, orphans, left
  <2>1. ASSUME NEW b \in bindings' PROVE b.policy \notin own
    BY <1>1, <2>1 DEF IInv, BindingsBacked, OwnPolicy
  <2>2. QED
    BY <1>1, <2>1
<1> HIDE DEF gone, theirs, own, orphans, left
<1>3. /\ DOMAIN agents' \subseteq DOMAIN agents
      /\ \A x \in DOMAIN agents' : agents'[x] = agents[x]
      /\ DOMAIN agents' \subseteq Agent /\ agents' \in [DOMAIN agents' -> Owner]
  BY <1>1, WithoutAgents DEF Without, IInv
<1>4. DOMAIN drafts' \subseteq Draft /\ drafts' \in [DOMAIN drafts' -> DraftFile]
  BY <1>1, WithoutDrafts DEF Without, IInv
<1>5. /\ DOMAIN policies' \subseteq Policy
      /\ policies' \in [DOMAIN policies' -> Entry]
      /\ bindings' \subseteq Binding
      /\ files' \subseteq Policy
      /\ Allotted' /\ BindingsBacked' /\ GroupsTold' /\ GroupsHeld'
      /\ MembersBacked' /\ FilesBacked'
  BY <1>1, <1>2, <1>3, RemovePolicies DEF Without
<1>6. QED
  BY <1>1, <1>3, <1>4, <1>5 DEF IInv, TypeOK

-----------------------------------------------------------------------------
(* The invariant.                                                              *)

LEMMA StutterStep == ASSUME IInv, UNCHANGED vars PROVE IInv'
BY DEF vars, IInv, TypeOK, Allotted, BindingsBacked, GroupsTold, GroupsHeld,
       MembersBacked, FilesBacked, OwnPolicy, OwnGroup

LEMMA NextStep == IInv /\ [Next]_vars => IInv'
<1> SUFFICES ASSUME IInv, [Next]_vars PROVE IInv'
  OBVIOUS
<1>1. ASSUME NEW o \in Owner, NEW p \in Policy, NEW cut \in BOOLEAN,
             NEW a \in Known(Agent), NEW g \in Known(Group), CreatePolicy(o, p, a, g, cut)
      PROVE  IInv'
  <2>1. a \in Agent \cup {None} /\ g \in Group \cup {None}
    BY DEF Known
  <2>2. QED
    BY <1>1, <2>1, CreatePolicyStep
<1>2. ASSUME NEW o \in Owner, NEW p \in Policy, SavePolicy(o, p) PROVE IInv'
  BY <1>2, SavePolicyStep
<1>3. ASSUME NEW p \in Policy, NEW cut \in BOOLEAN, DeletePolicy(p, cut) PROVE IInv'
  BY <1>3, DeletePolicyStep
<1>4. ASSUME NEW o \in Owner, NEW tier \in Tiers,
             NEW order \in SetToSeqs(InTier(o, tier)), Reorder(o, tier, order)
      PROVE  IInv'
  BY <1>4, ReorderStep
<1>5. ASSUME NEW o \in Owner, NEW p \in Policy, NEW a \in Known(Agent),
             UpsertByCli(o, p, a)
      PROVE  IInv'
  <2>1. a \in Agent \cup {None}
    BY DEF Known
  <2>2. QED
    BY <1>5, <2>1, UpsertByCliStep
<1>6. ASSUME NEW p \in Policy, NEW whose, UnbindByCli(p, whose) PROVE IInv'
  BY <1>6, DropStep DEF UnbindByCli, Drop
<1>7. ASSUME NEW o \in Org, NEW g \in Group, CreateGroup(o, g) \/ DeleteGroup(o, g)
      PROVE  IInv'
  BY <1>7, CreateGroupStep, DeleteGroupStep
<1>8. ASSUME NEW o \in Org, NEW g \in Group, NEW a \in Agent,
             AddToGroup(o, g, a) \/ RemoveFromGroup(o, g, a)
      PROVE  IInv'
  BY <1>8, AddToGroupStep, RemoveFromGroupStep
<1>9. ASSUME NEW o \in Owner, NEW a \in Agent, NEW p \in Known(Policy),
             NEW g \in Known(Group), Enrol(o, a, p, g)
      PROVE  IInv'
  <2>1. p \in Policy \cup {None} /\ g \in Group \cup {None}
    BY DEF Known
  <2>2. QED
    BY <1>9, <2>1, EnrolStep
<1>10. ASSUME NEW o \in Owner, NEW a \in Agent, NEW p \in Policy,
              Bind(o, a, p) \/ Unbind(o, a, p)
       PROVE  IInv'
  <2>1. CASE Bind(o, a, p)
    BY <2>1, BindStep
  <2>2. CASE Unbind(o, a, p)
    BY <2>2, DropStep DEF Unbind, Drop
  <2>3. QED
    BY <1>10, <2>1, <2>2
<1>11. ASSUME NEW a \in Agent, NEW u \in User, NEW o \in Org, Transfer(a, u, o)
       PROVE  IInv'
  BY <1>11, TransferStep
<1>12. ASSUME NEW a \in Agent, NEW d \in Draft, NEW target \in Known(Agent),
              Propose(a, d, target)
       PROVE  IInv'
  <2>1. target \in Agent \cup {None}
    BY DEF Known
  <2>2. QED
    BY <1>12, <2>1, ProposeStep
<1>13. ASSUME NEW d \in DOMAIN drafts, NEW p \in Policy, ApproveDraft(d, p) PROVE IInv'
  BY <1>13, ApproveDraftStep
<1>14. ASSUME NEW d \in DOMAIN drafts, DenyDraft(d) PROVE IInv'
  BY <1>14, DenyDraftStep
<1>15. ASSUME NEW a \in Agent, NEW cut \in BOOLEAN, DeleteAgent(a, cut) PROVE IInv'
  BY <1>15, DeleteAgentStep
<1>16. ASSUME NEW o \in Owner, DeleteOwner(o) PROVE IInv'
  BY <1>16, DeleteOwnerStep
<1>17. CASE UNCHANGED vars
  BY <1>17, StutterStep
<1>18. QED
  BY <1>1, <1>2, <1>3, <1>4, <1>5, <1>6, <1>7, <1>8, <1>9, <1>10, <1>11,
     <1>12, <1>13, <1>14, <1>15, <1>16, <1>17 DEF Next

\* The inductive invariant holds in every reachable state of the policy store,
\* whatever the handlers, the cascades, the command line and crashes do.
THEOREM Invariance == Spec => []IInv
BY InitInv, NextStep, PTL DEF Spec

\* Every variable of the store keeps its type.
THEOREM TypeCorrect == Spec => []TypeOK
BY Invariance, PTL DEF IInv

\* Deletions, cascades and the command line leave no binding whose policy is
\* gone or belongs to someone else.
THEOREM BindingsAlwaysBacked == Spec => []BindingsBacked
BY Invariance, PTL DEF IInv

\* No agent is judged by a policy of anyone but its present owner: a binding
\* that applies has the agent's owner, and so does its policy.
THEOREM OnlyOwnPoliciesJudge == Spec => []OwnPoliciesOnly
<1>1. IInv => OwnPoliciesOnly
  BY DEF IInv, BindingsBacked, OwnPoliciesOnly, Layers, Applies
<1>2. QED
  BY <1>1, Invariance, PTL

\* A binding to a group has its group, and the group its owner: the guard of
\* DeleteGroup looks at policy entries, and they tell of every binding.
THEOREM GroupsAlwaysBacked == Spec => []GroupsBacked
<1>1. IInv => GroupsBacked
  BY DEF IInv, BindingsBacked, GroupsTold, GroupsHeld, GroupsBacked, OwnPolicy, OwnGroup
<1>2. QED
  BY <1>1, Invariance, PTL

\* A membership is one in an existing group of the agent's own organization.
THEOREM MembersAlwaysBacked == Spec => []MembersBacked
BY Invariance, PTL DEF IInv

\* Without crashes every policy entry has its file.
THEOREM FilesAlwaysBacked == Spec => []FilesBacked
BY Invariance, PTL DEF IInv

\* No reference of the store dangles: bindings, memberships and entries all have
\* what they refer to.
THEOREM NothingEverDangles == Spec => []NothingDangles
BY BindingsAlwaysBacked, GroupsAlwaysBacked, MembersAlwaysBacked, FilesAlwaysBacked, PTL
   DEF NothingDangles

-----------------------------------------------------------------------------
(* What a step does to the array of bindings.                                  *)

\* A binding pushed with the next rank of its tier is of the API: an agent it
\* names is one of the owner's once the step is done.
PushesRanked ==
    \E o \in Owner, p \in Policy, a \in Agent \cup {None}, g \in Group \cup {None} :
        /\ PushRanked(o, p, a, g)
        /\ a = None \/ g = None
        /\ a # None => a \in DOMAIN agents' /\ agents'[a] = o

\* One pushed without a rank is of a draft, which is checked, or of the command
\* line, which leaves the drafts alone.
PushesUnranked ==
    \E o \in Owner, p \in Policy, a \in Agent \cup {None} :
        /\ Push(o, p, a, None, 0)
        /\ a # None /\ drafts' # drafts => a \in DOMAIN agents' /\ agents'[a] = o

Reorders ==
    \E o \in Owner, tier \in Tiers :
        \E order \in SetToSeqs(InTier(o, tier)) : Reorder(o, tier, order)

OnlyDrops == bindings' \subseteq bindings /\ appended' = appended

\* Every step of the store is of one of these four kinds.
LEMMA KindOfStep ==
    ASSUME IInv, [Next]_vars
    PROVE  OnlyDrops \/ PushesRanked \/ PushesUnranked \/ Reorders
<1>1. ASSUME NEW o \in Owner, NEW p \in Policy, NEW cut \in BOOLEAN,
             NEW a \in Known(Agent), NEW g \in Known(Group), CreatePolicy(o, p, a, g, cut)
      PROVE  OnlyDrops \/ PushesRanked
  <2>1. a \in Agent \cup {None} /\ g \in Group \cup {None}
    BY DEF Known
  <2>2. CASE cut
    BY <1>1, <2>2 DEF CreatePolicy, OnlyDrops
  <2>3. CASE ~cut
    <3>1. /\ PushRanked(o, p, a, g)
          /\ a = None \/ g = None
          /\ a # None => a \in DOMAIN agents' /\ agents'[a] = o
      BY <1>1, <2>3 DEF CreatePolicy, OwnAgent
    <3>2. QED
      BY <2>1, <3>1 DEF PushesRanked
  <2>4. QED
    BY <2>2, <2>3
<1>2. ASSUME NEW o \in Owner, NEW a \in Agent, NEW p \in Policy, NEW g \in Known(Group),
             PushRanked(o, p, a, None),
             a \in DOMAIN agents' /\ agents'[a] = o
      PROVE  PushesRanked
  <2>1. a \in Agent \cup {None} /\ None \in Group \cup {None}
    OBVIOUS
  <2>2. QED
    BY <1>2, <2>1 DEF PushesRanked
<1>3. ASSUME NEW o \in Owner, NEW a \in Agent, NEW p \in Known(Policy),
             NEW g \in Known(Group), Enrol(o, a, p, g)
      PROVE  OnlyDrops \/ PushesRanked
  <2>1. CASE ~OwnPolicy(o, p)
    BY <1>3, <2>1 DEF Enrol, OnlyDrops
  <2>2. CASE OwnPolicy(o, p)
    <3>1. p \in Policy
      BY <2>2 DEF OwnPolicy, IInv, TypeOK
    <3>2. PushRanked(o, p, a, None) /\ agents' = Put(agents, a, o)
      BY <1>3, <2>2 DEF Enrol
    <3>3. a \in DOMAIN agents' /\ agents'[a] = o
      BY <3>2 DEF Put
    <3>4. QED
      BY <1>2, <3>1, <3>2, <3>3
  <2>3. QED
    BY <2>1, <2>2
<1>4. ASSUME NEW o \in Owner, NEW a \in Agent, NEW p \in Policy,
             Bind(o, a, p) \/ Unbind(o, a, p)
      PROVE  OnlyDrops \/ PushesRanked
  <2>1. CASE Unbind(o, a, p)
    BY <2>1 DEF Unbind, Drop, OnlyDrops
  <2>2. CASE Bind(o, a, p)
    <3>1. /\ PushRanked(o, p, a, None)
          /\ a \in DOMAIN agents' /\ agents'[a] = o
      BY <2>2 DEF Bind, OwnAgent
    <3>2. None \in Known(Group)
      BY DEF Known
    <3>3. QED
      BY <1>2, <3>1, <3>2
  <2>3. QED
    BY <1>4, <2>1, <2>2
<1>5. ASSUME NEW o \in Owner, NEW p \in Policy, NEW a \in Known(Agent),
             UpsertByCli(o, p, a)
      PROVE  OnlyDrops \/ PushesUnranked
  <2>1. a \in Agent \cup {None}
    BY DEF Known
  <2>2. QED
    BY <1>5, <2>1 DEF UpsertByCli, OnlyDrops, PushesUnranked
<1>6. ASSUME NEW d \in DOMAIN drafts, NEW p \in Policy, ApproveDraft(d, p)
      PROVE  PushesUnranked
  <2>1. drafts[d].owner \in Owner /\ drafts[d].agent \in Agent \cup {None}
    BY DEF IInv, TypeOK, DraftFile
  <2>2. PICK o \in Owner, a \in Agent \cup {None} :
          /\ Push(o, p, a, None, 0)
          /\ a # None => a \in DOMAIN agents /\ agents[a] = o
          /\ agents' = agents
    BY <1>6, <2>1 DEF ApproveDraft, OwnAgent
  <2>3. QED
    BY <2>2 DEF PushesUnranked
<1>7. ASSUME NEW a \in Agent, NEW cut \in BOOLEAN, DeleteAgent(a, cut)
      PROVE  OnlyDrops
  BY <1>7 DEF DeleteAgent, Drop, OnlyDrops
<1>8. ASSUME NEW o \in Owner, DeleteOwner(o)
      PROVE  OnlyDrops
  BY <1>8 DEF DeleteOwner, Drop, OnlyDrops
<1>9. ASSUME NEW p \in Policy, NEW cut \in BOOLEAN, DeletePolicy(p, cut)
      PROVE  OnlyDrops
  BY <1>9 DEF DeletePolicy, Drop, OnlyDrops
<1>10. ASSUME NEW p, NEW whose, UnbindByCli(p, whose)
       PROVE  OnlyDrops
  BY <1>10 DEF UnbindByCli, Drop, OnlyDrops
<1>11. ASSUME NEW o \in Owner, NEW tier \in Tiers,
              NEW order \in SetToSeqs(InTier(o, tier)), Reorder(o, tier, order)
       PROVE  Reorders
  BY <1>11 DEF Reorders
<1>12. ASSUME UNCHANGED <<bindings, appended>> PROVE OnlyDrops
  BY <1>12 DEF OnlyDrops
<1>13. ASSUME NEW o \in Owner, NEW p \in Policy, SavePolicy(o, p) PROVE OnlyDrops
  BY <1>12, <1>13 DEF SavePolicy
<1>14. ASSUME NEW o \in Org, NEW g \in Group, CreateGroup(o, g) \/ DeleteGroup(o, g)
       PROVE  OnlyDrops
  BY <1>12, <1>14 DEF CreateGroup, DeleteGroup
<1>15. ASSUME NEW o \in Org, NEW g \in Group, NEW a \in Agent,
              AddToGroup(o, g, a) \/ RemoveFromGroup(o, g, a)
       PROVE  OnlyDrops
  BY <1>12, <1>15 DEF AddToGroup, RemoveFromGroup
<1>16. ASSUME NEW a, NEW u, NEW o, Transfer(a, u, o) PROVE OnlyDrops
  BY <1>12, <1>16 DEF Transfer
<1>17. ASSUME NEW a, NEW d, NEW target, Propose(a, d, target) PROVE OnlyDrops
  BY <1>12, <1>17 DEF Propose
<1>18. ASSUME NEW d, DenyDraft(d) PROVE OnlyDrops
  BY <1>12, <1>18 DEF DenyDraft
<1>19. CASE UNCHANGED vars
  BY <1>12, <1>19 DEF vars
<1>20. QED
  BY <1>1, <1>3, <1>4, <1>5, <1>6, <1>7, <1>8, <1>9, <1>10, <1>11, <1>13,
     <1>14, <1>15, <1>16, <1>17, <1>18, <1>19 DEF Next

-----------------------------------------------------------------------------
(* The array of bindings.                                                      *)

\* Places are handed out once and in order, a binding names an agent or a group
\* and never both, and there are finitely many.
ArrayOK ==
    /\ \A b \in bindings : b.at < appended
    /\ \A b, c \in bindings : b.at = c.at => b = c
    /\ \A b \in bindings : b.agent = None \/ b.group = None
    /\ IsFiniteSet(bindings)

\* A reorder moves no binding and retargets none.
LEMMA RerankedKeeps ==
    ASSUME NEW b \in Binding, NEW o, NEW tier, NEW order
    PROVE  LET c == Reranked(b, o, tier, order) IN
           /\ c.owner = b.owner /\ c.policy = b.policy
           /\ c.agent = b.agent /\ c.group = b.group /\ c.at = b.at
BY DEF Reranked, Binding

LEMMA PushArray ==
    ASSUME IInv, ArrayOK, NEW o \in Owner, NEW p \in Policy,
           NEW a \in Agent \cup {None}, NEW g \in Group \cup {None}, NEW rank \in Nat,
           a = None \/ g = None, Push(o, p, a, g, rank)
    PROVE  ArrayOK'
<1> DEFINE b == [owner |-> o, policy |-> p, agent |-> a,
                 group |-> g, rank |-> rank, at |-> appended]
<1>1. bindings' = bindings \cup {b} /\ appended' = appended + 1
  BY DEF Push
<1>2. appended \in Nat /\ bindings \subseteq Binding
  BY DEF IInv, TypeOK
<1>3. IsFiniteSet(bindings')
  BY <1>1, FS_AddElement DEF ArrayOK
<1>4. \A c \in bindings : c.at \in Nat /\ c.at < appended /\ c.at # b.at
  BY <1>2 DEF ArrayOK, Binding
<1>5. \A c \in bindings' : c.at < appended'
  BY <1>1, <1>2, <1>4
<1>6. \A c, d \in bindings' : c.at = d.at => c = d
  BY <1>1, <1>4 DEF ArrayOK
<1>7. \A c \in bindings' : c.agent = None \/ c.group = None
  BY <1>1 DEF ArrayOK
<1>8. QED
  BY <1>3, <1>5, <1>6, <1>7 DEF ArrayOK

LEMMA ReorderArray ==
    ASSUME IInv, ArrayOK, NEW o, NEW tier, NEW order, Reorder(o, tier, order)
    PROVE  ArrayOK'
<1> DEFINE f == [b \in bindings |-> Reranked(b, o, tier, order)]
<1>1. bindings' = {f[b] : b \in bindings} /\ appended' = appended
  BY DEF Reorder
<1>2. \A b \in bindings : /\ f[b].agent = b.agent /\ f[b].group = b.group
                          /\ f[b].at = b.at
  BY RerankedKeeps DEF IInv, TypeOK
<1>3. f \in Surjection(bindings, bindings')
  BY <1>1 DEF Surjection
<1>4. IsFiniteSet(bindings')
  BY <1>3, FS_Surjection DEF ArrayOK
<1> HIDE DEF f
<1>5. QED
  BY <1>1, <1>2, <1>4 DEF ArrayOK

LEMMA ArrayStep == IInv /\ ArrayOK /\ [Next]_vars => ArrayOK'
<1> SUFFICES ASSUME IInv, ArrayOK, [Next]_vars PROVE ArrayOK'
  OBVIOUS
<1>1. CASE OnlyDrops
  <2>1. IsFiniteSet(bindings')
    BY <1>1, FS_Subset DEF OnlyDrops, ArrayOK
  <2>2. QED
    BY <1>1, <2>1 DEF OnlyDrops, ArrayOK
<1>2. CASE PushesRanked
  <2>1. PICK o \in Owner, p \in Policy, a \in Agent \cup {None}, g \in Group \cup {None},
             rank \in Ranks : Push(o, p, a, g, rank) /\ (a = None \/ g = None)
    BY <1>2 DEF PushesRanked, PushRanked
  <2>2. rank \in Nat
    BY BoundAssumption DEF Ranks
  <2>3. QED
    BY <2>1, <2>2, PushArray DEF Push
<1>3. CASE PushesUnranked
  <2>1. PICK o \in Owner, p \in Policy, a \in Agent \cup {None} : Push(o, p, a, None, 0)
    BY <1>3 DEF PushesUnranked
  <2>2. None \in Group \cup {None} /\ 0 \in Nat
    OBVIOUS
  <2>3. QED
    BY <2>1, <2>2, PushArray DEF Push
<1>4. CASE Reorders
  BY <1>4, ReorderArray DEF Reorders, Reorder
<1>5. QED
  BY <1>1, <1>2, <1>3, <1>4, KindOfStep

\* The array keeps its order: no two bindings share a place, and none has a
\* place that is still to be given.
THEOREM ArrayInvariance == Spec => []ArrayOK
<1>1. Init => ArrayOK
  BY FS_EmptySet DEF Init, ArrayOK
<1>2. QED
  BY <1>1, ArrayStep, Invariance, PTL DEF Spec

-----------------------------------------------------------------------------
(* What a push may do.                                                         *)

\* A step that pushes nothing leaves nothing at the next place.
LEMMA NothingPushed ==
    ASSUME IInv, ArrayOK, OnlyDrops \/ Reorders
    PROVE  Pushed = {}
<1>1. \A b \in bindings : b.at \in Nat /\ b.at < appended /\ b.at # appended
  BY DEF IInv, TypeOK, ArrayOK, Binding
<1>2. CASE OnlyDrops
  BY <1>1, <1>2 DEF OnlyDrops, Pushed
<1>3. CASE Reorders
  <2>1. PICK o, tier, order :
             bindings' = {Reranked(b, o, tier, order) : b \in bindings}
    BY <1>3 DEF Reorders, Reorder
  <2>2. \A b \in bindings : Reranked(b, o, tier, order).at = b.at
    BY RerankedKeeps DEF IInv, TypeOK
  <2>3. QED
    BY <1>1, <2>1, <2>2 DEF Pushed
<1>4. QED
  BY <1>2, <1>3

\* A step that pushes a binding pushes just that one.
LEMMA OnePushed ==
    ASSUME IInv, ArrayOK, NEW o, NEW p, NEW a, NEW g, NEW rank, Push(o, p, a, g, rank)
    PROVE  Pushed = {[owner |-> o, policy |-> p, agent |-> a,
                      group |-> g, rank |-> rank, at |-> appended]}
<1>1. \A b \in bindings : b.at # appended
  BY DEF IInv, TypeOK, ArrayOK, Binding
<1>2. QED
  BY <1>1 DEF Push, Pushed

LEMMA TierOfPushed ==
    ASSUME NEW b, b.agent = None \/ b.group = None
    PROVE  TierOf(b) = TierFor(b.agent, b.group)
BY DEF TierOf, TierFor

\* A ranked binding goes behind everything in its tier: whatever was deleted,
\* reordered or pushed without a rank before, a new policy never overrules an
\* older one of equal specificity.
THEOREM NewestAlwaysLast == Spec => NewestLast
<1>1. ASSUME IInv, ArrayOK, [Next]_vars,
             NEW b \in Pushed, b.rank # 0,
             NEW c \in bindings, c.owner = b.owner, TierOf(c) = TierOf(b)
      PROVE  Before(c, b)
  <2>1. ~(OnlyDrops \/ Reorders)
    BY <1>1, NothingPushed
  <2>2. ~PushesUnranked
    <3>1. SUFFICES ASSUME NEW o, NEW p, NEW a, Push(o, p, a, None, 0) PROVE FALSE
      BY DEF PushesUnranked
    <3>2. QED
      BY <1>1, <3>1, OnePushed
  <2>3. PICK o \in Owner, p \in Policy, a \in Agent \cup {None}, g \in Group \cup {None},
             rank \in Ranks :
          /\ IsNextRank(rank, o, TierFor(a, g))
          /\ Push(o, p, a, g, rank)
          /\ a = None \/ g = None
    BY <1>1, <2>1, <2>2, KindOfStep DEF PushesRanked, PushRanked
  <2>4. b = [owner |-> o, policy |-> p, agent |-> a,
             group |-> g, rank |-> rank, at |-> appended]
    BY <1>1, <2>3, OnePushed
  <2>5. TierOf(b) = TierFor(a, g)
    BY <2>3, <2>4, TierOfPushed
  <2>6. c \in InScope(o, TierFor(a, g))
    BY <1>1, <2>4, <2>5 DEF InScope
  <2>7. Rank(c) < rank
    BY <2>3, <2>6 DEF IsNextRank
  <2>8. Rank(b) = rank
    BY <1>1, <2>4 DEF Rank
  <2>9. QED
    BY <2>7, <2>8 DEF Before
<1>2. IInv /\ ArrayOK /\ [Next]_vars =>
        [\A b \in Pushed :
           b.rank # 0 =>
              \A c \in bindings :
                 c.owner = b.owner /\ TierOf(c) = TierOf(b) => Before(c, b)]_vars
  BY <1>1
<1>3. QED
  BY <1>2, Invariance, ArrayInvariance, PTL DEF Spec, NewestLast

\* The API binds a policy to an agent only if both have one owner once the step
\* is done: a draft approved after its agent was handed over or deleted is
\* refused, and so is an invite for someone else's policy.
THEOREM TargetsAlwaysOwn == Spec => TargetsOwn
<1>1. ASSUME IInv, ArrayOK, [Next]_vars, NEW b \in Pushed, b.agent # None,
             b.rank # 0 \/ drafts' # drafts
      PROVE  b.agent \in DOMAIN agents' /\ agents'[b.agent] = b.owner
  <2>1. ~(OnlyDrops \/ Reorders)
    BY <1>1, NothingPushed
  <2>2. CASE PushesRanked
    <3>1. PICK o, p, a, g, rank :
            /\ Push(o, p, a, g, rank)
            /\ a # None => a \in DOMAIN agents' /\ agents'[a] = o
      BY <2>2 DEF PushesRanked, PushRanked
    <3>2. b.owner = o /\ b.agent = a
      BY <1>1, <3>1, OnePushed
    <3>3. QED
      BY <1>1, <3>1, <3>2
  <2>3. CASE PushesUnranked
    <3>1. PICK o, p, a :
            /\ Push(o, p, a, None, 0)
            /\ a # None /\ drafts' # drafts => a \in DOMAIN agents' /\ agents'[a] = o
      BY <2>3 DEF PushesUnranked
    <3>2. b.owner = o /\ b.agent = a /\ b.rank = 0
      BY <1>1, <3>1, OnePushed
    <3>3. QED
      BY <1>1, <3>1, <3>2
  <2>4. QED
    BY <1>1, <2>1, <2>2, <2>3, KindOfStep
<1>2. IInv /\ ArrayOK /\ [Next]_vars =>
        [\A b \in Pushed :
           b.agent # None /\ (b.rank # 0 \/ drafts' # drafts) =>
              b.agent \in DOMAIN agents' /\ agents'[b.agent] = b.owner]_vars
  BY <1>1
<1>3. QED
  BY <1>2, Invariance, ArrayInvariance, PTL DEF Spec, TargetsOwn

-----------------------------------------------------------------------------
(* Deletions.                                                                  *)

\* Only the two cascades take an agent away.
LEMMA AgentsGo ==
    ASSUME IInv, [Next]_vars, ~(DOMAIN agents \subseteq DOMAIN agents')
    PROVE  \/ \E a \in Agent : DeleteAgent(a, FALSE)
           \/ \E o \in Owner : DeleteOwner(o)
<1>1. ASSUME NEW a \in Agent, NEW cut \in BOOLEAN, DeleteAgent(a, cut), cut # FALSE
      PROVE  FALSE
  BY <1>1 DEF DeleteAgent
<1>2. ASSUME NEW o, NEW a, NEW p, NEW g, Enrol(o, a, p, g) PROVE FALSE
  BY <1>2 DEF Enrol, Put
<1>3. ASSUME NEW a, NEW u, NEW o, Transfer(a, u, o) PROVE FALSE
  BY <1>3 DEF Transfer
<1>4. ASSUME agents' = agents PROVE FALSE
  BY <1>4
<1>5. \A o, p, cut, a, g : CreatePolicy(o, p, a, g, cut) => FALSE
  BY <1>4 DEF CreatePolicy
<1>6. \A o, p : SavePolicy(o, p) => FALSE
  BY <1>4 DEF SavePolicy
<1>7. \A p, cut : DeletePolicy(p, cut) => FALSE
  BY <1>4 DEF DeletePolicy
<1>8. \A o, tier, order : Reorder(o, tier, order) => FALSE
  BY <1>4 DEF Reorder
<1>9. \A o, p, a : UpsertByCli(o, p, a) => FALSE
  BY <1>4 DEF UpsertByCli
<1>10. \A p, whose : UnbindByCli(p, whose) => FALSE
  BY <1>4 DEF UnbindByCli
<1>11. \A o, g : CreateGroup(o, g) \/ DeleteGroup(o, g) => FALSE
  BY <1>4 DEF CreateGroup, DeleteGroup
<1>12. \A o, g, a : AddToGroup(o, g, a) \/ RemoveFromGroup(o, g, a) => FALSE
  BY <1>4 DEF AddToGroup, RemoveFromGroup
<1>13. \A o, a, p : Bind(o, a, p) \/ Unbind(o, a, p) => FALSE
  BY <1>4 DEF Bind, Unbind
<1>14. \A a, d, target : Propose(a, d, target) => FALSE
  BY <1>4 DEF Propose
<1>15. \A d, p : ApproveDraft(d, p) \/ DenyDraft(d) => FALSE
  BY <1>4 DEF ApproveDraft, DenyDraft
<1>16. UNCHANGED vars => FALSE
  BY <1>4 DEF vars
<1>17. QED
  BY <1>1, <1>2, <1>3, <1>5, <1>6, <1>7, <1>8, <1>9, <1>10, <1>11, <1>12,
     <1>13, <1>14, <1>15, <1>16 DEF Next

\* An agent that stays loses a rule by the deletion of another only if it was
\* written for that other agent, and by the deletion of an owner only if that
\* owner's: the cascades take the bindings they should and no others.
THEOREM DeletionAlwaysContained == Spec => DeletionContained
<1> DEFINE deleted == DOMAIN agents \ DOMAIN agents'
<1>1. ASSUME IInv, ArrayOK, [Next]_vars, deleted # {},
             NEW a \in DOMAIN agents \cap DOMAIN agents',
             NEW b \in Layers(a)
      PROVE  b \in bindings' \/ policies[b.policy].agent \in deleted
  <2>1. /\ b \in bindings /\ b.policy \in DOMAIN policies /\ b.owner = agents[a]
        /\ b.agent = a \/ b.agent = None
    <3>1. b.group # None => b.agent = None
      BY <1>1 DEF Layers, ArrayOK
    <3>2. QED
      BY <1>1, <3>1 DEF Layers, Applies
  <2>2. a # None /\ a \notin deleted
    BY <1>1, NoneAssumption DEF IInv, TypeOK
  <2>3. ASSUME NEW x \in Agent, DeleteAgent(x, FALSE)
        PROVE  b \in bindings' \/ policies[b.policy].agent \in deleted
    <3>1. /\ x \in DOMAIN agents /\ agents' = Without(agents, {x})
          /\ bindings' = bindings \ {c \in bindings : \/ c.policy \in WrittenFor({x})
                                                      \/ c.agent = x}
      BY <2>3 DEF DeleteAgent, Drop
    <3>2. deleted = {x} /\ a # x /\ None # x
      BY <2>2, <3>1, NoneAssumption DEF Without
    <3>3. b.policy \in WrittenFor({x}) => policies[b.policy].agent \in deleted
      BY <3>2 DEF WrittenFor
    <3>4. QED
      BY <2>1, <3>1, <3>2, <3>3
  <2>4. ASSUME NEW o \in Owner, DeleteOwner(o)
        PROVE  b \in bindings' \/ policies[b.policy].agent \in deleted
    <3> DEFINE orphans == {x \in DOMAIN agents : agents[x] = o}
    <3>1. /\ agents' = Without(agents, orphans)
          /\ bindings' = bindings \ {c \in bindings : \/ c.policy \in WrittenFor(orphans)
                                                      \/ c.agent \in orphans
                                                      \/ c.owner = o}
      BY <2>4 DEF DeleteOwner, Drop
    <3>2. deleted = orphans /\ a \notin orphans /\ None \notin orphans
      BY <2>2, <3>1, NoneAssumption, <1>1 DEF Without, IInv, TypeOK
    <3>3. agents[a] # o
      BY <3>2, <1>1
    <3>4. b.policy \in WrittenFor(orphans) => policies[b.policy].agent \in deleted
      BY <3>2 DEF WrittenFor
    <3>5. QED
      <4> HIDE DEF orphans
      <4> QED BY <2>1, <3>1, <3>2, <3>3, <3>4
  <2>5. ~(DOMAIN agents \subseteq DOMAIN agents')
    BY <1>1
  <2>6. QED
    BY <1>1, <2>3, <2>4, <2>5, AgentsGo
<1>2. IInv /\ ArrayOK /\ [Next]_vars =>
        [\A a \in DOMAIN agents \cap DOMAIN agents' :
           LET gone == DOMAIN agents \ DOMAIN agents' IN
           gone # {} =>
              \A b \in Layers(a) :
                  \/ b \in bindings'
                  \/ policies[b.policy].agent \in gone]_vars
  BY <1>1
<1>3. QED
  BY <1>2, Invariance, ArrayInvariance, PTL DEF Spec, DeletionContained

-----------------------------------------------------------------------------
(* Reorders.                                                                   *)

\* The list of a reorder names every policy of the tier.
LEMMA OrderNamesAll ==
    ASSUME ArrayOK, NEW o, NEW tier, NEW order \in SetToSeqs(InTier(o, tier)),
           NEW p \in InTier(o, tier)
    PROVE  /\ Position(order, p) \in Nat \ {0}
           /\ \E i \in DOMAIN order : order[i] = p
<1> DEFINE S == InTier(o, tier)
           D == 1..Cardinality(S)
           f == [b \in InScope(o, tier) |-> b.policy]
<1>1. IsFiniteSet(S) /\ Cardinality(S) \in Nat
  <2>1. IsFiniteSet(InScope(o, tier))
    BY FS_Subset DEF InScope, ArrayOK
  <2>2. f \in Surjection(InScope(o, tier), S)
    BY DEF Surjection, InTier
  <2>3. QED
    BY <2>1, <2>2, FS_Surjection, FS_CardinalityType
<1>2. order \in [D -> S] /\ \A i, j \in D : i # j => order[i] # order[j]
  BY DEF SetToSeqs
<1> HIDE DEF S
<1>3. order \in Injection(D, S)
  BY <1>2 DEF Injection, IsInjective
<1>4. Cardinality(D) = Cardinality(S)
  BY <1>1, FS_Interval
<1>5. order \in Surjection(D, S)
  BY <1>1, <1>3, <1>4, FS_Injection
<1>6. p \in S
  BY DEF S
<1>7. \E i \in D : order[i] = p
  BY <1>5, <1>6 DEF Surjection
<1>8. DOMAIN order = D
  BY <1>2
<1>9. Position(order, p) \in D
  BY <1>7, <1>8 DEF Position
<1>10. QED
  BY <1>1, <1>7, <1>8, <1>9

\* A binding that is its policy's only one in the tier gets the rank of the
\* place its policy was given.
LEMMA AloneReranked ==
    ASSUME IInv, ArrayOK, NEW o, NEW tier, NEW order \in SetToSeqs(InTier(o, tier)),
           Reorder(o, tier, order), NEW b \in InScope(o, tier)', Alone(b)'
    PROVE  /\ b.policy \in InTier(o, tier)
           /\ b.rank = Position(order, b.policy)
<1> DEFINE R(c) == Reranked(c, o, tier, order)
<1>1. bindings' = {R(c) : c \in bindings}
  BY DEF Reorder
<1>2. b \in bindings' /\ b.owner = o /\ TierOf(b) = tier
  BY DEF InScope, TierOf
<1>3. PICK b0 \in bindings : b = R(b0)
  BY <1>1, <1>2
<1>4. \A c \in bindings : /\ R(c).owner = c.owner /\ R(c).policy = c.policy
                          /\ R(c).at = c.at /\ TierOf(R(c)) = TierOf(c)
  BY RerankedKeeps DEF TierOf, IInv, TypeOK
<1> HIDE DEF R
<1>5. b0 \in InScope(o, tier) /\ b0.policy = b.policy
  BY <1>2, <1>3, <1>4 DEF InScope
<1>6. ASSUME NEW c \in InScope(o, tier), c.policy = b.policy PROVE c = b0
  <2>1. c \in bindings /\ R(c) \in bindings'
    BY <1>1 DEF InScope
  <2>2. R(c).owner = b.owner /\ R(c).policy = b.policy /\ TierOf(R(c)) = TierOf(b)
    BY <1>2, <1>4, <1>6, <2>1 DEF InScope
  <2>3. R(c) = b
    BY <2>1, <2>2 DEF Alone, TierOf
  <2>4. c.at = b0.at
    BY <1>3, <1>4, <2>1, <2>3
  <2>5. QED
    BY <2>1, <2>4 DEF ArrayOK
<1>7. b0.at \in Nat
  BY DEF IInv, TypeOK, Binding
<1>8. FirstOf(o, tier, b.policy) = b0
  <2>1. /\ b0.policy = b.policy
        /\ \A c \in InScope(o, tier) : c.policy = b.policy => b0.at <= c.at
    BY <1>5, <1>6, <1>7
  <2>2. \E x \in InScope(o, tier) :
          /\ x.policy = b.policy
          /\ \A c \in InScope(o, tier) : c.policy = b.policy => x.at <= c.at
    BY <1>5, <2>1
  <2>3. /\ FirstOf(o, tier, b.policy) \in InScope(o, tier)
        /\ FirstOf(o, tier, b.policy).policy = b.policy
    BY <2>2 DEF FirstOf
  <2>4. QED
    BY <1>6, <2>3
<1>9. b.policy \in InTier(o, tier)
  BY <1>5 DEF InTier
<1>10. IsReranked(b0, o, tier, order)
  BY <1>5, <1>8, <1>9, OrderNamesAll DEF IsReranked
<1>11. b = [b0 EXCEPT !.rank = Position(order, b.policy)]
  BY <1>3, <1>5, <1>10 DEF R, Reranked
<1>12. QED
  BY <1>9, <1>11 DEF IInv, TypeOK, Binding

\* After a reorder, policies with one binding in the tier are evaluated in the
\* order that was asked for, whatever ranks they had and however they were
\* pushed.
THEOREM ReorderAlwaysObeyed == Spec => ReorderObeyed
<1>1. ASSUME IInv, ArrayOK, NEW o \in Owner, NEW tier \in Tiers,
             NEW order \in SetToSeqs(InTier(o, tier)), Reorder(o, tier, order),
             NEW b \in InScope(o, tier)', NEW c \in InScope(o, tier)',
             Alone(b)', Alone(c)',
             Position(order, b.policy) < Position(order, c.policy)
      PROVE  Before(b, c)
  <2>1. /\ b.rank = Position(order, b.policy) /\ b.rank \in Nat \ {0}
        /\ c.rank = Position(order, c.policy) /\ c.rank \in Nat \ {0}
    BY <1>1, AloneReranked, OrderNamesAll
  <2>2. Rank(b) = b.rank /\ Rank(c) = c.rank
    BY <2>1 DEF Rank
  <2>3. QED
    BY <1>1, <2>1, <2>2 DEF Before
<1>2. IInv /\ ArrayOK =>
        \A o \in Owner, tier \in Tiers :
           \A order \in SetToSeqs(InTier(o, tier)) :
              Reorder(o, tier, order) =>
                 \A b, c \in InScope(o, tier)' :
                    /\ Alone(b)' /\ Alone(c)'
                    /\ Position(order, b.policy) < Position(order, c.policy)
                    => Before(b, c)
  BY <1>1
<1>3. QED
  BY <1>2, Invariance, ArrayInvariance, PTL DEF Spec, ReorderObeyed

=============================================================================
