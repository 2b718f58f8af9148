-------------------------- MODULE MCPolicyBindings --------------------------
(* Instances of PolicyBindings for TLC.                                    *)
EXTENDS PolicyBindings, TLC

\* Agents are interchangeable, and so are policies.
IdSymmetry == {f @@ g : f \in Permutations(Agent), g \in Permutations(Policy)}

-----------------------------------------------------------------------------
(* Two plans in one run: "scopes" has two owners, and of two agents, two     *)
(* policies, a group and a draft all but one; "ranks" has the organization  *)
(* alone, more policies and bindings, and a crash.                          *)

VARIABLE plan

OfUsers == {b \in bindings : b.owner \in User}

WithinPlan ==
    \/ /\ plan = "scopes"
       /\ Cardinality(ids \cap Policy) <= 2 /\ Cardinality(ids) <= 5
       /\ appended <= 2 /\ crashes = 0
    \/ /\ plan = "ranks"
       /\ ids \cap (Group \cup Draft) = {}
       /\ User \subseteq owners /\ OfUsers = {}
       /\ \A a \in DOMAIN agents : agents[a] \in Org
       /\ \A p \in DOMAIN policies : policies[p].owner \in Org

PlanInit == Init /\ plan \in {"scopes", "ranks"}
PlanNext == Next /\ UNCHANGED plan /\ WithinPlan'
PlanSpec == PlanInit /\ [][PlanNext]_<<vars, plan>>
=============================================================================
