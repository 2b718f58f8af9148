\* A user and an organization, agents handed over and deleted, a draft; and one
\* organization with many bindings, ranks and reorders, a crash.
CONSTANTS
    User = {u1}
    Org = {o1}
    Agent = {a1, a2}
    Group = {g1}
    Policy = {p1, p2, p3}
    Draft = {d1}
    None = None
    MaxAppends = 3
    MaxCrashes = 1
SPECIFICATION PlanSpec
SYMMETRY IdSymmetry
INVARIANT NothingDangles
INVARIANT OwnPoliciesOnly
PROPERTY TargetsOwn
PROPERTY DeletionContained
PROPERTY NewestLast
PROPERTY ReorderObeyed
\* Once the ids are used up and the owners gone, nothing is left to do.
CHECK_DEADLOCK FALSE
