\* A policy bound to two agents of one tier, reordered.
CONSTANTS
    User = {}
    Org = {o1}
    Agent = {a1, a2}
    Group = {}
    Policy = {p1, p2}
    Draft = {}
    None = None
    MaxAppends = 3
    MaxCrashes = 0
SPECIFICATION PlanSpec
SYMMETRY IdSymmetry
PROPERTY ReorderObeyedByAll
\* Once the ids are used up and the owners gone, nothing is left to do.
CHECK_DEADLOCK FALSE
