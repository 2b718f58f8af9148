\* The log alone: three events, by the server and by commands beside it.
CONSTANTS
    Update = {u1}
    Resizing = {}
    Command = {c1}
    Item = {i1}
    Nothing = Nothing
    Torn = Torn
    MaxTime = 0
    MaxStops = 0
    user = user
    agent = agent
    org = org
    Principal = {user, agent, org}
    NoPrincipal = NoPrincipal
    Kinds <- MCKinds
    Trails <- MCTrails
    NoIndex = NoIndex
    MaxEvents = 3
    MaxTorn = 0
    MaxCuts = 0
SPECIFICATION Spec
INVARIANT TrailsExactAlways
CHECK_DEADLOCK FALSE
