\* state.md written by the server and a command in two ticks of the file clock,
\* one listed file, one stop; and a log of three events, one torn line, one
\* truncation, read by trails in pages of one and two.
CONSTANTS
    Update = {u1, u2, u3}
    Resizing = {u1}
    Command = {c1}
    Item = {i1}
    Nothing = Nothing
    Torn = Torn
    MaxTime = 1
    MaxStops = 1
    user = user
    agent = agent
    org = org
    Principal = {user, agent, org}
    NoPrincipal = NoPrincipal
    Kinds <- MCKinds
    Trails <- MCTrails
    NoIndex = NoIndex
    MaxEvents = 3
    MaxTorn = 1
    MaxCuts = 1
SPECIFICATION Spec
INVARIANT CopiesCurrent
INVARIANT LostByOverlapOnly
INVARIANT TrailsExact
INVARIANT WalksMissNothing
CHECK_DEADLOCK FALSE
