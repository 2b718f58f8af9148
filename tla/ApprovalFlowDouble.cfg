\* Two approve calls overlap.
CONSTANTS
    r1 = r1
    r2 = r2
    a1 = a1
    a2 = a2
    x1 = x1
    h1 = h1
    None = None
    Agent = {a1, a2}
    Action = {x1}
    Request = {r1, r2}
    AgentOf <- EachItsOwn
    ActionOf <- OneAction
    Handler = {h1, h2}
    Caller = {c1}
    RequestTtl = 1
    TokenTtl = 1
    MaxTime = 2
    MaxCrashes = 0
SPECIFICATION PlanSpec
PROPERTY UsedOnce
\* Once the agents are deleted or the request pool is used up, nobody calls.
CHECK_DEADLOCK FALSE
