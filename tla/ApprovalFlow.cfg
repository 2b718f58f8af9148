\* Overlapping resolving calls on one request, up to time three; or resolving
\* calls one at a time on two requests of two agents, up to time two.
CONSTANTS
    r1 = r1
    r2 = r2
    a1 = a1
    a2 = a2
    x1 = x1
    h1 = h1
    None = None
    Agent = {a1, a2}
    Action = {x1, x2}
    Request = {r1, r2}
    AgentOf <- EachItsOwn
    ActionOf <- OneAction
    Handler = {h1, h2}
    Caller = {c1, c2}
    RequestTtl = 1
    TokenTtl = 1
    MaxTime = 3
    MaxCrashes = 1
SPECIFICATION PlanSpec
INVARIANT UsesPaid
INVARIANT ProofsBacked
INVARIANT IndexTrusted
PROPERTY SpentInTime
PROPERTY OneShot
PROPERTY ConsumedThenProved
\* Once the agents are deleted or the request pool is used up, nobody calls.
CHECK_DEADLOCK FALSE
