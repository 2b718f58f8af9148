\* Two enrolments of one agent_id, in any order, revoked and reactivated, clients
\* that resend, one restart, and a clock that outlives every nonce.
CONSTANTS
    a = a
    Principal = {p1, p2}
    AgentId = {a}
    IdOf <- OneId
    Nonce = {n1}
    NotADate = NotADate
    Timestamp <- MiddleTimestamps
    Skew = 1
    NonceTtl = 3
    MaxTime = 5
    MaxRestarts = 1
SPECIFICATION FairSpec
INVARIANT ServedOncePerLife
PROPERTY NonceUniquePerLife
PROPERTY SupersededKeysRejected
PROPERTY NoncesForgotten
