\* Two users, one invite, an edit by the command line and a crash.
CONSTANTS
    User = {u1, u2}
    Invite = {i1}
    None = None
    Bypass = FALSE
    CodesPerSecret = 1
    MaxSecrets = 2
    SessionLife = 2
    Budgets <- BudgetsUsed
SPECIFICATION FairSpec
INVARIANT FirstOwnerOnce
INVARIANT CodesUsedOnce
INVARIANT FactorProven
INVARIANT ErasedStaysErased
PROPERTY RevocationTakesHold
CHECK_DEADLOCK FALSE
