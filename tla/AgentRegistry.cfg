\* Three agents at most, two URLs, two challenges or two invites.
CONSTANTS
    User = {u1}
    Org = {o1}
    Agent = {a1, a2, a3}
    Url = {w1, w2}
    NoUrl = NoUrl
    Challenge = {c1, c2}
    Invite = {i1, i2}
    Provisioner = {p1}
    None = None
    Budgets <- BudgetsUsed
SPECIFICATION FairSpec
INVARIANT WebhooksUnique
INVARIANT AdmissionsTrue
PROPERTY ChallengesForgotten
PROPERTY RevocationCloses
\* Once the ids are used up and the agents deleted, nothing is left to do.
CHECK_DEADLOCK FALSE
