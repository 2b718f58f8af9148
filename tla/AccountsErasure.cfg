\* One user with a second factor, who erases the account.
CONSTANTS
    User = {u1}
    Invite = {i1}
    None = None
    Bypass = FALSE
    CodesPerSecret = 1
    MaxSecrets = 1
    SessionLife = 1
    Budgets <- OneEnrolment
SPECIFICATION Spec
PROPERTY ErasedWithFactor
CHECK_DEADLOCK FALSE
