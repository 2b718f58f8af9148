\* One or two organizations, three users or one, two invites, one add of the
\* server's administrator in flight, one crash, three slugs, one record.
CONSTANTS
    User = {u1, u2, u3}
    Org = {o1, o2}
    Invite = {i1, i2}
    Role <- RolesUsed
    Call = {c1}
    None = None
    MaxCrashes = 1
    Slug = {s1, s2, s3}
    NoSlug = NoSlug
    MaxFormer = 1
    Record = {r1}
SPECIFICATION MCSpec
SYMMETRY IdSymmetry
INVARIANT AdminKept
INVARIANT OneOfEach
INVARIANT InvitesSound
INVARIANT MembersBacked
INVARIANT LinksLeadHome
INVARIANT PortalShowsOwn
INVARIANT BadgeAgrees
\* Once the ids are used up and the users gone, nothing is left to do.
CHECK_DEADLOCK FALSE
