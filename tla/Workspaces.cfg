SPECIFICATION Spec
CONSTANTS
    u1 = u1
    u2 = u2
    w1 = w1
    w2 = w2
    r1 = r1
    r2 = r2
    Users <- MCUsers
    Workspaces <- MCWorkspaces
    Requests <- MCRequests
    Roles = {"requester", "admin"}
    MaxStarts = 3
    NoRow = NoRow
    NoUser = NoUser
    NoWorkspace = NoWorkspace
SYMMETRY MCSymmetry
INVARIANTS
    TypeOK
    MembersAreNotInvited
    OnboardingCanBeCompleted
    SettingsWritersWereAdmins
PROPERTY GrantsFollowOpenInvitation
\* a creation that aborts may have used up the last start
CHECK_DEADLOCK FALSE
