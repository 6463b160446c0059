SPECIFICATION Spec
CONSTANTS
    k1 = k1
    k2 = k2
    a1 = a1
    a2 = a2
    w1 = w1
    w2 = w2
    r1 = r1
    r2 = r2
    Keys <- MCKeys
    Admins <- MCAdmins
    Workspaces <- MCWorkspaces
    Requests <- MCRequests
    Grants = {{"data"}, {"artifacts", "analytics"}}
    Home = w1
    NoRow = NoRow
    NoKey = NoKey
    NoAdmin = NoAdmin
SYMMETRY MCSymmetry
INVARIANTS
    TypeOK
    NoAnswerOnDeadKey
    AnswersWithinGrant
    RecordsMatchAnswers
PROPERTY RevocationIsFinal
