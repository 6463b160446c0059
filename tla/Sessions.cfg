SPECIFICATION Spec
CONSTANTS
    p1 = p1
    p2 = p2
    s1 = s1
    s2 = s2
    t1 = t1
    t2 = t2
    r1 = r1
    r2 = r2
    Passwords <- MCPasswords
    Sessions <- MCSessions
    Tokens <- MCTokens
    Requests <- MCRequests
    MaxFailures = 1
    MaxGuesses = 2
    NoRow = NoRow
    NoSession = NoSession
    NoToken = NoToken
    NoOrigin = NoOrigin
    Overtaken = Overtaken
SYMMETRY MCSymmetry
INVARIANTS
    TypeOK
    OnlyLateSessionsOutliveReset
    OneSessionPerLogin
    LinksWorkOnce
    LockoutIsBounded
\* every session and token of the instance may have been used up
CHECK_DEADLOCK FALSE
