SPECIFICATION ScansSpec
CONSTANTS
    j1 = j1
    w1 = w1
    w2 = w2
    r1 = r1
    r2 = r2
    Jobs <- MCJobs
    Workspaces <- MCWorkspaces
    Requests <- MCRequests
    RequireTLS = FALSE
    VerifyTLS = TRUE
    NoServer = NoServer
    NoRow = NoRow
    NoJob = NoJob
    NoWorkspace = NoWorkspace
SYMMETRY MCSymmetry
INVARIANTS
    ScansTypeOK
    CredentialsHaveOneHome
    SourcesCameInTime
    CompletionStaysInWorkspace
    ConnectionsAreReleased
PROPERTIES
    ImplementsVault
    JobsComeFromVerifiedScans
