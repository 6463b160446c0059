SPECIFICATION FairSpec
CONSTANTS
    j1 = j1
    w1 = w1
    w2 = w2
    r1 = r1
    Jobs <- MCJobs
    Workspaces <- MCWorkspaces
    Requests <- MCRequests
    NoRow = NoRow
    NoJob = NoJob
    NoWorkspace = NoWorkspace
PROPERTY ExpiredCredentialsAreDeleted
