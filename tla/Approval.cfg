SPECIFICATION Spec
CONSTANTS
    ann = ann
    bob = bob
    clean = clean
    fixable = fixable
    twisted = twisted
    hopeless = hopeless
    r1 = r1
    r2 = r2
    Views = {v1}
    Users <- MCUsers
    Approvers <- MCUsers
    Contents <- MCContents
    Blocking <- MCBlocking
    Offered <- MCOffered
    Repairable <- MCBlocking
    Repair <- MCRepair
    Requests <- MCRequests
    MaxRevision = 3
    MaxDownloads = 1
    NoRow = NoRow
    NoSubmission = NoSubmission
    NoEvidence = NoEvidence
    NoUser = NoUser
    NoView = NoView
    NoRequest = NoRequest
INVARIANTS
    TypeOK
    DecisionRestsOnSubmission
    SeparationOfDuties
    EvidenceCertifiesApproval
    AuditReplaysHistory
PROPERTIES
    ImplementsLedger
    SubmittedChangesOnce
    EveryRequestAnswered
\* a decided view accepts no further request
CHECK_DEADLOCK FALSE
