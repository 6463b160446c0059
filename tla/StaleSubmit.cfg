SPECIFICATION Spec
CONSTANTS
    ann = ann
    bob = bob
    clean = clean
    fixable = fixable
    twisted = twisted
    hopeless = hopeless
    r1 = r1
    r2 = r2
    Views = {v1}
    Users <- MCUsers
    Approvers <- MCUsers
    Contents <- MCContents
    Blocking <- MCBlocking
    Offered <- MCOffered
    Repairable <- MCBlocking
    Repair <- MCRepair
    Requests <- MCRequests
    MaxRevision = 2
    MaxDownloads = 0
    NoRow = NoRow
    NoSubmission = NoSubmission
    NoEvidence = NoEvidence
    NoUser = NoUser
    NoView = NoView
    NoRequest = NoRequest
INVARIANT OnlyAllowedIsSubmitted
\* a decided view accepts no further request
CHECK_DEADLOCK FALSE
