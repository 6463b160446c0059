----------------------------- MODULE MCScanJobs -------------------------------
(* One job and one request: nobody else completes the job. *)
EXTENDS ScanJobs

CONSTANTS j1, w1, w2, r1

MCJobs == {j1}
MCWorkspaces == {w1, w2}
MCRequests == {r1}
=============================================================================
