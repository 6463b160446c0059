-------------------------- MODULE MCDataSourceScans ---------------------------
(* One job that two overlapping requests scan and complete, tests of        *)
(* connections besides, and a second workspace to move to.  TLS is asked    *)
(* for by the request only, and then verified.                              *)
EXTENDS DataSourceScans, TLC

CONSTANTS j1, w1, w2, r1, r2

MCJobs == {j1}
MCWorkspaces == {w1, w2}
MCRequests == {r1, r2}
MCSymmetry == Permutations(MCWorkspaces) \cup Permutations(MCRequests)
=============================================================================
