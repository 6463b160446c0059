---------------------------- MODULE MCWorkspaces ------------------------------
(* Two users and two workspaces, so that a member of one is a newcomer to   *)
(* or a lesser member of the other.                                        *)
EXTENDS Workspaces, TLC

CONSTANTS u1, u2, w1, w2, r1, r2

MCUsers == {u1, u2}
MCWorkspaces == {w1, w2}
MCRequests == {r1, r2}
MCSymmetry == Permutations(MCUsers) \cup Permutations(MCWorkspaces) \cup Permutations(MCRequests)
=============================================================================
