--------------------------- MODULE MCApiKeyAccess -----------------------------
(* Two keys, in the view's workspace or another one, two admins that may    *)
(* revoke the same key, and two overlapping requests.                      *)
EXTENDS ApiKeyAccess, TLC

CONSTANTS k1, k2, a1, a2, w1, w2, r1, r2

MCKeys == {k1, k2}
MCAdmins == {a1, a2}
MCWorkspaces == {w1, w2}
MCRequests == {r1, r2}
MCSymmetry == Permutations(MCKeys) \cup Permutations(MCAdmins) \cup Permutations(MCRequests)
=============================================================================
