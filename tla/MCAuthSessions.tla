--------------------------- MODULE MCAuthSessions -----------------------------
(* One account, an old and a new password, two sessions, two links, of      *)
(* either purpose, and two requests in flight.                             *)
EXTENDS AuthSessions, TLC

CONSTANTS p1, p2, s1, s2, t1, t2, r1, r2

MCPasswords == {p1, p2}
MCSessions == {s1, s2}
MCTokens == {t1, t2}
MCRequests == {r1, r2}
MCSymmetry == Permutations(MCPasswords) \cup Permutations(MCSessions)
                  \cup Permutations(MCTokens) \cup Permutations(MCRequests)
=============================================================================
