---------------------------- MODULE AuthSessions ------------------------------
(***************************************************************************)
(* One e-mail address: its sign-up, verification, login with the lockout,  *)
(* sessions and their refresh, logout, and the password reset.  auth.py    *)
(* runs each operation as a series of awaited statements, so a request is  *)
(* a small state machine and what it read may be out of date when it       *)
(* writes.                                                                 *)
(*                                                                         *)
(* The reset is one READ COMMITTED transaction: its UPDATE of auth_sessions *)
(* revokes the sessions its snapshot saw, and a session inserted between   *)
(* that statement and COMMIT is not among them.                            *)
(***************************************************************************)
EXTENDS Naturals, FiniteSets

CONSTANTS
    Passwords, Sessions, Tokens,
    Requests,       \* request slots: how many requests are in flight at once
    MaxFailures,    \* taskview_login_max_failures
    MaxGuesses,     \* bound: no wrong password is tried after this many failures
    NoRow, NoSession, NoToken, NoOrigin, Overtaken

ASSUME AuthAssumption ==
    /\ MaxFailures \in Nat \ {0}
    /\ MaxGuesses \in Nat
    /\ IsFiniteSet(Requests)
    /\ NoSession \notin Sessions
    /\ Overtaken \notin Passwords
    /\ NoToken \notin Tokens

Purposes == {"email_verification", "password_reset"}

(* verified also stands for the onboarding status: both leave              *)
(* 'email_verification' in the same statement                              *)
Account == [password : Passwords, failures : Nat, locked : BOOLEAN, verified : BOOLEAN]

(* unused: used_at is not set and expires_at has not passed; overlapped,   *)
(* history: issued while another request for a link of its purpose had     *)
(* looked at the links already                                             *)
Token == [purpose : Purposes, unused : BOOLEAN, overlapped : BOOLEAN]

(* History: where a session comes from.  The password proved at the login, *)
(* sign-up or reset it descends from, Overtaken when a reset overlapped     *)
(* the request that issued it; and the first session of that descent.  A   *)
(* refresh that finds its session revoked already begins a new descent.    *)
Origin == [proof : Passwords \cup {Overtaken}, root : Sessions \cup {NoSession}]

(* revoked: revoked_at is set; expired: expires_at has passed *)
Session == [revoked : BOOLEAN, expired : BOOLEAN, origin : Origin \cup {NoOrigin}]

ASSUME NullsAssumption == NoRow \notin Session \cup Account \cup Token /\ NoOrigin \notin Origin

Request == [pc : {"idle", "failing", "succeeding", "marking", "rotating", "issuing",
                  "mailing", "retiring", "resetting"},
            origin : Origin \cup {NoOrigin},      \* of the session it will issue
            parent : Sessions \cup {NoSession},   \* the session a refresh replaces
            mail : Purposes \cup {NoRow},         \* purpose of the link it has to issue
            token : Tokens \cup {NoToken},
            seen : SUBSET (Sessions \cup Tokens)] \* what the transaction's UPDATE saw

Idle == [pc |-> "idle", origin |-> NoOrigin, parent |-> NoSession, mail |-> NoRow,
         token |-> NoToken, seen |-> {}]

VARIABLES
    account,    \* the row of users
    session,    \* auth_sessions
    token,      \* auth_one_time_tokens
    required,   \* taskview_require_email_verification, as the process read it
    req,
    wrong,      \* history: wrong passwords refused since the account was last opened
    spent       \* history: how often each token was used, by what for

vars == <<account, session, token, required, req, wrong, spent>>

-----------------------------------------------------------------------------
Live(s) == session[s] # NoRow /\ ~ session[s].revoked /\ ~ session[s].expired

Goto(r, state) == req' = [req EXCEPT ![r] = state]
Respond(r) == Goto(r, Idle)

(* the history of a dead session or a used link is of no further use *)
Ended(old) == [old EXCEPT !.origin = NoOrigin]

Revoked(set) == [s \in Sessions |->
                    IF s \in set /\ session[s] # NoRow
                    THEN [Ended(session[s]) EXCEPT !.revoked = TRUE] ELSE session[s]]

Late(origin) == IF origin = NoOrigin THEN NoOrigin ELSE [origin EXCEPT !.proof = Overtaken]

(* a login or a reset that proved the password *)
From(secret) == [proof |-> secret, root |-> NoSession]

-----------------------------------------------------------------------------
(* log_in *)

(* get_user_for_auth, the password and the lock, all from one read *)
LoginRead(r, secret) ==
    /\ req[r] = Idle
    /\ account # NoRow
    /\ ~ account.locked
    /\ \/ /\ secret = account.password
          /\ Goto(r, [Idle EXCEPT !.pc = "succeeding", !.origin = From(secret)])
       \/ /\ secret # account.password
          /\ account.failures < MaxGuesses
          /\ Goto(r, [Idle EXCEPT !.pc = "failing"])
    /\ UNCHANGED <<account, session, token, required, wrong, spent>>

OneFailureLate(failures) == failures + 1 > MaxFailures   \* mutant: off by one

ReachesLimit(failures) == failures + 1 >= MaxFailures

RecordLoginFailure(r) ==
    /\ req[r].pc = "failing"
    /\ account' = [account EXCEPT !.failures = @ + 1,
                                  !.locked = @ \/ ReachesLimit(account.failures)]
    /\ wrong' = wrong + 1
    /\ Respond(r)
    /\ UNCHANGED <<session, token, required, spent>>

(* mark_email_verified comes first when the address is unverified and need *)
(* not be verified: an account from before the setting was turned off.     *)
Marked(state) == IF required \/ account.verified THEN state ELSE [state EXCEPT !.pc = "marking"]

(* It opens an account that was locked since this login read it. *)
RecordLoginSuccess(r) ==
    /\ req[r].pc = "succeeding"
    /\ account' = [account EXCEPT !.failures = 0, !.locked = FALSE]
    /\ wrong' = 0
    /\ Goto(r, Marked([req[r] EXCEPT !.pc = "issuing"]))
    /\ UNCHANGED <<session, token, required, spent>>

(* of a login, or of get_current_user, which a refresh begins with *)
MarkVerified(r) ==
    /\ req[r].pc = "marking"
    /\ account' = [account EXCEPT !.verified = TRUE]
    /\ Goto(r, [req[r] EXCEPT !.pc = IF req[r].parent = NoSession THEN "issuing" ELSE "rotating"])
    /\ UNCHANGED <<session, token, required, wrong, spent>>

(* issue_session, the last step of login, refresh and reset; a sign-up     *)
(* goes on with the verification link                                      *)
NewSessionWithoutDefault(origin, s) ==   \* mutant: the column has no default
    [revoked |-> NoRow, expired |-> FALSE, origin |-> [origin EXCEPT !.root = s]]

NewSession(origin, s) ==
    [revoked |-> FALSE, expired |-> FALSE,
     origin |-> IF origin.root = NoSession THEN [origin EXCEPT !.root = s] ELSE origin]

IssueSession(r, s) ==
    /\ req[r].pc = "issuing"
    /\ session[s] = NoRow
    /\ session' = [session EXCEPT ![s] = NewSession(req[r].origin, s)]
    /\ IF req[r].mail = NoRow THEN Respond(r)
       ELSE Goto(r, [Idle EXCEPT !.pc = "mailing"])
    /\ UNCHANGED <<account, token, required, wrong, spent>>

-----------------------------------------------------------------------------
(* sign_up: create_user, which the unique index on the address allows once, *)
(* then a session, then the link                                           *)
SignUp(r, secret) ==
    /\ req[r] = Idle
    /\ account = NoRow
    /\ account' = [password |-> secret, failures |-> 0, locked |-> FALSE, verified |-> ~ required]
    /\ Goto(r, [Idle EXCEPT !.pc = "issuing", !.origin = From(secret),
                            !.mail = IF required THEN "email_verification" ELSE NoRow])
    /\ UNCHANGED <<session, token, required, wrong, spent>>

-----------------------------------------------------------------------------
(* rotate_session and logout *)

(* get_user_by_session, the dependency of the refresh handler *)
RefreshRead(r, s) ==
    /\ req[r] = Idle
    /\ Live(s)
    /\ Goto(r, Marked([Idle EXCEPT !.pc = "rotating", !.origin = session[s].origin,
                                   !.parent = s]))
    /\ UNCHANGED <<account, session, token, required, wrong, spent>>

KeepOld(r) == session   \* mutant: the old session is not revoked

RevokeOld(r) == Revoked({req[r].parent})

(* nobody looks at whether the UPDATE revoked anything *)
RefreshRevoke(r) ==
    /\ req[r].pc = "rotating"
    /\ session' = RevokeOld(r)
    /\ Goto(r, [req[r] EXCEPT !.pc = "issuing", !.parent = NoSession,
                              !.origin.root = IF session[req[r].parent].revoked
                                                THEN NoSession ELSE @])
    /\ UNCHANGED <<account, token, required, wrong, spent>>

Logout(s) ==
    /\ session[s] # NoRow
    /\ session' = Revoked({s})
    /\ UNCHANGED <<account, token, required, req, wrong, spent>>

-----------------------------------------------------------------------------
(* issue_one_time_token: retire the unused links, insert a new one *)

UnusedOfOther(purpose) ==   \* mutant: the links of the other purpose
    {t \in Tokens : token[t] # NoRow /\ token[t].unused /\ token[t].purpose # purpose}

Unused(purpose) == {t \in Tokens : token[t] # NoRow /\ token[t].unused /\ token[t].purpose = purpose}

Retiring(purpose) == [Idle EXCEPT !.pc = "retiring", !.mail = purpose, !.seen = Unused(purpose)]

(* of a sign-up or of resend_email_verification *)
TokenRetire(r) ==
    /\ req[r].pc = "mailing"
    /\ Goto(r, Retiring("email_verification"))
    /\ UNCHANGED <<account, session, token, required, wrong, spent>>

(* request_password_reset: what it read before, that there is an account, stays true *)
RequestReset(r) ==
    /\ req[r] = Idle
    /\ account # NoRow
    /\ Goto(r, Retiring("password_reset"))
    /\ UNCHANGED <<account, session, token, required, wrong, spent>>

(* resend_email_verification, the look at the session and the user *)
Resend(r, s) ==
    /\ req[r] = Idle
    /\ Live(s)
    /\ required /\ ~ account.verified
    /\ Goto(r, [Idle EXCEPT !.pc = "mailing"])
    /\ UNCHANGED <<account, session, token, required, wrong, spent>>

(* a reset holds the row of its token FOR UPDATE *)
Held(t) == \E r \in Requests : req[r].pc = "resetting" /\ req[r].token = t

(* another request for a link of this purpose has looked at the links *)
Overlapped(r) == \E o \in Requests \ {r} : req[o].pc = "retiring" /\ req[o].mail = req[r].mail

Used(set) == [t \in Tokens |->
                 IF t \in set /\ token[t] # NoRow
                 THEN [token[t] EXCEPT !.unused = FALSE, !.overlapped = FALSE] ELSE token[t]]

TokenInsert(r, t) ==
    /\ req[r].pc = "retiring"
    /\ token[t] = NoRow
    /\ \A u \in req[r].seen : ~ Held(u)
    /\ token' = [Used(req[r].seen) EXCEPT
                     ![t] = [purpose |-> req[r].mail, unused |-> TRUE, overlapped |-> Overlapped(r)]]
    /\ Respond(r)
    /\ UNCHANGED <<account, session, required, wrong, spent>>

UsableForAny(t, purpose) ==   \* mutant: the purpose is not looked at
    t \in Tokens /\ token[t] # NoRow /\ token[t].unused /\ ~ Held(t)

UsableUnlocked(t, purpose) == t \in Unused(purpose)   \* mutant: no FOR UPDATE

Usable(t, purpose) == t \in Unused(purpose) /\ ~ Held(t)

(* confirm_email_verification, a transaction that locks the link and the user *)
ConfirmVerification(t) ==
    /\ Usable(t, "email_verification")
    /\ account' = [account EXCEPT !.verified = TRUE]
    /\ token' = Used({t})
    /\ spent' = [spent EXCEPT ![t]["email_verification"] = @ + 1]
    /\ UNCHANGED <<session, required, req, wrong>>

(* reset_password_with_token, then issue_session: the token's row is locked *)
(* and the UPDATE of auth_sessions has run                                  *)
ResetBegin(r, t) ==
    /\ req[r] = Idle
    /\ Usable(t, "password_reset")
    /\ Goto(r, [Idle EXCEPT !.pc = "resetting", !.token = t,
                            !.seen = {s \in Sessions : session[s] # NoRow}])
    /\ UNCHANGED <<account, session, token, required, wrong, spent>>

RevokeNone(r) == {}   \* mutant: a reset leaves the sessions alone

RevokedByReset(r) == req[r].seen

ResetCommit(r, new) ==
    LET q == req[r] IN
    /\ q.pc = "resetting"
    /\ account' = [account EXCEPT !.password = new, !.failures = 0, !.locked = FALSE]
    /\ wrong' = 0
    /\ token' = Used({q.token})
    /\ spent' = [spent EXCEPT ![q.token]["password_reset"] = @ + 1]
    /\ session' = [s \in Sessions |->
                      IF s \in Sessions \ q.seen /\ Live(s)
                      THEN [session[s] EXCEPT !.origin = Late(@)]
                      ELSE Revoked(RevokedByReset(r))[s]]
    /\ req' = [o \in Requests |->
                  IF o = r THEN [Idle EXCEPT !.pc = "issuing", !.origin = From(new)]
                  ELSE [req[o] EXCEPT !.origin = Late(@)]]
    /\ UNCHANGED required

-----------------------------------------------------------------------------
(* The clock, and a process that is stopped with its requests and          *)
(* transactions and started again, perhaps with another setting            *)

LockLapses ==
    /\ account # NoRow
    /\ account.locked
    /\ account' = [account EXCEPT !.locked = FALSE]
    /\ wrong' = 0
    /\ UNCHANGED <<session, token, required, req, spent>>

SessionExpires(s) ==
    /\ Live(s)
    /\ session' = [session EXCEPT ![s] = [Ended(@) EXCEPT !.expired = TRUE]]
    /\ UNCHANGED <<account, token, required, req, wrong, spent>>

TokenExpires(t) ==
    /\ token[t] # NoRow /\ token[t].unused
    /\ token' = Used({t})
    /\ UNCHANGED <<account, session, required, req, wrong, spent>>

Restart ==
    /\ req' = [r \in Requests |-> Idle]
    /\ required' \in BOOLEAN
    /\ UNCHANGED <<account, session, token, wrong, spent>>

-----------------------------------------------------------------------------
Init ==
    /\ account = NoRow
    /\ session = [s \in Sessions |-> NoRow]
    /\ token = [t \in Tokens |-> NoRow]
    /\ required \in BOOLEAN
    /\ req = [r \in Requests |-> Idle]
    /\ wrong = 0
    /\ spent = [t \in Tokens |-> [p \in Purposes |-> 0]]

Step(r) ==
    \/ \E p \in Passwords : SignUp(r, p) \/ LoginRead(r, p) \/ ResetCommit(r, p)
    \/ RecordLoginFailure(r) \/ RecordLoginSuccess(r) \/ MarkVerified(r)
    \/ \E s \in Sessions : RefreshRead(r, s) \/ IssueSession(r, s) \/ Resend(r, s)
    \/ RefreshRevoke(r)
    \/ RequestReset(r) \/ TokenRetire(r)
    \/ \E t \in Tokens : TokenInsert(r, t) \/ ResetBegin(r, t)

Next == \/ \E r \in Requests : Step(r)
        \/ \E s \in Sessions : Logout(s) \/ SessionExpires(s)
        \/ \E t \in Tokens : ConfirmVerification(t) \/ TokenExpires(t)
        \/ LockLapses \/ Restart

Spec == Init /\ [][Next]_vars

-----------------------------------------------------------------------------
(* Properties *)

\* The account, its sessions and links, and the requests are of their declared types.
TypeOK ==
    /\ account \in Account \cup {NoRow}
    /\ session \in [Sessions -> Session \cup {NoRow}]
    /\ token \in [Tokens -> Token \cup {NoRow}]
    /\ required \in BOOLEAN
    /\ req \in [Requests -> Request]
    /\ wrong \in Nat
    /\ spent \in [Tokens -> [Purposes -> Nat]]

\* A reset ends every session that rests on an older password (reset_password_with_token revokes
\* them all): one is alive afterwards only if the request that issued it, or the one that issued
\* a session it was refreshed from, overlapped the reset.
OnlyLateSessionsOutliveReset ==
    \A s \in Sessions : Live(s) => session[s].origin.proof \in {account.password, Overtaken}

\* A login, sign-up or reset has one live session at a time, however often it is refreshed and
\* whatever refreshes and logouts interleave.  A second one comes only from a refresh that found its
\* session revoked already (rotate_session ignores that), and again has one live session at a time.
OneSessionPerLogin ==
    \A s, t \in Sessions :
        Live(s) /\ Live(t) /\ session[s].origin.root = session[t].origin.root => s = t

\* A link is used once, and for what it was issued for, although requests with the same link overlap
\* (FOR UPDATE, and used_at is looked at again after the wait).  Issuing a link retires the older
\* ones of its purpose: a second usable one was issued while the other's request was on its way.
LinksWorkOnce ==
    /\ \A t \in Tokens, p \in Purposes :
          spent[t][p] <= IF token[t] # NoRow /\ token[t].purpose = p THEN 1 ELSE 0
    /\ \A p \in Purposes : \A t, u \in Unused(p) :
          t # u => token[t].overlapped \/ token[u].overlapped

\* The lockout may be overshot, since the lock is read a statement before the failure is counted,
\* but by no more than the requests in flight.
LockoutIsBounded == wrong < MaxFailures + Cardinality(Requests)
=============================================================================
