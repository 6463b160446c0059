----------------------------- MODULE ApiKeyAccess -----------------------------
(***************************************************************************)
(* API keys of workspaces and the outputs of one Task View that they and   *)
(* the sessions of members read.  A handler looks at the key, then at the  *)
(* view, then builds the output, and looks at the key again in the UPDATE  *)
(* that records its use: key and view may change at every await between.   *)
(***************************************************************************)
EXTENDS FiniteSets

CONSTANTS
    Keys, Admins, Workspaces, Requests,
    Grants,         \* the sets of scopes that keys are created with
    Home,           \* the workspace of the view
    NoRow, NoKey, NoAdmin

Endpoints == {"artifacts", "data", "csv", "analytics"}
Scopes == {"artifacts", "data", "analytics"}

ASSUME ApiKeyAssumption ==
    /\ Grants \subseteq (SUBSET Scopes) \ {{}}
    /\ Home \in Workspaces
    /\ NoKey \notin Keys
    /\ NoAdmin \notin Admins

(* require_taskview_scope *)
ScopeOf(endpoint) == IF endpoint = "csv" THEN "data" ELSE endpoint

(* due: expires_at has passed; used: last_used_at is set *)
Key == [ws : Workspaces, scopes : Grants, due : BOOLEAN,
        revokedBy : Admins \cup {NoAdmin}, used : BOOLEAN]

(* due: the TTL of the evidence has passed *)
View == [approved : BOOLEAN, mode : {"dashboard", "api"}, due : BOOLEAN]

Request == [pc : {"idle", "admitted", "exporting", "answering"},
            key : Keys \cup {NoKey},    \* NoKey: a session of a member of Home
            endpoint : Endpoints \cup {"none"},
            audited : BOOLEAN]          \* the download is on record

Idle == [pc |-> "idle", key |-> NoKey, endpoint |-> "none", audited |-> FALSE]

(* History, what the last answer was: its request, whether the key was     *)
(* active then, and what the view was when it was looked at.               *)
Answer == [key : Keys \cup {NoKey}, endpoint : Endpoints, audited : BOOLEAN, active : BOOLEAN]

ASSUME NoRowAssumption == NoRow \notin Key /\ NoRow \notin Answer

VARIABLES
    key,        \* workspace_api_keys
    view,       \* the row of task_views, with the TTL of its evidence
    req,
    answer,     \* history
    answered    \* history: the keys whose requests were answered

vars == <<key, view, req, answer, answered>>

-----------------------------------------------------------------------------
Goto(r, state) == req' = [req EXCEPT ![r] = state]
Respond(r) == Goto(r, Idle)

Active(k) == key[k] # NoRow /\ key[k].revokedBy = NoAdmin /\ ~ key[k].due

-----------------------------------------------------------------------------
(* Key management.  Both statements look for the role of an admin again;    *)
(* who has it changes in Workspaces, so here an admin of Admins is whoever *)
(* the statement finds to be one.                                          *)

(* create_workspace_api_key *)
NewKeyWithoutDefault(w, scopes) ==   \* mutant: the use of a new key is not NULL
    [ws |-> w, scopes |-> scopes, due |-> FALSE, revokedBy |-> NoAdmin, used |-> NoRow]

NewKey(w, scopes) ==
    [ws |-> w, scopes |-> scopes, due |-> FALSE, revokedBy |-> NoAdmin, used |-> FALSE]

CreateKey(k, w, scopes) ==
    /\ key[k] = NoRow
    /\ key' = [key EXCEPT ![k] = NewKey(w, scopes)]
    /\ UNCHANGED <<view, req, answer, answered>>

(* revoke_workspace_api_key *)
AnyKey(k) == key[k] # NoRow   \* mutant: a revoked key is revoked again

Revocable(k) == key[k] # NoRow /\ key[k].revokedBy = NoAdmin

RevokeKey(a, k) ==
    /\ Revocable(k)
    /\ key' = [key EXCEPT ![k].revokedBy = a]
    /\ UNCHANGED <<view, req, answer, answered>>

KeyExpires(k) ==
    /\ key[k] # NoRow
    /\ ~ key[k].due
    /\ key' = [key EXCEPT ![k].due = TRUE]
    /\ UNCHANGED <<view, req, answer, answered>>

-----------------------------------------------------------------------------
(* The view: approval issues its evidence, and the TTL starts to run *)

Approve ==
    /\ ~ view.approved
    /\ view' = [view EXCEPT !.approved = TRUE]
    /\ UNCHANGED <<key, req, answer, answered>>

EvidenceExpires ==
    /\ view.approved
    /\ ~ view.due
    /\ view' = [view EXCEPT !.due = TRUE]
    /\ UNCHANGED <<key, req, answer, answered>>

-----------------------------------------------------------------------------
(* get_artifacts, get_materialized_data, download_materialized_data and    *)
(* get_task_view_analytics                                                 *)

UsedOnEntry(k) == [key EXCEPT ![k].used = TRUE]   \* mutant: authentication counts as a use

NotYetUsed(k) == key

(* authenticate_workspace_api_key and the scope *)
AuthenticateKey(r, k, endpoint) ==
    /\ req[r] = Idle
    /\ Active(k)
    /\ ScopeOf(endpoint) \in key[k].scopes
    /\ key' = NotYetUsed(k)
    /\ Goto(r, [Idle EXCEPT !.pc = "admitted", !.key = k, !.endpoint = endpoint])
    /\ UNCHANGED <<view, answer, answered>>

AuthenticateSession(r, endpoint) ==
    /\ req[r] = Idle
    /\ Goto(r, [Idle EXCEPT !.pc = "admitted", !.endpoint = endpoint])
    /\ UNCHANGED <<key, view, answer, answered>>

(* get_authorized_output_view, enforce_api_key_output_mode and *)
(* enforce_output_availability                                 *)
ReadableInAnyWorkspace(k) == k # NoKey => view.mode # "dashboard"   \* mutant: workspace not looked at

Readable(k) == k # NoKey => key[k].ws = Home /\ view.mode # "dashboard"

Available == view.approved /\ ~ view.due

ReadView(r) ==
    LET q == req[r] IN
    /\ q.pc = "admitted"
    /\ Readable(q.key)
    /\ Available
    /\ Goto(r, [q EXCEPT !.pc = IF q.endpoint = "csv" THEN "exporting" ELSE "answering"])
    /\ UNCHANGED <<key, view, answer, answered>>

(* record_data_download, after the rows have been read; its own lookup of  *)
(* the view finds it, since views are never deleted                        *)
Unrecorded(q) == q   \* mutant: no event is written

Recorded(q) == [q EXCEPT !.audited = TRUE]

RecordDownload(r) ==
    /\ req[r].pc = "exporting"
    /\ Goto(r, [Recorded(req[r]) EXCEPT !.pc = "answering"])
    /\ UNCHANGED <<key, view, answer, answered>>

(* record_workspace_api_key_use, and the response; a session has no recheck *)
Existing(k) == key[k] # NoRow   \* mutant: revocation and expiry are not looked at again

StillActive(k) == Active(k)

Answered(r) ==
    LET q == req[r] IN
    answer' = [key |-> q.key, endpoint |-> q.endpoint, audited |-> q.audited,
               active |-> q.key = NoKey \/ Active(q.key)]

AnswerKey(r) ==
    LET k == req[r].key IN
    /\ req[r].pc = "answering"
    /\ k # NoKey
    /\ StillActive(k)
    /\ key' = [key EXCEPT ![k].used = TRUE]
    /\ answered' = answered \cup {k}
    /\ Answered(r)
    /\ Respond(r)
    /\ UNCHANGED view

AnswerSession(r) ==
    /\ req[r].pc = "answering"
    /\ req[r].key = NoKey
    /\ Answered(r)
    /\ Respond(r)
    /\ UNCHANGED <<key, view, answered>>

(* a refusal (401, 403, 404, 409, 410), a failure or the end of the process *)
Abort(r) ==
    /\ req[r] # Idle
    /\ Respond(r)
    /\ UNCHANGED <<key, view, answer, answered>>

-----------------------------------------------------------------------------
Init ==
    /\ key = [k \in Keys |-> NoRow]
    /\ view \in [approved : {FALSE}, mode : {"dashboard", "api"}, due : {FALSE}]
    /\ req = [r \in Requests |-> Idle]
    /\ answer = NoRow
    /\ answered = {}

Manage ==
    \/ \E k \in Keys, w \in Workspaces, s \in Grants : CreateKey(k, w, s)
    \/ \E a \in Admins, k \in Keys : RevokeKey(a, k)
    \/ \E k \in Keys : KeyExpires(k)

Serve(r) ==
    \/ \E e \in Endpoints : AuthenticateSession(r, e) \/ \E k \in Keys : AuthenticateKey(r, k, e)
    \/ ReadView(r) \/ RecordDownload(r) \/ AnswerKey(r) \/ AnswerSession(r) \/ Abort(r)

Next == Manage \/ Approve \/ EvidenceExpires \/ \E r \in Requests : Serve(r)

Spec == Init /\ [][Next]_vars

-----------------------------------------------------------------------------
(* Properties *)

\* Keys, the view, the requests and the histories are of their declared types.
TypeOK ==
    /\ key \in [Keys -> Key \cup {NoRow}]
    /\ view \in View
    /\ req \in [Requests -> Request]
    /\ answer \in Answer \cup {NoRow}
    /\ answered \subseteq Keys

\* No answer goes out on a key that was revoked or has expired since it was authenticated,
\* however long the output took to build (record_workspace_api_key_use looks again).
NoAnswerOnDeadKey == answer # NoRow => answer.active

\* A key reads only approved views of its own workspace that are not for the dashboard alone, and
\* only through the endpoints of its scopes, although scopes and workspace are taken from the row
\* as it was at authentication.
AnswersWithinGrant ==
    answer # NoRow /\ answer.key # NoKey =>
        LET row == key[answer.key] IN
        /\ row.ws = Home /\ ScopeOf(answer.endpoint) \in row.scopes
        /\ view.approved /\ view.mode # "dashboard"

\* What is on record is what went out: last_used_at is set for the keys that were answered and for
\* no other (refusals and aborted requests, of whatever cause and at whatever step, leave no
\* trace on the key), and every CSV that is delivered was put on record before.
RecordsMatchAnswers ==
    /\ \A k \in Keys : key[k] # NoRow => (key[k].used <=> k \in answered)
    /\ answer # NoRow /\ answer.endpoint = "csv" => answer.audited

\* Who revoked a key stays on record: a second admin's revocation does not replace it, and
\* nothing makes the key valid again.
RevocationIsFinal ==
    [][\A k \in Keys :
          key[k] # NoRow /\ key[k].revokedBy # NoAdmin => key'[k].revokedBy = key[k].revokedBy]_vars
=============================================================================
