-------------------------- MODULE ApiKeyAccessProofs ---------------------------
(***************************************************************************)
(* Proofs about ApiKeyAccess, for any number of keys, admins, workspaces   *)
(* and requests.                                                           *)
(***************************************************************************)
EXTENDS ApiKeyAccess, TLAPS

-----------------------------------------------------------------------------
(* The inductive invariant *)

(* last_used_at and the answers *)
KeyInv(k) == IF key[k] = NoRow THEN k \notin answered ELSE key[k].used <=> k \in answered

(* the key k, if it is one, opens the endpoint *)
Granted(k, endpoint) == k # NoKey => key[k] # NoRow /\ ScopeOf(endpoint) \in key[k].scopes

(* the view was found readable through it *)
Released(k) == view.approved /\ (k # NoKey => key[k].ws = Home /\ view.mode # "dashboard")

RequestInv(r) ==
    LET q == req[r] IN
    /\ q.pc # "idle" => q.endpoint \in Endpoints /\ Granted(q.key, q.endpoint)
    /\ q.pc \in {"exporting", "answering"} => Released(q.key)
    /\ q.pc = "answering" /\ q.endpoint = "csv" => q.audited

AnswerInv ==
    answer # NoRow =>
        /\ answer.active
        /\ Granted(answer.key, answer.endpoint)
        /\ Released(answer.key)
        /\ answer.endpoint = "csv" => answer.audited

IInv ==
    /\ TypeOK
    /\ \A k \in Keys : KeyInv(k)
    /\ \A r \in Requests : RequestInv(r)
    /\ AnswerInv

-----------------------------------------------------------------------------
(* What holds of a key and of the view goes on to hold *)

(* keys keep their workspace and scopes, views their mode, and no approval is withdrawn *)
Steady ==
    /\ \A k \in Keys : key[k] # NoRow =>
           key'[k] # NoRow /\ key'[k].ws = key[k].ws /\ key'[k].scopes = key[k].scopes
    /\ view.approved => view'.approved
    /\ view'.mode = view.mode

LEMMA SteadyGrant ==
    ASSUME Steady, NEW k \in Keys \cup {NoKey}, NEW e \in Endpoints
    PROVE  /\ Granted(k, e) => Granted(k, e)'
           /\ Granted(k, e) /\ Released(k) => Released(k)'
  BY ApiKeyAssumption DEF Steady, Granted, Released

LEMMA IdleIsQuiet == Idle \in Request /\ Idle.pc = "idle"
  BY DEF Idle, Request

(* a request that is not touched, while key and view are steady *)
LEMMA OtherRequest ==
    ASSUME IInv, Steady, NEW s \in Requests, req'[s] = req[s]
    PROVE  RequestInv(s)'
<1>1. RequestInv(s) /\ req[s].key \in Keys \cup {NoKey}
  BY DEF IInv, TypeOK, Request
<1>2. CASE req[s].pc = "idle"
  BY <1>2 DEF RequestInv
<1>3. CASE req[s].pc # "idle"
  <2>1. /\ Granted(req[s].key, req[s].endpoint)'
        /\ req[s].pc \in {"exporting", "answering"} => Released(req[s].key)'
    BY <1>1, <1>3, SteadyGrant DEF RequestInv, Granted, Released
  <2>. QED
    BY <1>1, <2>1 DEF RequestInv, Granted, Released
<1>. QED
  BY <1>2, <1>3

LEMMA SameAnswer ==
    ASSUME IInv, Steady, answer' = answer
    PROVE  AnswerInv'
<1>1. CASE answer = NoRow
  BY <1>1 DEF AnswerInv
<1>2. CASE answer # NoRow
  <2>1. /\ answer.key \in Keys \cup {NoKey} /\ answer.endpoint \in Endpoints /\ AnswerInv
    BY <1>2 DEF IInv, TypeOK, Answer
  <2>2. Granted(answer.key, answer.endpoint)' /\ Released(answer.key)'
    BY <1>2, <2>1, SteadyGrant DEF AnswerInv, Granted, Released
  <2>. QED
    BY <2>1, <2>2 DEF AnswerInv, Granted, Released
<1>. QED
  BY <1>1, <1>2

(* one request goes on, and nothing else changes *)
LEMMA RequestStep ==
    ASSUME IInv, NEW r \in Requests, NEW state \in Request, Goto(r, state),
           UNCHANGED <<key, view, answer, answered>>,
           state.pc # "idle" => state.endpoint \in Endpoints /\ Granted(state.key, state.endpoint),
           state.pc \in {"exporting", "answering"} => Released(state.key),
           state.pc = "answering" /\ state.endpoint = "csv" => state.audited
    PROVE  IInv'
<1>1. req' = [req EXCEPT ![r] = state] /\ req \in [Requests -> Request] /\ Steady
  BY DEF Goto, IInv, TypeOK, Steady
<1>2. TypeOK'
  BY <1>1 DEF IInv, TypeOK
<1>3. \A k \in Keys : KeyInv(k)'
  BY DEF IInv, KeyInv
<1>4. ASSUME NEW s \in Requests PROVE RequestInv(s)'
  <2>1. CASE s = r
    BY <1>1, <2>1 DEF RequestInv, Granted, Released
  <2>2. CASE s # r
    BY <1>1, <2>2, OtherRequest
  <2>. QED
    BY <2>1, <2>2
<1>5. AnswerInv'
  BY <1>1, SameAnswer
<1>. QED
  BY <1>2, <1>3, <1>4, <1>5 DEF IInv

-----------------------------------------------------------------------------
(* Keys and view *)

LEMMA NewKeyRow ==
    ASSUME NEW w \in Workspaces, NEW scopes \in Grants
    PROVE  NewKey(w, scopes) \in Key /\ ~ NewKey(w, scopes).used
  BY DEF NewKey, Key

LEMMA ManageStep ==
    ASSUME IInv, Manage
    PROVE  IInv'
<1>1. /\ key \in [Keys -> Key \cup {NoRow}]
      /\ UNCHANGED <<view, req, answer, answered>>
  BY DEF Manage, CreateKey, RevokeKey, KeyExpires, IInv, TypeOK
<1>2. PICK k \in Keys, row \in Key :
         /\ key' = [key EXCEPT ![k] = row]
         /\ key[k] = NoRow => ~ row.used
         /\ key[k] # NoRow => /\ row.used = key[k].used
                              /\ row.ws = key[k].ws /\ row.scopes = key[k].scopes
  <2>1. ASSUME NEW i \in Keys, NEW w \in Workspaces, NEW s \in Grants, CreateKey(i, w, s)
        PROVE  key[i] = NoRow /\ key' = [key EXCEPT ![i] = NewKey(w, s)]
    BY <2>1 DEF CreateKey
  <2>2. ASSUME NEW a \in Admins, NEW i \in Keys, RevokeKey(a, i)
        PROVE  /\ key[i] \in Key /\ key[i] # NoRow
               /\ key' = [key EXCEPT ![i] = [key[i] EXCEPT !.revokedBy = a]]
               /\ [key[i] EXCEPT !.revokedBy = a] \in Key
    BY <1>1, <2>2 DEF RevokeKey, Revocable, Key
  <2>3. ASSUME NEW i \in Keys, KeyExpires(i)
        PROVE  /\ key[i] \in Key /\ key[i] # NoRow
               /\ key' = [key EXCEPT ![i] = [key[i] EXCEPT !.due = TRUE]]
               /\ [key[i] EXCEPT !.due = TRUE] \in Key
    BY <1>1, <2>3 DEF KeyExpires, Key
  <2>4. CASE \E i \in Keys, w \in Workspaces, s \in Grants : CreateKey(i, w, s)
    BY <2>1, <2>4, NewKeyRow
  <2>5. CASE \E a \in Admins, i \in Keys : RevokeKey(a, i)
    <3>1. PICK a \in Admins, i \in Keys : RevokeKey(a, i)
      BY <2>5
    <3>2. LET row == [key[i] EXCEPT !.revokedBy = a] IN
          row.used = key[i].used /\ row.ws = key[i].ws /\ row.scopes = key[i].scopes
      BY <2>2, <3>1 DEF Key
    <3>. QED
      BY <2>2, <3>1, <3>2
  <2>6. CASE \E i \in Keys : KeyExpires(i)
    <3>1. PICK i \in Keys : KeyExpires(i)
      BY <2>6
    <3>2. LET row == [key[i] EXCEPT !.due = TRUE] IN
          row.used = key[i].used /\ row.ws = key[i].ws /\ row.scopes = key[i].scopes
      BY <2>3, <3>1 DEF Key
    <3>. QED
      BY <2>3, <3>1, <3>2
  <2>. QED
    BY <2>4, <2>5, <2>6 DEF Manage
<1>3. Steady
  BY <1>1, <1>2, NoRowAssumption DEF Steady
<1>4. TypeOK'
  BY <1>1, <1>2 DEF IInv, TypeOK
<1>5. \A i \in Keys : KeyInv(i)'
  BY <1>1, <1>2, NoRowAssumption DEF IInv, KeyInv
<1>6. \A s \in Requests : RequestInv(s)'
  BY <1>1, <1>3, OtherRequest
<1>. QED
  BY <1>1, <1>3, <1>4, <1>5, <1>6, SameAnswer DEF IInv

LEMMA ViewStep ==
    ASSUME IInv, Approve \/ EvidenceExpires
    PROVE  IInv'
<1>1. /\ view \in View
      /\ view' = [view EXCEPT !.approved = TRUE] \/ view' = [view EXCEPT !.due = TRUE]
      /\ UNCHANGED <<key, req, answer, answered>>
  BY DEF Approve, EvidenceExpires, IInv, TypeOK
<1>2. Steady /\ view' \in View
  BY <1>1 DEF Steady, View
<1>3. TypeOK' /\ \A k \in Keys : KeyInv(k)'
  BY <1>1, <1>2 DEF IInv, TypeOK, KeyInv
<1>4. \A s \in Requests : RequestInv(s)'
  BY <1>1, <1>2, OtherRequest
<1>. QED
  BY <1>1, <1>2, <1>3, <1>4, SameAnswer DEF IInv

-----------------------------------------------------------------------------
(* The requests *)

LEMMA AuthenticateStep ==
    ASSUME IInv, NEW r \in Requests, NEW e \in Endpoints,
           AuthenticateSession(r, e) \/ \E k \in Keys : AuthenticateKey(r, k, e)
    PROVE  IInv'
<1>1. PICK k \in Keys \cup {NoKey}, state \in Request :
         /\ state.pc = "admitted" /\ state.key = k /\ state.endpoint = e
         /\ Goto(r, state)
         /\ Granted(k, e)
         /\ UNCHANGED <<key, view, answer, answered>>
  <2>1. CASE AuthenticateSession(r, e)
    <3>. DEFINE st == [Idle EXCEPT !.pc = "admitted", !.endpoint = e]
    <3>1. st \in Request /\ st.pc = "admitted" /\ st.key = NoKey /\ st.endpoint = e
      BY DEF Idle, Request
    <3>2. Goto(r, st) /\ UNCHANGED <<key, view, answer, answered>> /\ Granted(NoKey, e)
      BY <2>1 DEF AuthenticateSession, Granted
    <3>. HIDE DEF st
    <3>. QED
      BY <3>1, <3>2
  <2>2. ASSUME NEW k \in Keys, AuthenticateKey(r, k, e)
        PROVE  \E state \in Request :
                  /\ state.pc = "admitted" /\ state.key = k /\ state.endpoint = e
                  /\ Goto(r, state)
                  /\ Granted(k, e)
                  /\ UNCHANGED <<key, view, answer, answered>>
    <3>. DEFINE st == [Idle EXCEPT !.pc = "admitted", !.key = k, !.endpoint = e]
    <3>1. st \in Request /\ st.pc = "admitted" /\ st.key = k /\ st.endpoint = e
      BY DEF Idle, Request
    <3>2. Goto(r, st) /\ UNCHANGED <<key, view, answer, answered>> /\ Granted(k, e)
      BY <2>2 DEF AuthenticateKey, Active, NotYetUsed, Granted
    <3>. HIDE DEF st
    <3>. QED
      BY <3>1, <3>2
  <2>. QED
    BY <2>1, <2>2
<1>. QED
  BY <1>1, RequestStep

LEMMA ReadStep ==
    ASSUME IInv, NEW r \in Requests, ReadView(r)
    PROVE  IInv'
<1>. DEFINE q == req[r]
            state == [q EXCEPT !.pc = IF q.endpoint = "csv" THEN "exporting" ELSE "answering"]
<1>1. /\ q \in Request /\ q.pc = "admitted" /\ Readable(q.key) /\ Available
      /\ Goto(r, state) /\ UNCHANGED <<key, view, answer, answered>>
      /\ q.endpoint \in Endpoints /\ Granted(q.key, q.endpoint)
  BY DEF ReadView, IInv, TypeOK, RequestInv
<1>2. /\ state \in Request /\ state.key = q.key /\ state.endpoint = q.endpoint
      /\ state.pc = IF q.endpoint = "csv" THEN "exporting" ELSE "answering"
  BY <1>1 DEF Request
<1>3. Released(q.key)
  BY <1>1 DEF Readable, Available, Released
<1>. HIDE DEF q, state
<1>. QED
  BY <1>1, <1>2, <1>3, RequestStep

LEMMA RecordStep ==
    ASSUME IInv, NEW r \in Requests, RecordDownload(r)
    PROVE  IInv'
<1>. DEFINE q == req[r]
            state == [Recorded(q) EXCEPT !.pc = "answering"]
<1>1. /\ q \in Request /\ Goto(r, state) /\ UNCHANGED <<key, view, answer, answered>>
      /\ q.endpoint \in Endpoints /\ Granted(q.key, q.endpoint) /\ Released(q.key)
  BY DEF RecordDownload, IInv, TypeOK, RequestInv
<1>2. /\ state \in Request /\ state.key = q.key /\ state.endpoint = q.endpoint
      /\ state.pc = "answering" /\ state.audited
  BY <1>1 DEF Request, Recorded
<1>. HIDE DEF q, state
<1>. QED
  BY <1>1, <1>2, RequestStep

LEMMA AbortStep ==
    ASSUME IInv, NEW r \in Requests, Abort(r)
    PROVE  IInv'
  BY IdleIsQuiet, RequestStep DEF Abort, Respond

LEMMA AnswerStep ==
    ASSUME IInv, NEW r \in Requests, AnswerKey(r) \/ AnswerSession(r)
    PROVE  IInv'
<1>. DEFINE q == req[r]
<1>1. /\ q \in Request /\ q.endpoint \in Endpoints /\ q.key \in Keys \cup {NoKey}
      /\ Granted(q.key, q.endpoint) /\ Released(q.key)
      /\ q.endpoint = "csv" => q.audited
      /\ q.key = NoKey \/ Active(q.key)
      /\ req' = [req EXCEPT ![r] = Idle] /\ req \in [Requests -> Request]
      /\ key \in [Keys -> Key \cup {NoRow}]
      /\ answered \subseteq Keys
      /\ view' = view
      /\ answer' = [key |-> q.key, endpoint |-> q.endpoint, audited |-> q.audited,
                    active |-> q.key = NoKey \/ Active(q.key)]
  BY DEF AnswerKey, AnswerSession, Answered, Respond, Goto, StillActive, IInv, TypeOK, RequestInv, Request
<1>2. /\ answer' \in Answer /\ answer' # NoRow /\ answer'.key = q.key
      /\ answer'.endpoint = q.endpoint /\ answer'.audited = q.audited /\ answer'.active
  <2>1. (q.key = NoKey \/ Active(q.key)) \in BOOLEAN
    BY <1>1
  <2>2. q.audited \in BOOLEAN
    BY <1>1 DEF Request
  <2>3. answer' \in Answer
    BY <1>1, <2>1, <2>2 DEF Answer
  <2>. QED
    BY <1>1, <2>3, NoRowAssumption
<1>3. /\ key' \in [Keys -> Key \cup {NoRow}] /\ answered' \subseteq Keys
      /\ \A k \in Keys : KeyInv(k)'
      /\ Steady
  <2>1. CASE AnswerKey(r)
    <3>. DEFINE row == [key[q.key] EXCEPT !.used = TRUE]
    <3>1. /\ q.key \in Keys /\ key[q.key] \in Key /\ key[q.key] # NoRow
          /\ key' = [key EXCEPT ![q.key] = row]
          /\ answered' = answered \cup {q.key}
      BY <1>1, <2>1, ApiKeyAssumption DEF AnswerKey, StillActive, Active
    <3>2. /\ row \in Key /\ row # NoRow /\ row.used
          /\ row.ws = key[q.key].ws /\ row.scopes = key[q.key].scopes
      BY <3>1, NoRowAssumption DEF Key
    <3>. HIDE DEF row, q
    <3>3. key' \in [Keys -> Key \cup {NoRow}] /\ answered' \subseteq Keys
      BY <1>1, <3>1, <3>2
    <3>4. \A k \in Keys : KeyInv(k)'
      BY <1>1, <3>1, <3>2 DEF IInv, KeyInv
    <3>5. Steady
      BY <1>1, <3>1, <3>2 DEF Steady
    <3>. QED
      BY <3>3, <3>4, <3>5
  <2>2. CASE AnswerSession(r)
    <3>1. key' = key /\ answered' = answered
      BY <2>2 DEF AnswerSession
    <3>. QED
      BY <1>1, <3>1 DEF IInv, KeyInv, Steady
  <2>. QED
    BY <2>1, <2>2
<1>4. TypeOK'
  BY <1>1, <1>2, <1>3, IdleIsQuiet DEF IInv, TypeOK
<1>5. ASSUME NEW s \in Requests PROVE RequestInv(s)'
  <2>1. CASE s = r
    BY <1>1, <2>1, IdleIsQuiet DEF RequestInv
  <2>2. CASE s # r
    BY <1>1, <1>3, <2>2, OtherRequest
  <2>. QED
    BY <2>1, <2>2
<1>6. AnswerInv'
  <2>1. PICK k \in Keys \cup {NoKey}, e \in Endpoints : k = q.key /\ e = q.endpoint
    BY <1>1
  <2>2. Granted(k, e)' /\ Released(k)'
    BY <1>1, <1>3, <2>1, SteadyGrant
  <2>3. answer'.key = k /\ answer'.endpoint = e /\ (e = "csv" => answer'.audited)
    BY <1>1, <1>2, <2>1
  <2>. QED
    BY <1>2, <2>2, <2>3 DEF AnswerInv, Granted, Released
<1>. QED
  BY <1>3, <1>4, <1>5, <1>6 DEF IInv

-----------------------------------------------------------------------------
LEMMA InitInv == Init => IInv
<1>. SUFFICES ASSUME Init PROVE IInv
  OBVIOUS
<1>1. TypeOK
  BY IdleIsQuiet DEF Init, TypeOK, View
<1>. QED
  BY <1>1, IdleIsQuiet DEF Init, IInv, KeyInv, RequestInv, AnswerInv

LEMMA NextInv == IInv /\ [Next]_vars => IInv'
<1>. SUFFICES ASSUME IInv, [Next]_vars PROVE IInv'
  OBVIOUS
<1>1. ASSUME NEW r \in Requests, Serve(r) PROVE IInv'
  BY <1>1, AuthenticateStep, ReadStep, RecordStep, AnswerStep, AbortStep DEF Serve
<1>2. CASE UNCHANGED vars
  BY <1>2 DEF vars, IInv, TypeOK, KeyInv, RequestInv, AnswerInv, Granted, Released
<1>. QED
  BY <1>1, <1>2, ManageStep, ViewStep DEF Next

LEMMA SpecInv == Spec => []IInv
  BY InitInv, NextInv, PTL DEF Spec

-----------------------------------------------------------------------------
(* The theorems *)

\* Type correctness of keys, view and requests.
THEOREM AccessTypeCorrect == Spec => []TypeOK
<1>1. IInv => TypeOK
  BY DEF IInv
<1>. QED
  BY <1>1, SpecInv, PTL

\* Every answer goes out on a key that is active at that moment (record_workspace_api_key_use).
THEOREM DeadKeysGetNoAnswer == Spec => []NoAnswerOnDeadKey
<1>1. IInv => NoAnswerOnDeadKey
  BY DEF IInv, AnswerInv, NoAnswerOnDeadKey
<1>. QED
  BY <1>1, SpecInv, PTL

\* Answers stay within the workspace, the scopes and the views that a key is for.
THEOREM AnswersStayWithinGrant == Spec => []AnswersWithinGrant
<1>1. IInv => AnswersWithinGrant
  BY DEF IInv, AnswerInv, Granted, Released, AnswersWithinGrant
<1>. QED
  BY <1>1, SpecInv, PTL

\* last_used_at is set exactly for the keys of answered requests (record_workspace_api_key_use),
\* and a delivered CSV is on record (record_data_download comes first).
THEOREM RecordsAgreeWithAnswers == Spec => []RecordsMatchAnswers
<1>1. IInv => RecordsMatchAnswers
  BY DEF IInv, KeyInv, AnswerInv, RecordsMatchAnswers
<1>. QED
  BY <1>1, SpecInv, PTL

\* A revoked key stays revoked, with the admin who revoked it on record.
THEOREM RevocationsAreFinal == Spec => RevocationIsFinal
<1>. DEFINE Keeps(k) ==
        key[k] # NoRow /\ key[k].revokedBy # NoAdmin => key'[k].revokedBy = key[k].revokedBy
<1>1. ASSUME IInv, [Next]_vars, NEW k \in Keys PROVE Keeps(k)
  <2>1. key \in [Keys -> Key \cup {NoRow}]
    BY <1>1 DEF IInv, TypeOK
  <2>2. ASSUME NEW i \in Keys, NEW w \in Workspaces, NEW s \in Grants, CreateKey(i, w, s)
        PROVE  Keeps(k)
    BY <2>1, <2>2 DEF CreateKey
  <2>3. ASSUME NEW a \in Admins, NEW i \in Keys, RevokeKey(a, i) PROVE Keeps(k)
    BY <2>1, <2>3 DEF RevokeKey, Revocable
  <2>4. ASSUME NEW i \in Keys, KeyExpires(i) PROVE Keeps(k)
    BY <2>1, <2>4 DEF KeyExpires, Key
  <2>5. ASSUME NEW r \in Requests, AnswerKey(r) PROVE Keeps(k)
    BY <2>1, <2>5 DEF AnswerKey, StillActive, Active, Key
  <2>6. CASE UNCHANGED key
    BY <2>6
  <2>. HIDE DEF Keeps
  <2>. QED
    BY <1>1, <2>2, <2>3, <2>4, <2>5, <2>6
    DEF Next, Manage, Approve, EvidenceExpires, Serve, AuthenticateSession, AuthenticateKey,
        NotYetUsed, ReadView, RecordDownload, AnswerSession, Abort, vars
<1>2. IInv /\ [Next]_vars => [\A k \in Keys : Keeps(k)]_vars
  BY <1>1
<1>. QED
  BY <1>2, SpecInv, PTL DEF Spec, RevocationIsFinal
=============================================================================
