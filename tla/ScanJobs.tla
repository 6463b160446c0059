------------------------------- MODULE ScanJobs -------------------------------
(***************************************************************************)
(* Data-source scan jobs of one creator: a scan stores a job with the      *)
(* encrypted credentials, and completing it in time turns it into a source *)
(* of the workspace, which takes the credentials over.                     *)
(*                                                                         *)
(* is_expired compares with CURRENT_TIMESTAMP, the start of the            *)
(* transaction, so a completion that waits for the job's row judges it by  *)
(* the time before the wait.                                               *)
(***************************************************************************)
EXTENDS Naturals

CONSTANTS Jobs, Workspaces, Requests, NoRow, NoJob, NoWorkspace

ASSUME ScanJobsAssumption == NoJob \notin Jobs /\ NoWorkspace \notin Workspaces

(* cipher: credential_ciphertext is not NULL; due: expires_at has passed *)
Job == [ws : Workspaces, state : {"complete", "consumed", "expired"},
        cipher : BOOLEAN, due : BOOLEAN]

(* inTime (history): the transaction that wrote it began before expires_at *)
Source == [ws : Workspaces, inTime : BOOLEAN]

ASSUME NoRowAssumption == NoRow \notin Job /\ NoRow \notin Source

Request == [pc : {"idle", "scanning", "completing", "begun", "consuming", "expiring"},
            ws : Workspaces \cup {NoWorkspace},   \* principal.workspace_id
            job : Jobs \cup {NoJob},
            due : BOOLEAN]                        \* is_expired, fixed when the transaction starts

Idle == [pc |-> "idle", ws |-> NoWorkspace, job |-> NoJob, due |-> FALSE]

VARIABLES
    acting,     \* the workspace the creator's requests are resolved to
    owner,      \* the workspaces in which the creator is data owner or admin
    job,        \* data_source_scan_jobs
    source,     \* workspace_data_sources, by scan_job_id (UNIQUE)
    req

vars == <<acting, owner, job, source, req>>

-----------------------------------------------------------------------------
Goto(r, state) == req' = [req EXCEPT ![r] = state]
Respond(r) == Goto(r, Idle)

(* the creator joins a workspace, or one more of theirs is onboarded *)
MembershipChanges(w, roles) ==
    /\ acting' = w
    /\ owner' = roles
    /\ <<acting, owner>>' # <<acting, owner>>
    /\ UNCHANGED <<job, source, req>>

(* require_workspace_roles *)
Admit(r, pc, j) ==
    /\ req[r] = Idle
    /\ acting \in owner
    /\ Goto(r, [pc |-> pc, ws |-> acting, job |-> j, due |-> FALSE])
    /\ UNCHANGED <<acting, owner, job, source>>

-----------------------------------------------------------------------------
(* ui_scan_data_source *)
ScanStart(r) == Admit(r, "scanning", NoJob)

(* create_data_source_scan_job, once the catalogue has been read: one       *)
(* INSERT that looks at the role again                                     *)
ScannedForever(w) ==   \* mutant: expires_at is left out
    [ws |-> w, state |-> "complete", cipher |-> TRUE, due |-> NoRow]

Scanned(w) == [ws |-> w, state |-> "complete", cipher |-> TRUE, due |-> FALSE]

ScanStore(r, j) ==
    /\ req[r].pc = "scanning"
    /\ req[r].ws \in owner
    /\ job[j] = NoRow
    /\ job' = [job EXCEPT ![j] = Scanned(req[r].ws)]
    /\ Respond(r)
    /\ UNCHANGED <<acting, owner, source>>

-----------------------------------------------------------------------------
(* ui_complete_data_source_scan *)
CompleteStart(r, j) == Admit(r, "completing", j)

CompleteBegin(r) ==
    LET q == req[r] IN
    /\ q.pc = "completing"
    /\ job[q.job] # NoRow
    /\ Goto(r, [q EXCEPT !.pc = "begun", !.due = job[q.job].due])
    /\ UNCHANGED <<acting, owner, job, source>>

Holds(r, j) == req[r].pc \in {"consuming", "expiring"} /\ req[r].job = j

LockFree(j) == TRUE   \* mutant: no FOR UPDATE
Unlocked(j) == \A r \in Requests : ~ Holds(r, j)

AnyWorkspace(q) == TRUE   \* mutant: the row is not looked up within the workspace
SameWorkspace(q) == job[q.job].ws = q.ws

(* SELECT ... FOR UPDATE, and the branch it leads to *)
BranchIgnoringExpiry(q) ==   \* mutant: is_expired is not looked at
    IF job[q.job].state = "complete" THEN "consuming" ELSE "idle"

Branch(q) ==
    IF job[q.job].state = "consumed" THEN "idle"
    ELSE IF job[q.job].state = "expired" \/ q.due THEN "expiring" ELSE "consuming"

CompleteLock(r) ==
    LET q == req[r] IN
    /\ q.pc = "begun"
    /\ Unlocked(q.job)
    /\ IF SameWorkspace(q) /\ Branch(q) # "idle"
       THEN Goto(r, [q EXCEPT !.pc = Branch(q)])
       ELSE Respond(r)
    /\ UNCHANGED <<acting, owner, job, source>>

(* INSERT ... SELECT from the job, then the job gives its credentials up *)
KeepCiphertext(row) == [row EXCEPT !.state = "consumed"]   \* mutant: the job keeps its credentials

Consumed(row) == [row EXCEPT !.state = "consumed", !.cipher = FALSE]

Consume(r) ==
    LET q == req[r] IN
    /\ q.pc = "consuming"
    /\ job[q.job].state = "complete" /\ job[q.job].cipher
    /\ source[q.job] = NoRow
    /\ source' = [source EXCEPT ![q.job] = [ws |-> job[q.job].ws, inTime |-> ~ q.due]]
    /\ job' = [job EXCEPT ![q.job] = Consumed(@)]
    /\ Respond(r)
    /\ UNCHANGED <<acting, owner>>

Expire(r) ==
    LET q == req[r] IN
    /\ q.pc = "expiring"
    /\ job' = [job EXCEPT ![q.job].state = "expired", ![q.job].cipher = FALSE]
    /\ Respond(r)
    /\ UNCHANGED <<acting, owner, source>>

-----------------------------------------------------------------------------
TimePasses(j) ==
    /\ job[j] # NoRow
    /\ ~ job[j].due
    /\ job' = [job EXCEPT ![j].due = TRUE]
    /\ UNCHANGED <<acting, owner, source, req>>

(* an unreachable database or server, a refused INSERT, an unknown job, the *)
(* end of the process: what the transaction did is rolled back             *)
Abort(r) ==
    /\ req[r] # Idle
    /\ Respond(r)
    /\ UNCHANGED <<acting, owner, job, source>>

-----------------------------------------------------------------------------
Init ==
    /\ acting \in Workspaces
    /\ owner \in SUBSET Workspaces
    /\ job = [j \in Jobs |-> NoRow]
    /\ source = [j \in Jobs |-> NoRow]
    /\ req = [r \in Requests |-> Idle]

Statement(r) ==
    \/ \E j \in Jobs : ScanStore(r, j)
    \/ CompleteBegin(r) \/ CompleteLock(r) \/ Consume(r) \/ Expire(r)

Next ==
    \/ \E r \in Requests : Statement(r) \/ ScanStart(r) \/ Abort(r)
    \/ \E r \in Requests, j \in Jobs : CompleteStart(r, j)
    \/ \E j \in Jobs : TimePasses(j)
    \/ \E w \in Workspaces, roles \in SUBSET Workspaces : MembershipChanges(w, roles)

Spec == Init /\ [][Next]_vars

(* A request that was admitted is answered.  Nothing obliges a client to    *)
(* send one.                                                               *)
Answering(r) == Statement(r) \/ Abort(r)

FairSpec == Spec /\ \A r \in Requests : WF_vars(Answering(r))

-----------------------------------------------------------------------------
(* Properties *)

\* Jobs, sources and requests are of their declared types.
TypeOK ==
    /\ acting \in Workspaces
    /\ owner \subseteq Workspaces
    /\ job \in [Jobs -> Job \cup {NoRow}]
    /\ source \in [Jobs -> Source \cup {NoRow}]
    /\ req \in [Requests -> Request]

\* The credentials are in one place: with the job until it is consumed or expired, then with its
\* source if it was consumed and nowhere if it expired, however completions of it overlap.
CredentialsHaveOneHome ==
    \A j \in Jobs :
        IF job[j] = NoRow THEN source[j] = NoRow
        ELSE /\ job[j].cipher <=> job[j].state = "complete"
             /\ source[j] # NoRow <=> job[j].state = "consumed"

(* where the credentials of a job are: with it, with its source, or nowhere *)
Places(j) == {p \in {"job", "source"} : IF p = "job" THEN job[j].cipher ELSE source[j] # NoRow}

CustodyOf(j) ==
    IF job[j] = NoRow THEN NoRow
    ELSE [at |-> Places(j), ws |-> IF source[j] = NoRow THEN job[j].ws ELSE source[j].ws]

Vault == INSTANCE CredentialVault WITH
    None <- NoRow,
    custody <- [j \in Jobs |-> CustodyOf(j)],
    late <- {j \in Jobs : job[j] # NoRow /\ job[j].due}

ASSUME VaultNullAssumption == NoRow \notin Vault!Custody

\* The tables implement the vault: the credentials of a scan are in one place, are handed over at
\* most once and within the workspace they were taken for, are discarded only when expires_at has
\* passed, and are final after either, whichever completions wait for the job or come too late.
ImplementsVault == Vault!Spec

\* A source comes from a completion whose transaction began before the job expired, even if it
\* waited for another one beyond that moment.
SourcesCameInTime == \A j \in Jobs : source[j] # NoRow => source[j].inTime

\* A completion takes effect only on a job of the workspace it was admitted to, although the
\* creator may have moved on to another workspace since the scan.
CompletionStaysInWorkspace ==
    \A r \in Requests : req[r].pc \in {"consuming", "expiring"} => job[req[r].job].ws = req[r].ws

\* README.md: the ciphertext of a scan job is deleted when the job expires.
ExpiredCredentialsAreDeleted ==
    \A j \in Jobs : (job[j] # NoRow /\ job[j].due) ~> (job[j] # NoRow /\ ~ job[j].cipher)
=============================================================================
