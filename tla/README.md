# Needex BE: a verification project

Needex BE (`src/src/taskview_be`) is a FastAPI service over PostgreSQL. Members of a workspace ask
for *task views*; an AI service plans one, a deterministic policy judges it, its creator submits it,
and a data owner decides. Around this workflow stand accounts and sessions, workspaces, API keys,
a mail outbox, data-source scans and a public demo.

This directory models the parts that keep state, checks them with TLC on small instances, and proves
the most important properties with TLAPS for instances of any size. Paths below are relative to
`src/src/taskview_be` unless they start with `src/`.

## 1. Inventory

| component | state | operations | what is hard | what makes it correct |
|---|---|---|---|---|
| Task View approval (`service.py`, `main.py`, `store.py` 1887-2293, 2380-2414) | `task_views`, `task_view_submissions`, `task_view_audit_events` | preview, refine, submit, decide, approve the recommended alternative, download | every handler is several awaited statements; submit locks a row, the writes are compare-and-swap updates; stale reads; aborted requests | a decision rests on the submitted content; the decider is someone else; evidence certifies what is stored; the audit trail replays the history |
| Mail outbox (`mailer.py`, `store.py` 2416-2598) | `auth_delivery_outbox` | enqueue, claim, send, mark, expire | one worker per process, leases that lapse, duplicates, crashes, retries | rows settle, settled rows hold no token, duplicates have a cause |
| Accounts and sessions (`auth.py`, `store.py` 662-1105) | `users`, `auth_sessions`, `auth_one_time_tokens` | sign-up, verification, login, lockout, refresh, logout, reset | credentials read statements before the session is written | resets end old sessions, tokens work once, lockout is bounded |
| Workspaces (`store.py` 1123-1542) | `workspaces`, memberships, invitations, settings | create, update, invite, accept, onboard | two notions of "current workspace"; re-invitation racing acceptance; a role looked at in one statement and used in the next | members act in the workspace they were authorised in, with the role they hold there |
| API keys (`store.py` 1544-1675) | `workspace_api_keys` | create, list, revoke, authenticate, record a use | revoked or expired between authentication and response | a key that no longer holds gets no successful answer |
| Scan jobs (`store.py` 1677-1885) | `data_source_scan_jobs`, `workspace_data_sources` | start, complete, expire | double completion, expiry nobody notices | completed once; the credential does not outlive the job |
| Data-source runtime (`data_source_runtime.py`) | a connection per call | validate host, connect, verify peer and TLS, test or scan, close | a failure or a cancellation at each await, of the close too | no connection is left open, no catalogue without every check |
| Policy (`policy.py`, `experience.py` 813-857, `service.py` 156-239) | none | evaluate, offer an alternative, repair | three functions that must agree | what is offered is what happens |
| Public demo (`public_demo.py`, `store.py` 529-660) | snapshots and records | replace, preview, export | overlapping syncs; replacement between two statements of a reader | snapshots are whole, no group below the minimum size |
| Queue and status reads (`store.py` 2295-2341) | none | position, total, status | several statements, several snapshots | a position within the total |
| Materializer (`materializer.py`, `service.py`) | none | sample rows, evidence | rows and plan must be of one moment | evidence certifies what is stored |
| Read models, AI client, schemas, configuration | none | pure functions, HTTP, declarations | | |

Components interact through the database and through the request principal: sessions and API keys
yield a user and a workspace; the approval handlers run within it; reset links and invitations put
rows into the outbox in the transaction that creates the token; the worker sends them. There is no
in-process shared state besides the connection pool and the worker task, so **every interesting
interleaving is one of SQL statements**, from coroutines of one or of several processes.

### How statements are modelled

`store.py` opens transactions with `connection.transaction()` and no isolation level, so they run at
PostgreSQL's default, READ COMMITTED:

* a single-statement operation is one atomic step;
* a read followed by a write in the same coroutine is two steps, what was read kept in the request;
* an `UPDATE` that has to wait for a row takes its snapshot first and the row later. PostgreSQL
  evaluates its `WHERE` again only when the row was *updated* meanwhile, not when the holder had
  merely locked it (`FOR UPDATE`). `TaskViewApproval` models this as two steps (`BeginUpdate`,
  `TakeRow`), and one of the findings depends on it;
* a transaction that can fail between two of its writes has a step for each: `TakeRow` holds the
  updated row, which nobody else sees yet, and `RecordUpdate` writes the event and commits; what is
  written in between is lost by `Abort` and `Crash`;
* in another transaction whose effects nobody sees before COMMIT, the statements that take snapshots or
  locks are steps, and the effects come with the last of them.

## 2. Modules

| module | models |
|---|---|
| `ApprovalLedger` | what the approval workflow promises: one filing per view, never altered, and at most one verdict, by somebody else |
| `TaskViewApproval` | the workflow statement by statement; `ImplementsLedger` instantiates the ledger over it |
| `TaskViewApprovalProofs` | its inductive invariant, the safety theorems, and that it implements `ApprovalLedger` |
| `Policy` | what the policy blocks, what is offered for it, what the repairs make of a plan |
| `MCTaskViewApproval` | the TLC instance of the workflow; its contents are plans, judged by `Policy` |
| `PublicDemo` | the snapshots of the public sources: syncs, reads, aggregation, export |
| `ViewRelease`, `MCViewRelease`, `ViewReleaseProofs` | from a plan to released rows: composes `PublicDemo` and `Policy`; the instance, the proofs |
| `MailPromise` | what the outbox promises of each mail: settled once and for good, and sent again only for a named reason |
| `DeliveryOutbox`, `MCDeliveryOutbox`, `DeliveryOutboxProofs` | the mail outbox and its workers, the instance, the proofs |
| `AuthSessions`, `MCAuthSessions`, `AuthSessionsProofs` | sign-up, verification, login, lockout, refresh, logout and password reset of one address |
| `Workspaces`, `MCWorkspaces`, `WorkspacesProofs` | creation, onboarding, invitations, acceptance and the settings handlers |
| `CredentialVault` | what the scan jobs promise about credentials: in one place, handed over within the workspace or discarded when their time is over, never back |
| `ScanJobs`, `MCScanJobs`, `ScanJobsProofs` | scan jobs, their completion and expiry |
| `DataSourceRuntime` | the connection of one call to a customer's database, from its checks to its close |
| `DataSourceScans`, `MCDataSourceScans`, `DataSourceScansProofs` | the handlers: composes `ScanJobs` with `DataSourceRuntime` |
| `ApiKeyAccess`, `MCApiKeyAccess`, `ApiKeyAccessProofs` | API keys and the output handlers, the instance, the proofs |

Three compositions follow the calls in the code. `ViewRelease` materialises from `PublicDemo` what
`Policy` accepts. `DataSourceScans` runs a connection of `DataSourceRuntime` inside each scan of
`ScanJobs`. The contents of the approval instance are plans, and an assumption (`Classified`) says that
which of them block, are offered an alternative and can be repaired is what `Policy` computes. The
other components are coupled by rows whose content a module can take as given (a token in a mail, the
role of an admin); where one depends on another's state, that state is in its module (`owner`
and `acting` in `ScanJobs`, `view` in `ApiKeyAccess`, `status` in `Workspaces`).

A definition marked `mutant` is a faulty variant of the one after it (a guard dropped, a reset
forgotten). No specification uses it; put in the place of the correct definition it makes a property
fail, which shows that the property depends on that piece of code. `PROJECT.json` pairs them, and
maps every definition to the lines it stands for.

### TaskViewApproval

`row[v]` is the row of `task_views`, with the columns that decide anything: revision, status,
creator, reviewer, evidence, and `content` for everything the policy judges (purpose, TTL, plan,
preview rows). `content_hash` and `payload` are functions of the row, so comparing them is comparing
rows. `submission[v]` is the row of `task_view_submissions`, `snapshot` standing for
`submitted_revision` with `submitted_content_hash`; `audit[v]` is the sequence of audit events;
`rowLock[v]` the transaction that holds the row; `req[r]` the coroutine behind a request.

| action | code |
|---|---|
| `CreatePreview` | `store.save`: row and event in one transaction |
| `StartSubmit` | `main.submit_for_approval` up to the acceptability check |
| `SubmitLock`, `SubmitReplay`, `SubmitConflict`, `SubmitRefresh`, `SubmitInsert` | the branches of `store.submit_for_approval` after `SELECT ... FOR UPDATE` |
| `StartRefine`, `RefineRead`, `RefineCheckSubmission`, `RefineUpdate` | `main.refine_view` and the three database visits of `service.refine` |
| `StartDecision`, `CheckSeparation`, `ReadForDecision`, `DecisionUpdate` | authorisation, `enforce_separation_of_duties`, the read and the write of `decide` and `approve_recommended_alternative` |
| `TakeRow`, `RecordUpdate` | the rest of `save_if_revision`: the UPDATE gets the row or fails its `WHERE`; then the event and COMMIT |
| `StartDownload`, `RecordDownload` | `main.download_materialized_data`: a look at the view, and `store.record_data_download` in a transaction of its own |
| `Abort`, `Crash` | an error of any statement or of the AI service; the death of the process |

The policy appears as constants: `Blocking` contents have a blocking finding, `Offered` ones are
blocking and `_alternative_for_view` would repair them, `Repairable` ones
`approve_recommended_alternative` can treat, with the result `Repair[c]`. `Repair[c]` may block
again: one transformation over two sensitive fields cannot satisfy both. The instance takes one plan of
each kind from `Policy`.

`Init` contains both kinds of view a running system starts with: none, and one that was submitted
before submissions had snapshots (`_migrate_tenant_scope` leaves those with NULLs, and
`submit_for_approval` refreshes them).

### DeliveryOutbox

`outbox[d]` is a row, its timestamps reduced to the facts the statements test: `stale` (the lease is
older than `claim_seconds`), `due`, `expired`. `drain[w]` is a worker's `drain_once`, its `batch`
what it claimed and has not marked. `Claim` is the whole transaction of `claim_outbox_deliveries`,
the expiry sweep included; `SendAccepted` and `SendFails` are `SMTPMailer.send`, and a failure may
leave a mail on its way; `MarkDelivered` and `MarkFailed` test `lock_id` as the code does. The
three clock actions are independent of the worker's progress because nothing in the code relates
them: a batch of 20 with a timeout of 10 s exceeds a lease of 60 s. `inbox` and `lapsed` are history.

### Policy, PublicDemo and ViewRelease

`Policy` has the three functions that must agree: `Findings` is `evaluate_policy`, `Announced` and
`Offers` what `_alternative_for_view` promises a reviewer, `Applied`, `Handles` and `Repaired` what
`approve_recommended_alternative` does. The code goes through the findings in their order; a repair
overwrites the operator the one before it has set, and some repairs rename the output. So the operator
of the `Latest` repair stands, and the name the latest renaming one gives: `RepairedItem` says it in this
closed form, which can be proved about, and the assumption `RepairsInTurn` of `MCTaskViewApproval` has
TLC compare it with the loop, finding by finding, on plans of two transformations. `Compatible`
characterises the plans whose repairs do not get in each other's way.

`PublicDemo` has `snapshot[s]` (`public_demo_source_snapshots`) and `records[s]`, the fetches the
records of source `s` come from. `Upsert`, `DeleteOld`, `InsertCommit` are the statements of
`replace_public_demo_snapshot` for one source: the upsert claims the snapshot's row until COMMIT. A
record is known by its kind, which fixes its columns, and counts are sums over kinds.

| action of `ViewRelease` | code |
|---|---|
| `StartSync`, `SyncStep` | `scripts/sync_public_demo.py` |
| `CreatePreview`, `Refine`, `ReadSource`, `Save` | `service.preview` and `refine`: one SELECT per selected source, then `_materialize_preview` and the row |
| `Submit`, `Approve`, `Reject` | the handlers, with `is_approval_submission_allowed` |
| `ApproveAlternative` | the repairs, the policy again, and new rows from what the sources hold by now |
| `DownloadStored`, `DownloadStart`, `DownloadPublic` | `data.csv`, from the stored rows or from the records |
| `TTLEnds`, `Abort` | the end of the TTL; a refusal, an error, a client that went away |

One request at a time works on the view, since overlapping requests are `TaskViewApproval`'s subject;
what is new here is the syncs between its reads. A view may also have been stored before the first sync
(`Stored`): that start takes 23,040 plans through policy, offer and repair.

### AuthSessions

One e-mail address. `account` has the columns its operations use, `session[s]` is a row of
`auth_sessions`, `token[t]` one of `auth_one_time_tokens`, of either purpose.

| action | code |
|---|---|
| `SignUp` | `sign_up`: user, link and session; an address that is taken is answered 409 and changes nothing |
| `LoginRead`, `RecordLoginFailure`, `RecordLoginSuccess`, `MarkVerified`, `IssueSession` | `log_in` statement by statement; `mark_email_verified` only where verification is not required |
| `RefreshRead`, `RefreshRevoke`, `IssueSession` | `rotate_session` |
| `Logout` | `logout` |
| `Resend`, `RequestReset`, `TokenRetire`, `TokenInsert` | `issue_one_time_token`: retire the links that are seen, insert a new one |
| `ConfirmVerification` | `confirm_email_verification`, one transaction under the link's row lock |
| `ResetBegin`, `ResetCommit` | `reset_password_with_token`: two steps, because a session inserted after its `UPDATE auth_sessions` took its snapshot is not revoked |
| `Restart` | the process is stopped with its requests and starts again, perhaps with another setting of `taskview_require_email_verification` |

The origin of a session is history: the password proved at the login it descends from, `Overtaken` once
a reset overlapped the request that carries it, and the first session of its descent; a refresh
that finds its session revoked already starts a new one. The onboarding status leaves
`email_verification` in the statement that sets the verification, so `verified` stands for both.
`store.start` deletes expired sessions; the model keeps their rows, which nothing distinguishes from
deleted ones. Whoever may lock the same rows in the opposite order is left to PostgreSQL's deadlock
detection, which is an error of a statement.

### Workspaces

`workspace`, `member` and `invitation` are the three tables, the last without accepted rows;
`status[u]` is `users.onboarding_status`. `joined_at` is `CURRENT_TIMESTAMP`, the start of the
transaction, and orders a user's workspaces, so the model has a clock `now` that advances when a
creation or an acceptance *begins*; what commits later may carry an earlier time.

| action | code |
|---|---|
| `CreateBegin`, `CreateCommit` | `store.create_workspace`, its time and its effects |
| `AcceptBegin`, `AcceptCommit` | `accept_workspace_invitation`: the invitation `FOR UPDATE`, then membership, status and invitation |
| `OnboardingPermit`, `AdminPermit` | who may invite: the creator during onboarding, later an admin |
| `InviteCheck`, `InviteUpsert`, `InviteCommit` | `create_workspace_invitations`, one transaction for the batch: per address the look at the members and the upsert, which waits for the row; the links become valid at COMMIT |
| `CompleteOnboarding` | `complete_workspace_onboarding` |
| `ResolvePrincipal`, `ReadCurrent` | the two answers to "which workspace": `get_current_workspace_membership` with onboarding required gives the role, `get_workspace_for_user` the workspace that is written |
| `WritePolicy` | `set_workspace_ui_setting` |
| `SettingsPermit`, `SettingsWrite`, `NotificationsPermit`, `NotificationsWrite` | `update_workspace` and `update_workspace_notifications`, each its check of the membership and its write |

`newcomer` and `overtaken` are history and mark the batch that looked at the members before an
acceptance committed. `lastWrite` is history: what was written, the role the writer holds *there* when
the row is written, and whether the membership that the check saw has been replaced by then
(`regranted`, from the check's `joined_at`). Check and write are two steps in both store operations:
`update_workspace` is a SELECT and an UPDATE that asks for no role, `update_workspace_notifications` an
UPDATE whose EXISTS sees the statement's snapshot and which may then wait for the workspace's row.

### ScanJobs

`job[j]` is a row of `data_source_scan_jobs` with its state, whether it still has the ciphertext and
whether `expires_at` has passed; `source[j]` the row of `workspace_data_sources` made from it.
`ScanStart`, `ScanStore` are `ui_scan_data_source`, `CompleteStart` and the actions up to `Consume`
or `Expire` are `ui_complete_data_source_scan`. `CompleteBegin` fixes `is_expired`, which compares
with the start of the transaction; `CompleteLock` is `SELECT ... FOR UPDATE`, whose state it reads
when the lock is granted. The two can lie on different sides of the expiry, and of another request's
completion. `MembershipChanges` lets the creator gain and lose roles and move to another workspace
between any two steps.

### DataSourceRuntime and DataSourceScans

`call[r]` is a call of `secured_postgresql_connection` with its operation, `conn` the calls whose
connection is open. What happens between two awaits is one step: `Begin` (the checks on the
request and the host), `Resolve`, `Connect` (with the peer and TLS checks that follow it without an
await), `EnforceReadOnly`, `ScanCatalog`, `Close`; each await may fail (`ConnectFails`,
`StatementFails`) or be cancelled (`CancelBefore`, `CancelOpen`, `CancelClosing`). The other end is a
`Server` whose address and certificate are what they turn out to be. External to `src/`, and assumed:
`asyncpg.connect` leaves nothing open when it fails, and `terminate()` drops the connection.

`DataSourceScans` puts the calls into the handlers: `ScanEnd` stores a job (`ScanStore`) only after
`scan_catalog` has returned, a test stores nothing, and a handler that is cancelled or whose process
dies gives up (`ScanAborted`, `Dies`).

### ApiKeyAccess

`key[k]` is a row of `workspace_api_keys`; `view` the row of one task view of the workspace `Home`,
with the TTL of its evidence. An output handler authenticates (`AuthenticateKey` or
`AuthenticateSession`), reads the view (`ReadView`), for a CSV puts the download on record
(`RecordDownload`), and answers: `AnswerKey` is the conditional `UPDATE` of
`record_workspace_api_key_use` and the response, `AnswerSession` a response to a session, which has
no second look. Keys are created, revoked and expire at any time between. Who is an admin belongs to
`Workspaces`: here a member of `Admins` is whoever the statement finds to be one.

## 3. Runs

| run | instance | shows |
|---|---|---|
| `approval` | 1 view, 2 members who both create and approve, 4 plans (clean, repairable, repair blocks again, hopeless), 2 requests, revisions up to 3, 1 recorded download | eight properties, below |
| `submit_refine_race` | the same with revisions up to 2, without downloads | **violated**: a submitted view is modified |
| `stale_submit` | the same as `submit_refine_race` | **violated**: a content that was not checked is submitted |
| `release` | 2 syncs, 2 fetches, 2 kinds of records, minimum group 3, limit 1; 3 plans to preview, 23,040 stored ones | five properties, below |
| `counted_twice` | the same without stored plans | **violated**: a group below the minimum size is released |
| `outbox` | 2 workers, 2 mails, batches of 2, 2 attempts | five properties, below |
| `sessions` | 2 passwords, 2 sessions, 2 links, 2 requests, lock after 1 failure, 2 wrong guesses | five properties, below |
| `workspaces` | 2 users, 2 workspaces, 2 requests, roles requester and admin, 3 creations and acceptances | five properties, below |
| `policy_of_other_workspace` | the same | **violated**: a policy is written by somebody who is no owner there |
| `scan_jobs` | 1 job, 2 workspaces, 2 requests, TLS asked for by the request and then verified | seven properties, below |
| `expired_credentials` | 1 job, 1 request, no connections | **violated**: an expired job may keep its ciphertext for ever |
| `api_keys` | 2 keys, 2 admins, 2 workspaces, 2 requests, a key for `data` and one for the other two scopes | six properties, below |

Why the bounds are enough. Views do not interact (every statement names one view), so one view
shows all interleavings. Request slots are used again and again, so two are any two overlapping
requests in any history; a third at the same time (a submission that holds the row while a
refinement and a decision wait) is covered by the theorems. Revisions only matter by being equal or not:
two changes after the first revision make every comparison of the code come out both ways. Downloads
are alike and change nothing but the log, so one recorded download (`MaxDownloads` bounds when one is
begun, so two that are in flight may both be recorded) meets every step of the others.
Release: a sync between two reads of a request makes its sources differ in time, and two syncs overlap
on a source. In the one fetch small groups lie next to large ones, in the other only coarser columns
make a group large, and with a limit of 1 the ranking decides. The stored plans have one or two transformations over fields of each
class of the policy, of which the second complies, renames, misses a column or reads what the first one
reads: two repairs are what it takes to get in each other's way.
In the outbox a third worker can only repeat what the second does to the first.
Sessions: two overlapping requests are a login beside a reset, two refreshes of one session, or two
resets with one link. With two sessions the second of two refreshes of
one session has no row left for its own and stays in flight; what it does with more rows is covered by
the theorem `LoginsHaveOneSession`.
Workspaces: two workspaces make the two notions of "current" differ, and the third start lets a user
create, be invited elsewhere and create again, or two acceptances overlap a creation; a
`data_owner` differs from an admin only in what is granted in addition, which the violated run does
not need. Scan jobs: jobs do not interact; two requests are one that holds the row and one that waits,
or a scan beside a completion. API keys: one key in the view's workspace and one elsewhere, two requests
on the same key. The theorems of section 4 do not depend on any bound. Runs without liveness use
symmetry of interchangeable requests, syncs, sessions.

Properties of `approval`:

* `DecisionRestsOnSubmission`: a decided row is the very next revision after the submitted snapshot,
  on its content or its repair. It relates the row to the submission over any number of refinements
  and decisions in flight.
* `SeparationOfDuties`: the check is a read of its own, and a legacy submission can be refreshed
  between it and the write; the decision then fails by the snapshot, which is why the property holds.
* `EvidenceCertifiesApproval`: approved rows and only they carry evidence, of the stored content.
* `AuditReplaysHistory`: one change per revision, in order, each from the open status the event before
  it left; a submission changes nothing; so up to an event that leaves the revision and the status
  stored. Behind that one there are only downloads, and only of an approved view: a `downloaded`
  event is appended after the decision, from approved to approved (`store.py` 258, 2380-2414). One
  submission, before the decision. A lost update breaks it, an event without its revision, and a row
  that is committed before its event (`CommitAlone`), since an error or a crash may come in between.
* `ImplementsLedger`: refinement of `ApprovalLedger`.
* `SubmittedChangesOnce`: once submitted, a view changes at most once, by its decision or by one
  refinement that had begun its UPDATE. It is what remains of the promise that finding 1 refutes.
* `EveryRequestAnswered`: no request waits for ever, whoever holds the row.
* `TypeOK`.

Properties of `release`:

* `SnapshotsAreWhole`: the records of a source are all of the fetch its snapshot row describes, however
  syncs overlap and wherever one of them dies. Without the upsert's claim on the row both would insert.
* `RowsAreOfWholeSnapshots`: public rows are the counts of one whole snapshot of each source, each
  group of at least the minimum size, never more than the limit. Different sources may be of different
  times: nothing in the code prevents it.
* `OfferIsKept`: the repair that is applied is the one announced, and an offered alternative is
  refused exactly for plans that are not `Compatible`. A view with such a plan can still be submitted
  and rejected; nothing else makes both approvals fail.
* `ApprovedIsCertified`: an approved view meets the policy with the plan it is stored with, and its
  evidence is of the rows and the TTL stored, although the alternative is materialised anew.
* `TypeOK`.

Properties of `outbox`: `OutboxConsistent` (timestamps exclude each other, settled rows hold neither
ciphertext nor lease, pending rows can still be delivered), `OneDrainPerLease`, `EveryDeliverySettles`,
`ImplementsPromise` (refinement of `MailPromise`: a delivery settles once, whatever marks of drains that
outlived their lease come later; a second copy takes a recorded failure or a lapsed lease, and a copy
of a mail that is settled a lapsed lease or its expiry), `TypeOK`.

Properties of `sessions`:

* `OnlyLateSessionsOutliveReset`: a reset ends every session that rests on an older password, except
  those of requests it overlapped.
* `OneSessionPerLogin`: a login has one live session, however refreshes and logouts interleave; a second
  one takes a refresh that found its session revoked already, which `rotate_session` ignores.
* `LinksWorkOnce`: a link works once, for its purpose, and there is one usable link per purpose unless
  two requests for a link overlapped.
* `LockoutIsBounded`: the lockout is overshot by no more than the requests in flight.
* `TypeOK`.

Several of these name the one overlap in which the stronger statement fails; that overlap is real in the
code, and nothing else breaks it.

Properties of `workspaces`:

* `MembersAreNotInvited`: a member has no open invitation, except from a batch that looked before
  the acceptance committed.
* `GrantsFollowOpenInvitation`: what an acceptance grants is what the invitation offers when it
  commits, although a batch may issue the row anew meanwhile.
* `OnboardingCanBeCompleted`: nobody is left in `team_invite` without a workspace to complete.
* `SettingsWritersWereAdmins`: whoever writes the settings of a workspace is its admin when the row is
  written, or was when the handler checked and has had the membership replaced in between. The
  handlers are admitted with the role of another workspace; the look in the store operations is what
  makes it hold. That the writer *is* an admin does not hold: see the differences below.
* `TypeOK`.

Properties of `scan_jobs`: `CredentialsHaveOneHome` (the ciphertext is with the job, its one source, or
nowhere), `SourcesCameInTime`, `CompletionStaysInWorkspace`, `ImplementsVault` (refinement of
`CredentialVault`: no completion that waited, or that comes too late, undoes what became of a job, and
none discards credentials whose time is not over), `ConnectionsAreReleased`
(however a call ends, a close that fails or is cancelled included, its connection is gone when it
returns), `JobsComeFromVerifiedScans` (no refused, failed or cancelled scan leaves a job with
credentials behind), `ScansTypeOK`. Properties of
`api_keys`: `NoAnswerOnDeadKey` (revocation and expiry are respected up to the answer),
`AnswersWithinGrant`, `RecordsMatchAnswers` (`last_used_at` says exactly which keys were answered, and a
CSV is recorded before it is delivered), `RevocationIsFinal`, `TypeOK`.

### Findings

1. `submit_refine_race`. `service.py:113` and the docstring at `store.py:2186` promise that a
   submitted view is not modified, and `src/tests/test_tenant_security.py:247` tests it sequentially.
   A refinement whose UPDATE starts while the submission's transaction holds the row sees no
   submission, waits, and is not checked again. The view then cannot be decided, refined or
   submitted again. `DecisionRestsOnSubmission` still holds: nothing wrong is ever approved.
2. `stale_submit`. `main.py:1202` says that only acceptable views can be submitted; the check is
   made on an earlier read, and a refinement in between is submitted unchecked.
3. `policy_of_other_workspace`. `main.py:857` asks for an owner, and `src/README.md:92` says that
   authority is judged by the role in the workspace. The role comes from the latest workspace whose
   onboarding is complete, the write goes to the latest of all, and `set_workspace_ui_setting` does
   not look at the role. An owner of one workspace who creates a second one as a requester writes the
   policy of the second.
4. `expired_credentials`. `src/README.md:120` says that the ciphertext is deleted at once when a
   scan job expires. Only a later attempt to complete the job deletes it, and nobody is obliged to
   make one.

5. `counted_twice`. `src/README.md:63` says that only groups of 20 records or more are materialised,
   and `ai_client.py:121` asks the planner for the same. A plan may name a source twice (`ViewPlan`
   takes any list and the policy does not look), and `aggregate_records` (`public_demo.py:265`) then
   counts each of its records twice: groups of half the size pass, with doubled counts. Preview and
   evidence show the doubled counts too.

Differences without a run of their own, since the models follow the code: `src/README.md` assigns each
scope its own endpoint, and `data.csv` is served to keys with the scope `data:read` (`ScopeOf`);
`src/README.md:81` calls `data.csv` an aggregate with the minimum group checked again, and for public
data it has a row per record (`main.py:1304`, `project_public_records`), which `Project` follows; the
transformations of a plan do not change the public rows, whose columns are taken as they are; an
alternative that is offered is refused with 409 when the plan is not `Compatible`; and settings are
written without a look at the role (`store.py` 1232). An admin whose invitation was issued again by a
batch that looked before they joined (`overtaken`), as a requester, may accept it between the check and
the UPDATE: TLC finds such a write, of a workspace by somebody who is a requester there, in 20 steps of
the `workspaces` instance when `regranted` is left out of the property. The same acceptance between
`update_workspace` and `update_workspace_notifications` makes the assertion at `main.py` 845 fail, with
half of the change written; TLC reaches that in 20 steps, too. `src/README.md:92` has authority judged by
the role in the workspace, which the check does, and does not say of which moment.

### Fairness

`approval` assumes strong fairness per request: a coroutine that is ready runs, the AI
client has a timeout, and PostgreSQL queues the waiters of a row lock. Under weak
fairness alone others could take the lock each time it is free. Nobody is assumed to send a
request. `outbox` assumes that some worker goes on (its loop polls for ever and SMTP calls
time out) and that time passes; a drain may be abandoned every time. What settles a mail in that case
is the expiry sweep. `expired_credentials` assumes weak
fairness of each admitted request, as for the approval; that no client is obliged to call is the point
of the finding. The other runs check safety and assume nothing.

`CHECK_DEADLOCK FALSE` is set where the instance can run out: a decided view accepts no further
request, a rejected one has no next step in `release` once the syncs are used up (`MaxSyncs`), all sessions
and links of the instance may be used up, and so may the starts that `MaxStarts` allows.

## 4. Theorems

All are proved for any sets of views, users, contents, requests, workers, mails, sessions, links, workspaces,
jobs, keys, syncs, fetches and plans, from the named assumptions on the constants alone
(`ConstantsAssumption`, `NullsAssumption` and `LedgerNullAssumption` of `TaskViewApproval`,
`OutboxAssumption`, `AuthAssumption` and its `NullsAssumption`, `WorkspacesAssumption`,
`ScanJobsAssumption` and its `VaultNullAssumption`, `DataSourceScansAssumption`, `ApiKeyAssumption`, `PublicDemoAssumption`,
`ViewReleaseAssumption`, and the `NoRowAssumption`s), which TLC evaluates in every run.

`TaskViewApprovalProofs`: `TypeCorrect`, `DecisionsRestOnSubmissions`, `DutiesAreSeparated`,
`EvidenceIsSound`, `SubmittedViewsChangeOnce`, `HistoryIsReplayed`, `LedgerIsImplemented`. No property but the first is inductive: each depends on what requests in flight
carry. The inductive invariant `IInv` is `TypeOK` with, per view (`ViewInv`), that a submission is its
creator's and belongs to an existing view, that the stored row is certified, and that a decided one
rests on its snapshot; and, per request (`RequestInv`), what it has established by its phase: a
submitter created the view; a decider is an approver and the view has a snapshot, from
`decision_cleared` on somebody else's; what was read for a decision was decidable; and once the
UPDATE has begun, the snapshot *is* what the request expects and what it will write is that row's
decision. The last part is why the compare-and-swap suffices: a snapshot is never replaced, so a row
that still equals what the request expects still equals what was submitted. Beside it stands `LockInv`:
a request that holds a row is the one `rowLock` names, and what its UPDATE has taken is still what it
expects, so that the write at COMMIT overwrites nobody's. The proof has a lemma per
action, and under it one step for each part the action can disturb.

`SubmittedViewsChangeOnce`, in the same module, needs of an UPDATE that has begun that it was read from
no newer revision than the stored one, and that if the view is submitted and still as it was read,
then it is as it was submitted (`UpdateInv`): whoever begins later finds the submission, or compares
the snapshot.

`HistoryIsReplayed`, in the same module: the log of a view that exists continues from event to event up
to one that leaves what is stored, only downloads come after that, and only if the view is approved
(`Tells`); a submission event has a filing behind it, and a decided view has one (`AuditInv`). A change
starts from an open status, so there is no download before it and the log it continues ends in what is
stored; a download was begun on an approved view, which nothing changes any more (`DownloadAudited`).
An event of a change continues the log because the UPDATE's compare-and-swap makes what the
request read, whose status and revision it records, what is stored; and a second submission finds the
first one's row. The property speaks of positions of the log and filters nothing, so that appending an
event is the only step to look at (`LongerLog`, `ContinuedLog`).

`LedgerIsImplemented`, in the same module: a step is either quiet for the ledger (neither the
filings nor the verdicts change: `QuietLedger`), a `File` (`SubmissionFiles`) or a verdict
(`UpdateGivesVerdict`, which uses `IInv` to show that the decided content is the filed one or its
repair).

`DeliveryOutboxProofs`: `OutboxTypeCorrect`, `OutboxStaysConsistent`, `LeasesKeepDrainsApart`,
`CopiesAreExplained`, `PromiseIsImplemented`. Its invariant adds that whatever a drain has in its batch is leased to it,
settled, or lapsed (`LeaseInv`), which keeps drains apart; and that a mail of which one copy went out
without a recorded failure or a lapse is still leased while it is pending, and in a batch only as the
mail that is about to be marked (`CopyInv`), so that no drain can send it again. For the refinement of
`MailPromise` it adds that a settled delivery is in a batch only if a lease on it lapsed or it expired
(`LateInv`); a step is then one of the promise's, or changes nothing it sees: a claim that sweeps nothing,
a mark that comes too late, a drain that is abandoned.

`ScanJobsProofs`: `ScanTypeCorrect`, `CredentialsStayInOnePlace`, `SourcesAreInTime`,
`CompletionsStayHome`, `JobsImplementVault`, `OutcomesAreFinal`. Its invariant adds that a row lock has one holder, and what
the holder has found out and nobody can change meanwhile: a completion that is about to consume has
a job that is complete and was in time, one that is about to expire it a job that is not consumed.
For the refinement of `CredentialVault` it adds that what a completion took for past `expires_at` is past
it (`TimeInv`), so that no credentials are discarded early. Each write is a `Take`, a `HandOver`, a
`Discard` or, when an expired job is expired again, nothing; everything else leaves the vault alone.

`ApiKeyAccessProofs`: `AccessTypeCorrect`, `DeadKeysGetNoAnswer`,
`AnswersStayWithinGrant`, `RecordsAgreeWithAnswers`, `RevocationsAreFinal`. What a request established at
authentication (scope, workspace, mode, approval) survives any number of key and view changes because
these only go one way (`Steady`, `SteadyGrant`); revocation and expiry do not, and are looked at again.

`DataSourceScansProofs`: `ScansImplementJobs` shows that every step of the handlers with their connections is one of
`ScanJobs` or leaves its variables alone, so the theorems about the jobs hold of the composition, and with them the vault
(`ScansImplementVault`, a refinement of a refinement);
`ScansTypeCorrect`, `NoConnectionIsLeft`, `ResultsComeVerified`, `JobsComeVerified` are about what the
connections add. The invariant (`CallInv`) says what a call has checked by its phase, and that it has a
connection only within `secured_postgresql_connection`.

`AuthSessionsProofs`: `AuthTypeCorrect`, `ResetsEndOldSessions`, `LoginsHaveOneSession`, `LinksAreSingle`,
`LockoutsAreBounded`. The first property needs that what a request carries rests on the present
password or is marked as overtaken (`OriginsFit`). The second needs to know who continues a descent:
its one live session, or the request that is about to revoke it or has done so (`OneContinues`). The third,
that a request about to insert a link has seen every usable one that is not marked as overlapped
(`LinksInv`). The fourth counts: each request that is about to record a failure is one that is still
allowed (`LockoutInv`).

`WorkspacesProofs`: `WorkspacesTypeCorrect`, `OnlyOvertakenMembersAreInvited`, `OnboardingIsNeverStuck`,
`SettingsComeFromAdmins`, `GrantsComeFromInvitations`. The invariant adds that an invitation's row has
one holder (`OneHolder`), that a batch's offer is to somebody who was no member, unless it is marked
(`RequestInv`), and that a workspace without a row has no members (`RowsOfWorkspaces`).
`SettingsComeFromAdmins` has an invariant of its own (`SettingsInv`): past the check, a membership that
still is of the time the check saw is an admin's (`PermitHolds`).
It needs that times of joining are not used twice (`StampsAreFresh`), or a membership could be replaced
by another of the same time unnoticed. The `CHOOSE` of
the latest membership finds one because times of joining are naturals below `now`, so that their
distances from `now` have a least element (`LatestIsOne`).

`ViewReleaseProofs`: `SnapshotsStayWhole`, `RowsComeFromWholeSnapshots`, `ApprovalsAreCertified`,
`GroupsAreLargeUnlessRepeated`, `ReleaseTypeCorrect`, `OffersSucceedIfCompatible`, `OffersAreKept`. The
upsert's claim makes what the DELETE saw all there is until COMMIT (`SyncInv`). A request has read each
source at most once and whole (`JobInv`), so its rows are counts of whole snapshots (`ShownIsWhole`,
which rests on the finiteness of the aggregate and not on what its sums amount to). An alternative
under way has a repaired plan that no longer blocks, hence one with a TTL the policy admits.

`ReleaseTypeCorrect`, in the same module, needs that counts are numbers, and a count is a sum over a finite set,
which the community modules define by a function that refers to itself. That such a
function exists and that it stays within the naturals is an induction over the size of the set; it is
done with sets instead of an operator parameter: the sizes at which it fails would have a least
element (`Least`, `CountingUp`, `SumsExist`, `SumsAreNat`).

`GroupsAreLargeUnlessRepeated` is the other side of the finding `counted_twice`: for a plan that names each
source once, what the run refutes holds. A sum may take its elements in any order (`SumTakes`), so sums
over sets that correspond one to one are equal (`SumReindexed`), and the count over the positions of the
plan's list is the count over the set of its sources (`CountsOnce`), whichever sequence lists that set
(`OnceCountsTheSame`). Repetition is therefore the only cause of a view's group below the minimum.

`OffersSucceedIfCompatible` is about every plan, whatever its transformations and their number: if an
alternative is offered, the repaired plan passes the policy exactly if the plan is `Compatible`. A
repair applied to a transformation is what its inputs demand (`RepairsAreDemanded`), so if the demands
agree it becomes the one operator that meets them all (`ConsistentRepairs`); if the repaired plan
passes, each transformation meets all demands with its one operator, so the demands agree
(`DemandsAreMet`, `SameDemands`). What the plan's columns need is the outputs of the transformations
after their renaming (`ProducedColumns`).
`OffersAreKept` applies it to the requests: a submitted view whose plan blocks has an offer, and a
request that ends in a conflict, or goes on with the alternative, is of a plan whose repair fails, or
succeeds (`OfferInv`).

Only model-checked: the liveness properties `EveryRequestAnswered` and `EveryDeliverySettles`, which
rest on fairness and are out of the prover's reach, and what `RepairsInTurn` compares on bounded
inputs. Every invariant and safety property of the passing runs is proved.

## 5. Plan

The plan was, in this order: `TaskViewApproval` with `ApprovalLedger`; `DeliveryOutbox`;
`AuthSessions`; `ApiKeyAccess`; `ScanJobs`; `Workspaces`; `Policy`; the public demo and the data-source
runtime with their compositions. All of it is modelled, checked and, within the limits above, proved.

Should the code change, these are the places where a model has to follow first: the `WHERE` clauses of
`save_if_revision` and `submit_for_approval`, the marks of the outbox by `lock_id`, `rotate_session`, the
two resolutions of a caller's workspace, and the order of repairs in
`approve_recommended_alternative`. A fix of a finding turns its run into one that passes.

## 6. Not modelled

The AI client (its answer is any content, its failure is `Abort`); the read models of `admin.py`,
`experience.py` and `journey.py` and the queue's position and total (`store.py` 2295-2341), which are
shown once and which nothing acts on, although the three statements of `approval_queue_metrics` may see
three states, and a position beyond the total; Google sign-in, whose functions no route reaches
(`src/tests/test_api.py:193`); the migrations, one-off DDL whose result is an initial state of
`TaskViewApproval`; schemas, configuration, CORS and HTTP wording.

Left out within the models: the texts of findings and the utility score; metrics of the public demo
other than `case_count`, and the readers' `LIMIT 10000` (the script asks two of the providers for 3,000
and 6,000 rows; the third sets no limit for its few vehicles); the normalisation of a provider's rows;
the parsing of host names, networks and certificates, whose outcome is a choice; message text and
encryption.

Within the approval model a view that is approved can be downloaded for ever: the end of the TTL, the
output modes and the second look at an API key are in `ApiKeyAccess`, where a download is refused.

`is_active` is never cleared by the program. Membership and workspace scoping of a view are constant
within the approval model: `Users` are the members of one workspace.
