-------------------------- MODULE TaskViewApproval --------------------------
(***************************************************************************)
(* The life of task views: preview, refine, submit, decide, download.      *)
(* main.py's handlers run service.py's operations over PostgreSQL; each    *)
(* awaited statement is a step of its own, so every action below is one    *)
(* statement (or one transaction) of one in-flight request.                *)
(*                                                                         *)
(* The transactions run at PostgreSQL's default level, READ COMMITTED:     *)
(* store.py opens them with connection.transaction() and no level.  An     *)
(* UPDATE there evaluates its WHERE on the statement's snapshot, waits for *)
(* the row lock, and evaluates WHERE again only if the row it waited for   *)
(* was UPDATED meanwhile, not if it was merely locked.                     *)
(***************************************************************************)
EXTENDS Integers, Sequences

CONSTANTS
    Views, Users,
    Approvers,      \* members whose workspace role is data_owner or admin
    Contents,       \* what preview and refine can put in a view: purpose, TTL, plan, rows
    Blocking,       \* contents evaluate_policy gives a finding of severity "block"
    Offered,        \* blocking contents _alternative_for_view can repair, by its own list
    Repairable,     \* blocking contents approve_recommended_alternative can repair
    Repair,         \* Repair[c]: the content after those repairs
    Requests,       \* request slots: how many HTTP requests are in flight at once
    MaxRevision,    \* bound: refine is not started on a view of this revision
    MaxDownloads,   \* bound: a download is not started once so many are recorded
    NoRow, NoSubmission, NoEvidence, NoUser, NoView, NoRequest

Statuses == {"proposed", "blocked", "approved", "rejected"}
Open == {"proposed", "blocked"}
Decisions == {"approve", "reject", "approve_alternative"}

Evidence == [content : Contents, by : Users]

Row == [revision : Nat \ {0}, status : Statuses, content : Contents, creator : Users,
        reviewer : Users \cup {NoUser}, evidence : Evidence \cup {NoEvidence}]

(* snapshot stands for submitted_revision with submitted_content_hash: the *)
(* hash covers the whole payload, revision included.  NoRow is the pair of *)
(* NULLs of a submission made before those columns existed.                *)
Submission == [by : Users, snapshot : Row \cup {NoRow}]

(* A download may be an API key's, which has no user, and its event names  *)
(* no revision: 0.                                                         *)
Event == [action : {"created", "refined", "submitted", "approved",
                    "approved_alternative", "rejected", "downloaded"},
          actor : Users \cup {NoUser}, from : Statuses \cup {"none"}, to : Statuses,
          revision : Nat]

Phases == {"idle", "submitting", "submit_locked",
           "refine_authorized", "refine_read", "refine_planning",
           "decision_authorized", "decision_cleared", "decision_ready",
           "updating", "updated", "downloading"}

Request == [pc : Phases, op : Decisions \cup {"submit", "refine", "download", "none"},
            user : Users \cup {NoUser}, view : Views \cup {NoView},
            expected : Row \cup {NoRow}, next : Row \cup {NoRow}]

Idle == [pc |-> "idle", op |-> "none", user |-> NoUser, view |-> NoView,
         expected |-> NoRow, next |-> NoRow]

ASSUME ConstantsAssumption ==
    /\ Approvers \subseteq Users
    /\ Blocking \subseteq Contents
    /\ Offered \subseteq Blocking
    /\ Repairable \subseteq Blocking
    /\ Repair \in [Repairable -> Contents]
    /\ MaxRevision \in Nat
    /\ MaxDownloads \in Nat

ASSUME NullsAssumption ==
    /\ NoRow \notin Row
    /\ NoEvidence \notin Evidence
    /\ NoSubmission \notin Submission
    /\ NoUser \notin Users
    /\ NoView \notin Views
    /\ NoRequest \notin Requests

VARIABLES
    row,          \* task_views
    submission,   \* task_view_submissions, keyed by view
    audit,        \* task_view_audit_events of each view, oldest first
    rowLock,      \* the request whose transaction holds the view's row: FOR UPDATE, or updated
    req           \* the coroutine behind each request slot

vars == <<row, submission, audit, rowLock, req>>

-----------------------------------------------------------------------------
(* Contents, rows and events *)

StatusOf(c) == IF c \in Blocking THEN "blocked" ELSE "proposed"

SubmissionAllowed(old) == /\ old.status \in Open
                          /\ old.content \in Blocking => old.content \in Offered

NewRowZero(u, c) ==   \* mutant: the revision default is missing
    [revision |-> 0, status |-> StatusOf(c), content |-> c, creator |-> u,
     reviewer |-> NoUser, evidence |-> NoEvidence]

NewRow(u, c) ==
    [revision |-> 1, status |-> StatusOf(c), content |-> c, creator |-> u,
     reviewer |-> NoUser, evidence |-> NoEvidence]

(* save_if_revision writes every column, at the next revision *)
Write(old, status, c, u, evidence) ==
    [revision |-> old.revision + 1, status |-> status, content |-> c,
     creator |-> old.creator, reviewer |-> u, evidence |-> evidence]

Refined(old, c) == Write(old, StatusOf(c), c, NoUser, NoEvidence)

Rejected(old, u) == Write(old, "rejected", old.content, u, NoEvidence)

ApprovedEarlyEvidence(old, c, u) ==   \* mutant: evidence issued before the repairs
    Write(old, "approved", c, u, [content |-> old.content, by |-> u])

(* Both approvals: decide() keeps the content, the alternative repairs it. *)
Approved(old, c, u) == Write(old, "approved", c, u, [content |-> c, by |-> u])

Decided(op, old, u) ==
    CASE op = "approve" -> Approved(old, old.content, u)
      [] op = "approve_alternative" -> Approved(old, Repair[old.content], u)
      [] OTHER -> Rejected(old, u)

Record(v, event) == audit' = [audit EXCEPT ![v] = Append(@, event)]

ActionOf(op) == CASE op = "refine" -> "refined"
                  [] op = "reject" -> "rejected"
                  [] op = "approve" -> "approved"
                  [] OTHER -> "approved_alternative"

-----------------------------------------------------------------------------
(* What the statements look at *)

Goto(r, state) == req' = [req EXCEPT ![r] = state]
Respond(r) == Goto(r, Idle)

(* submitted_revision = revision and submitted_content_hash = content_hash *)
Matches(v) == /\ submission[v] # NoSubmission
              /\ submission[v].snapshot = row[v]

IsLegacyAlways(s) == TRUE   \* mutant: any mismatched submission is refreshed

IsLegacy(s) == s.snapshot = NoRow

SameStatus(v, old) == row[v].status = old.status   \* mutant: no revision or content CAS

(* revision, status, content_hash and payload of the UPDATE's WHERE *)
Unchanged(v, old) == /\ row[v].revision = old.revision
                     /\ row[v].status = old.status
                     /\ row[v] = old

NoSubmissionMatch(op, v) ==   \* mutant: require_submission_match not enforced
    op = "refine" => ~ (row[v].status \in Open /\ submission[v] # NoSubmission)

(* the two EXISTS of the UPDATE's WHERE *)
SubmissionClause(op, v) ==
    /\ op \in Decisions => Matches(v)
    /\ op = "refine" => ~ (row[v].status \in Open /\ submission[v] # NoSubmission)

-----------------------------------------------------------------------------
(* preview: the row and its audit event, one transaction *)

CreatePreview(u, v, c) ==
    /\ row[v] = NoRow
    /\ row' = [row EXCEPT ![v] = NewRow(u, c)]
    /\ Record(v, [action |-> "created", actor |-> u, from |-> "none",
                  to |-> StatusOf(c), revision |-> 1])
    /\ UNCHANGED <<submission, rowLock, req>>

(* get_authorized_view(require_creator), then is_approval_submission_allowed *)
StartSubmit(r, u, v) ==
    /\ req[r] = Idle
    /\ row[v] # NoRow
    /\ row[v].creator = u
    /\ SubmissionAllowed(row[v])
    /\ Goto(r, [Idle EXCEPT !.pc = "submitting", !.op = "submit", !.user = u, !.view = v])
    /\ UNCHANGED <<row, submission, audit, rowLock>>

SubmitLock(r) ==
    LET q == req[r] IN
    /\ q.pc = "submitting"
    /\ rowLock[q.view] = NoRequest
    /\ rowLock' = [rowLock EXCEPT ![q.view] = r]
    /\ Goto(r, [q EXCEPT !.pc = "submit_locked"])
    /\ UNCHANGED <<row, submission, audit>>

KeepLock(r) ==   \* mutant: a path that leaves the transaction open
    UNCHANGED rowLock

ReleaseLock(r) == rowLock' = [rowLock EXCEPT ![req[r].view] = NoRequest]

(* COMMIT or ROLLBACK of the submitting transaction, and the response *)
EndSubmit(r) == ReleaseLock(r) /\ Respond(r) /\ UNCHANGED row

(* the row was submitted as it stands: idempotent replay *)
SubmitReplay(r) ==
    /\ req[r].pc = "submit_locked"
    /\ Matches(req[r].view)
    /\ EndSubmit(r)
    /\ UNCHANGED <<submission, audit>>

SubmitConflict(r) ==
    LET v == req[r].view IN
    /\ req[r].pc = "submit_locked"
    /\ submission[v] # NoSubmission
    /\ ~ Matches(v)
    /\ ~ IsLegacy(submission[v])
    /\ EndSubmit(r)
    /\ UNCHANGED <<submission, audit>>

(* a submission without a snapshot takes the current one; no audit event *)
SubmitRefresh(r) ==
    LET v == req[r].view IN
    /\ req[r].pc = "submit_locked"
    /\ submission[v] # NoSubmission
    /\ ~ Matches(v)
    /\ IsLegacy(submission[v])
    /\ submission' = [submission EXCEPT ![v] = [by |-> req[r].user, snapshot |-> row[v]]]
    /\ EndSubmit(r)
    /\ UNCHANGED audit

SubmitInsert(r) ==
    LET v == req[r].view IN
    /\ req[r].pc = "submit_locked"
    /\ submission[v] = NoSubmission
    /\ submission' = [submission EXCEPT ![v] = [by |-> req[r].user, snapshot |-> row[v]]]
    /\ Record(v, [action |-> "submitted", actor |-> req[r].user, from |-> row[v].status,
                  to |-> row[v].status, revision |-> row[v].revision])
    /\ EndSubmit(r)

-----------------------------------------------------------------------------
(* refine *)

(* get_authorized_view(require_creator) *)
StartRefine(r, u, v) ==
    /\ req[r] = Idle
    /\ row[v] # NoRow
    /\ row[v].creator = u
    /\ row[v].revision < MaxRevision
    /\ Goto(r, [Idle EXCEPT !.pc = "refine_authorized", !.op = "refine",
                            !.user = u, !.view = v])
    /\ UNCHANGED <<row, submission, audit, rowLock>>

(* store.get and the status check; what was read is the UPDATE's expectation *)
RefineRead(r) ==
    LET q == req[r] IN
    /\ q.pc = "refine_authorized"
    /\ IF row[q.view].status \in Open
       THEN Goto(r, [q EXCEPT !.pc = "refine_read", !.expected = row[q.view]])
       ELSE Respond(r)
    /\ UNCHANGED <<row, submission, audit, rowLock>>

RefineCheckSubmission(r) ==
    LET q == req[r] IN
    /\ q.pc = "refine_read"
    /\ IF submission[q.view] = NoSubmission
       THEN Goto(r, [q EXCEPT !.pc = "refine_planning"])
       ELSE Respond(r)
    /\ UNCHANGED <<row, submission, audit, rowLock>>

-----------------------------------------------------------------------------
(* save_if_revision: the UPDATE takes its snapshot, then the row *)

BeginUpdate(r, next) ==
    LET q == req[r] IN
    /\ IF Unchanged(q.view, q.expected) /\ SubmissionClause(q.op, q.view)
       THEN Goto(r, [q EXCEPT !.pc = "updating", !.next = next])
       ELSE Respond(r)
    /\ UNCHANGED <<row, submission, audit, rowLock>>

(* the AI's plan has arrived and was evaluated *)
RefineUpdate(r, c) ==
    /\ req[r].pc = "refine_planning"
    /\ BeginUpdate(r, Refined(req[r].expected, c))

DecisionUpdate(r) ==
    /\ req[r].pc = "decision_ready"
    /\ BeginUpdate(r, Decided(req[r].op, req[r].expected, req[r].user))

CommitAlone(r) ==   \* mutant: the UPDATE is committed before the event is written
    row' = [row EXCEPT ![req[r].view] = req[r].next] /\ UNCHANGED rowLock

(* the new version of the row is nobody else's to see before the COMMIT *)
HoldUpdated(r) == rowLock' = [rowLock EXCEPT ![req[r].view] = r] /\ UNCHANGED row

(* The row is free.  Only if it was updated since the snapshot is WHERE    *)
(* evaluated again, and then the new revision fails it.                    *)
TakeRow(r) ==
    LET q == req[r] IN
    /\ q.pc = "updating"
    /\ rowLock[q.view] = NoRequest
    /\ IF Unchanged(q.view, q.expected)
       THEN HoldUpdated(r) /\ Goto(r, [q EXCEPT !.pc = "updated"])
       ELSE Respond(r) /\ UNCHANGED <<row, rowLock>>
    /\ UNCHANGED <<submission, audit>>

(* the audit event, COMMIT and the response *)
RecordUpdate(r) ==
    LET q == req[r] IN
    /\ q.pc = "updated"
    /\ row' = [row EXCEPT ![q.view] = q.next]
    /\ Record(q.view, [action |-> ActionOf(q.op), actor |-> q.user,
                       from |-> q.expected.status, to |-> q.next.status,
                       revision |-> q.next.revision])
    /\ ReleaseLock(r)
    /\ Respond(r)
    /\ UNCHANGED submission

-----------------------------------------------------------------------------
(* decide and approve_recommended_alternative *)

(* get_authorized_view(require_approver, require_submission) *)
StartDecision(r, u, v, op) ==
    /\ req[r] = Idle
    /\ u \in Approvers
    /\ row[v] # NoRow
    /\ row[v].status \in Open
    /\ Matches(v)
    /\ Goto(r, [Idle EXCEPT !.pc = "decision_authorized", !.op = op, !.user = u, !.view = v])
    /\ UNCHANGED <<row, submission, audit, rowLock>>

AnyoneMayDecide(r) == TRUE   \* mutant: the endpoint skips the check

NotOwnSubmission(r) ==
    submission[req[r].view] # NoSubmission => submission[req[r].view].by # req[r].user

(* enforce_separation_of_duties, a read of its own *)
CheckSeparation(r) ==
    LET q == req[r] IN
    /\ q.pc = "decision_authorized"
    /\ IF NotOwnSubmission(r)
       THEN Goto(r, [q EXCEPT !.pc = "decision_cleared"])
       ELSE Respond(r)
    /\ UNCHANGED <<row, submission, audit, rowLock>>

(* the early returns of decide() and of approve_recommended_alternative() *)
Decidable(op, old) ==
    /\ old.status \in Open
    /\ op = "approve" => old.content \notin Blocking
    /\ op = "approve_alternative" => /\ old.content \in Repairable
                                     /\ Repair[old.content] \notin Blocking

ReadForDecision(r) ==
    LET q == req[r] IN
    /\ q.pc = "decision_cleared"
    /\ IF Decidable(q.op, row[q.view])
       THEN Goto(r, [q EXCEPT !.pc = "decision_ready", !.expected = row[q.view]])
       ELSE Respond(r)
    /\ UNCHANGED <<row, submission, audit, rowLock>>

-----------------------------------------------------------------------------
(* download_materialized_data *)

Downloads(v) == SelectSeq(audit[v], LAMBDA event : event.action = "downloaded")

AnyOutput(v) == row[v] # NoRow   \* mutant: the status of the view is not looked at

Available(v) == row[v] # NoRow /\ row[v].status = "approved"

(* get_authorized_output_view (its creator, an approver, or a key of the   *)
(* workspace) and enforce_output_availability, on one read                 *)
StartDownload(r, u, v) ==
    /\ req[r] = Idle
    /\ Available(v)
    /\ u \in Approvers \cup {NoUser, row[v].creator}
    /\ Len(Downloads(v)) < MaxDownloads
    /\ Goto(r, [Idle EXCEPT !.pc = "downloading", !.op = "download", !.user = u, !.view = v])
    /\ UNCHANGED <<row, submission, audit, rowLock>>

(* record_data_download, in a transaction of its own.  The event's foreign *)
(* key waits for a FOR UPDATE of the row, not for an UPDATE of other       *)
(* columns; but an approved view is under none.                            *)
RecordDownload(r) ==
    LET q == req[r] IN
    /\ q.pc = "downloading"
    /\ rowLock[q.view] = NoRequest
    /\ Record(q.view, [action |-> "downloaded", actor |-> q.user,
                       from |-> "approved", to |-> "approved", revision |-> 0])
    /\ Respond(r)
    /\ UNCHANGED <<row, submission, rowLock>>

(* A statement or the AI's plan fails: 503, 422 or 500, and a rollback. *)
Abort(r) ==
    /\ req[r] # Idle
    /\ rowLock' = [v \in Views |-> IF rowLock[v] = r THEN NoRequest ELSE rowLock[v]]
    /\ Respond(r)
    /\ UNCHANGED <<row, submission, audit>>

(* The process dies: every request and open transaction with it. *)
Crash ==
    /\ \E r \in Requests : req[r] # Idle
    /\ req' = [r \in Requests |-> Idle]
    /\ rowLock' = [v \in Views |-> NoRequest]
    /\ UNCHANGED <<row, submission, audit>>

-----------------------------------------------------------------------------
(* A view either does not exist yet or predates submission snapshots:      *)
(* undecided, submitted, with NULL for the snapshot's revision and hash.   *)
LegacyRow == {NewRow(u, c) : u \in Users, c \in Contents}

Init ==
    /\ row \in [Views -> LegacyRow \cup {NoRow}]
    /\ submission = [v \in Views |-> IF row[v] = NoRow THEN NoSubmission
                                     ELSE [by |-> row[v].creator, snapshot |-> NoRow]]
    /\ audit = [v \in Views |-> IF row[v] = NoRow THEN << >> ELSE
                   << [action |-> "created", actor |-> row[v].creator, from |-> "none",
                       to |-> row[v].status, revision |-> 1],
                      [action |-> "submitted", actor |-> row[v].creator,
                       from |-> row[v].status, to |-> row[v].status, revision |-> 1] >>]
    /\ rowLock = [v \in Views |-> NoRequest]
    /\ req = [r \in Requests |-> Idle]

Step(r) ==
    \/ SubmitLock(r) \/ SubmitReplay(r) \/ SubmitConflict(r)
    \/ SubmitRefresh(r) \/ SubmitInsert(r)
    \/ RefineRead(r) \/ RefineCheckSubmission(r)
    \/ \E c \in Contents : RefineUpdate(r, c)
    \/ CheckSeparation(r) \/ ReadForDecision(r) \/ DecisionUpdate(r)
    \/ TakeRow(r) \/ RecordUpdate(r) \/ RecordDownload(r)

Start(r) ==
    \E v \in Views :
        \/ \E u \in Users :
              \/ StartSubmit(r, u, v)
              \/ StartRefine(r, u, v)
              \/ \E op \in Decisions : StartDecision(r, u, v, op)
        \/ \E u \in Users \cup {NoUser} : StartDownload(r, u, v)

Next == \/ \E u \in Users, v \in Views, c \in Contents : CreatePreview(u, v, c)
        \/ \E r \in Requests : Start(r) \/ Step(r) \/ Abort(r)
        \/ Crash

(* A started request goes on: the event loop runs every ready coroutine,   *)
(* the AI client has a timeout, and PostgreSQL grants a row lock to its    *)
(* waiters in turn, hence strong fairness.  Nobody has to send a request.  *)
Fairness == \A r \in Requests : SF_vars(Step(r))

Spec == Init /\ [][Next]_vars /\ Fairness

-----------------------------------------------------------------------------
(* Properties *)

\* Every table row, lock and request is of its declared type.
TypeOK ==
    /\ row \in [Views -> Row \cup {NoRow}]
    /\ submission \in [Views -> Submission \cup {NoSubmission}]
    /\ audit \in [Views -> Seq(Event)]
    /\ rowLock \in [Views -> Requests \cup {NoRequest}]
    /\ req \in [Requests -> Request]

IsDecided(v) == row[v] # NoRow /\ row[v].status \notin Open

(* what an approver may turn a submitted content into *)
Outcomes(s) == IF s.content \in Repairable THEN {s.content, Repair[s.content]} ELSE {s.content}

\* A decided view was submitted, and nothing happened to it between the snapshot that was
\* submitted and the decision: the decision is the next revision, on the submitted content or
\* on its policy repair (save_if_revision with require_submission_match), whatever refinements
\* and second decisions were in flight.
DecisionRestsOnSubmission ==
    \A v \in Views : IsDecided(v) =>
        /\ submission[v] # NoSubmission
        /\ submission[v].snapshot # NoRow
        /\ submission[v].snapshot.status \in Open
        /\ row[v].revision = submission[v].snapshot.revision + 1
        /\ row[v].content \in Outcomes(submission[v].snapshot)
        /\ row[v].status = "rejected" => row[v].content = submission[v].snapshot.content

HasSnapshot(v) == submission[v] # NoSubmission /\ submission[v].snapshot # NoRow

\* From its submission on a view changes at most once: by the decision on what was submitted, or by
\* one refinement that had begun its UPDATE before (submit_refine_race). After either nothing
\* changes it again, whatever requests are still in flight (save_if_revision's WHERE).
SubmittedChangesOnce ==
    [][\A v \in Views : HasSnapshot(v) =>
           /\ submission'[v] = submission[v]
           /\ row'[v] # row[v] => /\ row[v] = submission[v].snapshot
                                  /\ row'[v].revision = row[v].revision + 1]_vars

\* Nobody decides on a view they created or submitted, although the check is a read of its own
\* made statements before the write, and only members with an approving role decide.
SeparationOfDuties ==
    \A v \in Views : IsDecided(v) =>
        /\ row[v].reviewer \in Approvers
        /\ row[v].reviewer # submission[v].by
        /\ row[v].reviewer # row[v].creator

\* Evidence exists exactly for approved views, certifies the content that is stored, names the
\* reviewer who approved it, and no approved content has a blocking finding.
EvidenceCertifiesApproval ==
    \A v \in Views : row[v] # NoRow =>
        /\ (row[v].status = "approved") <=> (row[v].evidence # NoEvidence)
        /\ row[v].status = "approved" =>
               /\ row[v].content \notin Blocking
               /\ row[v].evidence = [content |-> row[v].content, by |-> row[v].reviewer]

Filings(v) == {i \in DOMAIN audit[v] : audit[v][i].action = "submitted"}

(* the i-th event continues what the events before it tell *)
Continues(log, i) ==
    IF i = 1
    THEN log[i].action = "created" /\ log[i].revision = 1 /\ log[i].from = "none"
    ELSE /\ log[i].action # "created"
         /\ log[i].from = log[i - 1].to
         /\ log[i].from \in Open
         /\ IF log[i].action = "submitted"
            THEN log[i].revision = log[i - 1].revision /\ log[i].to = log[i].from
            ELSE log[i].revision = log[i - 1].revision + 1

\* The audit events of a view replay its history: after its creation one change per revision, in
\* order, each starting from the open status the event before it left, a submission changing
\* nothing, until an event that leaves the revision and the status stored; so no update is lost
\* and none is unrecorded, although the event is an INSERT after the UPDATE.  Behind that event
\* there is nothing but downloads (record_data_download), and those only of an approved view.  At
\* most one event records a submission, and a decision comes after it.
AuditReplaysHistory ==
    \A v \in Views : row[v] # NoRow =>
        LET log == audit[v] IN
        /\ \E n \in DOMAIN log :
              /\ \A i \in 1 .. n : Continues(log, i)
              /\ log[n].revision = row[v].revision
              /\ log[n].to = row[v].status
              /\ \A i \in DOMAIN log : i > n => log[i].action = "downloaded"
              /\ n < Len(log) => row[v].status = "approved"
        /\ \A i, j \in Filings(v) : i = j
        /\ IsDecided(v) => Filings(v) # {}

(* the ledger's view of the tables: a submission without a snapshot is no filing yet *)
FilingOf(v) ==
    IF submission[v] = NoSubmission \/ submission[v].snapshot = NoRow THEN NoSubmission
    ELSE [content |-> submission[v].snapshot.content, by |-> submission[v].by]

VerdictOn(v) ==
    IF IsDecided(v)
    THEN [outcome |-> row[v].status, content |-> row[v].content, by |-> row[v].reviewer]
    ELSE NoSubmission

Ledger == INSTANCE ApprovalLedger WITH
    None <- NoSubmission,
    filed <- [v \in Views |-> FilingOf(v)],
    verdict <- [v \in Views |-> VerdictOn(v)]

ASSUME LedgerNullAssumption == NoSubmission \notin Ledger!Filing \cup Ledger!Verdict

\* The database implements the ledger: a filing with a snapshot never changes, a verdict is given
\* once and never withdrawn or overwritten, by somebody else than the filer.
ImplementsLedger == Ledger!Spec

\* Every request is answered: no interleaving leaves a coroutine waiting for a row lock.
EveryRequestAnswered ==
    \A r \in Requests : req[r] # Idle ~> req[r] = Idle

\* What store.py:2186 and service.py:113 say: once submitted for approval a view is not modified
\* until it is decided, so that the submission can still be decided.
SubmittedViewIsUnmodified ==
    \A v \in Views :
        row[v] # NoRow /\ row[v].status \in Open /\ submission[v] # NoSubmission
            => IsLegacy(submission[v]) \/ Matches(v)

\* What main.py:1202 says: only a view that satisfies the policy or has a safe alternative is
\* submitted.
OnlyAllowedIsSubmitted ==
    \A v \in Views :
        submission[v] # NoSubmission /\ ~ IsLegacy(submission[v])
            => SubmissionAllowed(submission[v].snapshot)
=============================================================================
