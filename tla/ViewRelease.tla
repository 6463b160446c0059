------------------------------ MODULE ViewRelease -----------------------------
(***************************************************************************)
(* From a plan to released rows: a view is previewed, refined, submitted,  *)
(* approved as it is or with its recommended alternative, and downloaded,  *)
(* while the public demo it is materialised from is replaced.  Policy says *)
(* what is blocked, offered and repaired.                                  *)
(*                                                                         *)
(* One request at a time works on the view: what overlapping requests do   *)
(* to a view is in TaskViewApproval.  Its reads of the sources are one     *)
(* statement each, between which syncs go on.                              *)
(***************************************************************************)
EXTENDS PublicDemo, Policy

CONSTANTS
    Stored,     \* plans of views stored before the first sync
    Planned,    \* plans the AI answers with (a bound)
    MaxSyncs,   \* bound: how often the script is started
    NoView

ASSUME ViewReleaseAssumption == Stored \cup Planned \subseteq Plan /\ MaxSyncs \in Nat

(* every key of all of SAMPLE_ROWS *)
SampleColumns == {"week", "region", "age_band", "issue_type", "feature", "usage_count", "status",
    "avg_resolution_hours", "case_count", "os_family", "os_version", "signup_step",
    "error_category", "complaint_theme", "region_group", "channel", "agency", "complaint_type",
    "manufacturer", "model_year", "component", "crash_count", "fire_count"}

Renderable(plan) == plan.columns \subseteq SampleColumns

(* preview_rows *)
SampleRows(plan) ==
    {[group |-> [c \in Dimensions(plan.columns) |-> "sample"], case_count |-> n] :
        n \in {64, 41, 57, 28}}

Idle == [op |-> "idle", plan |-> NoView, todo |-> <<>>, read |-> [s \in Sources |-> {}]]

VARIABLES
    view,       \* the row of task_views, with its plan, rows, evidence and submission
    job,        \* the request that works on it: what it has read of the sources so far
    delivered,  \* history: the rows of the last data.csv
    syncsLeft

vars == <<snapshot, records, sync, view, job, delivered, syncsLeft>>
releaseVars == <<view, job, delivered, syncsLeft>>

-----------------------------------------------------------------------------
NewView(plan, rows, origin) ==
    [plan |-> plan, rows |-> rows, origin |-> origin, evidence |-> {}, expired |-> FALSE,
     submitted |-> FALSE, status |-> IF Blocks(plan) THEN "blocked" ELSE "proposed"]

EvidenceOfOld(plan, rows) ==   \* mutant: evidence of the view as it was read
    {[rows |-> view.rows, ttl |-> view.plan.ttl]}

(* the evidence of a view: none, or one *)
EvidenceOf(plan, rows) == {[rows |-> rows, ttl |-> plan.ttl]}

Approved(plan, rows, origin) ==
    [view EXCEPT !.plan = plan, !.rows = rows, !.origin = origin, !.status = "approved",
                 !.evidence = EvidenceOf(plan, rows)]

Open == view # NoView /\ view.status \in {"proposed", "blocked"}

-----------------------------------------------------------------------------
(* public_demo_preview and public_demo_export_rows read source by source    *)

Read(op, plan) ==
    /\ job = Idle
    /\ job' = [Idle EXCEPT !.op = op, !.plan = plan, !.todo = plan.sources]

ReadSource ==
    /\ job.todo # <<>>
    /\ job' = [job EXCEPT !.todo = Tail(@), !.read[Head(job.todo)] = records[Head(job.todo)]]
    /\ UNCHANGED <<demoVars, view, delivered, syncsLeft>>

(* _materialize_preview, once all is read *)
Materialized(rows, origin) ==
    LET public == Aggregate(job.plan.columns, job.plan.sources, job.read) IN
    /\ job.todo = <<>>
    /\ \/ public # {} /\ origin = "public_live" /\ rows \in Shown(public)
       \/ public = {} /\ origin = "synthetic_demo" /\ Renderable(job.plan)
              /\ rows = SampleRows(job.plan)

-----------------------------------------------------------------------------
CreatePreview(plan) ==
    /\ view = NoView
    /\ Read("preview", plan)
    /\ UNCHANGED <<demoVars, view, delivered, syncsLeft>>

Refine(plan) ==
    /\ Open /\ ~ view.submitted
    /\ Read("refine", plan)
    /\ UNCHANGED <<demoVars, view, delivered, syncsLeft>>

(* is_approval_submission_allowed *)
Submit ==
    /\ Open /\ ~ view.submitted
    /\ job = Idle
    /\ Blocks(view.plan) => Offers(view.plan)
    /\ view' = [view EXCEPT !.submitted = TRUE]
    /\ UNCHANGED <<demoVars, job, delivered, syncsLeft>>

(* decide; a rejected view is released to nobody *)
Approve ==
    /\ Open /\ view.submitted
    /\ job = Idle
    /\ ~ Blocks(view.plan)
    /\ view' = Approved(view.plan, view.rows, view.origin)
    /\ UNCHANGED <<demoVars, job, delivered, syncsLeft>>

Reject ==
    /\ Open /\ view.submitted
    /\ job = Idle
    /\ view' = [view EXCEPT !.status = "rejected"]
    /\ UNCHANGED <<demoVars, job, delivered, syncsLeft>>

(* approve_recommended_alternative: repairs, the policy again, new rows *)
Succeeds(plan) == Handles(plan) /\ ~ Blocks(Repaired(plan))

ApproveAlternative ==
    /\ Open /\ view.submitted
    /\ IF Succeeds(view.plan)
       THEN Read("alternative", Repaired(view.plan))
       ELSE job = Idle /\ job' = [Idle EXCEPT !.op = "conflict"]
    /\ UNCHANGED <<demoVars, view, delivered, syncsLeft>>

Save(rows, origin) ==
    /\ job.op \in {"preview", "refine", "alternative"}
    /\ Materialized(rows, origin)
    /\ view' = IF job.op = "alternative" THEN Approved(job.plan, rows, origin)
               ELSE NewView(job.plan, rows, origin)
    /\ job' = Idle
    /\ UNCHANGED <<demoVars, delivered, syncsLeft>>

(* a 409 or 422, an error of a statement, or a client that went away *)
Abort ==
    /\ job # Idle
    /\ job' = Idle
    /\ UNCHANGED <<demoVars, view, delivered, syncsLeft>>

-----------------------------------------------------------------------------
(* GET /v1/taskviews/{view_id}/data.csv *)

Available == view # NoView /\ view.status = "approved" /\ ~ view.expired

DownloadStored ==
    /\ Available /\ view.origin = "synthetic_demo"
    /\ job = Idle
    /\ delivered' = view.rows
    /\ UNCHANGED <<demoVars, view, job, syncsLeft>>

DownloadStart ==
    /\ Available /\ view.origin = "public_live"
    /\ Read("download", view.plan)
    /\ UNCHANGED <<demoVars, view, delivered, syncsLeft>>

DownloadPublic ==
    /\ job.op = "download" /\ job.todo = <<>>
    /\ delivered' = Project(job.plan.columns, job.plan.sources, job.read)
    /\ job' = Idle
    /\ UNCHANGED <<demoVars, view, syncsLeft>>

TTLEnds ==
    /\ Available
    /\ view' = [view EXCEPT !.expired = TRUE]
    /\ UNCHANGED <<demoVars, job, delivered, syncsLeft>>

-----------------------------------------------------------------------------
StartSync(p, f) ==
    /\ syncsLeft > 0
    /\ FetchAll(p, f)
    /\ syncsLeft' = syncsLeft - 1
    /\ UNCHANGED <<view, job, delivered>>

(* no view yet, or one that was previewed before the first sync *)
Init ==
    /\ DemoInit
    /\ job = Idle
    /\ delivered = {}
    /\ \/ view = NoView /\ syncsLeft = MaxSyncs
       \/ /\ records = [s \in Sources |-> {}]
          /\ syncsLeft = 0
          /\ \E plan \in Stored :
                 Renderable(plan) /\ view = NewView(plan, SampleRows(plan), "synthetic_demo")

Rows == IF job.todo = <<>> /\ job.op \in {"preview", "refine", "alternative"}
        THEN Shown(Aggregate(job.plan.columns, job.plan.sources, job.read))
                 \cup {SampleRows(job.plan)}
        ELSE {}

Next ==
    \/ \E p \in Syncs, f \in Fetches : StartSync(p, f)
    \/ \E p \in Syncs : SyncStep(p) /\ UNCHANGED releaseVars
    \/ \E plan \in Planned : CreatePreview(plan) \/ Refine(plan)
    \/ ReadSource
    \/ \E rows \in Rows, origin \in {"public_live", "synthetic_demo"} : Save(rows, origin)
    \/ Submit \/ Approve \/ Reject \/ ApproveAlternative \/ Abort
    \/ DownloadStored \/ DownloadStart \/ DownloadPublic \/ TTLEnds

Spec == Init /\ [][Next]_vars

-----------------------------------------------------------------------------
(* Properties *)

IsRowOf(row, plan) ==
    DOMAIN row.group = Dimensions(plan.columns) /\ row.case_count \in Nat

\* The demo tables, the view, the request and the last download are of their types.
TypeOK ==
    /\ DemoTypeOK
    /\ view # NoView =>
           /\ view.status \in {"proposed", "blocked", "approved", "rejected"}
           /\ view.origin \in {"public_live", "synthetic_demo"}
           /\ view.submitted \in BOOLEAN /\ view.expired \in BOOLEAN
           /\ \A row \in view.rows : IsRowOf(row, view.plan)
    /\ job.op \in {"idle", "preview", "refine", "alternative", "conflict", "download"}
    /\ job.todo \in Seq(Sources) /\ job.read \in [Sources -> SUBSET Fetches]
    /\ syncsLeft \in 0 .. MaxSyncs

\* The public rows of a view are the counts of one whole snapshot of each source, each of at least
\* minimum_group_size, although the sources are read one after the other while syncs replace
\* them (public_demo_preview, aggregate_records); and there are never more than the limit.
RowsAreOfWholeSnapshots ==
    view # NoView /\ view.origin = "public_live" =>
        /\ Cardinality(view.rows) \in 1 .. Limit
        /\ \E was \in [Sources -> Fetches \cup {NoFetch}] :
               \A row \in view.rows :
                   /\ row.case_count >= MinGroup
                   /\ row = GroupRow(view.plan.columns, view.plan.sources,
                                     [s \in Sources |-> {was[s]} \ {NoFetch}], row.group)

\* What the reviewer was offered is what happens: an alternative that was submitted on is refused
\* only for a plan that is not Compatible (two repairs get in each other's way, or a single one
\* renames its own output away from a column of the preview), each announced operator is the one
\* applied, and no view that was submitted is beyond both approvals for another reason
\* (experience.py's offer against service.py's repairs and policy.py's rules).
OfferIsKept ==
    view # NoView /\ view.submitted =>
        /\ Blocks(view.plan) => \A f \in Findings(view.plan) : Announced(f) = Applied(f)
        /\ job.op = "conflict" /\ Blocks(view.plan) => ~ Compatible(view.plan)
        /\ job.op = "alternative" => Compatible(view.plan)

\* An approved view meets the policy with the plan it is stored with, its evidence is of the rows
\* and the TTL stored, at most MaxTTL days, even if its alternative was materialised from newer
\* snapshots than the preview; and evidence is issued for nothing else.
ApprovedIsCertified ==
    view # NoView =>
        /\ (view.status = "approved") <=> (view.evidence # {})
        /\ view.status = "approved" =>
               /\ view.submitted
               /\ ~ Blocks(view.plan)
               /\ view.evidence = {[rows |-> view.rows, ttl |-> view.plan.ttl]}
               /\ view.plan.ttl <= MaxTTL

Once(sources) == SetToSeq(ToSet(sources))

\* What README.md:63 and README.md:81 say: what is released are groups of at least the minimum
\* size.  A row of a view counts that many different records of the snapshots it was made from,
\* and a row of data.csv stands for that many records.
ReleasedGroupsAreLarge ==
    /\ view # NoView /\ view.origin = "public_live" =>
          \A row \in view.rows : \E was \in [Sources -> Fetches \cup {NoFetch}] :
              LET read == [s \in Sources |-> {was[s]} \ {NoFetch}]
                  columns == view.plan.columns
                  sources == view.plan.sources
              IN /\ row = GroupRow(columns, sources, read, row.group)
                 /\ GroupRow(columns, Once(sources), read, row.group).case_count >= MinGroup
    /\ \A row \in delivered : row.case_count >= MinGroup
=============================================================================
