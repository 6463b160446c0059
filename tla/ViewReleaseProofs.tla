--------------------------- MODULE ViewReleaseProofs --------------------------
(***************************************************************************)
(* Proofs about ViewRelease, for any number of syncs, fetches, kinds of    *)
(* records and plans.                                                      *)
(***************************************************************************)
EXTENDS ViewRelease, FiniteSetTheorems, WellFoundedInduction, TLAPS

-----------------------------------------------------------------------------
(* The inductive invariants *)

Replacing(p) == sync[p].pc \in {"upserted", "deleted"}

(* the upsert claims the row of the source until COMMIT, so what the DELETE *)
(* saw is all there is                                                     *)
SyncInv(p) ==
    /\ sync[p].pc # "idle" => sync[p].fetch \in Fetches
    /\ sync[p].pc = "deleted" => sync[p].gone = records[SourceOf(p)]
    /\ \A q \in Syncs : Replacing(p) /\ Replacing(q) /\ SourceOf(p) = SourceOf(q) => p = q

DemoInv ==
    /\ DemoTypeOK
    /\ SnapshotsAreWhole
    /\ \A p \in Syncs : SyncInv(p)

(* what RowsAreOfWholeSnapshots says of rows and their plan *)
Whole(rows, plan) ==
    /\ Cardinality(rows) \in 1 .. Limit
    /\ \E was \in [Sources -> Fetches \cup {NoFetch}] :
           \A row \in rows :
               /\ row.case_count >= MinGroup
               /\ row = GroupRow(plan.columns, plan.sources,
                                 [s \in Sources |-> {was[s]} \ {NoFetch}], row.group)

IsView(v) ==
    v = [plan |-> v.plan, rows |-> v.rows, origin |-> v.origin, evidence |-> v.evidence,
         expired |-> v.expired, submitted |-> v.submitted, status |-> v.status]

Certified(v) ==
    /\ v.submitted
    /\ ~ Blocks(v.plan)
    /\ v.evidence = {[rows |-> v.rows, ttl |-> v.plan.ttl]}
    /\ v.plan.ttl <= MaxTTL

ViewInv(v) ==
    /\ IsView(v)
    /\ v.status \in {"proposed", "blocked", "approved", "rejected"}
    /\ v.status \in {"proposed", "blocked"} => v.plan \in Plan
    /\ v.status # "approved" => v.evidence = {}
    /\ v.status = "approved" => Certified(v)
    /\ v.origin = "public_live" => Whole(v.rows, v.plan)

(* a request has read each source at most once, and whole *)
JobInv ==
    /\ job = [op |-> job.op, plan |-> job.plan, todo |-> job.todo, read |-> job.read]
    /\ job.read \in [Sources -> SUBSET Fetches]
    /\ \A s \in Sources : job.read[s] = {} \/ \E f \in Fetches : job.read[s] = {f}
    /\ job.op \in {"preview", "refine"} => job.plan \in Plan
    /\ job.op = "alternative" =>
           Open /\ view.submitted /\ ~ Blocks(job.plan) /\ job.plan.ttl \in Nat

IInv ==
    /\ DemoInv
    /\ view # NoView => ViewInv(view)
    /\ JobInv

-----------------------------------------------------------------------------
(* The syncs *)

LEMMA SourcesInOrder ==
    /\ DOMAIN SourceOrder = 1 .. 3 /\ Len(SourceOrder) = 3
    /\ \A i \in 1 .. 3 : SourceOrder[i] \in Sources
    /\ IdleSync \in Sync /\ IdleSync.pc = "idle"
  BY DEF SourceOrder, Sources, IdleSync, Sync

LEMMA SourceOfSync ==
    ASSUME DemoTypeOK, NEW p \in Syncs
    PROVE  sync[p] \in Sync /\ sync[p].at \in 1 .. 3 /\ SourceOf(p) \in Sources
  BY SourcesInOrder DEF DemoTypeOK, Sync, SourceOf

LEMMA DemoInitEstablishes == DemoInit => DemoInv
<1>. SUFFICES ASSUME DemoInit PROVE DemoInv
  OBVIOUS
<1>1. snapshot \in [Sources -> Fetches \cup {NoFetch}]
  BY DEF DemoInit
<1>2. records = [s \in Sources |-> {snapshot[s]} \ {NoFetch}]
  BY DEF DemoInit
<1>3. DemoTypeOK /\ SnapshotsAreWhole
  BY <1>1, <1>2, SourcesInOrder DEF DemoInit, DemoTypeOK, SnapshotsAreWhole
<1>4. \A p \in Syncs : SyncInv(p)
  BY SourcesInOrder DEF DemoInit, SyncInv, Replacing
<1>. QED
  BY <1>3, <1>4 DEF DemoInv

(* a step of one sync that leaves the tables alone *)
LEMMA SyncMoves ==
    ASSUME DemoInv, NEW p \in Syncs, NEW state \in Sync, sync' = [sync EXCEPT ![p] = state],
           UNCHANGED <<snapshot, records>>,
           SyncInv(p)',
           \A q \in Syncs \ {p} : Replacing(p)' /\ Replacing(q) => SourceOf(p)' # SourceOf(q)
    PROVE  DemoInv'
<1>1. DemoTypeOK' /\ SnapshotsAreWhole'
  BY DEF DemoInv, DemoTypeOK, SnapshotsAreWhole
<1>2. \A q \in Syncs \ {p} : sync'[q] = sync[q]
  BY DEF DemoInv, DemoTypeOK
<1>3. \A q \in Syncs \ {p} : SourceOf(q)' = SourceOf(q) /\ (Replacing(q)' <=> Replacing(q))
  BY <1>2 DEF SourceOf, Replacing
<1>4. ASSUME NEW q \in Syncs PROVE SyncInv(q)'
  BY <1>2, <1>3 DEF DemoInv, SyncInv
<1>. QED
  BY <1>1, <1>4 DEF DemoInv

LEMMA FetchPreserves ==
    ASSUME DemoInv, NEW p \in Syncs, NEW f \in Fetches, FetchAll(p, f)
    PROVE  DemoInv'
<1>. DEFINE state == [IdleSync EXCEPT !.pc = "next", !.fetch = f]
<1>1. state \in Sync /\ state.pc = "next" /\ state.fetch = f
  BY SourcesInOrder DEF IdleSync, Sync
<1>2. sync' = [sync EXCEPT ![p] = state] /\ UNCHANGED <<snapshot, records>>
  BY DEF FetchAll
<1>. HIDE DEF state
<1>3. sync'[p] = state
  BY <1>2 DEF DemoInv, DemoTypeOK
<1>4. SyncInv(p)' /\ ~ Replacing(p)'
  BY <1>1, <1>3 DEF SyncInv, Replacing
<1>. QED
  BY <1>1, <1>2, <1>4, SyncMoves

LEMMA UpsertPreserves ==
    ASSUME DemoInv, NEW p \in Syncs, Upsert(p)
    PROVE  DemoInv'
<1>. DEFINE state == [sync[p] EXCEPT !.pc = "upserted"]
<1>1. sync[p] \in Sync /\ sync[p].fetch \in Fetches
  BY SourceOfSync DEF DemoInv, Upsert, SyncInv
<1>2. state \in Sync /\ state.pc = "upserted" /\ state.fetch = sync[p].fetch /\ state.at = sync[p].at
  BY <1>1 DEF Sync
<1>3. sync' = [sync EXCEPT ![p] = state] /\ UNCHANGED <<snapshot, records>>
  BY DEF Upsert
<1>. HIDE DEF state
<1>4. sync'[p] = state /\ SourceOf(p)' = SourceOf(p)
  BY <1>2, <1>3 DEF DemoInv, DemoTypeOK, SourceOf
<1>5. \A q \in Syncs : Replacing(q) => SourceOf(q) # SourceOf(p)
  BY DEF Upsert, Unclaimed, Replacing
<1>6. \A q \in Syncs \ {p} : sync'[q] = sync[q] /\ SourceOf(q)' = SourceOf(q)
  BY <1>3 DEF DemoInv, DemoTypeOK, SourceOf
<1>7. SyncInv(p)'
  BY <1>1, <1>2, <1>4, <1>5, <1>6 DEF SyncInv, Replacing
<1>. QED
  BY <1>2, <1>3, <1>4, <1>5, <1>7, SyncMoves

LEMMA DeleteOldPreserves ==
    ASSUME DemoInv, NEW p \in Syncs, DeleteOld(p)
    PROVE  DemoInv'
<1>. DEFINE state == [sync[p] EXCEPT !.pc = "deleted", !.gone = records[SourceOf(p)]]
<1>1. /\ sync[p] \in Sync /\ sync[p].fetch \in Fetches /\ Replacing(p)
      /\ records[SourceOf(p)] \in SUBSET Fetches
  BY SourceOfSync DEF DemoInv, DeleteOld, SyncInv, Replacing, DemoTypeOK
<1>2. /\ state \in Sync /\ state.pc = "deleted" /\ state.fetch = sync[p].fetch
      /\ state.at = sync[p].at /\ state.gone = records[SourceOf(p)]
  BY <1>1 DEF Sync
<1>3. sync' = [sync EXCEPT ![p] = state] /\ UNCHANGED <<snapshot, records>>
  <2>1. sync' = [sync EXCEPT ![p].pc = "deleted", ![p].gone = records[SourceOf(p)]]
    BY DEF DeleteOld
  <2>. QED
    BY <1>1, <2>1 DEF DeleteOld, DemoInv, DemoTypeOK
<1>. HIDE DEF state
<1>4. sync'[p] = state /\ SourceOf(p)' = SourceOf(p)
  BY <1>2, <1>3 DEF DemoInv, DemoTypeOK, SourceOf
<1>5. \A q \in Syncs \ {p} : Replacing(q) => SourceOf(q) # SourceOf(p)
  BY <1>1 DEF DemoInv, SyncInv
<1>6. \A q \in Syncs \ {p} : sync'[q] = sync[q] /\ SourceOf(q)' = SourceOf(q)
  BY <1>3 DEF DemoInv, DemoTypeOK, SourceOf
<1>7. SyncInv(p)'
  BY <1>1, <1>2, <1>3, <1>4, <1>5, <1>6 DEF SyncInv, Replacing
<1>. QED
  BY <1>2, <1>3, <1>4, <1>5, <1>7, SyncMoves

LEMMA SyncDiesPreserves ==
    ASSUME DemoInv, NEW p \in Syncs, SyncDies(p)
    PROVE  DemoInv'
<1>1. sync' = [sync EXCEPT ![p] = IdleSync] /\ UNCHANGED <<snapshot, records>>
  BY DEF SyncDies
<1>2. sync'[p] = IdleSync
  BY <1>1 DEF DemoInv, DemoTypeOK
<1>3. SyncInv(p)' /\ ~ Replacing(p)'
  BY <1>2, SourcesInOrder DEF SyncInv, Replacing
<1>. QED
  BY <1>1, <1>3, SyncMoves, SourcesInOrder

LEMMA InsertCommitPreserves ==
    ASSUME DemoInv, NEW p \in Syncs, InsertCommit(p)
    PROVE  DemoInv'
<1>. DEFINE s == SourceOf(p)
            f == sync[p].fetch
<1>1. /\ sync[p] \in Sync /\ f \in Fetches /\ s \in Sources /\ Replacing(p)
      /\ sync[p].gone = records[s] /\ sync[p].at \in 1 .. 3
  BY SourceOfSync DEF DemoInv, InsertCommit, SyncInv, Replacing
<1>2. /\ snapshot' = [snapshot EXCEPT ![s] = f]
      /\ records' = [records EXCEPT ![s] = (@ \ sync[p].gone) \cup {f}]
  BY DEF InsertCommit
<1>3. /\ NextSource(sync[p]) \in Sync
      /\ NextSource(sync[p]).pc \in {"idle", "next"}
      /\ NextSource(sync[p]).pc # "idle" => NextSource(sync[p]).fetch = f
  <2>1. CASE sync[p].at = Len(SourceOrder)
    BY <2>1, SourcesInOrder DEF NextSource
  <2>2. CASE sync[p].at # Len(SourceOrder)
    <3>1. sync[p].at + 1 \in DOMAIN SourceOrder
      <4>1. sync[p].at \in 1 .. 3 /\ sync[p].at # 3
        BY <1>1, <2>2, SourcesInOrder
      <4>. QED
        BY <4>1, SourcesInOrder
    <3>. QED
      BY <1>1, <2>2, <3>1 DEF Sync, NextSource
  <2>. QED
    BY <2>1, <2>2
<1>4. sync' = [sync EXCEPT ![p] = NextSource(sync[p])] /\ sync'[p] = NextSource(sync[p])
  BY DEF InsertCommit, DemoInv, DemoTypeOK
<1>5. \A q \in Syncs \ {p} : sync'[q] = sync[q] /\ SourceOf(q)' = SourceOf(q)
  BY <1>4 DEF DemoInv, DemoTypeOK, SourceOf
<1>. HIDE DEF s, f
<1>6. records'[s] = {f} /\ \A t \in Sources \ {s} : records'[t] = records[t]
  BY <1>1, <1>2 DEF DemoInv, DemoTypeOK
<1>7. DemoTypeOK'
  <2>1. records' \in [Sources -> SUBSET Fetches] /\ snapshot' \in [Sources -> Fetches \cup {NoFetch}]
    BY <1>1, <1>2 DEF DemoInv, DemoTypeOK
  <2>2. sync' \in [Syncs -> Sync]
    BY <1>3, <1>4 DEF DemoInv, DemoTypeOK
  <2>. QED
    BY <2>1, <2>2 DEF DemoTypeOK
<1>8. SnapshotsAreWhole'
  BY <1>1, <1>2, <1>6, PublicDemoAssumption DEF DemoInv, DemoTypeOK, SnapshotsAreWhole
<1>9. ASSUME NEW q \in Syncs PROVE SyncInv(q)'
  <2>1. CASE q = p
    BY <1>1, <1>3, <1>4, <2>1 DEF SyncInv, Replacing
  <2>2. CASE q # p
    <3>1. SyncInv(q) /\ sync'[q] = sync[q] /\ SourceOf(q)' = SourceOf(q) /\ SourceOf(q) \in Sources
      BY <1>5, <2>2, SourceOfSync DEF DemoInv
    <3>2. Replacing(q) => SourceOf(q) # s
      BY <1>1, <2>2 DEF DemoInv, SyncInv, s
    <3>3. ~ Replacing(p)'
      BY <1>3, <1>4 DEF Replacing
    <3>. QED
      BY <1>5, <1>6, <3>1, <3>2, <3>3 DEF SyncInv, Replacing
  <2>. QED
    BY <2>1, <2>2
<1>. QED
  BY <1>7, <1>8, <1>9 DEF DemoInv

LEMMA SyncStepPreserves ==
    ASSUME DemoInv, NEW p \in Syncs, SyncStep(p)
    PROVE  DemoInv'
  BY UpsertPreserves, DeleteOldPreserves, InsertCommitPreserves, SyncDiesPreserves DEF SyncStep

LEMMA DemoStays ==
    ASSUME DemoInv, UNCHANGED demoVars
    PROVE  DemoInv'
<1>1. UNCHANGED <<snapshot, records, sync>>
  BY DEF demoVars
<1>. QED
  BY <1>1 DEF DemoInv, DemoTypeOK, SnapshotsAreWhole, SyncInv, SourceOf, Replacing

-----------------------------------------------------------------------------
(* What was read and what is made of it *)

LEMMA ReadIsOfSnapshots ==
    ASSUME NEW read \in [Sources -> SUBSET Fetches],
           \A s \in Sources : read[s] = {} \/ \E f \in Fetches : read[s] = {f}
    PROVE  \E was \in [Sources -> Fetches \cup {NoFetch}] :
               read = [s \in Sources |-> {was[s]} \ {NoFetch}]
<1>. DEFINE was == [s \in Sources |-> IF read[s] = {} THEN NoFetch
                                      ELSE CHOOSE f \in Fetches : read[s] = {f}]
<1>1. ASSUME NEW s \in Sources
      PROVE  was[s] \in Fetches \cup {NoFetch} /\ read[s] = {was[s]} \ {NoFetch}
  BY PublicDemoAssumption
<1>2. was \in [Sources -> Fetches \cup {NoFetch}]
  BY <1>1
<1>. HIDE DEF was
<1>3. read = [s \in Sources |-> {was[s]} \ {NoFetch}]
  BY <1>1
<1>. QED
  BY <1>2, <1>3

LEMMA ImageIsFinite ==
    ASSUME NEW S, NEW T, NEW f \in [S -> T], IsFiniteSet(S), \A y \in T : \E x \in S : f[x] = y
    PROVE  IsFiniteSet(T)
<1>1. f \in Surjection(S, T)
  BY DEF Surjection
<1>. QED
  BY <1>1, FS_Surjection

LEMMA AggregateIsFinite ==
    ASSUME NEW columns, NEW sources, NEW read
    PROVE  IsFiniteSet(Aggregate(columns, sources, read))
<1>. DEFINE f == [k \in Kinds |-> GroupRow(columns, sources, read, GroupOf(k, columns))]
            all == {f[k] : k \in Kinds}
<1>1. IsFiniteSet(all)
  <2>1. f \in [Kinds -> all] /\ \A row \in all : \E k \in Kinds : f[k] = row
    OBVIOUS
  <2>. HIDE DEF f, all
  <2>. QED
    BY <2>1, ImageIsFinite, PublicDemoAssumption
<1>2. Aggregate(columns, sources, read) \in SUBSET all
  BY DEF Aggregate
<1>. QED
  BY <1>1, <1>2, FS_Subset

LEMMA ShownIsWhole ==
    ASSUME NEW plan, NEW read \in [Sources -> SUBSET Fetches],
           \A s \in Sources : read[s] = {} \/ \E f \in Fetches : read[s] = {f},
           Aggregate(plan.columns, plan.sources, read) # {},
           NEW rows \in Shown(Aggregate(plan.columns, plan.sources, read))
    PROVE  Whole(rows, plan)
<1>. DEFINE all == Aggregate(plan.columns, plan.sources, read)
<1>1. Cardinality(all) \in Nat /\ Cardinality(all) # 0
  BY AggregateIsFinite, FS_CardinalityType, FS_EmptySet
<1>2. /\ rows \in SUBSET all
      /\ Cardinality(rows) = IF Cardinality(all) < Limit THEN Cardinality(all) ELSE Limit
  BY DEF Shown
<1>3. Cardinality(rows) \in 1 .. Limit
  <2>. HIDE DEF all
  <2>. QED
    BY <1>1, <1>2, PublicDemoAssumption
<1>4. ASSUME NEW row \in rows
      PROVE  /\ row.case_count >= MinGroup
             /\ row = GroupRow(plan.columns, plan.sources, read, row.group)
  <2>1. PICK k \in Kinds :
            /\ row = GroupRow(plan.columns, plan.sources, read, GroupOf(k, plan.columns))
            /\ LargeEnough(row)
    BY <1>2 DEF Aggregate
  <2>2. row.group = GroupOf(k, plan.columns)
    BY <2>1 DEF GroupRow
  <2>. QED
    BY <2>1, <2>2 DEF LargeEnough
<1>5. PICK was \in [Sources -> Fetches \cup {NoFetch}] :
          read = [s \in Sources |-> {was[s]} \ {NoFetch}]
  BY ReadIsOfSnapshots
<1>. QED
  BY <1>3, <1>4, <1>5 DEF Whole

LEMMA AcceptedPlansAreShort ==
    ASSUME NEW plan, plan.ttl \in Nat, ~ Blocks(plan)
    PROVE  plan.ttl <= MaxTTL
<1>1. PlanFindings(plan) = {}
  BY DEF Blocks, Findings
<1>2. ~ (plan.ttl > MaxTTL)
  BY <1>1 DEF PlanFindings
<1>. QED
  BY <1>2 DEF MaxTTL

LEMMA RepairedPlans ==
    ASSUME NEW plan \in Plan
    PROVE  Repaired(plan).ttl \in Nat
<1>. DEFINE long == \E f \in Findings(plan) : TooLong(f)
<1>1. Repaired(plan).ttl = IF long THEN MaxTTL ELSE plan.ttl
  BY DEF Repaired, Plan
<1>. HIDE DEF long
<1>. QED
  BY <1>1 DEF Plan, MaxTTL

-----------------------------------------------------------------------------
(* The steps of the view and its request *)

LEMMA IdleJob ==
    /\ Idle.op = "idle" /\ Idle.read = [s \in Sources |-> {}]
    /\ Idle = [op |-> Idle.op, plan |-> Idle.plan, todo |-> Idle.todo, read |-> Idle.read]
  BY DEF Idle

LEMMA RespondsPreserves ==
    ASSUME job' = [Idle EXCEPT !.op = "conflict"] \/ job' = Idle
    PROVE  JobInv'
  BY IdleJob DEF JobInv

LEMMA ReadStarts ==
    ASSUME NEW op \in {"preview", "refine", "alternative", "download"}, NEW plan,
           Read(op, plan), view' = view,
           op \in {"preview", "refine"} => plan \in Plan,
           op = "alternative" => Open /\ view.submitted /\ ~ Blocks(plan) /\ plan.ttl \in Nat
    PROVE  JobInv'
<1>1. /\ job'.op = op /\ job'.plan = plan /\ job'.read = [s \in Sources |-> {}]
      /\ job' = [op |-> job'.op, plan |-> job'.plan, todo |-> job'.todo, read |-> job'.read]
  BY DEF Read, Idle
<1>2. Open' <=> Open
  BY DEF Open
<1>. QED
  BY <1>1, <1>2 DEF JobInv

LEMMA ReadSourcePreserves ==
    ASSUME IInv, ReadSource
    PROVE  JobInv'
<1>. DEFINE h == Head(job.todo)
<1>1. job' = [job EXCEPT !.todo = Tail(job.todo), !.read[h] = records[h]]
  BY DEF ReadSource
<1>2. /\ job'.op = job.op /\ job'.plan = job.plan
      /\ job'.read = [job.read EXCEPT ![h] = records[h]]
      /\ job' = [op |-> job'.op, plan |-> job'.plan, todo |-> job'.todo, read |-> job'.read]
  BY <1>1 DEF IInv, JobInv
<1>. HIDE DEF h
<1>3. \A s \in Sources : records[s] \in SUBSET Fetches
                         /\ (records[s] = {} \/ \E f \in Fetches : records[s] = {f})
  BY DEF IInv, DemoInv, DemoTypeOK, SnapshotsAreWhole
<1>4. \A s \in Sources : job'.read[s] = IF s = h THEN records[s] ELSE job.read[s]
  BY <1>2 DEF IInv, JobInv
<1>5. job'.read \in [Sources -> SUBSET Fetches]
  BY <1>2, <1>3 DEF IInv, JobInv
<1>6. Open' <=> Open
  BY DEF ReadSource, Open
<1>. QED
  BY <1>2, <1>3, <1>4, <1>5, <1>6 DEF IInv, JobInv, ReadSource

LEMMA SavePreserves ==
    ASSUME IInv, NEW rows, NEW origin, Save(rows, origin)
    PROVE  ViewInv(view)'
<1>1. origin = "public_live" => Whole(rows, job.plan)
  BY ShownIsWhole DEF Save, Materialized, IInv, JobInv
<1>2. CASE job.op = "alternative"
  <2>1. /\ view # NoView /\ ViewInv(view) /\ view.submitted
        /\ ~ Blocks(job.plan) /\ job.plan.ttl \in Nat
        /\ view' = Approved(job.plan, rows, origin)
    BY <1>2 DEF IInv, JobInv, Open, Save
  <2>2. job.plan.ttl <= MaxTTL
    BY <2>1, AcceptedPlansAreShort
  <2>3. view' = [plan |-> job.plan, rows |-> rows, origin |-> origin,
                 evidence |-> {[rows |-> rows, ttl |-> job.plan.ttl]},
                 expired |-> view.expired, submitted |-> view.submitted, status |-> "approved"]
    BY <2>1 DEF ViewInv, IsView, Approved, EvidenceOf
  <2>4. Certified(view') /\ IsView(view')
    BY <2>1, <2>2, <2>3 DEF Certified, IsView
  <2>. QED
    BY <1>1, <2>3, <2>4 DEF ViewInv
<1>3. CASE job.op # "alternative"
  <2>1. job.plan \in Plan /\ view' = NewView(job.plan, rows, origin)
    BY <1>3 DEF Save, IInv, JobInv
  <2>. QED
    BY <1>1, <2>1 DEF NewView, ViewInv, IsView
<1>. QED
  BY <1>2, <1>3

LEMMA SaveEndsJob ==
    ASSUME NEW rows, NEW origin, Save(rows, origin)
    PROVE  JobInv' /\ UNCHANGED demoVars
  BY RespondsPreserves DEF Save

LEMMA SubmitPreserves ==
    ASSUME IInv, Submit
    PROVE  ViewInv(view)'
<1>1. /\ ViewInv(view) /\ view.status \in {"proposed", "blocked"}
      /\ view' = [view EXCEPT !.submitted = TRUE]
  BY DEF Submit, Open, IInv
<1>. QED
  BY <1>1 DEF ViewInv, IsView

LEMMA ApprovePreserves ==
    ASSUME IInv, Approve
    PROVE  ViewInv(view)'
<1>1. /\ ViewInv(view) /\ view.submitted /\ ~ Blocks(view.plan) /\ view.plan \in Plan
      /\ view' = Approved(view.plan, view.rows, view.origin)
  BY DEF Approve, Open, IInv, ViewInv
<1>2. view.plan.ttl <= MaxTTL
  BY <1>1, AcceptedPlansAreShort DEF Plan
<1>3. view' = [plan |-> view.plan, rows |-> view.rows, origin |-> view.origin,
               evidence |-> {[rows |-> view.rows, ttl |-> view.plan.ttl]},
               expired |-> view.expired, submitted |-> view.submitted, status |-> "approved"]
  BY <1>1 DEF ViewInv, IsView, Approved, EvidenceOf
<1>4. Certified(view') /\ IsView(view')
  BY <1>1, <1>2, <1>3 DEF Certified, IsView
<1>. QED
  BY <1>1, <1>3, <1>4 DEF ViewInv

LEMMA RejectPreserves ==
    ASSUME IInv, Reject
    PROVE  ViewInv(view)'
<1>1. /\ ViewInv(view) /\ view.status \in {"proposed", "blocked"}
      /\ view' = [view EXCEPT !.status = "rejected"]
  BY DEF Reject, Open, IInv
<1>. QED
  BY <1>1 DEF ViewInv, IsView

LEMMA TTLEndsPreserves ==
    ASSUME IInv, TTLEnds
    PROVE  ViewInv(view)' /\ JobInv'
<1>1. /\ ViewInv(view) /\ view # NoView /\ view.status = "approved"
      /\ view' = [view EXCEPT !.expired = TRUE] /\ job' = job
  BY DEF TTLEnds, Available, IInv
<1>2. ViewInv(view)'
  BY <1>1 DEF ViewInv, IsView, Certified
<1>3. ~ Open
  BY <1>1 DEF Open
<1>4. JobInv'
  BY <1>1, <1>3 DEF IInv, JobInv
<1>. QED
  BY <1>2, <1>4

LEMMA ApproveAlternativePreserves ==
    ASSUME IInv, ApproveAlternative
    PROVE  JobInv'
<1>1. Open /\ view.submitted /\ view.plan \in Plan /\ view' = view
  BY DEF ApproveAlternative, Open, IInv, ViewInv
<1>2. CASE Succeeds(view.plan)
  <2>1. Read("alternative", Repaired(view.plan)) /\ ~ Blocks(Repaired(view.plan))
    BY <1>2 DEF ApproveAlternative, Succeeds
  <2>2. Repaired(view.plan).ttl \in Nat
    BY <1>1, RepairedPlans
  <2>. QED
    BY <1>1, <2>1, <2>2, ReadStarts
<1>3. CASE ~ Succeeds(view.plan)
  BY <1>3, RespondsPreserves DEF ApproveAlternative
<1>. QED
  BY <1>2, <1>3

-----------------------------------------------------------------------------
LEMMA InitEstablishes == Init => IInv
<1>. SUFFICES ASSUME Init PROVE IInv
  OBVIOUS
<1>1. DemoInv
  BY DemoInitEstablishes DEF Init
<1>2. JobInv
  BY IdleJob DEF Init, JobInv
<1>3. ASSUME view # NoView PROVE ViewInv(view)
  <2>1. PICK plan \in Stored : view = NewView(plan, SampleRows(plan), "synthetic_demo")
    BY <1>3 DEF Init
  <2>2. plan \in Plan
    BY ViewReleaseAssumption
  <2>. QED
    BY <2>1, <2>2 DEF NewView, ViewInv, IsView
<1>. QED
  BY <1>1, <1>2, <1>3 DEF IInv

(* a step that leaves the view and its request alone *)
LEMMA SyncsPreserve ==
    ASSUME IInv, DemoInv', view' = view, job' = job
    PROVE  IInv'
<1>1. Open' <=> Open
  BY DEF Open
<1>2. JobInv'
  BY <1>1 DEF IInv, JobInv
<1>. QED
  BY <1>2 DEF IInv

(* a step of the view while no request is under way *)
LEMMA JobStaysIdle ==
    ASSUME job = Idle, job' = job
    PROVE  JobInv'
  BY RespondsPreserves

LEMMA NextPreserves == IInv /\ [Next]_vars => IInv'
<1>. SUFFICES ASSUME IInv, [Next]_vars PROVE IInv'
  OBVIOUS
<1>1. ASSUME NEW p \in Syncs, NEW f \in Fetches, StartSync(p, f)
      PROVE  IInv'
  BY <1>1, FetchPreserves, SyncsPreserve DEF StartSync, IInv
<1>2. ASSUME NEW p \in Syncs, SyncStep(p), UNCHANGED releaseVars
      PROVE  IInv'
  BY <1>2, SyncStepPreserves, SyncsPreserve DEF releaseVars, IInv
<1>3. ASSUME UNCHANGED demoVars, JobInv', view' # NoView => ViewInv(view)'
      PROVE  IInv'
  BY <1>3, DemoStays DEF IInv
<1>4. ASSUME NEW plan \in Planned, CreatePreview(plan) \/ Refine(plan)
      PROVE  IInv'
  <2>1. plan \in Plan /\ view' = view /\ UNCHANGED demoVars
    BY <1>4, ViewReleaseAssumption DEF CreatePreview, Refine
  <2>2. JobInv'
    BY <1>4, <2>1, ReadStarts DEF CreatePreview, Refine
  <2>. QED
    BY <1>3, <2>1, <2>2 DEF IInv
<1>5. CASE ReadSource
  BY <1>3, <1>5, ReadSourcePreserves DEF ReadSource, IInv
<1>6. ASSUME NEW rows, NEW origin, Save(rows, origin)
      PROVE  IInv'
  BY <1>3, <1>6, SavePreserves, SaveEndsJob
<1>7. CASE Submit
  BY <1>3, <1>7, SubmitPreserves, JobStaysIdle DEF Submit
<1>8. CASE Approve
  BY <1>3, <1>8, ApprovePreserves, JobStaysIdle DEF Approve
<1>9. CASE Reject
  BY <1>3, <1>9, RejectPreserves, JobStaysIdle DEF Reject
<1>10. CASE ApproveAlternative
  BY <1>3, <1>10, ApproveAlternativePreserves DEF ApproveAlternative, IInv
<1>11. CASE Abort
  BY <1>3, <1>11, RespondsPreserves DEF Abort, IInv
<1>12. CASE DownloadStored
  BY <1>3, <1>12, JobStaysIdle DEF DownloadStored, IInv
<1>13. CASE DownloadStart
  BY <1>3, <1>13, ReadStarts DEF DownloadStart, IInv
<1>14. CASE DownloadPublic
  BY <1>3, <1>14, RespondsPreserves DEF DownloadPublic, IInv
<1>15. CASE TTLEnds
  BY <1>3, <1>15, TTLEndsPreserves DEF TTLEnds
<1>16. CASE UNCHANGED vars
  BY <1>16, DemoStays, SyncsPreserve DEF vars, demoVars, IInv
<1>. QED
  BY <1>1, <1>2, <1>4, <1>5, <1>6, <1>7, <1>8, <1>9, <1>10, <1>11, <1>12, <1>13, <1>14, <1>15,
     <1>16 DEF Next

LEMMA SpecInv == Spec => []IInv
  BY InitEstablishes, NextPreserves, PTL DEF Spec

-----------------------------------------------------------------------------
(* Overlapping or dying syncs leave each source with the records of one    *)
(* fetch, the one its snapshot row describes.                              *)
THEOREM SnapshotsStayWhole == Spec => []SnapshotsAreWhole
<1>1. IInv => SnapshotsAreWhole
  BY DEF IInv, DemoInv
<1>. QED
  BY <1>1, SpecInv, PTL

(* However syncs come between the reads, the public rows of a view are of  *)
(* one whole snapshot of each source, none under minimum_group_size.       *)
THEOREM RowsComeFromWholeSnapshots == Spec => []RowsAreOfWholeSnapshots
<1>1. IInv => RowsAreOfWholeSnapshots
  BY DEF IInv, ViewInv, Whole, RowsAreOfWholeSnapshots
<1>. QED
  BY <1>1, SpecInv, PTL

(* A view is approved only as its evidence says, within the policy.        *)
THEOREM ApprovalsAreCertified == Spec => []ApprovedIsCertified
<1>1. IInv => ApprovedIsCertified
  <2>. SUFFICES ASSUME IInv, view # NoView, ViewInv(view)
                PROVE  ApprovedIsCertified
    BY DEF IInv, ApprovedIsCertified
  <2>. QED
    BY DEF ViewInv, Certified, ApprovedIsCertified
<1>. QED
  BY <1>1, SpecInv, PTL
-----------------------------------------------------------------------------
(***************************************************************************)
(* Sums.  SumFunctionOnSet folds over a set by a function on its subsets   *)
(* that is defined in terms of itself: that there is such a function, and  *)
(* that its values are numbers, are inductions on the size of the subsets, *)
(* done on sets of naturals.                                               *)
(***************************************************************************)

(* Every nonempty set of naturals has a least element. *)
LEMMA Least ==
    ASSUME NEW T \in SUBSET Nat, T # {}
    PROVE  \E x \in T : \A y \in T : x <= y
<1>. DEFINE Below == {ss \in Nat \X Nat : ss[1] < ss[2]}
<1>1. IsWellFoundedOn(Below, Nat)
  BY NatLessThanWellFounded, Zenon DEF OpToRel
<1>2. \A x, y \in Nat : <<x, y>> \notin Below => y <= x
  OBVIOUS
<1>. HIDE DEF Below
<1>3. \E x \in T : \A y \in T : <<y, x>> \notin Below
  BY <1>1, WFMin
<1>. QED
  BY <1>2, <1>3

LEMMA CountingUp ==
    ASSUME NEW T \in SUBSET Nat, 0 \in T, \A n \in T : n + 1 \in T
    PROVE  T = Nat
<1>. SUFFICES ASSUME Nat \ T # {} PROVE FALSE
  OBVIOUS
<1>1. PICK x \in Nat \ T : \A y \in Nat \ T : x <= y
  <2>1. Nat \ T \in SUBSET Nat
    OBVIOUS
  <2>. QED
    BY <2>1, Least
<1>2. x # 0 /\ x - 1 \in Nat /\ ~ (x <= x - 1) /\ (x - 1) + 1 = x
  BY <1>1
<1>3. x - 1 \in T
  BY <1>1, <1>2
<1>. QED
  BY <1>1, <1>2, <1>3

(* the sum over a set takes one element after the other *)
Pick(s) == CHOOSE x \in s : TRUE
Sums(fun, g, S) ==
    g = [s \in SUBSET S |-> IF s = {} THEN 0 ELSE fun[Pick(s)] + g[s \ {Pick(s)}]]

LEMMA SumUnfolds ==
    ASSUME NEW fun, NEW S
    PROVE  SumFunctionOnSet(fun, S) = (CHOOSE g : Sums(fun, g, S))[S]
  BY DEF SumFunctionOnSet, FoldFunctionOnSet, MapThenFoldSet, Sums, Pick

LEMMA PickedElement ==
    ASSUME NEW S, IsFiniteSet(S), NEW s \in SUBSET S, s # {}
    PROVE  /\ Pick(s) \in s
           /\ s \ {Pick(s)} \in SUBSET S
           /\ Cardinality(s) \in Nat
           /\ Cardinality(s \ {Pick(s)}) = Cardinality(s) - 1
           /\ Cardinality(s \ {Pick(s)}) \in Nat
<1>1. Pick(s) \in s
  BY DEF Pick
<1>2. IsFiniteSet(s)
  BY FS_Subset
<1>3. Cardinality(s \ {Pick(s)}) = Cardinality(s) - 1
  BY <1>1, <1>2, FS_RemoveElement
<1>4. s \ {Pick(s)} \in SUBSET S /\ IsFiniteSet(s \ {Pick(s)})
  BY <1>2, FS_RemoveElement
<1>. QED
  BY <1>1, <1>2, <1>3, <1>4, FS_CardinalityType

LEMMA SumsExist ==
    ASSUME NEW S, IsFiniteSet(S), NEW fun, \A x \in S : fun[x] \in Nat
    PROVE  \E g : Sums(fun, g, S)
<1>. DEFINE Small(n) == {s \in SUBSET S : Cardinality(s) <= n}
            Fits(g, n) == /\ g \in [Small(n) -> Nat]
                          /\ \A s \in Small(n) :
                                 g[s] = IF s = {} THEN 0 ELSE fun[Pick(s)] + g[s \ {Pick(s)}]
            T == {n \in Nat : \E g : Fits(g, n)}
<1>1. 0 \in T
  <2>1. \A s \in Small(0) : s = {}
    <3>. SUFFICES ASSUME NEW s \in SUBSET S, Cardinality(s) <= 0 PROVE s = {}
      OBVIOUS
    <3>. QED
      BY FS_Subset, FS_CardinalityType, FS_EmptySet
  <2>2. Fits([s \in Small(0) |-> 0], 0)
    BY <2>1
  <2>. QED
    BY <2>2
<1>2. ASSUME NEW n \in T PROVE n + 1 \in T
  <2>1. n \in Nat
    OBVIOUS
  <2>2. PICK g : Fits(g, n)
    OBVIOUS
  <2>. DEFINE h == [s \in Small(n + 1) |->
                        IF s = {} THEN 0 ELSE fun[Pick(s)] + g[s \ {Pick(s)}]]
  <2>3. ASSUME NEW s \in Small(n + 1), s # {}
        PROVE  /\ s \ {Pick(s)} \in Small(n)
               /\ s \ {Pick(s)} \in Small(n + 1)
               /\ g[s \ {Pick(s)}] \in Nat
               /\ fun[Pick(s)] \in Nat
    <3>1. s \in SUBSET S /\ Cardinality(s) <= n + 1
      OBVIOUS
    <3>2. s \ {Pick(s)} \in SUBSET S /\ Cardinality(s \ {Pick(s)}) <= n
          /\ Cardinality(s \ {Pick(s)}) <= n + 1
      <4>. HIDE DEF Small, Fits, T
      <4>. QED
        BY <2>1, <2>3, <3>1, PickedElement
    <3>3. Pick(s) \in S
      BY <2>3, <3>1, PickedElement
    <3>. QED
      BY <2>2, <3>2, <3>3
  <2>4. ASSUME NEW s \in Small(n) PROVE s \in Small(n + 1) /\ h[s] = g[s]
    <3>1. s \in SUBSET S /\ Cardinality(s) \in Nat /\ Cardinality(s) <= n
      BY FS_Subset, FS_CardinalityType
    <3>2. s \in Small(n + 1)
      BY <2>1, <3>1
    <3>. QED
      BY <2>2, <3>2
  <2>5. h \in [Small(n + 1) -> Nat]
    <3>1. ASSUME NEW s \in Small(n + 1)
          PROVE  (IF s = {} THEN 0 ELSE fun[Pick(s)] + g[s \ {Pick(s)}]) \in Nat
      <4>1. CASE s = {}
        BY <4>1
      <4>2. CASE s # {}
        <5>1. g[s \ {Pick(s)}] \in Nat /\ fun[Pick(s)] \in Nat
          BY <2>3, <4>2
        <5>. QED
          BY <4>2, <5>1
      <4>. QED
        BY <4>1, <4>2
    <3>. HIDE DEF Small, Fits
    <3>. QED
      BY <3>1
  <2>6. ASSUME NEW s \in Small(n + 1)
        PROVE  h[s] = IF s = {} THEN 0 ELSE fun[Pick(s)] + h[s \ {Pick(s)}]
    <3>. HIDE DEF Small, Fits
    <3>. QED
      BY <2>3, <2>4
  <2>7. Fits(h, n + 1)
    BY <2>5, <2>6
  <2>8. n + 1 \in Nat
    BY <2>1
  <2>. HIDE DEF h, Fits
  <2>. QED
    BY <2>7, <2>8
<1>3. T = Nat
  <2>. HIDE DEF T
  <2>1. T \in SUBSET Nat
    BY DEF T
  <2>. QED
    BY <1>1, <1>2, <2>1, CountingUp
<1>4. Cardinality(S) \in T
  BY <1>3, FS_CardinalityType
<1>5. PICK g : Fits(g, Cardinality(S))
  BY <1>4
<1>6. Small(Cardinality(S)) = SUBSET S
  BY FS_Subset
<1>7. Sums(fun, g, S)
  <2>. HIDE DEF Small
  <2>. QED
    BY <1>5, <1>6 DEF Sums
<1>. QED
  BY <1>7

(* Sums of naturals are naturals. *)
LEMMA SumsAreNat ==
    ASSUME NEW S, IsFiniteSet(S), NEW fun, \A x \in S : fun[x] \in Nat,
           NEW g, Sums(fun, g, S), NEW t \in SUBSET S
    PROVE  g[t] \in Nat
<1>. DEFINE Small(n) == {s \in SUBSET S : Cardinality(s) <= n}
            T == {n \in Nat : \A s \in Small(n) : g[s] \in Nat}
<1>1. g[{}] = 0
  BY DEF Sums
<1>2. \A s \in SUBSET S : s # {} => g[s] = fun[Pick(s)] + g[s \ {Pick(s)}]
  BY DEF Sums
<1>3. 0 \in T
  <2>1. \A s \in Small(0) : s = {}
    <3>. SUFFICES ASSUME NEW s \in SUBSET S, Cardinality(s) <= 0 PROVE s = {}
      OBVIOUS
    <3>. QED
      BY FS_Subset, FS_CardinalityType, FS_EmptySet
  <2>2. \A s \in Small(0) : g[s] \in Nat
    BY <1>1, <2>1
  <2>. HIDE DEF Small
  <2>. QED
    BY <2>2
<1>4. ASSUME NEW n \in T PROVE n + 1 \in T
  <2>1. ASSUME NEW s \in SUBSET S, Cardinality(s) <= n + 1, s # {}
        PROVE  g[s] \in Nat
    <3>1. s \ {Pick(s)} \in Small(n) /\ Pick(s) \in S
      BY <2>1, PickedElement
    <3>2. g[s \ {Pick(s)}] \in Nat /\ fun[Pick(s)] \in Nat
      BY <3>1
    <3>. HIDE DEF Small, T
    <3>3. g[s] = fun[Pick(s)] + g[s \ {Pick(s)}]
      BY <1>2, <2>1
    <3>. QED
      BY <3>2, <3>3
  <2>3. ASSUME NEW s \in Small(n + 1) PROVE g[s] \in Nat
    <3>1. CASE s = {}
      BY <1>1, <3>1
    <3>2. CASE s # {}
      BY <2>1, <3>2
    <3>. QED
      BY <3>1, <3>2
  <2>4. n + 1 \in Nat
    OBVIOUS
  <2>. HIDE DEF Small
  <2>. QED
    BY <2>3, <2>4
<1>5. T = Nat
  <2>. HIDE DEF T
  <2>1. T \in SUBSET Nat
    BY DEF T
  <2>. QED
    BY <1>3, <1>4, <2>1, CountingUp
<1>6. Cardinality(t) \in T /\ t \in Small(Cardinality(t))
  BY <1>5, FS_Subset, FS_CardinalityType
<1>. QED
  BY <1>6

LEMMA SumIsNat ==
    ASSUME NEW S, IsFiniteSet(S), NEW fun, \A x \in S : fun[x] \in Nat
    PROVE  SumFunctionOnSet(fun, S) \in Nat
<1>. DEFINE g == CHOOSE g : Sums(fun, g, S)
<1>1. Sums(fun, g, S)
  BY SumsExist
<1>. HIDE DEF g
<1>2. g[S] \in Nat
  BY <1>1, SumsAreNat
<1>. QED
  BY <1>2, SumUnfolds DEF g

-----------------------------------------------------------------------------
(* Types *)

(* what was read of each source can be counted *)
Countable(read) ==
    \A s \in Sources : read[s] \in SUBSET Fetches /\ IsFiniteSet(read[s])

LEMMA CountIsNat ==
    ASSUME NEW read, Countable(read), NEW s \in Sources, NEW kinds \in SUBSET Kinds
    PROVE  CountIn(read, s, kinds) \in Nat
<1>1. IsFiniteSet(kinds)
  BY FS_Subset, PublicDemoAssumption
<1>2. ASSUME NEW f \in Fetches PROVE SumFunction([k \in kinds |-> Volume[f][s][k]]) \in Nat
  <2>. DEFINE volumes == [k \in kinds |-> Volume[f][s][k]]
  <2>1. DOMAIN volumes = kinds /\ \A k \in kinds : volumes[k] \in Nat
    BY PublicDemoAssumption
  <2>. HIDE DEF volumes
  <2>2. SumFunctionOnSet(volumes, kinds) \in Nat
    BY <1>1, <2>1, SumIsNat
  <2>. QED
    BY <2>1, <2>2 DEF SumFunction, volumes
<1>. DEFINE counts == [f \in read[s] |-> SumFunction([k \in kinds |-> Volume[f][s][k]])]
<1>3. DOMAIN counts = read[s] /\ \A f \in read[s] : counts[f] \in Nat
  BY <1>2 DEF Countable
<1>4. CountIn(read, s, kinds) = SumFunctionOnSet(counts, DOMAIN counts)
  BY DEF CountIn, SumFunction
<1>. HIDE DEF counts
<1>. QED
  BY <1>3, <1>4, SumIsNat DEF Countable

(* A group's count is a number. *)
LEMMA CaseCountIsNat ==
    ASSUME NEW columns, NEW sources \in Seq(Sources), NEW read, Countable(read), NEW group
    PROVE  CaseCount(columns, sources, read, group) \in Nat
<1>. DEFINE kinds == {k \in Kinds : GroupOf(k, columns) = group}
            selected == {i \in DOMAIN sources : Readable(columns, sources[i])}
            counts == [i \in selected |-> CountIn(read, sources[i], kinds)]
<1>1. IsFiniteSet(selected)
  <2>1. IsFiniteSet(1 .. Len(sources)) /\ selected \in SUBSET (1 .. Len(sources))
    BY FS_Interval
  <2>. HIDE DEF selected
  <2>. QED
    BY <2>1, FS_Subset
<1>2. ASSUME NEW i \in selected PROVE counts[i] \in Nat
  <2>1. sources[i] \in Sources /\ kinds \in SUBSET Kinds
    OBVIOUS
  <2>2. CountIn(read, sources[i], kinds) \in Nat
    <3>. HIDE DEF kinds, selected
    <3>. QED
      BY <2>1, CountIsNat
  <2>. QED
    BY <2>2
<1>3. CaseCount(columns, sources, read, group) = SumFunctionOnSet(counts, DOMAIN counts)
  BY DEF CaseCount, SumFunction
<1>4. DOMAIN counts = selected
  OBVIOUS
<1>. HIDE DEF counts, selected
<1>. QED
  BY <1>1, <1>2, <1>3, <1>4, SumIsNat

LEMMA ShownRows ==
    ASSUME NEW plan, plan.sources \in Seq(Sources), NEW read, Countable(read),
           NEW rows \in Shown(Aggregate(plan.columns, plan.sources, read)), NEW row \in rows
    PROVE  IsRowOf(row, plan)
<1>1. PICK k \in Kinds :
          row = GroupRow(plan.columns, plan.sources, read, GroupOf(k, plan.columns))
  BY DEF Shown, Aggregate
<1>2. row.group = GroupOf(k, plan.columns)
      /\ row.case_count = CaseCount(plan.columns, plan.sources, read, GroupOf(k, plan.columns))
  BY <1>1 DEF GroupRow
<1>3. row.case_count \in Nat
  BY <1>2, CaseCountIsNat
<1>. QED
  BY <1>2, <1>3 DEF GroupOf, IsRowOf

LEMMA SampleRowsFit ==
    ASSUME NEW plan, NEW row \in SampleRows(plan)
    PROVE  IsRowOf(row, plan)
  BY DEF SampleRows, IsRowOf

(* what TypeOK says of a view, and that its plan names sources *)
ViewTyped(v) ==
    /\ v.status \in {"proposed", "blocked", "approved", "rejected"}
    /\ v.origin \in {"public_live", "synthetic_demo"}
    /\ v.submitted \in BOOLEAN /\ v.expired \in BOOLEAN
    /\ v.plan.sources \in Seq(Sources)
    /\ \A row \in v.rows : IsRowOf(row, v.plan)

JobTyped ==
    /\ job.op \in {"idle", "preview", "refine", "alternative", "conflict", "download"}
    /\ job.todo \in Seq(Sources)
    /\ job.op \in {"preview", "refine", "alternative", "download"} =>
           job.plan.sources \in Seq(Sources)

TInv == /\ view # NoView => ViewTyped(view)
        /\ JobTyped
        /\ syncsLeft \in 0 .. MaxSyncs

LEMMA CatalogSources == DOMAIN Catalog = Sources
  BY DEF Catalog, Sources

LEMMA PlannedSources ==
    ASSUME NEW plan \in Plan
    PROVE  plan.sources \in Seq(Sources) /\ Repaired(plan).sources = plan.sources
  BY CatalogSources DEF Plan, Repaired

LEMMA ReadIsCountable ==
    ASSUME IInv
    PROVE  Countable(job.read)
<1>1. ASSUME NEW s \in Sources PROVE job.read[s] \in SUBSET Fetches /\ IsFiniteSet(job.read[s])
  <2>1. job.read[s] \in SUBSET Fetches
    BY DEF IInv, JobInv
  <2>2. job.read[s] = {} \/ \E f \in Fetches : job.read[s] = {f}
    BY DEF IInv, JobInv
  <2>. QED
    BY <2>1, <2>2, FS_EmptySet, FS_Singleton
<1>. QED
  BY <1>1 DEF Countable

LEMMA ReadTyped ==
    ASSUME NEW op \in {"preview", "refine", "alternative", "download"}, NEW plan, Read(op, plan),
           plan.sources \in Seq(Sources)
    PROVE  JobTyped'
<1>1. job'.op = op /\ job'.plan = plan /\ job'.todo = plan.sources
  BY DEF Read, Idle
<1>. QED
  BY <1>1 DEF JobTyped

LEMMA IdleTyped ==
    ASSUME job' = [Idle EXCEPT !.op = "conflict"] \/ job' = Idle
    PROVE  JobTyped'
<1>1. job'.op \in {"idle", "conflict"} /\ job'.todo = << >>
  BY DEF Idle
<1>. QED
  BY <1>1 DEF JobTyped

(* Save stores rows of the plan's columns. *)
LEMMA SavedTyped ==
    ASSUME IInv, TInv, NEW rows, NEW origin \in {"public_live", "synthetic_demo"},
           Save(rows, origin)
    PROVE  ViewTyped(view)'
<1>1. \A row \in rows : IsRowOf(row, job.plan)
  <2>1. job.plan.sources \in Seq(Sources)
    BY DEF TInv, JobTyped, Save
  <2>. QED
    BY <2>1, ShownRows, SampleRowsFit, ReadIsCountable DEF Save, Materialized
<1>2. CASE job.op = "alternative"
  <2>1. view # NoView /\ ViewInv(view) /\ ViewTyped(view)
        /\ view' = Approved(job.plan, rows, origin)
    BY <1>2 DEF IInv, TInv, JobInv, Open, Save
  <2>2. view' = [plan |-> job.plan, rows |-> rows, origin |-> origin,
                 evidence |-> EvidenceOf(job.plan, rows),
                 expired |-> view.expired, submitted |-> view.submitted, status |-> "approved"]
    BY <2>1 DEF ViewInv, IsView, Approved
  <2>. QED
    BY <1>1, <1>2, <2>1, <2>2 DEF ViewTyped, TInv, JobTyped
<1>3. CASE job.op # "alternative"
  BY <1>1, <1>3 DEF Save, NewView, ViewTyped, TInv, JobTyped
<1>. QED
  BY <1>2, <1>3

LEMMA InitTyped == Init => TInv
<1>. SUFFICES ASSUME Init PROVE TInv
  OBVIOUS
<1>1. JobTyped
  BY DEF Init, Idle, JobTyped
<1>2. syncsLeft \in 0 .. MaxSyncs
  BY ViewReleaseAssumption DEF Init
<1>3. ASSUME view # NoView PROVE ViewTyped(view)
  <2>1. PICK plan \in Stored : view = NewView(plan, SampleRows(plan), "synthetic_demo")
    BY <1>3 DEF Init
  <2>2. plan.sources \in Seq(Sources)
    BY ViewReleaseAssumption, PlannedSources
  <2>. QED
    BY <2>1, <2>2, SampleRowsFit DEF NewView, ViewTyped
<1>. QED
  BY <1>1, <1>2, <1>3 DEF TInv

LEMMA NextTyped == TInv /\ IInv /\ [Next]_vars => TInv'
<1>. SUFFICES ASSUME TInv, IInv, [Next]_vars PROVE TInv'
  OBVIOUS
<1>1. ASSUME NEW p \in Syncs, NEW f \in Fetches, StartSync(p, f)
      PROVE  TInv'
  BY <1>1, ViewReleaseAssumption DEF StartSync, TInv, JobTyped
<1>2. ASSUME UNCHANGED releaseVars
      PROVE  TInv'
  BY <1>2 DEF releaseVars, TInv, JobTyped
<1>3. ASSUME JobTyped', view' = view, syncsLeft' = syncsLeft
      PROVE  TInv'
  BY <1>3 DEF TInv
<1>4. ASSUME NEW plan \in Planned, CreatePreview(plan) \/ Refine(plan)
      PROVE  TInv'
  <2>1. plan.sources \in Seq(Sources)
    BY ViewReleaseAssumption, PlannedSources
  <2>2. JobTyped'
    BY <1>4, <2>1, ReadTyped DEF CreatePreview, Refine
  <2>. QED
    BY <1>3, <1>4, <2>2 DEF CreatePreview, Refine
<1>5. CASE ReadSource
  <2>1. job'.op = job.op /\ job'.plan = job.plan /\ job'.todo = Tail(job.todo)
    BY <1>5 DEF ReadSource, IInv, JobInv
  <2>2. JobTyped'
    BY <1>5, <2>1 DEF ReadSource, TInv, JobTyped
  <2>. QED
    BY <1>3, <1>5, <2>2 DEF ReadSource
<1>6. ASSUME NEW rows, NEW origin \in {"public_live", "synthetic_demo"}, Save(rows, origin)
      PROVE  TInv'
  BY <1>6, SavedTyped, IdleTyped DEF Save, TInv
<1>7. ASSUME ViewInv(view), ViewTyped(view), JobTyped, UNCHANGED <<job, syncsLeft>>,
             \/ view' = [view EXCEPT !.submitted = TRUE]
             \/ view' = Approved(view.plan, view.rows, view.origin)
             \/ view' = [view EXCEPT !.status = "rejected"]
             \/ view' = [view EXCEPT !.expired = TRUE]
      PROVE  TInv'
  <2>1. ViewTyped(view)'
    BY <1>7 DEF ViewInv, IsView, Approved, ViewTyped
  <2>. QED
    BY <1>7, <2>1 DEF TInv, JobTyped
<1>8. CASE Submit \/ Approve \/ Reject \/ TTLEnds
  BY <1>7, <1>8 DEF Submit, Approve, Reject, TTLEnds, Open, Available, IInv, TInv
<1>9. CASE ApproveAlternative
  <2>1. view.plan \in Plan
    BY <1>9 DEF ApproveAlternative, Open, IInv, ViewInv
  <2>2. JobTyped'
    BY <1>9, <2>1, PlannedSources, ReadTyped, IdleTyped DEF ApproveAlternative
  <2>. QED
    BY <1>3, <1>9, <2>2 DEF ApproveAlternative
<1>10. CASE Abort \/ DownloadPublic
  BY <1>3, <1>10, IdleTyped DEF Abort, DownloadPublic
<1>11. CASE DownloadStored
  BY <1>11 DEF DownloadStored, TInv, JobTyped
<1>12. CASE DownloadStart
  <2>1. JobTyped'
    BY <1>12, ReadTyped DEF DownloadStart, Available, TInv, ViewTyped
  <2>. QED
    BY <1>3, <1>12, <2>1 DEF DownloadStart
<1>13. CASE UNCHANGED vars
  BY <1>2, <1>13 DEF vars, releaseVars
<1>. QED
  BY <1>1, <1>2, <1>4, <1>5, <1>6, <1>8, <1>9, <1>10, <1>11, <1>12, <1>13 DEF Next

\* Type correctness: the tables, the view with its rows, counts of its plan's groups, and the
\* request with what it has still to read keep their types.
THEOREM ReleaseTypeCorrect == Spec => []TypeOK
<1>1. TInv /\ IInv => TypeOK
  BY DEF TInv, ViewTyped, JobTyped, IInv, DemoInv, JobInv, TypeOK
<1>. QED
  BY <1>1, InitTyped, NextTyped, SpecInv, PTL DEF Spec

-----------------------------------------------------------------------------
(***************************************************************************)
(* What a group counts.  ReleasedGroupsAreLarge fails because a source that *)
(* a plan names twice is counted twice; for any other plan a row counts    *)
(* what the sources, taken once, have.                                     *)
(***************************************************************************)

(* any element may be taken first *)
LEMMA SumTakes ==
    ASSUME NEW S, IsFiniteSet(S), NEW fun, \A x \in S : fun[x] \in Nat,
           NEW g, Sums(fun, g, S), NEW t \in SUBSET S, NEW x \in t
    PROVE  g[t] = fun[x] + g[t \ {x}]
<1>. DEFINE Small(n) == {s \in SUBSET S : Cardinality(s) <= n}
            T == {n \in Nat : \A s \in Small(n) : \A y \in s : g[s] = fun[y] + g[s \ {y}]}
<1>1. \A s \in SUBSET S : s # {} => g[s] = fun[Pick(s)] + g[s \ {Pick(s)}]
  BY DEF Sums
<1>2. 0 \in T
  <2>1. \A s \in Small(0) : s = {}
    <3>. SUFFICES ASSUME NEW s \in SUBSET S, Cardinality(s) <= 0 PROVE s = {}
      OBVIOUS
    <3>. QED
      BY FS_Subset, FS_CardinalityType, FS_EmptySet
  <2>. HIDE DEF Small
  <2>. QED
    BY <2>1
<1>3. ASSUME NEW n \in T PROVE n + 1 \in T
  <2>1. n \in Nat /\ \A s \in Small(n) : \A y \in s : g[s] = fun[y] + g[s \ {y}]
    OBVIOUS
  <2>2. ASSUME NEW s \in SUBSET S, Cardinality(s) <= n + 1, NEW y \in s
        PROVE  g[s] = fun[y] + g[s \ {y}]
    <3>. DEFINE p == Pick(s)
    <3>1. p \in s /\ g[s] = fun[p] + g[s \ {p}]
      BY <1>1, <2>2, PickedElement
    <3>2. IsFiniteSet(s)
      BY FS_Subset
    <3>3. \A z \in s : s \ {z} \in Small(n)
      <4>. SUFFICES ASSUME NEW z \in s PROVE s \ {z} \in Small(n)
        OBVIOUS
      <4>1. Cardinality(s \ {z}) = Cardinality(s) - 1 /\ Cardinality(s) \in Nat
        BY <3>2, FS_RemoveElement, FS_CardinalityType
      <4>. QED
        BY <2>1, <2>2, <4>1
    <3>. HIDE DEF p, Small, T
    <3>4. CASE y = p
      BY <3>1, <3>4
    <3>5. CASE y # p
      <4>1. g[s \ {p}] = fun[y] + g[(s \ {p}) \ {y}]
        <5>1. s \ {p} \in Small(n) /\ y \in s \ {p}
          BY <2>2, <3>1, <3>3, <3>5
        <5>. QED
          BY <2>1, <5>1
      <4>2. g[s \ {y}] = fun[p] + g[(s \ {y}) \ {p}]
        <5>1. s \ {y} \in Small(n) /\ p \in s \ {y}
          BY <2>2, <3>1, <3>3, <3>5
        <5>. QED
          BY <2>1, <5>1
      <4>3. (s \ {p}) \ {y} = (s \ {y}) \ {p} /\ (s \ {p}) \ {y} \in SUBSET S
        OBVIOUS
      <4>4. g[(s \ {p}) \ {y}] \in Nat
        BY <4>3, SumsAreNat
      <4>5. fun[p] \in Nat /\ fun[y] \in Nat
        BY <2>2, <3>1
      <4>6. QED
        <5>1. \A k, l, m \in Nat : k + (l + m) = l + (k + m)
          OBVIOUS
        <5>2. g[s] = fun[p] + (fun[y] + g[(s \ {p}) \ {y}])
          BY <3>1, <4>1
        <5>3. g[s \ {y}] = fun[p] + g[(s \ {p}) \ {y}]
          BY <4>2, <4>3
        <5>. QED
          BY <4>4, <4>5, <5>1, <5>2, <5>3
    <3>. QED
      BY <3>4, <3>5
  <2>3. n + 1 \in Nat
    BY <2>1
  <2>. QED
    BY <2>2, <2>3
<1>4. T = Nat
  <2>. HIDE DEF T
  <2>1. T \in SUBSET Nat
    BY DEF T
  <2>. QED
    BY <1>2, <1>3, <2>1, CountingUp
<1>5. Cardinality(t) \in T /\ t \in Small(Cardinality(t))
  BY <1>4, FS_Subset, FS_CardinalityType
<1>. QED
  BY <1>5

(* Sums over sets that correspond one to one are the same. *)
LEMMA SumReindexed ==
    ASSUME NEW S, NEW T, IsFiniteSet(S), NEW b \in [S -> T],
           \A x, y \in S : b[x] = b[y] => x = y,
           \A z \in T : \E x \in S : b[x] = z,
           NEW fun, NEW gun, \A x \in S : fun[x] \in Nat /\ fun[x] = gun[b[x]]
    PROVE  SumFunctionOnSet(fun, S) = SumFunctionOnSet(gun, T)
<1>. DEFINE g == CHOOSE g : Sums(fun, g, S)
            h == CHOOSE h : Sums(gun, h, T)
            Small(n) == {s \in SUBSET S : Cardinality(s) <= n}
            Image(s) == {b[x] : x \in s}
            N == {n \in Nat : \A s \in Small(n) : g[s] = h[Image(s)]}
<1>1. IsFiniteSet(T) /\ \A z \in T : gun[z] \in Nat
  BY ImageIsFinite
<1>2. Sums(fun, g, S) /\ Sums(gun, h, T)
  BY <1>1, SumsExist
<1>. HIDE DEF g, h
<1>3. g[{}] = 0 /\ h[{}] = 0
  BY <1>2 DEF Sums
<1>4. 0 \in N
  <2>1. ASSUME NEW s \in Small(0) PROVE g[s] = h[Image(s)]
    <3>1. s = {}
      BY FS_Subset, FS_CardinalityType, FS_EmptySet
    <3>2. Image(s) = {}
      BY <3>1
    <3>. HIDE DEF Image, Small
    <3>. QED
      BY <1>3, <3>1, <3>2
  <2>. HIDE DEF Small, Image
  <2>. QED
    BY <2>1
<1>5. ASSUME NEW n \in N PROVE n + 1 \in N
  <2>1. n \in Nat /\ \A s \in Small(n) : g[s] = h[Image(s)]
    OBVIOUS
  <2>2. ASSUME NEW s \in SUBSET S, Cardinality(s) <= n + 1 PROVE g[s] = h[Image(s)]
    <3>1. CASE s = {}
      <4>1. Image(s) = {}
        BY <3>1
      <4>. HIDE DEF Image
      <4>. QED
        BY <1>3, <3>1, <4>1
    <3>2. ASSUME NEW x \in s PROVE g[s] = h[Image(s)]
      <4>1. s \ {x} \in Small(n)
        <5>1. IsFiniteSet(s)
          BY FS_Subset
        <5>2. Cardinality(s \ {x}) = Cardinality(s) - 1 /\ Cardinality(s) \in Nat
          BY <5>1, FS_RemoveElement, FS_CardinalityType
        <5>. QED
          BY <2>1, <2>2, <5>2
      <4>2. Image(s) \in SUBSET T /\ b[x] \in Image(s) /\ Image(s) \ {b[x]} = Image(s \ {x})
        OBVIOUS
      <4>3. g[s \ {x}] = h[Image(s \ {x})]
        BY <2>1, <4>1
      <4>. HIDE DEF Image, Small, N
      <4>4. g[s] = fun[x] + g[s \ {x}]
        BY <1>2, SumTakes
      <4>5. h[Image(s)] = gun[b[x]] + h[Image(s) \ {b[x]}]
        BY <1>1, <1>2, <4>2, SumTakes
      <4>. QED
        BY <4>2, <4>3, <4>4, <4>5
    <3>. HIDE DEF Image
    <3>. QED
      BY <3>1, <3>2
  <2>3. n + 1 \in Nat
    BY <2>1
  <2>. HIDE DEF Image
  <2>. QED
    BY <2>2, <2>3
<1>6. N = Nat
  <2>. HIDE DEF N
  <2>1. N \in SUBSET Nat
    BY DEF N
  <2>. QED
    BY <1>4, <1>5, <2>1, CountingUp
<1>7. Cardinality(S) \in N /\ S \in Small(Cardinality(S))
  BY <1>6, FS_CardinalityType
<1>8. Image(S) = T
  OBVIOUS
<1>9. g[S] = h[Image(S)]
  <2>. HIDE DEF Image, Small
  <2>. QED
    BY <1>7
<1>. QED
  BY <1>8, <1>9, SumUnfolds DEF g, h

(* what the sources of a set have of a group, each once *)
SourcesCount(columns, named, read, group) ==
    LET readable == {s \in named : Readable(columns, s)}
    IN SumFunction([s \in readable |->
                       CountIn(read, s, {k \in Kinds : GroupOf(k, columns) = group})])

(* q goes through the sources of a set, each once *)
Enumerates(q, named) ==
    \E n \in Nat :
        /\ q \in [1 .. n -> named]
        /\ \A i, j \in 1 .. n : q[i] = q[j] => i = j
        /\ \A s \in named : \E i \in 1 .. n : q[i] = s

LEMMA CountsOnce ==
    ASSUME NEW columns, NEW named \in SUBSET Sources, NEW q, Enumerates(q, named),
           NEW read, Countable(read), NEW group
    PROVE  CaseCount(columns, q, read, group) = SourcesCount(columns, named, read, group)
<1>. DEFINE kinds == {k \in Kinds : GroupOf(k, columns) = group}
            selected == {i \in DOMAIN q : Readable(columns, q[i])}
            readable == {s \in named : Readable(columns, s)}
            counts == [i \in selected |-> CountIn(read, q[i], kinds)]
            sums == [s \in readable |-> CountIn(read, s, kinds)]
            b == [i \in selected |-> q[i]]
<1>. PICK n \in Nat : /\ q \in [1 .. n -> named]
                      /\ \A i, j \in 1 .. n : q[i] = q[j] => i = j
                      /\ \A s \in named : \E i \in 1 .. n : q[i] = s
  BY DEF Enumerates
<1>1. IsFiniteSet(selected)
  <2>1. IsFiniteSet(1 .. n) /\ selected \in SUBSET (1 .. n)
    BY FS_Interval
  <2>. HIDE DEF selected
  <2>. QED
    BY <2>1, FS_Subset
<1>2. /\ b \in [selected -> readable]
      /\ \A i, j \in selected : b[i] = b[j] => i = j
      /\ \A s \in readable : \E i \in selected : b[i] = s
  OBVIOUS
<1>3. ASSUME NEW i \in selected PROVE counts[i] \in Nat /\ counts[i] = sums[b[i]]
  <2>1. q[i] \in Sources /\ kinds \in SUBSET Kinds /\ q[i] \in readable /\ b[i] = q[i]
    OBVIOUS
  <2>2. CountIn(read, q[i], kinds) \in Nat
    <3>. HIDE DEF kinds, selected, readable
    <3>. QED
      BY <2>1, CountIsNat
  <2>. HIDE DEF kinds, selected, readable
  <2>. QED
    BY <2>1, <2>2
<1>4. /\ CaseCount(columns, q, read, group) = SumFunctionOnSet(counts, DOMAIN counts)
      /\ SourcesCount(columns, named, read, group) = SumFunctionOnSet(sums, DOMAIN sums)
  BY DEF CaseCount, SourcesCount, SumFunction
<1>5. DOMAIN counts = selected /\ DOMAIN sums = readable
  OBVIOUS
<1>. HIDE DEF counts, sums, selected, readable, b
<1>. QED
  BY <1>1, <1>2, <1>3, <1>4, <1>5, SumReindexed

(* Once puts the sources of a plan in a sequence without repetition. *)
LEMMA OnceNamesAll ==
    ASSUME NEW sources \in Seq(Sources), IsInjective(sources)
    PROVE  /\ Enumerates(sources, ToSet(sources))
           /\ Enumerates(Once(sources), ToSet(sources))
<1>. DEFINE n == Len(sources)
            S == ToSet(sources)
            q == Once(sources)
<1>1. n \in Nat /\ DOMAIN sources = 1 .. n /\ IsFiniteSet(1 .. n) /\ Cardinality(1 .. n) = n
  <2>1. n \in Nat /\ DOMAIN sources = 1 .. n
    OBVIOUS
  <2>. HIDE DEF n
  <2>. QED
    BY <2>1, FS_Interval
<1>2. sources \in [1 .. n -> S] /\ \A s \in S : \E i \in 1 .. n : sources[i] = s
  BY <1>1 DEF ToSet
<1>3. IsFiniteSet(S) /\ Cardinality(S) = n
  <2>. HIDE DEF n, S
  <2>1. sources \in Bijection(1 .. n, S)
    BY <1>1, <1>2 DEF Bijection, Injection, Surjection, IsInjective
  <2>. QED
    BY <1>1, <2>1, FS_Bijection DEF ExistsBijection
<1>4. q \in [1 .. n -> S] /\ IsInjective(q)
  <2>1. \E f \in [1 .. n -> S] : IsInjective(f)
    BY <1>2
  <2>2. q = CHOOSE f \in [1 .. n -> S] : IsInjective(f)
    BY <1>3 DEF Once, SetToSeq
  <2>. HIDE DEF n, S, q
  <2>. QED
    BY <2>1, <2>2
<1>5. \A s \in S : \E i \in 1 .. n : q[i] = s
  <2>. HIDE DEF n, S, q
  <2>1. q \in Injection(1 .. n, S)
    BY <1>4 DEF Injection, IsInjective
  <2>2. q \in Surjection(1 .. n, S)
    BY <1>1, <1>3, <2>1, FS_Injection
  <2>. QED
    BY <2>2 DEF Surjection
<1>. HIDE DEF n, S, q
<1>6. \A i, j \in 1 .. n : q[i] = q[j] => i = j
  BY <1>4 DEF IsInjective
<1>7. \A i, j \in 1 .. n : sources[i] = sources[j] => i = j
  BY <1>1 DEF IsInjective
<1>8. Enumerates(sources, S)
  BY <1>1, <1>2, <1>7 DEF Enumerates
<1>9. Enumerates(q, S)
  BY <1>1, <1>4, <1>5, <1>6 DEF Enumerates
<1>. QED
  BY <1>8, <1>9 DEF S, q

(* A group of a plan that repeats no source has the same count over its sources taken once. *)
LEMMA OnceCountsTheSame ==
    ASSUME NEW columns, NEW sources \in Seq(Sources), IsInjective(sources),
           NEW read, Countable(read), NEW group
    PROVE  CaseCount(columns, sources, read, group) = CaseCount(columns, Once(sources), read, group)
<1>1. ToSet(sources) \in SUBSET Sources
  BY DEF ToSet
<1>2. Enumerates(sources, ToSet(sources)) /\ Enumerates(Once(sources), ToSet(sources))
  BY OnceNamesAll
<1>3. ASSUME NEW q, Enumerates(q, ToSet(sources))
      PROVE  CaseCount(columns, q, read, group)
                 = SourcesCount(columns, ToSet(sources), read, group)
  BY <1>1, <1>3, CountsOnce
<1>. QED
  BY <1>2, <1>3

LEMMA SnapshotsAreCountable ==
    ASSUME NEW was \in [Sources -> Fetches \cup {NoFetch}]
    PROVE  Countable([s \in Sources |-> {was[s]} \ {NoFetch}])
<1>1. ASSUME NEW s \in Sources
      PROVE  {was[s]} \ {NoFetch} \in SUBSET Fetches /\ IsFiniteSet({was[s]} \ {NoFetch})
  <2>1. IsFiniteSet({was[s]}) /\ {was[s]} \ {NoFetch} \in SUBSET {was[s]}
    BY FS_Singleton
  <2>. QED
    BY <2>1, FS_Subset
<1>. QED
  BY <1>1 DEF Countable

(* what ReleasedGroupsAreLarge says of a view, if its plan repeats no source *)
LargeUnlessRepeated ==
    view # NoView /\ view.origin = "public_live" /\ IsInjective(view.plan.sources) =>
        \A row \in view.rows : \E was \in [Sources -> Fetches \cup {NoFetch}] :
            LET read == [s \in Sources |-> {was[s]} \ {NoFetch}]
                columns == view.plan.columns
                sources == view.plan.sources
            IN /\ row = GroupRow(columns, sources, read, row.group)
               /\ GroupRow(columns, Once(sources), read, row.group).case_count >= MinGroup

\* Repetition of a source is the only way a view's group gets smaller than it says: the rows of
\* a view whose plan names each source once count at least minimum_group_size different records
\* of whole snapshots (aggregate_records, public_demo_preview).
THEOREM GroupsAreLargeUnlessRepeated == Spec => []LargeUnlessRepeated
<1>1. TInv /\ IInv => LargeUnlessRepeated
  <2>. SUFFICES ASSUME TInv, IInv, view # NoView, view.origin = "public_live",
                       IsInjective(view.plan.sources), NEW row \in view.rows
                PROVE  \E was \in [Sources -> Fetches \cup {NoFetch}] :
                         LET read == [s \in Sources |-> {was[s]} \ {NoFetch}]
                             columns == view.plan.columns
                             sources == view.plan.sources
                         IN /\ row = GroupRow(columns, sources, read, row.group)
                            /\ GroupRow(columns, Once(sources), read, row.group).case_count
                                  >= MinGroup
    BY DEF LargeUnlessRepeated
  <2>1. view.plan.sources \in Seq(Sources) /\ Whole(view.rows, view.plan)
    BY DEF TInv, ViewTyped, IInv, ViewInv
  <2>2. PICK was \in [Sources -> Fetches \cup {NoFetch}] :
            \A r \in view.rows :
                /\ r.case_count >= MinGroup
                /\ r = GroupRow(view.plan.columns, view.plan.sources,
                                [s \in Sources |-> {was[s]} \ {NoFetch}], r.group)
    BY <2>1 DEF Whole
  <2>. DEFINE read == [s \in Sources |-> {was[s]} \ {NoFetch}]
  <2>3. Countable(read)
    BY SnapshotsAreCountable
  <2>4. row.case_count >= MinGroup /\ row = GroupRow(view.plan.columns, view.plan.sources, read, row.group)
    BY <2>2
  <2>. HIDE DEF read
  <2>5. row.case_count = CaseCount(view.plan.columns, view.plan.sources, read, row.group)
    BY <2>4 DEF GroupRow
  <2>6. row.case_count = CaseCount(view.plan.columns, Once(view.plan.sources), read, row.group)
    BY <2>1, <2>3, <2>5, OnceCountsTheSame
  <2>7. GroupRow(view.plan.columns, Once(view.plan.sources), read, row.group).case_count >= MinGroup
    BY <2>4, <2>6 DEF GroupRow
  <2>. QED
    BY <2>4, <2>7 DEF read
<1>. QED
  BY <1>1, InitTyped, NextTyped, SpecInv, PTL DEF Spec

-----------------------------------------------------------------------------
(***************************************************************************)
(* The offer and its repairs.  For a plan whose findings are all offered a *)
(* repair, the repaired plan meets the policy if and only if the plan is   *)
(* Compatible.                                                             *)
(***************************************************************************)

Repairing == {"SENSITIVE_FIELD_TRANSFORM", "RAW_VOC_FOR_PRODUCT"}

(* What is announced is what is applied. *)
LEMMA AnnouncedIsApplied ==
    ASSUME NEW f, Announced(f) # "none"
    PROVE  /\ Announced(f) = Applied(f)
           /\ f.code = "TTL_LIMIT" \/ f.code \in Repairing
  BY DEF Announced, Applied, Required, Repairing

(* where a finding that is repaired in the transformations comes from *)
Explains(plan, f, i, k) ==
    LET item == plan.items[i] IN
    /\ f.item = i /\ f.input = k /\ f.field = item.inputs[k]
    /\ f.code = "SENSITIVE_FIELD_TRANSFORM" => Sensitive(item, f.field)
    /\ f.code = "RAW_VOC_FOR_PRODUCT" => RawVoc(plan, item, f.field)

LEMMA InputFindingsExplained ==
    ASSUME NEW plan, NEW f \in Findings(plan), f.code \in Repairing
    PROVE  \E i \in DOMAIN plan.items : \E k \in DOMAIN plan.items[i].inputs :
               Explains(plan, f, i, k)
<1>1. f \notin PlanFindings(plan)
  BY DEF PlanFindings, Finding, Repairing
<1>2. PICK i \in DOMAIN plan.items :
          \E k \in DOMAIN plan.items[i].inputs : f \in InputFindings(plan, i, k)
  BY <1>1 DEF Findings
<1>k. PICK k \in DOMAIN plan.items[i].inputs : f \in InputFindings(plan, i, k)
  BY <1>2
<1>3. Explains(plan, f, i, k)
  BY <1>k DEF InputFindings, Finding, Explains
<1>. QED
  BY <1>2, <1>3

(* evaluate_policy reports what there is to report. *)
LEMMA FindingsReported ==
    ASSUME NEW plan, NEW i \in DOMAIN plan.items, NEW k \in DOMAIN plan.items[i].inputs
    PROVE  LET item == plan.items[i]
               field == item.inputs[k]
           IN /\ field \notin Catalog[item.source] =>
                     Finding(i, k, "UNKNOWN_CATALOG_FIELD", field) \in Findings(plan)
              /\ Sensitive(item, field) =>
                     Finding(i, k, "SENSITIVE_FIELD_TRANSFORM", field) \in Findings(plan)
              /\ RawVoc(plan, item, field) =>
                     Finding(i, k, "RAW_VOC_FOR_PRODUCT", field) \in Findings(plan)
<1>1. InputFindings(plan, i, k) \subseteq Findings(plan)
  BY DEF Findings
<1>. QED
  BY <1>1 DEF InputFindings

LEMMA PlanFindingsReported ==
    ASSUME NEW plan
    PROVE  /\ \A i \in DOMAIN plan.items : plan.items[i].source \notin ToSet(plan.sources) =>
                  Finding(i, 0, "SOURCE_NOT_SELECTED", plan.items[i].source) \in Findings(plan)
           /\ \A c \in plan.columns \ Produced(plan) :
                  Finding(Len(plan.items) + 1, 0, "UNKNOWN_PREVIEW_COLUMN", c)
                      \in Findings(plan)
           /\ plan.ttl > MaxTTL =>
                  Finding(Len(plan.items) + 1, 1, "TTL_LIMIT", "ttl_days") \in Findings(plan)
  BY DEF Findings, PlanFindings

(* The policy accepts a plan in which nothing is to be reported. *)
LEMMA AcceptedPlans ==
    ASSUME NEW plan
    PROVE  ~ Blocks(plan) <=>
               /\ \A i \in DOMAIN plan.items :
                      /\ plan.items[i].source \in ToSet(plan.sources)
                      /\ \A k \in DOMAIN plan.items[i].inputs :
                             LET field == plan.items[i].inputs[k] IN
                             /\ field \in Catalog[plan.items[i].source]
                             /\ ~ Sensitive(plan.items[i], field)
                             /\ ~ RawVoc(plan, plan.items[i], field)
               /\ plan.columns \subseteq Produced(plan)
               /\ ~ (plan.ttl > MaxTTL)
<1>1. Blocks(plan) <=>
          \/ PlanFindings(plan) # {}
          \/ \E i \in DOMAIN plan.items : \E k \in DOMAIN plan.items[i].inputs :
                 InputFindings(plan, i, k) # {}
  BY DEF Blocks, Findings
<1>2. PlanFindings(plan) = {} <=>
          /\ \A i \in DOMAIN plan.items : plan.items[i].source \in ToSet(plan.sources)
          /\ plan.columns \subseteq Produced(plan)
          /\ ~ (plan.ttl > MaxTTL)
  BY DEF PlanFindings
<1>3. ASSUME NEW i \in DOMAIN plan.items, NEW k \in DOMAIN plan.items[i].inputs
      PROVE  InputFindings(plan, i, k) = {} <=>
                 LET field == plan.items[i].inputs[k] IN
                 /\ field \in Catalog[plan.items[i].source]
                 /\ ~ Sensitive(plan.items[i], field)
                 /\ ~ RawVoc(plan, plan.items[i], field)
  BY DEF InputFindings
<1>. QED
  BY <1>1, <1>2, <1>3

LEMMA ItemsOfPlans ==
    ASSUME NEW plan \in Plan
    PROVE  /\ DOMAIN plan.items = 1 .. Len(plan.items) /\ Len(plan.items) \in Nat
           /\ \A i \in DOMAIN plan.items :
                  /\ plan.items[i] \in Item
                  /\ plan.items[i].source \in DOMAIN Catalog
                  /\ DOMAIN plan.items[i].inputs = 1 .. Len(plan.items[i].inputs)
                  /\ Len(plan.items[i].inputs) \in Nat
<1>1. plan.items \in Seq(Item)
  BY DEF Plan
<1>2. \A item \in Item : item.source \in DOMAIN Catalog /\ item.inputs \in Seq(STRING)
  BY DEF Item
<1>. QED
  BY <1>1, <1>2

(* Every input of an offered plan is in the catalog, hence no "ttl_days". *)
LEMMA OfferedInputs ==
    ASSUME NEW plan \in Plan, Offers(plan), NEW i \in DOMAIN plan.items
    PROVE  /\ \A k \in DOMAIN plan.items[i].inputs :
                  plan.items[i].inputs[k] \in Catalog[plan.items[i].source]
           /\ "ttl_days" \notin ToSet(plan.items[i].inputs)
<1>1. ASSUME NEW k \in DOMAIN plan.items[i].inputs
      PROVE  plan.items[i].inputs[k] \in Catalog[plan.items[i].source]
  <2>. DEFINE f == Finding(i, k, "UNKNOWN_CATALOG_FIELD", plan.items[i].inputs[k])
  <2>1. f.code = "UNKNOWN_CATALOG_FIELD"
    BY DEF Finding
  <2>2. f \notin Findings(plan)
    <3>. HIDE DEF f
    <3>. QED
      BY <2>1, AnnouncedIsApplied DEF Offers, Repairing
  <2>. QED
    BY <2>2, FindingsReported
<1>2. plan.items[i].source \in DOMAIN Catalog
  BY ItemsOfPlans
<1>3. "ttl_days" \notin Catalog[plan.items[i].source]
  BY <1>2 DEF Catalog
<1>. QED
  BY <1>1, <1>3 DEF ToSet

-----------------------------------------------------------------------------
(* One transformation and its repairs *)

LEMMA Greatest ==
    ASSUME NEW T \in SUBSET Nat, T # {}, NEW n \in Nat, \A x \in T : x <= n
    PROVE  \E x \in T : \A y \in T : y <= x
<1>. DEFINE Rest == {n - x : x \in T}
<1>1. Rest \in SUBSET Nat /\ Rest # {}
  <2>1. \A x \in T : n - x \in Nat
    OBVIOUS
  <2>. QED
    BY <2>1
<1>2. PICK z \in Rest : \A y \in Rest : z <= y
  <2>. HIDE DEF Rest
  <2>. QED
    BY <1>1, Least
<1>3. PICK x \in T : z = n - x
  OBVIOUS
<1>4. \A y \in T : n - x <= n - y
  BY <1>2, <1>3
<1>5. \A y \in T : y <= x
  BY <1>4
<1>. QED
  BY <1>5

(* Among some repairs there is a latest. *)
LEMMA LatestIsRepair ==
    ASSUME NEW plan \in Plan, NEW item, NEW repairs \in SUBSET RepairsOf(plan, item),
           \A f \in repairs : f.code \in Repairing, repairs # {}
    PROVE  Latest(repairs) \in repairs
<1>. DEFINE Items == {f.item : f \in repairs}
<1>1. ASSUME NEW f \in repairs
      PROVE  /\ f.item \in DOMAIN plan.items
             /\ f.input \in DOMAIN plan.items[f.item].inputs
  BY InputFindingsExplained DEF RepairsOf, Explains
<1>2. DOMAIN plan.items = 1 .. Len(plan.items) /\ Len(plan.items) \in Nat
  BY ItemsOfPlans
<1>3. PICK a \in Items : \A b \in Items : b <= a
  <2>1. Items \in SUBSET Nat /\ Items # {} /\ \A b \in Items : b <= Len(plan.items)
    BY <1>1, <1>2
  <2>. HIDE DEF Items
  <2>. QED
    BY <1>2, <2>1, Greatest
<1>. DEFINE Inputs == {f.input : f \in {g \in repairs : g.item = a}}
<1>4. PICK m \in Inputs : \A n \in Inputs : n <= m
  <2>1. a \in DOMAIN plan.items /\ Inputs # {}
    BY <1>1
  <2>2. /\ DOMAIN plan.items[a].inputs = 1 .. Len(plan.items[a].inputs)
        /\ Len(plan.items[a].inputs) \in Nat
    BY <2>1, ItemsOfPlans
  <2>3. Inputs \in SUBSET Nat /\ \A n \in Inputs : n <= Len(plan.items[a].inputs)
    BY <1>1, <2>2
  <2>. HIDE DEF Inputs
  <2>. QED
    BY <2>1, <2>2, <2>3, Greatest
<1>5. PICK f \in repairs : f.item = a /\ f.input = m
  OBVIOUS
<1>6. ASSUME NEW g \in repairs PROVE ~ Earlier(f, g)
  <2>1. g.item <= a /\ (g.item = a => g.input <= m)
    BY <1>3, <1>4
  <2>2. g.item \in Nat /\ a \in Nat
    BY <1>1, <1>2, <1>5
  <2>3. g.item = a => g.input \in Nat /\ m \in Nat
    <3>1. DOMAIN plan.items[a].inputs \subseteq Nat
      BY <1>1, <1>5, ItemsOfPlans
    <3>. QED
      BY <1>1, <1>5, <3>1
  <2>. QED
    BY <1>5, <2>1, <2>2, <2>3 DEF Earlier
<1>. QED
  BY <1>5, <1>6 DEF Latest

(* What is applied to a transformation is demanded of it. *)
LEMMA RepairsAreDemanded ==
    ASSUME NEW plan \in Plan, Offers(plan), NEW i \in DOMAIN plan.items
    PROVE  /\ \A f \in RepairsOf(plan, plan.items[i]) :
                  f.code \in Repairing /\ Applied(f) \in Demands(plan, plan.items[i])
           /\ Touched(plan, plan.items[i]) <=> RepairsOf(plan, plan.items[i]) # {}
<1>. DEFINE item == plan.items[i]
<1>1. ASSUME NEW f \in RepairsOf(plan, item)
      PROVE  f.code \in Repairing /\ Applied(f) \in Demands(plan, item)
  <2>1. f \in Findings(plan) /\ f.code \in Repairing /\ f.field \in ToSet(item.inputs)
    BY AnnouncedIsApplied DEF RepairsOf, Offers, TooLong
  <2>2. \E j \in DOMAIN plan.items : \E k \in DOMAIN plan.items[j].inputs :
            Explains(plan, f, j, k)
    BY <2>1, InputFindingsExplained
  <2>. HIDE DEF item
  <2>3. CASE f.code = "SENSITIVE_FIELD_TRANSFORM"
    <3>1. Applied(f) = Required(f.field) /\ Required(f.field) # "any"
      BY <2>2, <2>3 DEF Explains, Sensitive, Applied
    <3>. QED
      BY <2>1, <3>1 DEF Demands
  <2>4. CASE f.code = "RAW_VOC_FOR_PRODUCT"
    <3>1. /\ Applied(f) = "classify" /\ f.field \in {"message", "ticket_text"}
          /\ plan.audience = "product"
      BY <2>2, <2>4 DEF Explains, RawVoc, Applied
    <3>. QED
      BY <2>1, <3>1 DEF Demands
  <2>. QED
    BY <2>1, <2>3, <2>4 DEF Repairing
<1>2. ASSUME NEW f \in Findings(plan), f.field \in ToSet(item.inputs)
      PROVE  f \in RepairsOf(plan, item)
  <2>1. ~ TooLong(f)
    <3>. SUFFICES ASSUME f.code = "TTL_LIMIT" PROVE f.field = "ttl_days"
      BY <1>2, OfferedInputs DEF TooLong
    <3>1. f \in PlanFindings(plan)
      BY DEF Findings, InputFindings, Finding
    <3>. QED
      BY <3>1 DEF PlanFindings, Finding
  <2>2. Applied(f) # "none"
    BY AnnouncedIsApplied DEF Offers
  <2>. QED
    BY <1>2, <2>1, <2>2 DEF RepairsOf
<1>3. Touched(plan, item) <=> RepairsOf(plan, item) # {}
  BY <1>2 DEF Touched, RepairsOf
<1>. QED
  BY <1>1, <1>3

(* A transformation that is asked for one operator gets it, and the name of *)
(* the output with it.                                                     *)
LEMMA ConsistentRepairs ==
    ASSUME NEW plan \in Plan, Offers(plan), NEW i \in DOMAIN plan.items,
           NEW d, Demands(plan, plan.items[i]) \subseteq {d}
    PROVE  LET item == plan.items[i]
               new == RepairedItem(plan, item)
           IN /\ ~ Touched(plan, item) => new.op = item.op /\ new.output = item.output
              /\ Touched(plan, item) => /\ d \in Demands(plan, item)
                                        /\ new.op = d
                                        /\ new.output = OutputOf(d, item.output)
<1>. DEFINE item == plan.items[i]
            repairs == RepairsOf(plan, item)
            renames == {f \in repairs : Applied(f) \in Renaming}
            new == RepairedItem(plan, item)
<1>1. item \in Item
  BY ItemsOfPlans
<1>2. /\ new.op = IF repairs = {} THEN item.op ELSE Applied(Latest(repairs))
      /\ new.output = IF renames = {} THEN item.output
                      ELSE OutputOf(Applied(Latest(renames)), item.output)
  BY <1>1 DEF RepairedItem, Item
<1>3. \A f \in repairs : f.code \in Repairing /\ Applied(f) = d
                         /\ Applied(f) \in Demands(plan, item)
  BY RepairsAreDemanded
<1>4. Touched(plan, item) <=> repairs # {}
  BY RepairsAreDemanded
<1>5. repairs # {} => Latest(repairs) \in repairs
  BY <1>3, LatestIsRepair
<1>6. renames # {} => Latest(renames) \in renames
  <2>1. renames \in SUBSET RepairsOf(plan, item) /\ \A f \in renames : f.code \in Repairing
    BY <1>3
  <2>. HIDE DEF renames
  <2>. QED
    BY <2>1, LatestIsRepair
<1>7. repairs # {} => (renames # {} <=> d \in Renaming)
  BY <1>3
<1>8. d \notin Renaming => OutputOf(d, item.output) = item.output
  BY DEF OutputOf, Renaming
<1>. HIDE DEF new, item, repairs
<1>9. CASE repairs = {}
  BY <1>2, <1>4, <1>9 DEF new, item
<1>10. CASE repairs # {}
  <2>1. new.op = d /\ d \in Demands(plan, item)
    BY <1>2, <1>3, <1>5, <1>10
  <2>2. new.output = OutputOf(d, item.output)
    BY <1>2, <1>3, <1>6, <1>7, <1>8, <1>10
  <2>. QED
    BY <1>4, <1>10, <2>1, <2>2 DEF new, item
<1>. QED
  BY <1>9, <1>10

-----------------------------------------------------------------------------
(* The repaired plan *)

LEMMA RepairedShape ==
    ASSUME NEW plan \in Plan
    PROVE  /\ Repaired(plan).audience = plan.audience
           /\ Repaired(plan).sources = plan.sources
           /\ Repaired(plan).columns = plan.columns
           /\ DOMAIN Repaired(plan).items = DOMAIN plan.items
           /\ \A i \in DOMAIN plan.items :
                  /\ Repaired(plan).items[i] = RepairedItem(plan, plan.items[i])
                  /\ Repaired(plan).items[i].source = plan.items[i].source
                  /\ Repaired(plan).items[i].inputs = plan.items[i].inputs
           /\ ~ (Repaired(plan).ttl > MaxTTL)
<1>1. /\ Repaired(plan).audience = plan.audience
      /\ Repaired(plan).sources = plan.sources
      /\ Repaired(plan).columns = plan.columns
      /\ Repaired(plan).items = [i \in DOMAIN plan.items |-> RepairedItem(plan, plan.items[i])]
      /\ Repaired(plan).ttl = IF \E f \in Findings(plan) : TooLong(f) THEN MaxTTL ELSE plan.ttl
  BY DEF Repaired, Plan
<1>2. ASSUME NEW i \in DOMAIN plan.items
      PROVE  /\ RepairedItem(plan, plan.items[i]).source = plan.items[i].source
             /\ RepairedItem(plan, plan.items[i]).inputs = plan.items[i].inputs
  BY DEF RepairedItem, Plan, Item
<1>3. ~ (Repaired(plan).ttl > MaxTTL)
  <2>1. CASE plan.ttl > MaxTTL
    <3>1. Finding(Len(plan.items) + 1, 1, "TTL_LIMIT", "ttl_days") \in Findings(plan)
      BY <2>1, PlanFindingsReported
    <3>2. TooLong(Finding(Len(plan.items) + 1, 1, "TTL_LIMIT", "ttl_days"))
      BY DEF TooLong, Finding
    <3>. QED
      BY <1>1, <3>1, <3>2 DEF MaxTTL
  <2>2. CASE ~ (plan.ttl > MaxTTL)
    BY <1>1, <2>2 DEF MaxTTL
  <2>. QED
    BY <2>1, <2>2
<1>. QED
  BY <1>1, <1>2, <1>3

(* What an accepted transformation does is all that is demanded of it. *)
LEMMA DemandsAreMet ==
    ASSUME NEW plan, NEW i \in DOMAIN plan.items,
           \A k \in DOMAIN plan.items[i].inputs :
               /\ ~ Sensitive(plan.items[i], plan.items[i].inputs[k])
               /\ ~ RawVoc(plan, plan.items[i], plan.items[i].inputs[k])
    PROVE  Demands(plan, plan.items[i]) \subseteq {plan.items[i].op}
  BY DEF Demands, Sensitive, RawVoc, ToSet

(* Demands depend on the inputs only. *)
LEMMA SameDemands ==
    ASSUME NEW plan, NEW other, NEW item, NEW new,
           other.audience = plan.audience, new.inputs = item.inputs
    PROVE  Demands(other, new) = Demands(plan, item)
  BY DEF Demands

LEMMA ProducedColumns ==
    ASSUME NEW plan, NEW c
    PROVE  c \in Produced(plan) <=>
               \/ c = "case_count"
               \/ \E i \in DOMAIN plan.items : plan.items[i].op # "drop"
                                               /\ plan.items[i].output = c
  BY DEF Produced

LEMMA CompatibleSucceeds ==
    ASSUME NEW plan \in Plan, Offers(plan), Compatible(plan)
    PROVE  ~ Blocks(Repaired(plan))
<1>. DEFINE new == Repaired(plan)
<1>1. ASSUME NEW i \in DOMAIN plan.items
      PROVE  /\ plan.items[i].source \in ToSet(plan.sources)
             /\ \A k \in DOMAIN plan.items[i].inputs :
                    LET field == plan.items[i].inputs[k] IN
                    /\ field \in Catalog[plan.items[i].source]
                    /\ ~ Sensitive(new.items[i], field)
                    /\ ~ RawVoc(new, new.items[i], field)
  <2>1. plan.items[i].source \in ToSet(plan.sources)
    <3>. DEFINE f == Finding(i, 0, "SOURCE_NOT_SELECTED", plan.items[i].source)
    <3>1. f.code = "SOURCE_NOT_SELECTED"
      BY DEF Finding
    <3>2. f \notin Findings(plan)
      <4>. HIDE DEF f
      <4>. QED
        BY <3>1, AnnouncedIsApplied DEF Offers, Repairing
    <3>. QED
      BY <3>2, PlanFindingsReported
  <2>2. ASSUME NEW k \in DOMAIN plan.items[i].inputs
        PROVE  LET field == plan.items[i].inputs[k] IN
               /\ field \in Catalog[plan.items[i].source]
               /\ ~ Sensitive(new.items[i], field)
               /\ ~ RawVoc(new, new.items[i], field)
    <3>. DEFINE item == plan.items[i]
                field == item.inputs[k]
    <3>1. field \in Catalog[item.source]
      BY OfferedInputs
    <3>2. field \in ToSet(item.inputs)
      BY DEF ToSet
    <3>3. /\ new.items[i] = RepairedItem(plan, item)
          /\ new.audience = plan.audience
      BY RepairedShape
    <3>4. \A d, e \in Demands(plan, item) : d = e
      BY DEF Compatible
    <3>5. ASSUME Touched(plan, item)
          PROVE  ~ Sensitive(new.items[i], field) /\ ~ RawVoc(new, new.items[i], field)
      <4>1. ASSUME NEW d \in Demands(plan, item) PROVE new.items[i].op = d
        <5>1. Demands(plan, item) \subseteq {d}
          BY <3>4
        <5>. QED
          BY <3>3, <3>5, <5>1, ConsistentRepairs
      <4>2. Required(field) # "any" => Required(field) \in Demands(plan, item)
        BY <3>2 DEF Demands
      <4>3. field \in {"message", "ticket_text"} /\ plan.audience = "product"
                => "classify" \in Demands(plan, item)
        BY <3>2 DEF Demands
      <4>. HIDE DEF item, field, new
      <4>. QED
        BY <3>3, <4>1, <4>2, <4>3 DEF Sensitive, RawVoc
    <3>6. ASSUME ~ Touched(plan, item)
          PROVE  ~ Sensitive(new.items[i], field) /\ ~ RawVoc(new, new.items[i], field)
      <4>1. ~ Sensitive(item, field) /\ ~ RawVoc(plan, item, field)
        <5>1. \A code : Finding(i, k, code, field).field = field
          BY DEF Finding
        <5>2. \A code : Finding(i, k, code, field) \notin Findings(plan)
          BY <3>2, <3>6, <5>1 DEF Touched
        <5>. QED
          BY <5>2, FindingsReported
      <4>2. RepairsOf(plan, item) = {}
        BY <3>6, RepairsAreDemanded
      <4>3. new.items[i].op = item.op
        BY <3>3, <4>2, ItemsOfPlans DEF RepairedItem, Item
      <4>. HIDE DEF item, field, new
      <4>. QED
        BY <3>3, <4>1, <4>3 DEF Sensitive, RawVoc
    <3>. QED
      BY <3>1, <3>5, <3>6
  <2>. QED
    BY <2>1, <2>2
<1>2. plan.columns \subseteq Produced(new)
  <2>. SUFFICES ASSUME NEW c \in plan.columns, c # "case_count"
                PROVE  \E i \in DOMAIN new.items : new.items[i].op # "drop"
                                                   /\ new.items[i].output = c
    BY ProducedColumns
  <2>1. PICK i \in DOMAIN plan.items :
            LET item == plan.items[i] IN
            \/ ~ Touched(plan, item) /\ item.op # "drop" /\ item.output = c
            \/ Touched(plan, item)
                   /\ \E d \in Demands(plan, item) \ {"drop"} : OutputOf(d, item.output) = c
    BY DEF Compatible
  <2>. DEFINE item == plan.items[i]
  <2>2. i \in DOMAIN new.items /\ new.items[i] = RepairedItem(plan, item)
    BY RepairedShape
  <2>3. CASE Touched(plan, item)
    <3>1. PICK d \in Demands(plan, item) \ {"drop"} : OutputOf(d, item.output) = c
      BY <2>1, <2>3
    <3>2. Demands(plan, item) \subseteq {d}
      BY <3>1 DEF Compatible
    <3>3. new.items[i].op = d /\ new.items[i].output = OutputOf(d, item.output)
      BY <2>2, <2>3, <3>2, ConsistentRepairs
    <3>. QED
      BY <2>2, <3>1, <3>3
  <2>4. CASE ~ Touched(plan, item)
    <3>1. RepairsOf(plan, item) = {}
      BY <2>4, RepairsAreDemanded
    <3>2. new.items[i].op = item.op /\ new.items[i].output = item.output
      BY <2>2, <3>1 DEF RepairedItem, Plan, Item
    <3>. QED
      BY <2>1, <2>2, <2>4, <3>2
  <2>. QED
    BY <2>3, <2>4
<1>3. /\ DOMAIN new.items = DOMAIN plan.items
      /\ new.sources = plan.sources /\ new.columns = plan.columns
      /\ \A i \in DOMAIN plan.items : /\ new.items[i].source = plan.items[i].source
                                      /\ new.items[i].inputs = plan.items[i].inputs
      /\ ~ (new.ttl > MaxTTL)
  BY RepairedShape
<1>. HIDE DEF new
<1>4. ~ Blocks(new)
  BY <1>1, <1>2, <1>3, AcceptedPlans
<1>. QED
  BY <1>4 DEF new

LEMMA SuccessIsCompatible ==
    ASSUME NEW plan \in Plan, Offers(plan), ~ Blocks(Repaired(plan))
    PROVE  Compatible(plan)
<1>. DEFINE new == Repaired(plan)
<1>1. /\ DOMAIN new.items = DOMAIN plan.items
      /\ new.audience = plan.audience /\ new.columns = plan.columns
      /\ \A i \in DOMAIN plan.items : /\ new.items[i] = RepairedItem(plan, plan.items[i])
                                      /\ new.items[i].inputs = plan.items[i].inputs
  BY RepairedShape
<1>2. ASSUME NEW i \in DOMAIN plan.items
      PROVE  Demands(plan, plan.items[i]) \subseteq {new.items[i].op}
  <2>1. \A k \in DOMAIN new.items[i].inputs :
            /\ ~ Sensitive(new.items[i], new.items[i].inputs[k])
            /\ ~ RawVoc(new, new.items[i], new.items[i].inputs[k])
    <3>. HIDE DEF new
    <3>1. ~ Blocks(new)
      BY DEF new
    <3>. QED
      BY <1>1, <3>1, AcceptedPlans
  <2>. HIDE DEF new
  <2>2. Demands(new, new.items[i]) \subseteq {new.items[i].op}
    BY <1>1, <2>1, DemandsAreMet
  <2>. QED
    BY <1>1, <2>2, SameDemands
<1>3. ASSUME NEW i \in DOMAIN plan.items
      PROVE  /\ ~ Touched(plan, plan.items[i]) =>
                    /\ new.items[i].op = plan.items[i].op
                    /\ new.items[i].output = plan.items[i].output
             /\ Touched(plan, plan.items[i]) =>
                    /\ new.items[i].op \in Demands(plan, plan.items[i])
                    /\ new.items[i].output = OutputOf(new.items[i].op, plan.items[i].output)
  BY <1>1, <1>2, ConsistentRepairs
<1>4. ASSUME NEW c \in plan.columns \ {"case_count"}
      PROVE  \E i \in DOMAIN plan.items :
                 LET item == plan.items[i] IN
                 \/ ~ Touched(plan, item) /\ item.op # "drop" /\ item.output = c
                 \/ Touched(plan, item)
                        /\ \E d \in Demands(plan, item) \ {"drop"} : OutputOf(d, item.output) = c
  <2>. HIDE DEF new
  <2>1. ~ Blocks(new)
    BY DEF new
  <2>2. c \in Produced(new)
    BY <1>1, <2>1, AcceptedPlans
  <2>3. PICK i \in DOMAIN plan.items : new.items[i].op # "drop" /\ new.items[i].output = c
    BY <1>1, <2>2, ProducedColumns
  <2>. QED
    BY <1>3, <2>3
<1>. HIDE DEF new
<1>5. ASSUME NEW i \in DOMAIN plan.items PROVE \A d, e \in Demands(plan, plan.items[i]) : d = e
  BY <1>2
<1>. QED
  BY <1>4, <1>5 DEF Compatible

(* An offered plan is repaired into an acceptable one exactly if it is      *)
(* Compatible.                                                              *)
THEOREM OffersSucceedIfCompatible ==
    ASSUME NEW plan \in Plan, Offers(plan)
    PROVE  Succeeds(plan) <=> Compatible(plan)
<1>1. Handles(plan)
  BY AnnouncedIsApplied DEF Offers, Handles
<1>. QED
  BY <1>1, CompatibleSucceeds, SuccessIsCompatible DEF Succeeds

-----------------------------------------------------------------------------
(* The offer of a view *)

(* a submitted view was acceptable or offered a repair, and the alternative *)
(* under way, or refused, is that of the plan the reviewer saw              *)
OfferInv ==
    view # NoView /\ view.submitted =>
        /\ Blocks(view.plan) => Offers(view.plan)
        /\ job.op = "conflict" => view.plan \in Plan /\ ~ Succeeds(view.plan)
        /\ job.op = "alternative" => view.plan \in Plan /\ Succeeds(view.plan)

LEMMA IdleOffers ==
    ASSUME job'.op \notin {"conflict", "alternative"},
           view' # NoView /\ view'.submitted => (Blocks(view'.plan) => Offers(view'.plan))
    PROVE  OfferInv'
  BY DEF OfferInv

LEMMA NextKeepsOffers == OfferInv /\ IInv /\ [Next]_vars => OfferInv'
<1>. SUFFICES ASSUME OfferInv, IInv, [Next]_vars PROVE OfferInv'
  OBVIOUS
<1>1. Idle.op = "idle"
  BY DEF Idle
<1>2. ASSUME UNCHANGED <<view, job>> PROVE OfferInv'
  BY <1>2 DEF OfferInv
<1>3. ASSUME UNCHANGED view, job'.op \notin {"conflict", "alternative"} PROVE OfferInv'
  BY <1>3 DEF OfferInv
<1>4. ASSUME NEW plan, CreatePreview(plan) \/ Refine(plan) PROVE OfferInv'
  <2>1. job'.op \in {"preview", "refine"} /\ view' = view
    BY <1>4 DEF CreatePreview, Refine, Read, Idle
  <2>. QED
    BY <1>3, <2>1
<1>5. CASE ReadSource
  <2>1. job'.op = job.op /\ view' = view
    BY <1>5 DEF ReadSource, IInv, JobInv
  <2>. QED
    BY <2>1 DEF OfferInv
<1>6. ASSUME NEW rows, NEW origin, Save(rows, origin) PROVE OfferInv'
  <2>1. job'.op = "idle"
    BY <1>1, <1>6 DEF Save
  <2>2. CASE job.op = "alternative"
    <3>1. view' = Approved(job.plan, rows, origin) /\ ~ Blocks(job.plan) /\ IsView(view)
      BY <1>6, <2>2 DEF Save, IInv, JobInv, Open, ViewInv
    <3>2. view'.plan = job.plan
      BY <3>1 DEF Approved, IsView
    <3>. QED
      BY <2>1, <3>1, <3>2, IdleOffers
  <2>3. CASE job.op # "alternative"
    <3>1. ~ view'.submitted
      BY <1>6, <2>3 DEF Save, NewView
    <3>. QED
      BY <2>1, <3>1, IdleOffers
  <2>. QED
    BY <2>2, <2>3
<1>7. CASE Submit
  <2>1. view'.plan = view.plan /\ (Blocks(view.plan) => Offers(view.plan)) /\ job'.op = "idle"
    BY <1>1, <1>7 DEF Submit, Open, IInv, ViewInv, IsView
  <2>. QED
    BY <2>1, IdleOffers
<1>8. CASE Approve \/ Reject
  <2>1. /\ view # NoView /\ view.submitted
        /\ view'.plan = view.plan /\ job'.op = "idle"
    BY <1>1, <1>8 DEF Approve, Reject, Approved, Open, IInv, ViewInv, IsView
  <2>. QED
    BY <2>1, IdleOffers DEF OfferInv
<1>9. CASE ApproveAlternative
  <2>1. /\ view' = view /\ view.plan \in Plan
        /\ IF Succeeds(view.plan) THEN job'.op = "alternative" ELSE job'.op = "conflict"
    BY <1>9 DEF ApproveAlternative, Read, Idle, Open, IInv, ViewInv
  <2>. QED
    BY <2>1 DEF OfferInv
<1>10. CASE Abort \/ DownloadPublic
  BY <1>1, <1>3, <1>10 DEF Abort, DownloadPublic
<1>11. CASE DownloadStart
  <2>1. job'.op = "download" /\ view' = view
    BY <1>11 DEF DownloadStart, Read, Idle
  <2>. QED
    BY <1>3, <2>1
<1>12. CASE TTLEnds
  <2>1. /\ view # NoView /\ view'.submitted = view.submitted /\ view'.plan = view.plan
        /\ job' = job
    BY <1>12 DEF TTLEnds, Available, IInv, ViewInv, IsView
  <2>. QED
    BY <2>1 DEF OfferInv
<1>13. CASE DownloadStored \/ UNCHANGED vars
  BY <1>2, <1>13 DEF DownloadStored, vars
<1>14. ASSUME NEW p \in Syncs, NEW f \in Fetches, StartSync(p, f) PROVE OfferInv'
  BY <1>2, <1>14 DEF StartSync
<1>15. ASSUME NEW p \in Syncs, SyncStep(p), UNCHANGED releaseVars PROVE OfferInv'
  BY <1>2, <1>15 DEF releaseVars
<1>. QED
  BY <1>4, <1>5, <1>6, <1>7, <1>8, <1>9, <1>10, <1>11, <1>12, <1>13, <1>14, <1>15 DEF Next

\* What a reviewer is offered is what happens: each announced operator is the one applied, and the
\* alternative of a submitted view is refused exactly if its repairs get in each other's way
\* (_alternative_for_view, approve_recommended_alternative, evaluate_policy).
THEOREM OffersAreKept == Spec => []OfferIsKept
<1>1. Init => OfferInv
  <2>1. Init => (view # NoView => ~ view.submitted)
    BY DEF Init, NewView
  <2>. QED
    BY <2>1 DEF OfferInv
<1>2. OfferInv => OfferIsKept
  <2>. SUFFICES ASSUME OfferInv, view # NoView, view.submitted
                PROVE  /\ Blocks(view.plan) =>
                              \A f \in Findings(view.plan) : Announced(f) = Applied(f)
                       /\ job.op = "conflict" /\ Blocks(view.plan) => ~ Compatible(view.plan)
                       /\ job.op = "alternative" => Compatible(view.plan)
    BY DEF OfferIsKept
  <2>1. Blocks(view.plan) => \A f \in Findings(view.plan) : Announced(f) = Applied(f)
    BY AnnouncedIsApplied DEF OfferInv, Offers
  <2>2. job.op = "conflict" /\ Blocks(view.plan) => ~ Compatible(view.plan)
    BY OffersSucceedIfCompatible DEF OfferInv
  <2>3. job.op = "alternative" => Compatible(view.plan)
    BY OffersSucceedIfCompatible DEF OfferInv, Succeeds, Handles
  <2>. QED
    BY <2>1, <2>2, <2>3
<1>. QED
  BY <1>1, <1>2, NextKeepsOffers, SpecInv, PTL DEF Spec
=============================================================================
