------------------------------ MODULE PublicDemo ------------------------------
(***************************************************************************)
(* The snapshots of three public data sources and what is made of them.    *)
(* scripts/sync_public_demo.py fetches all three and then replaces one     *)
(* source after the other, each in a READ COMMITTED transaction of its     *)
(* own; previews and exports read one source per statement, with no        *)
(* transaction around them.                                                *)
(*                                                                         *)
(* A record is known by its kind, which fixes what it has in each column;  *)
(* Volume counts the records of a kind.  Metrics other than case_count,    *)
(* and the reader's LIMIT 10000, are left out.                             *)
(***************************************************************************)
EXTENDS Naturals, Sequences, FiniteSetsExt, SequencesExt

CONSTANTS
    Syncs,          \* runs of the script that may overlap
    Fetches,        \* what the three providers may return at one time
    Kinds,
    Cell(_, _),     \* Cell(k, c): what a record of kind k has in column c
    Volume,         \* Volume[f][s][k]: how many records of kind k fetch f has for source s
    MinGroup,       \* minimum_group_size
    Limit,          \* limit of public_demo_preview
    NoFetch

SourceOrder == <<"product", "operations", "voc">>
Sources == {"product", "operations", "voc"}

(* the payloads normalize_fcc, normalize_nyc_311 and normalize_nhtsa build *)
Payload == [
    product |-> {"week", "region", "issue_type", "issue", "channel", "case_count"},
    operations |-> {"week", "region", "agency", "complaint_type", "descriptor", "channel",
                    "status", "resolution_hours", "case_count"},
    voc |-> {"week", "manufacturer", "make", "model", "model_year", "component", "crash_count",
             "fire_count", "injury_count", "death_count", "case_count"}]

ASSUME PublicDemoAssumption ==
    /\ IsFiniteSet(Kinds)
    /\ \A f \in Fetches, s \in Sources, k \in Kinds : Volume[f][s][k] \in Nat
    /\ MinGroup \in Nat \ {0}
    /\ Limit \in Nat \ {0}
    /\ NoFetch \notin Fetches

(* at: the source being replaced; gone: the records the DELETE saw *)
Sync == [pc : {"idle", "next", "upserted", "deleted"}, fetch : Fetches \cup {NoFetch},
         at : DOMAIN SourceOrder, gone : SUBSET Fetches]

IdleSyncAtZero ==   \* mutant: sources numbered from zero
    [pc |-> "idle", fetch |-> NoFetch, at |-> 0, gone |-> {}]

IdleSync == [pc |-> "idle", fetch |-> NoFetch, at |-> 1, gone |-> {}]

VARIABLES
    snapshot,   \* public_demo_source_snapshots: the fetch a source's row describes
    records,    \* public_demo_records: the fetches a source's records come from
    sync

demoVars == <<snapshot, records, sync>>

-----------------------------------------------------------------------------
(* replace_public_demo_snapshot *)

SourceOf(p) == SourceOrder[sync[p].at]

Unguarded(s) == TRUE   \* mutant: the snapshot's row is not written first

(* the upsert waits for the row of the source *)
Unclaimed(s) == \A p \in Syncs : sync[p].pc \in {"upserted", "deleted"} => SourceOf(p) # s

(* fetch_public_snapshots; if it fails, the script ends with nothing done *)
FetchAll(p, f) ==
    /\ sync[p].pc = "idle"
    /\ sync' = [sync EXCEPT ![p] = [IdleSync EXCEPT !.pc = "next", !.fetch = f]]
    /\ UNCHANGED <<snapshot, records>>

Upsert(p) ==
    /\ sync[p].pc = "next"
    /\ Unclaimed(SourceOf(p))
    /\ sync' = [sync EXCEPT ![p].pc = "upserted"]
    /\ UNCHANGED <<snapshot, records>>

DeleteOld(p) ==
    /\ sync[p].pc = "upserted"
    /\ sync' = [sync EXCEPT ![p].pc = "deleted", ![p].gone = records[SourceOf(p)]]
    /\ UNCHANGED <<snapshot, records>>

(* sync_public_demo.py, main: on to the next source, or at its end *)
NextSource(q) == IF q.at = Len(SourceOrder) THEN IdleSync
                 ELSE [q EXCEPT !.pc = "next", !.at = @ + 1, !.gone = {}]

(* the records, and COMMIT *)
InsertCommit(p) ==
    LET s == SourceOf(p)
        f == sync[p].fetch IN
    /\ sync[p].pc = "deleted"
    /\ snapshot' = [snapshot EXCEPT ![s] = f]
    /\ records' = [records EXCEPT ![s] = (@ \ sync[p].gone) \cup {f}]
    /\ sync' = [sync EXCEPT ![p] = NextSource(@)]

(* an error (an id that comes twice, say) or a crash: ROLLBACK of this     *)
(* source; those replaced before stay                                      *)
SyncDies(p) ==
    /\ sync[p].pc # "idle"
    /\ sync' = [sync EXCEPT ![p] = IdleSync]
    /\ UNCHANGED <<snapshot, records>>

SyncStep(p) == Upsert(p) \/ DeleteOld(p) \/ InsertCommit(p) \/ SyncDies(p)

DemoInit ==
    /\ snapshot \in {[s \in Sources |-> f] : f \in Fetches \cup {NoFetch}}
    /\ records = [s \in Sources |-> {snapshot[s]} \ {NoFetch}]
    /\ sync = [p \in Syncs |-> IdleSync]

-----------------------------------------------------------------------------
(* aggregate_records over what was read: read[s] is a set of fetches       *)

Metrics == {"case_count", "avg_resolution_hours", "crash_count", "fire_count", "injury_count",
            "death_count"}

Dimensions(columns) == columns \ Metrics

GroupOf(k, columns) == [c \in Dimensions(columns) |-> Cell(k, c)]

(* "if all(column in payload for column in dimensions)" *)
Readable(columns, s) == Dimensions(columns) \subseteq Payload[s]

CountIn(read, s, kinds) ==
    SumFunction([f \in read[s] |-> SumFunction([k \in kinds |-> Volume[f][s][k]])])

(* the records of a source count as often as the plan selects it           *)
CaseCount(columns, sources, read, group) ==
    LET kinds == {k \in Kinds : GroupOf(k, columns) = group}
        selected == {i \in DOMAIN sources : Readable(columns, sources[i])}
    IN SumFunction([i \in selected |-> CountIn(read, sources[i], kinds)])

GroupRow(columns, sources, read, group) ==
    [group |-> group, case_count |-> CaseCount(columns, sources, read, group)]

SomeRecords(row) == row.case_count > 0   \* mutant: minimum_group_size is not applied
LargeEnough(row) == row.case_count >= MinGroup

Aggregate(columns, sources, read) ==
    {row \in {GroupRow(columns, sources, read, GroupOf(k, columns)) : k \in Kinds} :
        LargeEnough(row)}

(* output[:limit] after the sort; rows of one count keep any order *)
Shown(rows) ==
    LET size == IF Cardinality(rows) < Limit THEN Cardinality(rows) ELSE Limit IN
    {top \in SUBSET rows :
        /\ Cardinality(top) = size
        /\ \A x \in top, y \in rows \ top : x.case_count >= y.case_count}

(* project_public_records: a row of its own for each record *)
SourceField(c) == IF c = "avg_resolution_hours" THEN "resolution_hours" ELSE c

Project(columns, sources, read) ==
    {[group |-> GroupOf(k, columns), case_count |-> 1] :
        k \in {l \in Kinds : \E s \in ToSet(sources) :
                  /\ {SourceField(c) : c \in columns} \subseteq Payload[s] \cup {"case_count"}
                  /\ CountIn(read, s, {l}) > 0}}

-----------------------------------------------------------------------------
DemoTypeOK ==
    /\ snapshot \in [Sources -> Fetches \cup {NoFetch}]
    /\ records \in [Sources -> SUBSET Fetches]
    /\ sync \in [Syncs -> Sync]

\* The records of a source are all of one fetch, the one its snapshot row (with its row_count and
\* content hash) describes, however syncs overlap and wherever one of them dies.
SnapshotsAreWhole == \A s \in Sources : records[s] = {snapshot[s]} \ {NoFetch}
=============================================================================
