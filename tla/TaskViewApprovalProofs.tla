----------------------- MODULE TaskViewApprovalProofs -----------------------
(***************************************************************************)
(* Proofs about TaskViewApproval, for every value of its constants: any    *)
(* number of views, members, contents and concurrent requests, and no      *)
(* bound on revisions.                                                     *)
(***************************************************************************)
EXTENDS TaskViewApproval, TLAPS

-----------------------------------------------------------------------------
(* The inductive invariant *)

(* what EvidenceCertifiesApproval says of one stored row *)
RowCertified(old) ==
    /\ (old.status = "approved") <=> (old.evidence # NoEvidence)
    /\ old.status = "approved" =>
           /\ old.content \notin Blocking
           /\ old.evidence = [content |-> old.content, by |-> old.reviewer]

(* what DecisionRestsOnSubmission and SeparationOfDuties say of one view *)
DecisionRests(v) ==
    /\ HasSnapshot(v)
    /\ submission[v].snapshot.status \in Open
    /\ row[v].revision = submission[v].snapshot.revision + 1
    /\ row[v].content \in Outcomes(submission[v].snapshot)
    /\ row[v].status = "rejected" => row[v].content = submission[v].snapshot.content
    /\ row[v].reviewer \in Approvers
    /\ row[v].reviewer # submission[v].by
    /\ row[v].reviewer # row[v].creator

(* the creator is who submits, and no submission outlives its view *)
ViewInv(v) ==
    /\ submission[v] # NoSubmission => /\ row[v] # NoRow
                                       /\ submission[v].by = row[v].creator
    /\ row[v] # NoRow => RowCertified(row[v])
    /\ IsDecided(v) => DecisionRests(v)

(* what a request has established by the time it reaches its phase *)
RequestInv(q) ==
    /\ q.pc # "idle" => q.view \in Views /\ row[q.view] # NoRow
    /\ q.pc \notin {"idle", "downloading"} => q.user \in Users
    /\ q.pc = "downloading" => q.user \in Users \cup {NoUser} /\ Available(q.view)
    /\ q.pc \in {"submitting", "submit_locked"} => row[q.view].creator = q.user
    /\ q.pc \in {"refine_authorized", "refine_read", "refine_planning"} => q.op = "refine"
    /\ q.pc \in {"decision_authorized", "decision_cleared", "decision_ready"} =>
           q.op \in Decisions
    /\ q.pc \in {"updating", "updated"} => q.op \in Decisions \cup {"refine"}
    /\ q.pc \in {"refine_read", "refine_planning", "decision_ready", "updating", "updated"} =>
           q.expected \in Row /\ q.expected.status \in Open
    /\ q.op \in Decisions => /\ q.pc \notin {"idle", "downloading"}
                             /\ q.user \in Approvers
                             /\ HasSnapshot(q.view)
    /\ q.op \in Decisions
           /\ q.pc \in {"decision_cleared", "decision_ready", "updating", "updated"} =>
           submission[q.view].by # q.user
    /\ q.op \in Decisions /\ q.pc \in {"decision_ready", "updating", "updated"} =>
           Decidable(q.op, q.expected)
    /\ q.op \in Decisions /\ q.pc \in {"updating", "updated"} =>
           /\ submission[q.view].snapshot = q.expected
           /\ q.next = Decided(q.op, q.expected, q.user)
    /\ q.op = "refine" /\ q.pc \in {"updating", "updated"} =>
           \E c \in Contents : q.next = Refined(q.expected, c)

IInv == /\ TypeOK
        /\ \A v \in Views : ViewInv(v)
        /\ \A r \in Requests : RequestInv(req[r])

(* a row has one transaction that holds it, and stays what that one updated *)
Holds(q) == q.pc \in {"submit_locked", "updated"}

LockInv ==
    \A r \in Requests :
        Holds(req[r]) =>
            /\ rowLock[req[r].view] = r
            /\ req[r].pc = "updated" => row[req[r].view] = req[r].expected

-----------------------------------------------------------------------------
(* What the writes produce *)

(* service.refine's write: the next revision, no reviewer, no evidence. *)
LEMMA RefinedRow ==
    ASSUME NEW old \in Row, NEW c \in Contents
    PROVE  /\ Refined(old, c) \in Row
           /\ Refined(old, c).revision = old.revision + 1
           /\ Refined(old, c).status = StatusOf(c)
           /\ Refined(old, c).status \in Open
           /\ Refined(old, c).creator = old.creator
           /\ RowCertified(Refined(old, c))
  BY DEF Row, Refined, Write, StatusOf, Statuses, Open, RowCertified

(* decide's and approve_recommended_alternative's write, past their early returns. *)
LEMMA DecidedRow ==
    ASSUME NEW op \in Decisions, NEW old \in Row, NEW u \in Users, Decidable(op, old)
    PROVE  /\ Decided(op, old, u) \in Row
           /\ Decided(op, old, u).revision = old.revision + 1
           /\ Decided(op, old, u).status \in {"approved", "rejected"}
           /\ Decided(op, old, u).creator = old.creator
           /\ Decided(op, old, u).reviewer = u
           /\ Decided(op, old, u).content \in Outcomes(old)
           /\ Decided(op, old, u).status = "rejected" =>
                  Decided(op, old, u).content = old.content
           /\ RowCertified(Decided(op, old, u))
<1>1. CASE op = "reject"
  BY <1>1, NullsAssumption
     DEF Decided, Rejected, Write, Row, Statuses, RowCertified, Outcomes
<1>2. CASE op = "approve"
  <2>1. Decided(op, old, u) = Approved(old, old.content, u)
    BY <1>2 DEF Decided
  <2>2. old.content \in Contents /\ old.content \notin Blocking
    BY <1>2 DEF Row, Decidable
  <2>3. [content |-> old.content, by |-> u] \in Evidence
    BY <2>2 DEF Evidence
  <2>. QED
    BY <2>1, <2>2, <2>3, NullsAssumption
       DEF Approved, Write, Row, Statuses, RowCertified, Outcomes
<1>3. CASE op = "approve_alternative"
  <2>1. Decided(op, old, u) = Approved(old, Repair[old.content], u)
    BY <1>3 DEF Decided
  <2>2. /\ old.content \in Repairable
        /\ Repair[old.content] \in Contents
        /\ Repair[old.content] \notin Blocking
    BY <1>3, ConstantsAssumption DEF Decidable
  <2>3. [content |-> Repair[old.content], by |-> u] \in Evidence
    BY <2>2 DEF Evidence
  <2>. QED
    BY <2>1, <2>2, <2>3, NullsAssumption
       DEF Approved, Write, Row, Statuses, RowCertified, Outcomes
<1>. QED
  BY <1>1, <1>2, <1>3 DEF Decisions

-----------------------------------------------------------------------------
(* How steps act on what other requests rely on *)

(* Views do not vanish or change hands, an approved one does not change at  *)
(* all, and a submission with a snapshot stays.                            *)
Monotone ==
    \A v \in Views :
        /\ row[v] # NoRow => row'[v] # NoRow /\ row'[v].creator = row[v].creator
        /\ Available(v) => Available(v)'
        /\ HasSnapshot(v) => submission'[v] = submission[v]

LEMMA IdleRequest ==
    ASSUME NEW q, q = Idle
    PROVE  q \in Request /\ RequestInv(q) /\ RequestInv(q)'
<1>1. q \in Request /\ q.pc = "idle" /\ q.op = "none"
  BY DEF Idle, Request, Phases
<1>. QED
  BY <1>1 DEF RequestInv, Decisions

(* What a request relies on survives the monotone steps of the others. *)
LEMMA StableRequest ==
    ASSUME Monotone, NEW q \in Request, RequestInv(q)
    PROVE  RequestInv(q)'
<1>1. ASSUME q.pc # "idle"
      PROVE  /\ q.view \in Views
             /\ row'[q.view] # NoRow
             /\ row'[q.view].creator = row[q.view].creator
             /\ Available(q.view) => Available(q.view)'
  BY <1>1 DEF RequestInv, Monotone
<1>2. ASSUME q.op \in Decisions
      PROVE  HasSnapshot(q.view) /\ submission'[q.view] = submission[q.view]
  BY <1>2 DEF RequestInv, Monotone
<1>. QED
  BY <1>1, <1>2 DEF RequestInv, HasSnapshot

(* A step that writes no table and moves one request. *)
LEMMA QuietStep ==
    ASSUME IInv, UNCHANGED <<row, submission, audit>>,
           rowLock' \in [Views -> Requests \cup {NoRequest}],
           NEW r \in Requests, NEW q \in Request,
           req' = [req EXCEPT ![r] = q], RequestInv(q)
    PROVE  IInv'
<1>1. TypeOK'
  BY DEF IInv, TypeOK
<1>2. ASSUME NEW v \in Views PROVE ViewInv(v)'
  <2>1. ViewInv(v)
    BY DEF IInv
  <2>. QED
    BY <2>1 DEF ViewInv, IsDecided, DecisionRests, HasSnapshot
<1>3. ASSUME NEW s \in Requests PROVE RequestInv(req[s])'
  <2>1. Monotone
    BY DEF Monotone, Available
  <2>2. req'[s] \in Request /\ RequestInv(req'[s])
    BY DEF IInv, TypeOK
  <2>3. \A p \in Request : RequestInv(p) => RequestInv(p)'
    BY <2>1, StableRequest
  <2>. QED
    BY <2>2, <2>3 DEF RequestInv, HasSnapshot, Available
<1>. QED
  BY <1>1, <1>2, <1>3 DEF IInv

(* A step that writes tables, and after which each request is where it was *)
(* or has been answered.                                                   *)
LEMMA WritingStep ==
    ASSUME IInv, TypeOK', Monotone,
           \A v \in Views : ViewInv(v)',
           \A s \in Requests : req'[s] = req[s] \/ req'[s] = Idle
    PROVE  IInv'
<1>1. ASSUME NEW s \in Requests PROVE RequestInv(req[s])'
  <2>1. CASE req'[s] = req[s]
    BY <2>1, StableRequest DEF IInv, TypeOK, RequestInv, HasSnapshot, Available
  <2>2. CASE req'[s] = Idle
    BY <2>2, IdleRequest DEF RequestInv, HasSnapshot, Available
  <2>. QED
    BY <2>1, <2>2
<1>. QED
  BY <1>1 DEF IInv

-----------------------------------------------------------------------------
(* The steps that write no table *)

LEMMA RespondStep ==
    ASSUME IInv, NEW r \in Requests, Respond(r), UNCHANGED <<row, submission, audit>>,
           rowLock' \in [Views -> Requests \cup {NoRequest}]
    PROVE  IInv'
  BY IdleRequest, QuietStep DEF Respond, Goto

(* a request that moves on and takes no lock *)
LEMMA GotoStep ==
    ASSUME IInv, NEW r \in Requests, NEW q \in Request, Goto(r, q), RequestInv(q),
           UNCHANGED <<row, submission, audit, rowLock>>
    PROVE  IInv'
<1>1. rowLock' \in [Views -> Requests \cup {NoRequest}]
  BY DEF IInv, TypeOK
<1>. QED
  BY <1>1, QuietStep DEF Goto

LEMMA AnswerStep ==
    ASSUME IInv, NEW r \in Requests, Respond(r),
           UNCHANGED <<row, submission, audit, rowLock>>
    PROVE  IInv'
  BY IdleRequest, GotoStep DEF Respond

LEMMA StartStep ==
    ASSUME IInv, NEW r \in Requests, Start(r)
    PROVE  IInv'
<1>1. ASSUME NEW u \in Users, NEW v \in Views, StartSubmit(r, u, v)
      PROVE  IInv'
  <2>. DEFINE q == [Idle EXCEPT !.pc = "submitting", !.op = "submit", !.user = u, !.view = v]
  <2>1. /\ q \in Request
        /\ q.pc = "submitting" /\ q.op = "submit" /\ q.user = u /\ q.view = v
    BY DEF Idle, Request, Phases
  <2>2. RequestInv(q)
    <3>. HIDE DEF q
    <3>. QED
      BY <1>1, <2>1 DEF StartSubmit, RequestInv, Decisions
  <2>. QED
    BY <1>1, <2>1, <2>2, GotoStep DEF StartSubmit
<1>2. ASSUME NEW u \in Users, NEW v \in Views, StartRefine(r, u, v)
      PROVE  IInv'
  <2>. DEFINE q == [Idle EXCEPT !.pc = "refine_authorized", !.op = "refine",
                               !.user = u, !.view = v]
  <2>1. /\ q \in Request
        /\ q.pc = "refine_authorized" /\ q.op = "refine" /\ q.user = u /\ q.view = v
    BY DEF Idle, Request, Phases
  <2>2. RequestInv(q)
    <3>. HIDE DEF q
    <3>. QED
      BY <1>2, <2>1 DEF StartRefine, RequestInv, Decisions
  <2>. QED
    BY <1>2, <2>1, <2>2, GotoStep DEF StartRefine
<1>3. ASSUME NEW u \in Users, NEW v \in Views, NEW op \in Decisions,
             StartDecision(r, u, v, op)
      PROVE  IInv'
  <2>. DEFINE q == [Idle EXCEPT !.pc = "decision_authorized", !.op = op,
                               !.user = u, !.view = v]
  <2>1. /\ q \in Request
        /\ q.pc = "decision_authorized" /\ q.op = op /\ q.user = u /\ q.view = v
    BY DEF Idle, Request, Phases
  <2>2. u \in Approvers /\ row[v] # NoRow /\ HasSnapshot(v)
    BY <1>3 DEF StartDecision, Matches, HasSnapshot
  <2>3. RequestInv(q)
    <3>. HIDE DEF q
    <3>. QED
      BY <2>1, <2>2 DEF RequestInv, Decisions
  <2>. QED
    BY <1>3, <2>1, <2>3, GotoStep DEF StartDecision
<1>4. ASSUME NEW u \in Users \cup {NoUser}, NEW v \in Views, StartDownload(r, u, v)
      PROVE  IInv'
  <2>. DEFINE q == [Idle EXCEPT !.pc = "downloading", !.op = "download", !.user = u, !.view = v]
  <2>1. /\ q \in Request
        /\ q.pc = "downloading" /\ q.op = "download" /\ q.user = u /\ q.view = v
    BY DEF Idle, Request, Phases
  <2>2. RequestInv(q)
    <3>. HIDE DEF q
    <3>. QED
      BY <1>4, <2>1 DEF StartDownload, RequestInv, Decisions, Available
  <2>. QED
    BY <1>4, <2>1, <2>2, GotoStep DEF StartDownload
<1>. QED
  BY <1>1, <1>2, <1>3, <1>4 DEF Start

LEMMA ReadingStep ==
    ASSUME IInv, NEW r \in Requests,
           \/ SubmitLock(r) \/ SubmitReplay(r) \/ SubmitConflict(r)
           \/ RefineRead(r) \/ RefineCheckSubmission(r)
           \/ CheckSeparation(r) \/ ReadForDecision(r)
    PROVE  IInv'
<1>. DEFINE q == req[r]
<1>1. /\ q \in Request
      /\ RequestInv(q)
      /\ rowLock \in [Views -> Requests \cup {NoRequest}]
      /\ row \in [Views -> Row \cup {NoRow}]
  BY DEF IInv, TypeOK
<1>2. CASE SubmitLock(r)
  <2>. DEFINE n == [q EXCEPT !.pc = "submit_locked"]
  <2>1. /\ n \in Request /\ n.pc = "submit_locked" /\ n.op = q.op /\ n.user = q.user
        /\ n.view = q.view
    BY <1>1 DEF Request, Phases
  <2>2. RequestInv(n)
    <3>. HIDE DEF n
    <3>. QED
      BY <1>1, <1>2, <2>1 DEF SubmitLock, RequestInv
  <2>3. rowLock' \in [Views -> Requests \cup {NoRequest}]
    BY <1>1, <1>2 DEF SubmitLock
  <2>. QED
    BY <1>2, <2>1, <2>2, <2>3, QuietStep DEF SubmitLock, Goto
<1>3. CASE SubmitReplay(r) \/ SubmitConflict(r)
  <2>1. rowLock' \in [Views -> Requests \cup {NoRequest}]
    BY <1>1, <1>3 DEF SubmitReplay, SubmitConflict, EndSubmit, ReleaseLock
  <2>. QED
    BY <1>3, <2>1, RespondStep DEF SubmitReplay, SubmitConflict, EndSubmit
<1>4. CASE RefineRead(r)
  <2>1. CASE row[q.view].status \in Open
    <3>. DEFINE n == [q EXCEPT !.pc = "refine_read", !.expected = row[q.view]]
    <3>1. q.view \in Views /\ row[q.view] \in Row /\ q.op = "refine"
      BY <1>1, <1>4 DEF RefineRead, RequestInv
    <3>2. /\ n \in Request /\ n.pc = "refine_read" /\ n.op = q.op /\ n.user = q.user
          /\ n.view = q.view /\ n.expected = row[q.view]
      BY <1>1, <3>1 DEF Request, Phases
    <3>3. RequestInv(n)
      <4>. HIDE DEF n
      <4>. QED
        BY <1>1, <1>4, <2>1, <3>1, <3>2 DEF RefineRead, RequestInv, Decisions
    <3>. QED
      BY <1>4, <2>1, <3>2, <3>3, GotoStep DEF RefineRead
  <2>. QED
    BY <1>4, <2>1, AnswerStep DEF RefineRead
<1>5. CASE RefineCheckSubmission(r)
  <2>1. CASE submission[q.view] = NoSubmission
    <3>. DEFINE n == [q EXCEPT !.pc = "refine_planning"]
    <3>1. /\ n \in Request /\ n.pc = "refine_planning" /\ n.op = q.op /\ n.user = q.user
          /\ n.view = q.view /\ n.expected = q.expected
      BY <1>1 DEF Request, Phases
    <3>2. RequestInv(n)
      <4>. HIDE DEF n
      <4>. QED
        BY <1>1, <1>5, <3>1 DEF RefineCheckSubmission, RequestInv, Decisions
    <3>. QED
      BY <1>5, <2>1, <3>1, <3>2, GotoStep DEF RefineCheckSubmission
  <2>. QED
    BY <1>5, <2>1, AnswerStep DEF RefineCheckSubmission
<1>6. CASE CheckSeparation(r)
  <2>1. CASE NotOwnSubmission(r)
    <3>. DEFINE n == [q EXCEPT !.pc = "decision_cleared"]
    <3>1. /\ n \in Request /\ n.pc = "decision_cleared" /\ n.op = q.op /\ n.user = q.user
          /\ n.view = q.view
      BY <1>1 DEF Request, Phases
    <3>2. RequestInv(n)
      <4>. HIDE DEF n
      <4>. QED
        BY <1>1, <1>6, <2>1, <3>1
           DEF CheckSeparation, NotOwnSubmission, HasSnapshot, RequestInv
    <3>. QED
      BY <1>6, <2>1, <3>1, <3>2, GotoStep DEF CheckSeparation
  <2>. QED
    BY <1>6, <2>1, AnswerStep DEF CheckSeparation
<1>7. CASE ReadForDecision(r)
  <2>1. CASE Decidable(q.op, row[q.view])
    <3>. DEFINE n == [q EXCEPT !.pc = "decision_ready", !.expected = row[q.view]]
    <3>1. q.view \in Views /\ row[q.view] \in Row /\ q.op \in Decisions
      BY <1>1, <1>7 DEF ReadForDecision, RequestInv
    <3>2. /\ n \in Request /\ n.pc = "decision_ready" /\ n.op = q.op /\ n.user = q.user
          /\ n.view = q.view /\ n.expected = row[q.view]
      BY <1>1, <3>1 DEF Request, Phases
    <3>3. row[q.view].status \in Open
      BY <2>1 DEF Decidable
    <3>4. RequestInv(n)
      <4>. HIDE DEF n
      <4>. QED
        BY <1>1, <1>7, <2>1, <3>1, <3>2, <3>3 DEF ReadForDecision, RequestInv, Decisions
    <3>. QED
      BY <1>7, <2>1, <3>2, <3>4, GotoStep DEF ReadForDecision
  <2>. QED
    BY <1>7, <2>1, AnswerStep DEF ReadForDecision
<1>. QED
  BY <1>2, <1>3, <1>4, <1>5, <1>6, <1>7

(* The UPDATE's snapshot: what WHERE saw is what the request relies on. *)
LEMMA BeginUpdateStep ==
    ASSUME IInv, NEW r \in Requests,
           \/ \E c \in Contents : RefineUpdate(r, c)
           \/ DecisionUpdate(r)
    PROVE  IInv'
<1>. DEFINE q == req[r]
<1>1. q \in Request /\ RequestInv(q)
  BY DEF IInv, TypeOK
<1>2. ASSUME NEW c \in Contents, RefineUpdate(r, c)
      PROVE  IInv'
  <2>1. CASE Unchanged(q.view, q.expected) /\ SubmissionClause(q.op, q.view)
    <3>. DEFINE n == [q EXCEPT !.pc = "updating", !.next = Refined(q.expected, c)]
    <3>1. q.expected \in Row /\ q.op = "refine"
      BY <1>1, <1>2 DEF RefineUpdate, RequestInv
    <3>2. Refined(q.expected, c) \in Row
      BY <3>1, RefinedRow
    <3>3. /\ n \in Request /\ n.pc = "updating" /\ n.op = "refine" /\ n.user = q.user
          /\ n.view = q.view /\ n.expected = q.expected /\ n.next = Refined(q.expected, c)
      BY <1>1, <3>1, <3>2 DEF Request, Phases
    <3>4. RequestInv(n)
      <4>. HIDE DEF n
      <4>. QED
        BY <1>1, <1>2, <3>3 DEF RefineUpdate, RequestInv, Decisions
    <3>. QED
      BY <1>2, <2>1, <3>3, <3>4, GotoStep DEF RefineUpdate, BeginUpdate
  <2>. QED
    BY <1>2, <2>1, AnswerStep DEF RefineUpdate, BeginUpdate
<1>3. CASE DecisionUpdate(r)
  <2>1. CASE Unchanged(q.view, q.expected) /\ SubmissionClause(q.op, q.view)
    <3>. DEFINE next == Decided(q.op, q.expected, q.user)
                n == [q EXCEPT !.pc = "updating", !.next = next]
    <3>1. /\ q.expected \in Row /\ q.op \in Decisions /\ q.user \in Users
          /\ Decidable(q.op, q.expected)
      BY <1>1, <1>3 DEF DecisionUpdate, RequestInv
    <3>2. next \in Row
      BY <3>1, DecidedRow
    <3>3. submission[q.view].snapshot = q.expected
      BY <2>1, <3>1 DEF SubmissionClause, Matches, Unchanged
    <3>4. /\ n \in Request /\ n.pc = "updating" /\ n.op = q.op /\ n.user = q.user
          /\ n.view = q.view /\ n.expected = q.expected /\ n.next = next
      BY <1>1, <3>2 DEF Request, Phases
    <3>5. RequestInv(n)
      <4>. HIDE DEF n
      <4>. QED
        BY <1>1, <1>3, <3>1, <3>3, <3>4 DEF DecisionUpdate, RequestInv, Decisions
    <3>. QED
      BY <1>3, <2>1, <3>4, <3>5, GotoStep DEF DecisionUpdate, BeginUpdate
  <2>. QED
    BY <1>3, <2>1, AnswerStep DEF DecisionUpdate, BeginUpdate
<1>. QED
  BY <1>2, <1>3

(* The row is taken: the request relies on what it did. *)
LEMMA TakeRowStep ==
    ASSUME IInv, NEW r \in Requests, TakeRow(r)
    PROVE  IInv'
<1>. DEFINE q == req[r]
            n == [q EXCEPT !.pc = "updated"]
<1>1. q \in Request /\ RequestInv(q) /\ q.pc = "updating"
  BY DEF IInv, TypeOK, TakeRow
<1>2. CASE Unchanged(q.view, q.expected)
  <2>1. /\ n \in Request /\ n.pc = "updated" /\ n.op = q.op /\ n.user = q.user
        /\ n.view = q.view /\ n.expected = q.expected /\ n.next = q.next
    BY <1>1 DEF Request, Phases
  <2>2. rowLock' \in [Views -> Requests \cup {NoRequest}] /\ Goto(r, n)
        /\ UNCHANGED <<row, submission, audit>>
    BY <1>2 DEF TakeRow, HoldUpdated, IInv, TypeOK
  <2>. HIDE DEF n
  <2>3. RequestInv(n)
    BY <1>1, <2>1 DEF RequestInv, Decisions
  <2>. QED
    BY <2>1, <2>2, <2>3, QuietStep DEF Goto
<1>3. CASE ~ Unchanged(q.view, q.expected)
  BY <1>3, AnswerStep DEF TakeRow
<1>. QED
  BY <1>2, <1>3

-----------------------------------------------------------------------------
(* The steps that write tables *)

LEMMA RecordedAudit ==
    ASSUME audit \in [Views -> Seq(Event)], NEW v \in Views, NEW e \in Event, Record(v, e)
    PROVE  audit' \in [Views -> Seq(Event)]
  BY DEF Record

LEMMA SubmitStep ==
    ASSUME IInv, NEW r \in Requests, SubmitRefresh(r) \/ SubmitInsert(r)
    PROVE  IInv'
<1>. DEFINE q == req[r]
<1>1. /\ TypeOK
      /\ q \in Request
      /\ RequestInv(q)
      /\ q.pc = "submit_locked"
      /\ \A w \in Views : ViewInv(w)
  BY DEF IInv, TypeOK, SubmitRefresh, SubmitInsert
<1>v. PICK v \in Views : v = q.view
  BY <1>1 DEF RequestInv
<1>. DEFINE filing == [by |-> q.user, snapshot |-> row[v]]
<1>2. /\ q.user \in Users /\ row[v] \in Row /\ row[v] # NoRow
      /\ row[v].creator = q.user
  BY <1>1, <1>v DEF RequestInv, TypeOK
<1>3. /\ filing \in Submission
      /\ filing.by = q.user
      /\ filing.snapshot = row[v]
  BY <1>2 DEF Submission
<1>4. /\ submission' = [submission EXCEPT ![v] = filing]
      /\ row' = row
      /\ req' = [req EXCEPT ![r] = Idle]
      /\ rowLock' = [rowLock EXCEPT ![v] = NoRequest]
      /\ ~ HasSnapshot(v)
  BY <1>v DEF SubmitRefresh, SubmitInsert, EndSubmit, ReleaseLock, Respond, Goto,
         IsLegacy, HasSnapshot
<1>. HIDE DEF filing
<1>5. audit' \in [Views -> Seq(Event)]
  <2>1. CASE SubmitRefresh(r)
    BY <1>1, <1>v, <2>1 DEF SubmitRefresh, TypeOK
  <2>2. CASE SubmitInsert(r)
    <3>. DEFINE e == [action |-> "submitted", actor |-> q.user, from |-> row[v].status,
                      to |-> row[v].status, revision |-> row[v].revision]
    <3>1. e \in Event
      BY <1>2 DEF Event, Row
    <3>. QED
      BY <1>1, <1>v, <2>2, <3>1, RecordedAudit DEF SubmitInsert, TypeOK
  <2>. QED
    BY <2>1, <2>2
<1>6. TypeOK'
  <2>1. Idle \in Request
    BY IdleRequest
  <2>. QED
    BY <1>1, <1>2, <1>3, <1>4, <1>5, <2>1 DEF TypeOK
<1>7. Monotone
  BY <1>1, <1>4 DEF Monotone, TypeOK, HasSnapshot, Available
<1>8. ASSUME NEW w \in Views PROVE ViewInv(w)'
  <2>1. CASE w = v
    <3>1. ~ IsDecided(v)
      BY <1>1, <1>2, <1>4 DEF ViewInv, DecisionRests
    <3>2. ~ IsDecided(v)'
      BY <1>4, <3>1 DEF IsDecided
    <3>3. submission'[v] = filing
      BY <1>1, <1>2, <1>4 DEF TypeOK
    <3>. QED
      BY <1>1, <1>2, <1>3, <1>4, <2>1, <3>2, <3>3 DEF ViewInv
  <2>2. CASE w # v
    <3>1. submission'[w] = submission[w] /\ row'[w] = row[w] /\ ViewInv(w)
      BY <1>1, <1>4, <2>2 DEF TypeOK
    <3>. QED
      BY <3>1 DEF ViewInv, IsDecided, DecisionRests, HasSnapshot
  <2>. QED
    BY <2>1, <2>2
<1>. QED
  BY <1>1, <1>4, <1>6, <1>7, <1>8, WritingStep DEF TypeOK

(* The transaction of save_if_revision, whatever happened while it waited. *)
LEMMA RecordUpdateStep ==
    ASSUME IInv, LockInv, NEW r \in Requests, RecordUpdate(r)
    PROVE  IInv'
<1>1. /\ TypeOK
      /\ req[r] \in Request
      /\ RequestInv(req[r])
      /\ req[r].pc = "updated"
      /\ row[req[r].view] = req[r].expected
      /\ \A w \in Views : ViewInv(w)
  BY DEF IInv, TypeOK, RecordUpdate, LockInv, Holds
<1>v. PICK v \in Views : v = req[r].view
  BY <1>1 DEF RequestInv
<1>q. PICK q \in Request : q = req[r]
  BY <1>1
<1>2. /\ row' = [row EXCEPT ![v] = q.next]
      /\ Record(v, [action |-> ActionOf(q.op), actor |-> q.user,
                    from |-> q.expected.status, to |-> q.next.status,
                    revision |-> q.next.revision])
      /\ submission' = submission
      /\ rowLock' = [rowLock EXCEPT ![v] = NoRequest]
      /\ req' = [req EXCEPT ![r] = Idle]
  BY <1>v, <1>q DEF RecordUpdate, ReleaseLock, Respond, Goto
<1>3. /\ row[v] = q.expected /\ q.expected \in Row /\ q.expected.status \in Open
      /\ row[v] # NoRow
      /\ q.user \in Users
      /\ q.op \in Decisions \cup {"refine"}
  BY <1>1, <1>v, <1>q, NullsAssumption DEF RequestInv
<1>4. /\ q.next \in Row
      /\ q.next.creator = q.expected.creator
      /\ RowCertified(q.next)
  <2>1. CASE q.op = "refine"
    <3>1. PICK c \in Contents : q.next = Refined(q.expected, c)
      BY <1>1, <1>q, <2>1 DEF RequestInv
    <3>. QED
      BY <1>3, <3>1, RefinedRow
  <2>2. CASE q.op \in Decisions
    <3>1. q.next = Decided(q.op, q.expected, q.user) /\ Decidable(q.op, q.expected)
      BY <1>1, <1>q, <2>2 DEF RequestInv
    <3>. QED
      BY <1>3, <2>2, <3>1, DecidedRow
  <2>. QED
    BY <1>3, <2>1, <2>2
<1>5. row'[v] = q.next /\ q.next # NoRow
  BY <1>1, <1>2, <1>4, NullsAssumption DEF TypeOK
<1>6. TypeOK'
  <2>. DEFINE e == [action |-> ActionOf(q.op), actor |-> q.user,
                    from |-> q.expected.status, to |-> q.next.status,
                    revision |-> q.next.revision]
  <2>1. ActionOf(q.op) \in {"refined", "rejected", "approved", "approved_alternative"}
    BY DEF ActionOf
  <2>2. e \in Event
    <3>. HIDE DEF Decisions
    <3>. QED
      BY <1>3, <1>4, <2>1 DEF Event, Row
  <2>3. audit' \in [Views -> Seq(Event)]
    BY <1>1, <1>2, <2>2, RecordedAudit DEF TypeOK
  <2>4. Idle \in Request
    BY IdleRequest
  <2>. QED
    BY <1>1, <1>2, <1>4, <2>3, <2>4 DEF TypeOK
<1>7. Monotone
  BY <1>1, <1>2, <1>3, <1>4, <1>5 DEF Monotone, TypeOK, Available, Open
<1>8. ViewInv(v)'
  <2>1. ViewInv(v) /\ row'[v].creator = row[v].creator
    BY <1>1, <1>3, <1>4, <1>5
  <2>2. IsDecided(v)' => DecisionRests(v)'
    <3>1. CASE q.op = "refine"
      <4>1. PICK c \in Contents : q.next = Refined(q.expected, c)
        BY <1>1, <1>q, <3>1 DEF RequestInv
      <4>2. q.next.status \in Open
        BY <1>3, <4>1, RefinedRow
      <4>. QED
        BY <1>5, <4>2 DEF IsDecided
    <3>2. CASE q.op \in Decisions
      <4>1. /\ q.next = Decided(q.op, q.expected, q.user)
            /\ Decidable(q.op, q.expected)
            /\ HasSnapshot(v)
            /\ submission[v].snapshot = q.expected
            /\ submission[v].by # q.user
            /\ q.user \in Approvers
        BY <1>1, <1>v, <1>q, <3>2 DEF RequestInv
      <4>2. /\ q.next.revision = q.expected.revision + 1
            /\ q.next.reviewer = q.user
            /\ q.next.content \in Outcomes(q.expected)
            /\ q.next.status = "rejected" => q.next.content = q.expected.content
        BY <1>3, <3>2, <4>1, DecidedRow
      <4>3. submission[v].by = row[v].creator
        BY <2>1, <4>1 DEF ViewInv, HasSnapshot
      <4>. QED
        BY <1>2, <1>3, <1>4, <1>5, <4>1, <4>2, <4>3 DEF DecisionRests, HasSnapshot
    <3>. QED
      BY <1>3, <3>1, <3>2
  <2>. QED
    BY <1>2, <1>4, <1>5, <2>1, <2>2 DEF ViewInv
<1>9. ASSUME NEW w \in Views PROVE ViewInv(w)'
  <2>1. CASE w = v
    BY <1>8, <2>1
  <2>2. CASE w # v
    <3>1. row'[w] = row[w] /\ submission'[w] = submission[w] /\ ViewInv(w)
      BY <1>1, <1>2, <2>2 DEF TypeOK
    <3>. QED
      BY <3>1 DEF ViewInv, IsDecided, DecisionRests, HasSnapshot
  <2>. QED
    BY <2>1, <2>2
<1>. QED
  BY <1>1, <1>2, <1>6, <1>7, <1>9, WritingStep DEF TypeOK

(* A download appends to the audit log and does nothing else. *)
LEMMA RecordDownloadStep ==
    ASSUME IInv, NEW r \in Requests, RecordDownload(r)
    PROVE  IInv'
<1>1. /\ TypeOK /\ RequestInv(req[r]) /\ req[r].pc = "downloading"
      /\ UNCHANGED <<row, submission, rowLock>> /\ req' = [req EXCEPT ![r] = Idle]
  BY DEF IInv, RecordDownload, Respond, Goto
<1>v. PICK v \in Views : v = req[r].view
  BY <1>1 DEF RequestInv
<1>. DEFINE e == [action |-> "downloaded", actor |-> req[r].user,
                  from |-> "approved", to |-> "approved", revision |-> 0]
<1>2. e \in Event
  BY <1>1 DEF RequestInv, Event, Statuses
<1>3. audit' \in [Views -> Seq(Event)]
  BY <1>1, <1>2, <1>v, RecordedAudit DEF TypeOK, RecordDownload
<1>4. TypeOK'
  BY <1>1, <1>3, IdleRequest DEF TypeOK
<1>5. Monotone
  BY <1>1 DEF Monotone, Available
<1>6. ASSUME NEW w \in Views PROVE ViewInv(w)'
  BY <1>1 DEF IInv, ViewInv, IsDecided, DecisionRests, HasSnapshot
<1>. QED
  BY <1>1, <1>4, <1>5, <1>6, WritingStep DEF TypeOK

LEMMA CreatePreviewStep ==
    ASSUME IInv, NEW u \in Users, NEW v \in Views, NEW c \in Contents, CreatePreview(u, v, c)
    PROVE  IInv'
<1>1. TypeOK /\ \A w \in Views : ViewInv(w)
  BY DEF IInv
<1>2. /\ row[v] = NoRow
      /\ row' = [row EXCEPT ![v] = NewRow(u, c)]
      /\ submission' = submission /\ rowLock' = rowLock /\ req' = req
  BY DEF CreatePreview
<1>3. /\ NewRow(u, c) \in Row
      /\ NewRow(u, c).creator = u
      /\ NewRow(u, c).status \in Open
      /\ RowCertified(NewRow(u, c))
  BY DEF NewRow, StatusOf, Row, Statuses, Open, RowCertified
<1>4. row'[v] = NewRow(u, c) /\ row'[v] # NoRow
  BY <1>1, <1>2, <1>3, NullsAssumption DEF TypeOK
<1>5. TypeOK'
  <2>. DEFINE e == [action |-> "created", actor |-> u, from |-> "none",
                    to |-> StatusOf(c), revision |-> 1]
  <2>1. e \in Event
    BY DEF Event, StatusOf, Statuses
  <2>2. audit' \in [Views -> Seq(Event)]
    BY <1>1, <2>1, RecordedAudit DEF TypeOK, CreatePreview
  <2>. QED
    BY <1>1, <1>2, <1>3, <2>2 DEF TypeOK
<1>6. submission[v] = NoSubmission
  BY <1>1, <1>2 DEF ViewInv
<1>7. Monotone
  BY <1>1, <1>2 DEF Monotone, TypeOK, Available
<1>8. ASSUME NEW w \in Views PROVE ViewInv(w)'
  <2>1. CASE w = v
    BY <1>2, <1>3, <1>4, <1>6, <2>1 DEF ViewInv, IsDecided
  <2>2. CASE w # v
    <3>1. row'[w] = row[w] /\ submission'[w] = submission[w] /\ ViewInv(w)
      BY <1>1, <1>2, <2>2 DEF TypeOK
    <3>. QED
      BY <3>1 DEF ViewInv, IsDecided, DecisionRests, HasSnapshot
  <2>. QED
    BY <2>1, <2>2
<1>. QED
  BY <1>2, <1>5, <1>7, <1>8, WritingStep

LEMMA AbortStep ==
    ASSUME IInv, NEW r \in Requests, Abort(r)
    PROVE  IInv'
<1>1. rowLock' \in [Views -> Requests \cup {NoRequest}]
  BY DEF IInv, TypeOK, Abort
<1>. QED
  BY <1>1, RespondStep DEF Abort

LEMMA CrashStep ==
    ASSUME IInv, Crash
    PROVE  IInv'
<1>1. Idle \in Request
  BY IdleRequest
<1>2. TypeOK'
  BY <1>1 DEF IInv, TypeOK, Crash
<1>3. ASSUME NEW w \in Views PROVE ViewInv(w)'
  <2>1. ViewInv(w)
    BY DEF IInv
  <2>. QED
    BY <2>1 DEF Crash, ViewInv, IsDecided, DecisionRests, HasSnapshot
<1>4. Monotone
  BY DEF Crash, Monotone, Available
<1>. QED
  BY <1>2, <1>3, <1>4, WritingStep DEF Crash

-----------------------------------------------------------------------------
(* The invariant *)

LEMMA InitInv == Init => IInv
<1>. SUFFICES ASSUME Init PROVE IInv
  OBVIOUS
<1>1. ASSUME NEW old \in LegacyRow
      PROVE  /\ old \in Row /\ old.status \in Open /\ RowCertified(old)
             /\ old.revision = 1
             /\ [by |-> old.creator, snapshot |-> NoRow] \in Submission
             /\ << [action |-> "created", actor |-> old.creator, from |-> "none",
                    to |-> old.status, revision |-> 1],
                   [action |-> "submitted", actor |-> old.creator,
                    from |-> old.status, to |-> old.status, revision |-> 1] >> \in Seq(Event)
  <2>1. PICK u \in Users, c \in Contents : old = NewRow(u, c)
    BY DEF LegacyRow
  <2>2. old \in Row /\ old.status \in Open /\ RowCertified(old) /\ old.revision = 1
    BY <2>1 DEF NewRow, StatusOf, Row, Statuses, Open, RowCertified
  <2>3. old.creator \in Users /\ old.status \in Statuses
    BY <2>2 DEF Row
  <2>. QED
    BY <2>2, <2>3 DEF Submission, Event
<1>2. TypeOK
  <2>1. Idle \in Request
    BY IdleRequest
  <2>2. audit \in [Views -> Seq(Event)]
    BY <1>1 DEF Init
  <2>3. submission \in [Views -> Submission \cup {NoSubmission}]
    BY <1>1 DEF Init
  <2>4. row \in [Views -> Row \cup {NoRow}]
    BY <1>1 DEF Init
  <2>. QED
    BY <2>1, <2>2, <2>3, <2>4 DEF Init, TypeOK
<1>3. ASSUME NEW v \in Views PROVE ViewInv(v)
  <2>1. row[v] = NoRow \/ row[v] \in LegacyRow
    BY DEF Init
  <2>2. row[v] = NoRow => submission[v] = NoSubmission
    BY DEF Init
  <2>3. row[v] # NoRow => submission[v] = [by |-> row[v].creator, snapshot |-> NoRow]
    BY DEF Init
  <2>4. CASE row[v] = NoRow
    BY <2>2, <2>4 DEF ViewInv, IsDecided
  <2>5. CASE row[v] \in LegacyRow
    <3>1. row[v].status \in Open /\ RowCertified(row[v])
      BY <1>1, <2>5
    <3>2. row[v] # NoRow
      BY <1>1, <2>5, NullsAssumption
    <3>3. submission[v].by = row[v].creator
      BY <2>3, <3>2
    <3>. QED
      BY <3>1, <3>2, <3>3 DEF ViewInv, IsDecided
  <2>. QED
    BY <2>1, <2>4, <2>5
<1>4. ASSUME NEW r \in Requests PROVE RequestInv(req[r])
  BY IdleRequest DEF Init
<1>. QED
  BY <1>2, <1>3, <1>4 DEF IInv

LEMMA NextInv == IInv /\ LockInv /\ [Next]_vars => IInv'
<1>. SUFFICES ASSUME IInv, LockInv, [Next]_vars PROVE IInv'
  OBVIOUS
<1>1. ASSUME NEW u \in Users, NEW v \in Views, NEW c \in Contents, CreatePreview(u, v, c)
      PROVE  IInv'
  BY <1>1, CreatePreviewStep
<1>2. ASSUME NEW r \in Requests, Start(r) PROVE IInv'
  BY <1>2, StartStep
<1>3. ASSUME NEW r \in Requests, Step(r) PROVE IInv'
  BY <1>3, ReadingStep, BeginUpdateStep, TakeRowStep, SubmitStep, RecordUpdateStep,
     RecordDownloadStep DEF Step
<1>4. CASE Crash
  BY <1>4, CrashStep
<1>5. ASSUME NEW r \in Requests, Abort(r) PROVE IInv'
  BY <1>5, AbortStep
<1>6. CASE UNCHANGED vars
  BY <1>6 DEF vars, IInv, TypeOK, ViewInv, IsDecided, DecisionRests, RequestInv, HasSnapshot,
              Available
<1>. QED
  BY <1>1, <1>2, <1>3, <1>4, <1>5, <1>6 DEF Next

(* A row's holder keeps it, whatever the step does elsewhere. *)
LEMMA LocksKept ==
    ASSUME LockInv, NEW r \in Requests,
           \A s \in Requests \ {r} : req'[s] = req[s],
           \A s \in Requests \ {r} : Holds(req[s]) =>
               rowLock'[req[s].view] = s /\ row'[req[s].view] = row[req[s].view],
           Holds(req'[r]) =>
               /\ rowLock'[req'[r].view] = r
               /\ req'[r].pc = "updated" => row'[req'[r].view] = req'[r].expected
    PROVE  LockInv'
<1>1. ASSUME NEW s \in Requests, Holds(req'[s])
      PROVE  /\ rowLock'[req'[s].view] = s
             /\ req'[s].pc = "updated" => row'[req'[s].view] = req'[s].expected
  <2>1. CASE s = r
    BY <1>1, <2>1
  <2>2. CASE s # r
    BY <1>1, <2>2 DEF LockInv
  <2>. QED
    BY <2>1, <2>2
<1>. QED
  BY <1>1 DEF LockInv, Holds

(* a step of a request that neither takes nor gives up a row *)
LEMMA NoLockStep ==
    ASSUME IInv, LockInv, NEW r \in Requests, NEW state, Goto(r, state), ~ Holds(state),
           UNCHANGED <<row, rowLock>>
    PROVE  LockInv'
<1>1. req'[r] = state /\ \A s \in Requests \ {r} : req'[s] = req[s]
  BY DEF Goto, IInv, TypeOK
<1>2. \A s \in Requests \ {r} : Holds(req[s]) => rowLock[req[s].view] = s
  BY DEF LockInv
<1>. QED
  BY <1>1, <1>2, LocksKept

LEMMA IdleHoldsNothing == ~ Holds(Idle)
  BY DEF Holds, Idle

LEMMA NoLockResponse ==
    ASSUME IInv, LockInv, NEW r \in Requests, Respond(r), UNCHANGED <<row, rowLock>>
    PROVE  LockInv'
  BY IdleHoldsNothing, NoLockStep DEF Respond

(* SubmitLock, TakeRow: a row that nobody holds is taken *)
LEMMA RowTaken ==
    ASSUME IInv, LockInv, NEW r \in Requests, NEW state, Goto(r, state), row' = row,
           state.view = req[r].view, req[r].view \in Views, rowLock[req[r].view] = NoRequest,
           rowLock' = [rowLock EXCEPT ![req[r].view] = r],
           state.pc = "updated" => row[state.view] = state.expected
    PROVE  LockInv'
<1>1. req'[r] = state /\ \A s \in Requests \ {r} : req'[s] = req[s]
  BY DEF Goto, IInv, TypeOK
<1>2. ASSUME NEW s \in Requests \ {r}, Holds(req[s]) PROVE rowLock'[req[s].view] = s
  <2>1. rowLock[req[s].view] = s /\ req[s].view \in Views
    BY <1>2 DEF LockInv, IInv, RequestInv, Holds
  <2>. QED
    BY <2>1, NullsAssumption DEF IInv, TypeOK
<1>3. rowLock'[state.view] = r
  BY DEF IInv, TypeOK
<1>. QED
  BY <1>1, <1>2, <1>3, LocksKept

(* the end of a transaction that holds its row, whatever it wrote there *)
LEMMA RowReleased ==
    ASSUME IInv, LockInv, NEW r \in Requests, Respond(r), Holds(req[r]), ReleaseLock(r),
           \A v \in Views \ {req[r].view} : row'[v] = row[v]
    PROVE  LockInv'
<1>1. req'[r] = Idle /\ \A s \in Requests \ {r} : req'[s] = req[s]
  BY DEF Respond, Goto, IInv, TypeOK
<1>2. ASSUME NEW s \in Requests \ {r}, Holds(req[s])
      PROVE  rowLock'[req[s].view] = s /\ row'[req[s].view] = row[req[s].view]
  <2>1. rowLock[req[s].view] = s /\ rowLock[req[r].view] = r /\ req[s].view \in Views
    BY <1>2 DEF LockInv, IInv, RequestInv, Holds
  <2>. QED
    BY <2>1 DEF ReleaseLock, IInv, TypeOK
<1>. QED
  BY <1>1, <1>2, IdleHoldsNothing, LocksKept

LEMMA LockNext == IInv /\ LockInv /\ [Next]_vars => LockInv'
<1>. SUFFICES ASSUME IInv, LockInv, [Next]_vars PROVE LockInv'
  OBVIOUS
<1>1. ASSUME NEW u \in Users, NEW v \in Views, NEW c \in Contents, CreatePreview(u, v, c)
      PROVE  LockInv'
  <2>1. \A s \in Requests : Holds(req[s]) => req[s].view \in Views \ {v}
    BY <1>1 DEF CreatePreview, IInv, RequestInv, Holds
  <2>2. req' = req /\ rowLock' = rowLock /\ \A w \in Views \ {v} : row'[w] = row[w]
    BY <1>1 DEF CreatePreview, IInv, TypeOK
  <2>. QED
    BY <2>1, <2>2 DEF LockInv, Holds
<1>2. ASSUME NEW r \in Requests, Start(r) PROVE LockInv'
  <2>1. ASSUME NEW p, p \notin {"submit_locked", "updated"}, NEW o, NEW u, NEW v,
               Goto(r, [Idle EXCEPT !.pc = p, !.op = o, !.user = u, !.view = v]),
               UNCHANGED <<row, rowLock>>
        PROVE  LockInv'
    <3>1. ~ Holds([Idle EXCEPT !.pc = p, !.op = o, !.user = u, !.view = v])
      BY <2>1 DEF Holds, Idle
    <3>. QED
      BY <2>1, <3>1, NoLockStep
  <2>2. ASSUME NEW u \in Users, NEW v \in Views, StartSubmit(r, u, v) PROVE LockInv'
    BY <2>1, <2>2 DEF StartSubmit
  <2>3. ASSUME NEW u \in Users, NEW v \in Views, StartRefine(r, u, v) PROVE LockInv'
    BY <2>1, <2>3 DEF StartRefine
  <2>4. ASSUME NEW u \in Users, NEW v \in Views, NEW op \in Decisions, StartDecision(r, u, v, op)
        PROVE  LockInv'
    BY <2>1, <2>4 DEF StartDecision
  <2>5. ASSUME NEW u \in Users \cup {NoUser}, NEW v \in Views, StartDownload(r, u, v)
        PROVE  LockInv'
    BY <2>1, <2>5 DEF StartDownload
  <2>. QED
    BY <1>2, <2>2, <2>3, <2>4, <2>5 DEF Start
<1>3. ASSUME NEW r \in Requests, Step(r) PROVE LockInv'
  <2>1. /\ req[r] \in Request /\ RequestInv(req[r])
        /\ req[r].pc # "idle" => req[r].view \in Views
    BY DEF IInv, TypeOK, RequestInv
  <2>2. \A p \in Phases : /\ [req[r] EXCEPT !.pc = p].pc = p
                          /\ [req[r] EXCEPT !.pc = p].view = req[r].view
                          /\ [req[r] EXCEPT !.pc = p].expected = req[r].expected
    BY <2>1 DEF Request
  <2>3. CASE SubmitReplay(r) \/ SubmitConflict(r) \/ SubmitRefresh(r) \/ SubmitInsert(r)
    <3>1. Holds(req[r]) /\ Respond(r) /\ ReleaseLock(r) /\ row' = row
      BY <2>3 DEF SubmitReplay, SubmitConflict, SubmitRefresh, SubmitInsert, EndSubmit, Holds
    <3>. QED
      BY <3>1, RowReleased
  <2>4. CASE SubmitLock(r)
    <3>1. /\ Goto(r, [req[r] EXCEPT !.pc = "submit_locked"]) /\ row' = row
          /\ rowLock[req[r].view] = NoRequest /\ req[r].view \in Views
          /\ rowLock' = [rowLock EXCEPT ![req[r].view] = r]
      BY <2>1, <2>4 DEF SubmitLock
    <3>2. [req[r] EXCEPT !.pc = "submit_locked"].pc = "submit_locked"
          /\ [req[r] EXCEPT !.pc = "submit_locked"].view = req[r].view
      BY <2>2 DEF Phases
    <3>. QED
      BY <3>1, <3>2, RowTaken
  <2>5. CASE TakeRow(r)
    <3>1. CASE Unchanged(req[r].view, req[r].expected)
      <4>1. /\ Goto(r, [req[r] EXCEPT !.pc = "updated"]) /\ row' = row
            /\ rowLock[req[r].view] = NoRequest /\ req[r].view \in Views
            /\ rowLock' = [rowLock EXCEPT ![req[r].view] = r]
            /\ row[req[r].view] = req[r].expected
        BY <2>1, <2>5, <3>1 DEF TakeRow, HoldUpdated, Unchanged
      <4>2. [req[r] EXCEPT !.pc = "updated"].view = req[r].view
            /\ [req[r] EXCEPT !.pc = "updated"].expected = req[r].expected
        BY <2>2 DEF Phases
      <4>. QED
        BY <4>1, <4>2, RowTaken
    <3>2. CASE ~ Unchanged(req[r].view, req[r].expected)
      BY <2>5, <3>2, NoLockResponse DEF TakeRow
    <3>. QED
      BY <3>1, <3>2
  <2>6. CASE RecordUpdate(r)
    <3>1. Holds(req[r]) /\ Respond(r) /\ ReleaseLock(r)
      BY <2>6 DEF RecordUpdate, Holds
    <3>2. \A v \in Views \ {req[r].view} : row'[v] = row[v]
      BY <2>6 DEF RecordUpdate, IInv, TypeOK
    <3>. QED
      BY <3>1, <3>2, RowReleased
  <2>7. CASE RecordDownload(r)
    BY <2>7, NoLockResponse DEF RecordDownload
  <2>8. CASE RefineCheckSubmission(r) \/ CheckSeparation(r)
    <3>1. \A p \in {"refine_planning", "decision_cleared"} : ~ Holds([req[r] EXCEPT !.pc = p])
      BY <2>2 DEF Holds, Phases
    <3>. QED
      BY <2>8, <3>1, NoLockStep, NoLockResponse DEF RefineCheckSubmission, CheckSeparation
  <2>9. CASE RefineRead(r) \/ ReadForDecision(r)
    <3>1. ASSUME NEW p \in {"refine_read", "decision_ready"}, NEW old
          PROVE  ~ Holds([req[r] EXCEPT !.pc = p, !.expected = old])
      <4>1. [req[r] EXCEPT !.pc = p, !.expected = old].pc = p
        BY <2>1 DEF Request
      <4>. QED
        BY <4>1 DEF Holds
    <3>2. CASE Respond(r) /\ UNCHANGED <<row, rowLock>>
      BY <3>2, NoLockResponse
    <3>3. CASE \E p \in {"refine_read", "decision_ready"} : \E old :
                  /\ Goto(r, [req[r] EXCEPT !.pc = p, !.expected = old])
                  /\ UNCHANGED <<row, rowLock>>
      BY <3>1, <3>3, NoLockStep
    <3>. QED
      BY <2>9, <3>2, <3>3 DEF RefineRead, ReadForDecision
  <2>10. CASE DecisionUpdate(r) \/ \E c \in Contents : RefineUpdate(r, c)
    <3>1. PICK next : BeginUpdate(r, next)
      BY <2>10 DEF DecisionUpdate, RefineUpdate
    <3>2. [req[r] EXCEPT !.pc = "updating", !.next = next].pc = "updating"
      BY <2>1 DEF Request
    <3>3. ~ Holds([req[r] EXCEPT !.pc = "updating", !.next = next])
      BY <3>2 DEF Holds
    <3>. QED
      BY <3>1, <3>3, NoLockStep, NoLockResponse DEF BeginUpdate
  <2>. QED
    BY <1>3, <2>3, <2>4, <2>5, <2>6, <2>7, <2>8, <2>9, <2>10 DEF Step
<1>4. ASSUME NEW r \in Requests, Abort(r) PROVE LockInv'
  <2>1. req'[r] = Idle /\ \A s \in Requests \ {r} : req'[s] = req[s]
    BY <1>4 DEF Abort, Respond, Goto, IInv, TypeOK
  <2>2. ASSUME NEW s \in Requests \ {r}, Holds(req[s])
        PROVE  rowLock'[req[s].view] = s /\ row'[req[s].view] = row[req[s].view]
    <3>1. rowLock[req[s].view] = s /\ req[s].view \in Views
      BY <2>2 DEF LockInv, IInv, RequestInv, Holds
    <3>. QED
      BY <1>4, <3>1 DEF Abort
  <2>. QED
    BY <2>1, <2>2, IdleHoldsNothing, LocksKept
<1>5. CASE Crash
  BY <1>5, IdleHoldsNothing DEF Crash, LockInv, Holds
<1>6. CASE UNCHANGED vars
  BY <1>6 DEF vars, LockInv, Holds
<1>. QED
  BY <1>1, <1>2, <1>3, <1>4, <1>5, <1>6 DEF Next

LEMMA SpecInv == Spec => [](IInv /\ LockInv)
<1>1. Init => LockInv
  BY IdleHoldsNothing DEF Init, LockInv, Holds
<1>. QED
  BY <1>1, InitInv, NextInv, LockNext, PTL DEF Spec

-----------------------------------------------------------------------------
(* The theorems *)

\* Type correctness: rows, submissions, audit events, locks and requests keep their types.
THEOREM TypeCorrect == Spec => []TypeOK
<1>1. IInv => TypeOK
  BY DEF IInv
<1>. QED
  BY <1>1, SpecInv, PTL

\* Whatever is in flight, a decision is the next revision after the submitted snapshot, on the
\* submitted content or its policy repair (service.decide, approve_recommended_alternative,
\* save_if_revision).
THEOREM DecisionsRestOnSubmissions == Spec => []DecisionRestsOnSubmission
<1>1. IInv => DecisionRestsOnSubmission
  BY DEF IInv, ViewInv, DecisionRests, HasSnapshot, DecisionRestsOnSubmission
<1>. QED
  BY <1>1, SpecInv, PTL

\* A view is only ever decided by an approver who neither created nor submitted it
\* (main.enforce_separation_of_duties).
THEOREM DutiesAreSeparated == Spec => []SeparationOfDuties
<1>1. IInv => SeparationOfDuties
  BY DEF IInv, ViewInv, DecisionRests, SeparationOfDuties
<1>. QED
  BY <1>1, SpecInv, PTL

\* Evidence is issued exactly for approved views, for their stored content and their reviewer,
\* and never over a blocking finding (materializer.create_evidence).
THEOREM EvidenceIsSound == Spec => []EvidenceCertifiesApproval
<1>1. IInv => EvidenceCertifiesApproval
  BY DEF IInv, ViewInv, RowCertified, EvidenceCertifiesApproval
<1>. QED
  BY <1>1, SpecInv, PTL

-----------------------------------------------------------------------------
(***************************************************************************)
(* The audit log.  What a write records is appended to the events of its   *)
(* view in the same transaction; the event continues the log because the   *)
(* row still is what the request expects.                                  *)
(***************************************************************************)

(* the first n events of a view tell its row, and behind them are downloads *)
Tells(v, n) ==
    /\ \A i \in 1 .. n : Continues(audit[v], i)
    /\ audit[v][n].revision = row[v].revision
    /\ audit[v][n].to = row[v].status
    /\ \A i \in DOMAIN audit[v] : i > n => audit[v][i].action = "downloaded"
    /\ n < Len(audit[v]) => row[v].status = "approved"

(* what AuditReplaysHistory says of one view, and that a submission is filed iff recorded *)
AuditInv(v) ==
    IF row[v] = NoRow
    THEN audit[v] = << >>
    ELSE /\ \E n \in DOMAIN audit[v] : Tells(v, n)
         /\ \A i, j \in Filings(v) : i = j
         /\ Filings(v) # {} <=> submission[v] # NoSubmission

(* The log with one more event. *)
LEMMA LongerLog ==
    ASSUME NEW log \in Seq(Event), NEW e \in Event
    PROVE  /\ Append(log, e) \in Seq(Event)
           /\ Append(log, e) # << >>
           /\ Len(Append(log, e)) = Len(log) + 1
           /\ DOMAIN Append(log, e) = DOMAIN log \cup {Len(log) + 1}
           /\ \A i \in DOMAIN log : Append(log, e)[i] = log[i]
           /\ Append(log, e)[Len(log) + 1] = e
           /\ Len(log) + 1 \notin DOMAIN log
  OBVIOUS

(* What an event continues is before it. *)
LEMMA ContinuedPrefix ==
    ASSUME NEW log \in Seq(Event), NEW e \in Event, NEW i \in DOMAIN log, Continues(log, i)
    PROVE  Continues(Append(log, e), i)
<1>. DEFINE longer == Append(log, e)
<1>1. longer[i] = log[i]
  BY LongerLog
<1>2. CASE i = 1
  <2>. HIDE DEF longer
  <2>. QED
    BY <1>1, <1>2 DEF Continues
<1>3. CASE i # 1
  <2>1. i - 1 \in DOMAIN log
    BY <1>3
  <2>2. longer[i - 1] = log[i - 1]
    BY <2>1, LongerLog
  <2>. HIDE DEF longer
  <2>. QED
    BY <1>1, <1>3, <2>2 DEF Continues
<1>. QED
  BY <1>2, <1>3

(* An event that continues the log leaves one in which every event does. *)
LEMMA ContinuedLog ==
    ASSUME NEW log \in Seq(Event), NEW e \in Event, log # << >>,
           \A i \in DOMAIN log : Continues(log, i),
           e.action # "created",
           e.from = log[Len(log)].to,
           e.from \in Open,
           IF e.action = "submitted"
           THEN e.revision = log[Len(log)].revision /\ e.to = e.from
           ELSE e.revision = log[Len(log)].revision + 1
    PROVE  \A i \in DOMAIN Append(log, e) : Continues(Append(log, e), i)
<1>. DEFINE longer == Append(log, e)
<1>1. ASSUME NEW i \in DOMAIN log PROVE Continues(longer, i)
  BY ContinuedPrefix
<1>2. Continues(longer, Len(log) + 1)
  <2>1. Len(log) \in DOMAIN log /\ Len(log) + 1 # 1 /\ (Len(log) + 1) - 1 = Len(log)
    OBVIOUS
  <2>2. longer[Len(log) + 1] = e /\ longer[Len(log)] = log[Len(log)]
    BY <2>1, LongerLog
  <2>. HIDE DEF longer
  <2>. QED
    BY <2>1, <2>2 DEF Continues
<1>3. DOMAIN longer = DOMAIN log \cup {Len(log) + 1}
  BY LongerLog
<1>. QED
  BY <1>1, <1>2, <1>3

(* A step that leaves a view's tables alone. *)
LEMMA AuditUntouched ==
    ASSUME NEW v \in Views, AuditInv(v), row'[v] = row[v], audit'[v] = audit[v],
           submission'[v] = NoSubmission <=> submission[v] = NoSubmission
    PROVE  AuditInv(v)'
  BY DEF AuditInv, Tells, Filings

(* A transaction that writes a view and records it. *)
LEMMA AuditRecorded ==
    ASSUME TypeOK, NEW v \in Views, AuditInv(v), row[v] # NoRow, NEW e \in Event,
           Record(v, e), row'[v] # NoRow,
           e.from = row[v].status, e.from \in Open, e.action # "created",
           e.to = row'[v].status, e.revision = row'[v].revision,
           IF e.action = "submitted"
           THEN /\ row'[v] = row[v]
                /\ submission[v] = NoSubmission
                /\ submission'[v] # NoSubmission
           ELSE /\ row'[v].revision = row[v].revision + 1
                /\ submission'[v] = submission[v]
    PROVE  AuditInv(v)'
<1>. DEFINE log == audit[v]
<1>1. log \in Seq(Event) /\ audit'[v] = Append(log, e)
  BY DEF TypeOK, Record
<1>2. /\ log # << >>
      /\ \A i \in DOMAIN log : Continues(log, i)
      /\ log[Len(log)].revision = row[v].revision
      /\ log[Len(log)].to = row[v].status
  <2>1. PICK n \in DOMAIN log : Tells(v, n)
    BY DEF AuditInv
  <2>2. n = Len(log)
    BY <1>1, <2>1 DEF Tells, Open
  <2>3. DOMAIN log = 1 .. Len(log)
    BY <1>1
  <2>. QED
    BY <1>1, <2>1, <2>2, <2>3 DEF Tells
<1>3. \A i \in DOMAIN audit'[v] : Continues(audit'[v], i)
  BY <1>1, <1>2, ContinuedLog
<1>4. \E n \in DOMAIN audit'[v] : Tells(v, n)'
  <2>. DEFINE longer == Append(log, e)
  <2>1. /\ Len(longer) = Len(log) + 1 /\ Len(log) \in Nat
        /\ DOMAIN longer = 1 .. Len(longer)
        /\ longer[Len(longer)] = e
    BY <1>1, LongerLog
  <2>. HIDE DEF longer, log
  <2>2. audit'[v] = longer
    BY <1>1 DEF longer, log
  <2>3. PICK k \in Nat : k = Len(log) + 1
    BY <2>1
  <2>4. k \in DOMAIN audit'[v] /\ Len(audit'[v]) = k /\ audit'[v][k] = e
        /\ DOMAIN audit'[v] = 1 .. k
    BY <2>1, <2>2, <2>3
  <2>5. Tells(v, k)'
    BY <1>3, <2>4 DEF Tells
  <2>. QED
    BY <2>4, <2>5
<1>5. Filings(v)' = IF e.action = "submitted" THEN Filings(v) \cup {Len(log) + 1}
                                              ELSE Filings(v)
  <2>1. /\ DOMAIN audit'[v] = DOMAIN log \cup {Len(log) + 1}
        /\ \A i \in DOMAIN log : audit'[v][i] = log[i]
        /\ audit'[v][Len(log) + 1] = e
        /\ Len(log) + 1 \notin DOMAIN log
    BY <1>1, LongerLog
  <2>. QED
    BY <2>1 DEF Filings
<1>6. /\ \A i, j \in Filings(v)' : i = j
      /\ Filings(v)' # {} <=> submission'[v] # NoSubmission
  BY <1>5 DEF AuditInv
<1>. QED
  BY <1>4, <1>6 DEF AuditInv

(* An approved view's download. *)
LEMMA DownloadAudited ==
    ASSUME IInv, NEW r \in Requests, RecordDownload(r),
           \A w \in Views : AuditInv(w)
    PROVE  \A w \in Views : AuditInv(w)'
<1>1. TypeOK /\ RequestInv(req[r]) /\ req[r].pc = "downloading" /\ UNCHANGED <<row, submission>>
  BY DEF IInv, RecordDownload
<1>2. PICK v \in Views : v = req[r].view
  BY <1>1 DEF RequestInv
<1>3. PICK u \in Users \cup {NoUser} : u = req[r].user
  BY <1>1 DEF RequestInv
<1>. DEFINE e == [action |-> "downloaded", actor |-> u,
                  from |-> "approved", to |-> "approved", revision |-> 0]
            log == audit[v]
<1>4. e \in Event /\ e.action = "downloaded"
  BY DEF Event, Statuses
<1>5. log \in Seq(Event) /\ audit' = [audit EXCEPT ![v] = Append(log, e)]
  BY <1>1, <1>2, <1>3 DEF RecordDownload, Record, TypeOK
<1>6. row[v] # NoRow /\ row[v].status = "approved" /\ AuditInv(v)
  BY <1>1, <1>2 DEF RequestInv, Available
<1>. HIDE DEF e
<1>7. /\ audit'[v] = Append(log, e)
      /\ \A w \in Views \ {v} : audit'[w] = audit[w]
  BY <1>1, <1>5 DEF TypeOK
<1>8. /\ DOMAIN audit'[v] = DOMAIN log \cup {Len(log) + 1}
      /\ \A i \in DOMAIN log : audit'[v][i] = log[i]
      /\ audit'[v][Len(log) + 1] = e
      /\ DOMAIN log = 1 .. Len(log) /\ Len(log) \in Nat
  BY <1>4, <1>5, <1>7, LongerLog
<1>9. PICK n \in DOMAIN log : Tells(v, n)
  BY <1>6 DEF AuditInv
<1>10. \A i \in 1 .. n : Continues(audit'[v], i)
  <2>1. ASSUME NEW i \in 1 .. n PROVE Continues(audit'[v], i)
    <3>1. i \in DOMAIN log /\ Continues(log, i)
      BY <1>8, <1>9 DEF Tells
    <3>. QED
      BY <1>4, <1>5, <1>7, <3>1, ContinuedPrefix
  <2>. QED
    BY <2>1
<1>11. \A i \in DOMAIN audit'[v] : i > n => audit'[v][i].action = "downloaded"
  BY <1>4, <1>8, <1>9 DEF Tells
<1>12. Tells(v, n)'
  BY <1>1, <1>6, <1>8, <1>9, <1>10, <1>11 DEF Tells
<1>13. Filings(v)' = Filings(v)
  BY <1>4, <1>8 DEF Filings
<1>14. AuditInv(v)'
  BY <1>1, <1>6, <1>8, <1>12, <1>13 DEF AuditInv
<1>15. ASSUME NEW w \in Views, w # v PROVE AuditInv(w)'
  BY <1>1, <1>7, <1>15, AuditUntouched
<1>. QED
  BY <1>14, <1>15

LEMMA PreviewAudited ==
    ASSUME IInv, NEW u \in Users, NEW v \in Views, NEW c \in Contents, CreatePreview(u, v, c),
           \A w \in Views : AuditInv(w)
    PROVE  \A w \in Views : AuditInv(w)'
<1>. DEFINE e == [action |-> "created", actor |-> u, from |-> "none",
                  to |-> StatusOf(c), revision |-> 1]
<1>1. /\ TypeOK /\ row[v] = NoRow /\ submission' = submission
      /\ row' = [row EXCEPT ![v] = NewRow(u, c)]
      /\ audit' = [audit EXCEPT ![v] = Append(@, e)]
  BY DEF IInv, CreatePreview, Record
<1>2. audit[v] = << >> /\ submission[v] = NoSubmission
  BY <1>1 DEF AuditInv, IInv, ViewInv
<1>3. row'[v] = NewRow(u, c) /\ audit'[v] = << e >>
  BY <1>1, <1>2 DEF TypeOK
<1>4. AuditInv(v)'
  <2>1. /\ NewRow(u, c) \in Row /\ NewRow(u, c).revision = 1
        /\ NewRow(u, c).status = StatusOf(c)
    BY DEF NewRow, Row, Statuses, StatusOf
  <2>2. row'[v] # NoRow
    BY <1>3, <2>1, NullsAssumption
  <2>3. DOMAIN audit'[v] = {1} /\ Len(audit'[v]) = 1 /\ audit'[v][1] = e
    BY <1>3
  <2>4. Filings(v)' = {}
    BY <2>3 DEF Filings
  <2>. QED
    BY <1>1, <1>2, <1>3, <2>1, <2>2, <2>3, <2>4 DEF AuditInv, Tells, Continues
<1>5. ASSUME NEW w \in Views, w # v PROVE AuditInv(w)'
  BY <1>1, <1>5, AuditUntouched DEF TypeOK
<1>. QED
  BY <1>4, <1>5

LEMMA SubmissionAudited ==
    ASSUME IInv, NEW r \in Requests, SubmitRefresh(r) \/ SubmitInsert(r),
           \A w \in Views : AuditInv(w)
    PROVE  \A w \in Views : AuditInv(w)'
<1>1. /\ TypeOK
      /\ req[r] \in Request
      /\ RequestInv(req[r])
      /\ req[r].pc = "submit_locked"
  BY DEF IInv, TypeOK, SubmitRefresh, SubmitInsert
<1>2. PICK v \in Views : v = req[r].view
  BY <1>1 DEF RequestInv
<1>3. PICK u \in Users : u = req[r].user
  BY <1>1 DEF RequestInv
<1>4. /\ row[v] \in Row /\ row[v] # NoRow
      /\ ViewInv(v)
  BY <1>1, <1>2 DEF IInv, TypeOK, RequestInv
<1>5. /\ ~ HasSnapshot(v)
      /\ submission' = [submission EXCEPT ![v] = [by |-> u, snapshot |-> row[v]]]
      /\ row' = row
  BY <1>2, <1>3 DEF SubmitRefresh, SubmitInsert, EndSubmit, HasSnapshot, IsLegacy
<1>6. submission'[v] # NoSubmission
  BY <1>1, <1>4, <1>5, NullsAssumption DEF TypeOK, Submission
<1>7. row[v].status \in Open
  BY <1>4, <1>5 DEF ViewInv, DecisionRests, IsDecided
<1>8. CASE SubmitRefresh(r)
  <2>1. audit' = audit /\ submission[v] # NoSubmission
    BY <1>2, <1>8 DEF SubmitRefresh
  <2>2. ASSUME NEW w \in Views PROVE AuditInv(w)'
    BY <1>1, <1>5, <1>6, <2>1, AuditUntouched DEF TypeOK
  <2>. QED
    BY <2>2
<1>9. CASE SubmitInsert(r)
  <2>. DEFINE e == [action |-> "submitted", actor |-> u, from |-> row[v].status,
                    to |-> row[v].status, revision |-> row[v].revision]
  <2>1. Record(v, e) /\ submission[v] = NoSubmission
    BY <1>2, <1>3, <1>9 DEF SubmitInsert
  <2>2. /\ e \in Event /\ e.action = "submitted" /\ e.from = row[v].status
        /\ e.to = row[v].status /\ e.revision = row[v].revision
    BY <1>4 DEF Event, Row
  <2>. HIDE DEF e
  <2>3. AuditInv(v)'
    BY <1>1, <1>4, <1>5, <1>6, <1>7, <2>1, <2>2, AuditRecorded
  <2>4. ASSUME NEW w \in Views, w # v PROVE AuditInv(w)'
    BY <1>1, <1>5, <2>1, <2>4, AuditUntouched DEF TypeOK, Record
  <2>. QED
    BY <2>3, <2>4
<1>. QED
  BY <1>8, <1>9

LEMMA UpdateAudited ==
    ASSUME IInv, LockInv, NEW r \in Requests, RecordUpdate(r),
           \A w \in Views : AuditInv(w)
    PROVE  \A w \in Views : AuditInv(w)'
<1>1. /\ TypeOK
      /\ req[r] \in Request
      /\ RequestInv(req[r])
      /\ req[r].pc = "updated"
      /\ row[req[r].view] = req[r].expected
  BY DEF IInv, TypeOK, RecordUpdate, LockInv, Holds
<1>v. PICK v \in Views : v = req[r].view
  BY <1>1 DEF RequestInv
<1>q. PICK q \in Request : q = req[r]
  BY <1>1
<1>. DEFINE e == [action |-> ActionOf(q.op), actor |-> q.user,
                  from |-> q.expected.status, to |-> q.next.status,
                  revision |-> q.next.revision]
<1>2. row' = [row EXCEPT ![v] = q.next] /\ submission' = submission /\ Record(v, e)
  BY <1>v, <1>q DEF RecordUpdate
<1>3. /\ row[v] = q.expected /\ q.expected \in Row /\ q.expected.status \in Open
      /\ row[v] # NoRow
      /\ q.user \in Users
      /\ q.op \in Decisions \cup {"refine"}
  BY <1>1, <1>v, <1>q, NullsAssumption DEF RequestInv
<1>4. q.next \in Row /\ q.next.revision = q.expected.revision + 1
  <2>1. CASE q.op = "refine"
    <3>1. PICK c \in Contents : q.next = Refined(q.expected, c)
      BY <1>1, <1>q, <2>1 DEF RequestInv
    <3>. QED
      BY <1>3, <3>1, RefinedRow
  <2>2. CASE q.op \in Decisions
    <3>1. q.next = Decided(q.op, q.expected, q.user) /\ Decidable(q.op, q.expected)
      BY <1>1, <1>q, <2>2 DEF RequestInv
    <3>. QED
      BY <1>3, <2>2, <3>1, DecidedRow
  <2>. QED
    BY <1>3, <2>1, <2>2
<1>5. row'[v] = q.next /\ q.next # NoRow
  BY <1>1, <1>2, <1>4, NullsAssumption DEF TypeOK
<1>6. /\ e \in Event /\ e.from = row[v].status /\ e.to = q.next.status
      /\ e.revision = q.next.revision
      /\ e.action \notin {"created", "submitted"}
  <2>1. ActionOf(q.op) \in {"refined", "rejected", "approved", "approved_alternative"}
    BY DEF ActionOf
  <2>. QED
    BY <1>3, <1>4, <2>1 DEF Event, Row
<1>. HIDE DEF e
<1>7. AuditInv(v)'
  BY <1>1, <1>2, <1>3, <1>4, <1>5, <1>6, AuditRecorded
<1>8. ASSUME NEW w \in Views, w # v PROVE AuditInv(w)'
  BY <1>1, <1>2, <1>8, AuditUntouched DEF TypeOK, Record
<1>. QED
  BY <1>7, <1>8

LEMMA NextAudited ==
    (\A v \in Views : AuditInv(v)) /\ IInv /\ LockInv /\ [Next]_vars =>
        (\A v \in Views : AuditInv(v))'
<1>. SUFFICES ASSUME \A v \in Views : AuditInv(v), IInv, LockInv, [Next]_vars
              PROVE  \A v \in Views : AuditInv(v)'
  OBVIOUS
<1>1. CASE row' = row /\ submission' = submission /\ audit' = audit
  BY <1>1, AuditUntouched
<1>2. ASSUME NEW u \in Users, NEW v \in Views, NEW c \in Contents, CreatePreview(u, v, c)
      PROVE  \A w \in Views : AuditInv(w)'
  BY <1>2, PreviewAudited
<1>3. ASSUME NEW r \in Requests, Start(r) PROVE \A v \in Views : AuditInv(v)'
  BY <1>1, <1>3 DEF Start, StartSubmit, StartRefine, StartDecision, StartDownload
<1>4. ASSUME NEW r \in Requests, Step(r) PROVE \A v \in Views : AuditInv(v)'
  <2>1. CASE SubmitRefresh(r) \/ SubmitInsert(r)
    BY <2>1, SubmissionAudited
  <2>2. CASE RecordUpdate(r) \/ RecordDownload(r)
    BY <2>2, UpdateAudited, DownloadAudited
  <2>3. CASE \/ SubmitLock(r) \/ SubmitReplay(r) \/ SubmitConflict(r)
             \/ RefineRead(r) \/ RefineCheckSubmission(r)
             \/ CheckSeparation(r) \/ ReadForDecision(r) \/ TakeRow(r)
    BY <1>1, <2>3 DEF SubmitLock, SubmitReplay, SubmitConflict, EndSubmit, RefineRead,
                      RefineCheckSubmission, CheckSeparation, ReadForDecision, TakeRow,
                      HoldUpdated
  <2>4. CASE DecisionUpdate(r) \/ \E c \in Contents : RefineUpdate(r, c)
    BY <1>1, <2>4 DEF DecisionUpdate, RefineUpdate, BeginUpdate
  <2>. QED
    BY <1>4, <2>1, <2>2, <2>3, <2>4 DEF Step
<1>5. CASE Crash
  BY <1>1, <1>5 DEF Crash
<1>6. ASSUME NEW r \in Requests, Abort(r) PROVE \A v \in Views : AuditInv(v)'
  BY <1>1, <1>6 DEF Abort
<1>7. CASE UNCHANGED vars
  BY <1>1, <1>7 DEF vars
<1>. QED
  BY <1>2, <1>3, <1>4, <1>5, <1>6, <1>7 DEF Next

LEMMA InitAudited == Init => \A v \in Views : AuditInv(v)
<1>. SUFFICES ASSUME Init, NEW v \in Views PROVE AuditInv(v)
  OBVIOUS
<1>1. CASE row[v] = NoRow
  BY <1>1 DEF Init, AuditInv
<1>2. CASE row[v] # NoRow
  <2>1. PICK u \in Users, c \in Contents : row[v] = NewRow(u, c)
    BY <1>2 DEF Init, LegacyRow
  <2>2. /\ row[v].revision = 1 /\ row[v].status \in Open /\ row[v].creator = u
        /\ row[v] \in Row
    BY <2>1 DEF NewRow, Row, Statuses, StatusOf, Open
  <2>. DEFINE created == [action |-> "created", actor |-> u, from |-> "none",
                          to |-> row[v].status, revision |-> 1]
              filed == [action |-> "submitted", actor |-> u, from |-> row[v].status,
                        to |-> row[v].status, revision |-> 1]
  <2>3. audit[v] = << created, filed >>
    BY <1>2, <2>2 DEF Init
  <2>4. submission[v] # NoSubmission
    <3>1. submission[v] = [by |-> u, snapshot |-> NoRow]
      BY <1>2, <2>2 DEF Init
    <3>. QED
      BY <3>1, NullsAssumption DEF Submission
  <2>5. /\ DOMAIN audit[v] = {1, 2} /\ Len(audit[v]) = 2
        /\ audit[v][1] = created /\ audit[v][2] = filed
    BY <2>3
  <2>6. Filings(v) = {2}
    BY <2>5 DEF Filings
  <2>7. Continues(audit[v], 1) /\ Continues(audit[v], 2)
    BY <2>2, <2>5 DEF Continues
  <2>. QED
    BY <1>2, <2>2, <2>4, <2>5, <2>6, <2>7 DEF AuditInv, Tells
<1>. QED
  BY <1>1, <1>2

\* The audit events replay the history of each view, however many requests race for it: no update
\* is lost or unrecorded, a decision follows the one submission, and is followed by nothing but
\* the downloads of what was approved (save_if_revision and submit_for_approval, each with its
\* event in one transaction, and record_data_download).
THEOREM HistoryIsReplayed == Spec => []AuditReplaysHistory
<1>. DEFINE AInv == \A v \in Views : AuditInv(v)
<1>1. Init => AInv
  BY InitAudited
<1>2. AInv /\ IInv /\ LockInv /\ [Next]_vars => AInv'
  BY NextAudited
<1>3. AInv /\ IInv => AuditReplaysHistory
  BY DEF AuditReplaysHistory, AuditInv, Tells, IInv, ViewInv, DecisionRests, HasSnapshot
<1>. HIDE DEF AInv
<1>. QED
  BY <1>1, <1>2, <1>3, SpecInv, PTL DEF Spec

-----------------------------------------------------------------------------
(* A submitted view changes at most once *)

(* An UPDATE that has begun was read from a row no newer than the one      *)
(* stored, and once the submitted row is overtaken it cannot match again.  *)
Updating(q) == q.pc \in {"updating", "updated"}

UpdateInv(q) ==
    Updating(q) =>
        /\ q.expected.revision <= row[q.view].revision
        /\ HasSnapshot(q.view) /\ row[q.view] = q.expected =>
               row[q.view] = submission[q.view].snapshot

LEMMA UpdateUntouched ==
    ASSUME NEW q, Updating(q) => row'[q.view] = row[q.view]
                                  /\ (HasSnapshot(q.view)' => HasSnapshot(q.view))
                                  /\ submission'[q.view] = submission[q.view],
           UpdateInv(q)
    PROVE  UpdateInv(q)'
  BY DEF UpdateInv, Updating, HasSnapshot

(* The UPDATE begins only on what was read, and, for a submitted view, only *)
(* on what was submitted: a refinement finds the submission, a decision     *)
(* compares the snapshot.                                                   *)
LEMMA BegunUpdates ==
    ASSUME IInv, NEW r \in Requests, NEW next, BeginUpdate(r, next),
           req[r].pc \in {"refine_planning", "decision_ready"},
           \A s \in Requests : UpdateInv(req[s])
    PROVE  \A s \in Requests : UpdateInv(req[s])'
<1>1. TypeOK /\ RequestInv(req[r]) /\ row' = row /\ submission' = submission
  BY DEF IInv, BeginUpdate
<1>2. ASSUME NEW s \in Requests, s # r PROVE UpdateInv(req[s])'
  <2>1. req'[s] = req[s]
    BY <1>1, <1>2 DEF BeginUpdate, Goto, Respond, TypeOK
  <2>. QED
    BY <1>1, <2>1, UpdateUntouched DEF UpdateInv, HasSnapshot
<1>3. CASE ~ (Unchanged(req[r].view, req[r].expected)
                 /\ SubmissionClause(req[r].op, req[r].view))
  <2>1. req'[r] = Idle
    BY <1>1, <1>3 DEF BeginUpdate, Respond, Goto, TypeOK
  <2>. QED
    BY <1>2, <2>1 DEF UpdateInv, Updating, Idle
<1>4. CASE Unchanged(req[r].view, req[r].expected)
               /\ SubmissionClause(req[r].op, req[r].view)
  <2>1. req'[r] = [req[r] EXCEPT !.pc = "updating", !.next = next]
    BY <1>1, <1>4 DEF BeginUpdate, Goto, TypeOK
  <2>2. req'[r].view = req[r].view /\ req'[r].expected = req[r].expected
    BY <1>1, <2>1 DEF TypeOK, Request
  <2>3. row[req[r].view] = req[r].expected /\ req[r].expected \in Row
        /\ req[r].expected.status \in Open
        /\ req[r].op \in Decisions \cup {"refine"}
    BY <1>1, <1>4 DEF Unchanged, RequestInv
  <2>4. HasSnapshot(req[r].view) => row[req[r].view] = submission[req[r].view].snapshot
    BY <1>4, <2>3 DEF SubmissionClause, Matches, HasSnapshot, Decisions
  <2>5. UpdateInv(req[r])'
    BY <1>1, <2>2, <2>3, <2>4 DEF UpdateInv, HasSnapshot, Row
  <2>. QED
    BY <1>2, <2>5
<1>. QED
  BY <1>3, <1>4

(* What a step must do to keep UpdateInv and to be allowed a submitted view. *)
ChangesAtMostOnce ==
    \A v \in Views : HasSnapshot(v) =>
        /\ submission'[v] = submission[v]
        /\ row'[v] # row[v] => /\ row[v] = submission[v].snapshot
                               /\ row'[v].revision = row[v].revision + 1

LEMMA FinishedUpdates ==
    ASSUME IInv, LockInv, NEW r \in Requests, RecordUpdate(r),
           \A s \in Requests : UpdateInv(req[s])
    PROVE  (\A s \in Requests : UpdateInv(req[s])') /\ ChangesAtMostOnce
<1>. DEFINE v == req[r].view
            next == req[r].next
<1>1. /\ TypeOK /\ RequestInv(req[r]) /\ req[r].pc = "updated" /\ req[r] \in Request
      /\ v \in Views /\ submission' = submission /\ row' = [row EXCEPT ![v] = next]
      /\ row[v] = req[r].expected
  BY DEF IInv, TypeOK, RecordUpdate, RequestInv, LockInv, Holds
<1>2. req'[r] = Idle /\ \A s \in Requests \ {r} : req'[s] = req[s]
  BY <1>1 DEF RecordUpdate, Respond, Goto, TypeOK
<1>3. row[v] \in Row
  BY <1>1 DEF RequestInv
<1>4. next.revision = row[v].revision + 1 /\ row'[v] = next
      /\ \A w \in Views \ {v} : row'[w] = row[w]
  <2>1. CASE req[r].op = "refine"
    BY <1>1, <1>3, <2>1, RefinedRow DEF RequestInv, TypeOK
  <2>2. CASE req[r].op \in Decisions
    BY <1>1, <1>3, <2>2, DecidedRow DEF RequestInv, TypeOK
  <2>. QED
    BY <1>1, <2>1, <2>2 DEF RequestInv
<1>5. HasSnapshot(v) => row[v] = submission[v].snapshot
  BY <1>1 DEF UpdateInv, Updating
<1>6. ChangesAtMostOnce
  BY <1>1, <1>4, <1>5 DEF ChangesAtMostOnce
<1>7. ASSUME NEW s \in Requests PROVE UpdateInv(req[s])'
  <2>1. CASE s = r
    BY <1>2, <2>1 DEF UpdateInv, Updating, Idle
  <2>2. CASE s # r /\ Updating(req[s]) /\ req[s].view = v
    <3>1. req[s].expected.revision <= row[v].revision
          /\ req[s].expected.revision \in Nat /\ row[v].revision \in Nat
      <4>1. RequestInv(req[s]) /\ UpdateInv(req[s])
        BY DEF IInv
      <4>. QED
        BY <1>3, <2>2, <4>1 DEF RequestInv, UpdateInv, Updating, Row
    <3>2. row'[v] # req[s].expected /\ req[s].expected.revision <= row'[v].revision
      BY <1>4, <3>1
    <3>. QED
      BY <1>2, <2>2, <3>2 DEF UpdateInv
  <2>3. CASE s # r /\ (~ Updating(req[s]) \/ req[s].view # v)
    <3>1. Updating(req[s]) => req[s].view \in Views
      BY DEF IInv, RequestInv, Updating
    <3>. QED
      BY <1>1, <1>2, <1>4, <2>3, <3>1 DEF UpdateInv, Updating, HasSnapshot
  <2>. QED
    BY <2>1, <2>2, <2>3
<1>. QED
  BY <1>6, <1>7

LEMMA FiledOnce ==
    ASSUME IInv, NEW r \in Requests, SubmitRefresh(r) \/ SubmitInsert(r),
           \A s \in Requests : UpdateInv(req[s])
    PROVE  (\A s \in Requests : UpdateInv(req[s])') /\ ChangesAtMostOnce
<1>1. /\ TypeOK /\ RequestInv(req[r]) /\ req[r].pc = "submit_locked"
      /\ req[r].view \in Views /\ row' = row
  BY DEF IInv, SubmitRefresh, SubmitInsert, EndSubmit, RequestInv
<1>. DEFINE v == req[r].view
            filed == [by |-> req[r].user, snapshot |-> row[v]]
<1>2. ~ HasSnapshot(v) /\ submission' = [submission EXCEPT ![v] = filed]
  BY <1>1 DEF SubmitRefresh, SubmitInsert, HasSnapshot, IsLegacy
<1>3. submission'[v].snapshot = row[v] /\ \A w \in Views \ {v} : submission'[w] = submission[w]
  BY <1>1, <1>2 DEF TypeOK
<1>4. req'[r] = Idle /\ \A s \in Requests \ {r} : req'[s] = req[s]
  BY <1>1 DEF SubmitRefresh, SubmitInsert, EndSubmit, Respond, Goto, TypeOK
<1>5. ChangesAtMostOnce
  BY <1>1, <1>2, <1>3 DEF ChangesAtMostOnce
<1>6. ASSUME NEW s \in Requests PROVE UpdateInv(req[s])'
  <2>1. CASE s = r
    BY <1>4, <2>1 DEF UpdateInv, Updating, Idle
  <2>2. CASE s # r
    <3>1. Updating(req[s]) => req[s].view \in Views
      BY DEF IInv, RequestInv, Updating
    <3>. QED
      BY <1>1, <1>3, <1>4, <2>2, <3>1 DEF UpdateInv, Updating, HasSnapshot
  <2>. QED
    BY <2>1, <2>2
<1>. QED
  BY <1>5, <1>6

(* A step that writes no table, and begins no UPDATE. *)
LEMMA ReadingKeepsUpdates ==
    ASSUME row' = row, submission' = submission,
           \A s \in Requests : Updating(req'[s]) => req'[s] = req[s],
           \A s \in Requests : UpdateInv(req[s])
    PROVE  (\A s \in Requests : UpdateInv(req[s])') /\ ChangesAtMostOnce
  BY DEF UpdateInv, Updating, HasSnapshot, ChangesAtMostOnce

LEMMA PreviewKeepsUpdates ==
    ASSUME IInv, NEW u \in Users, NEW v \in Views, NEW c \in Contents, CreatePreview(u, v, c),
           \A s \in Requests : UpdateInv(req[s])
    PROVE  (\A s \in Requests : UpdateInv(req[s])') /\ ChangesAtMostOnce
<1>1. /\ TypeOK /\ row[v] = NoRow /\ submission' = submission /\ req' = req
      /\ \A w \in Views \ {v} : row'[w] = row[w]
  BY DEF IInv, CreatePreview, TypeOK
<1>2. ~ HasSnapshot(v)
  BY <1>1 DEF IInv, ViewInv, HasSnapshot
<1>3. ASSUME NEW s \in Requests PROVE UpdateInv(req[s])'
  <2>1. Updating(req[s]) => req[s].view \in Views \ {v}
    BY <1>1 DEF IInv, RequestInv, Updating
  <2>. QED
    BY <1>1, <2>1 DEF UpdateInv, Updating, HasSnapshot
<1>. QED
  BY <1>1, <1>2, <1>3 DEF ChangesAtMostOnce

LEMMA NextChangesOnce ==
    (\A s \in Requests : UpdateInv(req[s])) /\ IInv /\ LockInv /\ [Next]_vars =>
        (\A s \in Requests : UpdateInv(req[s]))' /\ ChangesAtMostOnce
<1>. SUFFICES ASSUME \A s \in Requests : UpdateInv(req[s]), IInv, LockInv, [Next]_vars
              PROVE  (\A s \in Requests : UpdateInv(req[s])') /\ ChangesAtMostOnce
  OBVIOUS
<1>. DEFINE Goal == (\A s \in Requests : UpdateInv(req[s])') /\ ChangesAtMostOnce
<1>0. TypeOK
  BY DEF IInv
<1>1. ASSUME NEW r \in Requests, NEW state, ~ Updating(state), Goto(r, state),
             row' = row, submission' = submission
      PROVE  Goal
  BY <1>0, <1>1, ReadingKeepsUpdates DEF Goto, TypeOK
<1>2. ~ Updating(Idle)
  BY DEF Idle, Updating
<1>3. ASSUME NEW r \in Requests, Respond(r), row' = row, submission' = submission PROVE Goal
  BY <1>1, <1>2, <1>3 DEF Respond
<1>4. ASSUME NEW u \in Users, NEW v \in Views, NEW c \in Contents, CreatePreview(u, v, c)
      PROVE  Goal
  BY <1>4, PreviewKeepsUpdates
<1>5. ASSUME NEW r \in Requests, Start(r) PROVE Goal
  <2>1. ASSUME NEW p, NEW o, NEW u, NEW v, p # "updating", p # "updated",
               row' = row, submission' = submission,
               Goto(r, [Idle EXCEPT !.pc = p, !.op = o, !.user = u, !.view = v])
        PROVE  Goal
    <3>1. ~ Updating([Idle EXCEPT !.pc = p, !.op = o, !.user = u, !.view = v])
      BY <2>1 DEF Idle, Updating
    <3>. QED
      BY <1>1, <2>1, <3>1
  <2>. HIDE DEF Goal
  <2>2. ASSUME NEW u \in Users, NEW v \in Views, StartSubmit(r, u, v) PROVE Goal
    BY <2>1, <2>2 DEF StartSubmit
  <2>3. ASSUME NEW u \in Users, NEW v \in Views, StartRefine(r, u, v) PROVE Goal
    BY <2>1, <2>3 DEF StartRefine
  <2>4. ASSUME NEW u \in Users, NEW v \in Views, NEW op \in Decisions, StartDecision(r, u, v, op)
        PROVE  Goal
    BY <2>1, <2>4 DEF StartDecision
  <2>5. ASSUME NEW u \in Users \cup {NoUser}, NEW v \in Views, StartDownload(r, u, v) PROVE Goal
    BY <2>1, <2>5 DEF StartDownload
  <2>. QED
    BY <1>5, <2>2, <2>3, <2>4, <2>5 DEF Start
<1>6. ASSUME NEW r \in Requests, Step(r) PROVE Goal
  <2>0. req[r] \in Request
    BY <1>0 DEF TypeOK
  <2>1. CASE SubmitRefresh(r) \/ SubmitInsert(r)
    BY <2>1, FiledOnce
  <2>2. CASE RecordUpdate(r)
    BY <2>2, FinishedUpdates
  <2>3. CASE SubmitReplay(r) \/ SubmitConflict(r)
    BY <1>3, <2>3 DEF SubmitReplay, SubmitConflict, EndSubmit
  <2>4. CASE SubmitLock(r) \/ RefineCheckSubmission(r) \/ CheckSeparation(r)
    <3>1. \A p : p \notin {"updating", "updated"} => ~ Updating([req[r] EXCEPT !.pc = p])
      BY <2>0 DEF Request, Updating
    <3>. QED
      BY <1>1, <1>3, <2>4, <3>1 DEF SubmitLock, RefineCheckSubmission, CheckSeparation
  <2>5. CASE RefineRead(r) \/ ReadForDecision(r)
    <3>1. \A p, old : p \notin {"updating", "updated"} =>
              ~ Updating([req[r] EXCEPT !.pc = p, !.expected = old])
      BY <2>0 DEF Request, Updating
    <3>. QED
      BY <1>1, <1>3, <2>5, <3>1 DEF RefineRead, ReadForDecision
  <2>6. CASE DecisionUpdate(r) \/ \E c \in Contents : RefineUpdate(r, c)
    <3>1. PICK next : BeginUpdate(r, next) /\ req[r].pc \in {"refine_planning", "decision_ready"}
      BY <2>6 DEF DecisionUpdate, RefineUpdate
    <3>2. \A s \in Requests : UpdateInv(req[s])'
      BY <3>1, BegunUpdates
    <3>3. row' = row /\ submission' = submission
      BY <3>1 DEF BeginUpdate
    <3>. QED
      BY <3>2, <3>3 DEF ChangesAtMostOnce
  <2>7. CASE TakeRow(r)
    <3>1. CASE Unchanged(req[r].view, req[r].expected)
      <4>1. UNCHANGED <<row, submission>> /\ req[r].pc = "updating"
            /\ req' = [req EXCEPT ![r] = [req[r] EXCEPT !.pc = "updated"]]
        BY <2>7, <3>1 DEF TakeRow, HoldUpdated, Goto
      <4>2. \A s \in Requests : /\ Updating(req'[s]) => Updating(req[s])
                               /\ req'[s].view = req[s].view
                               /\ req'[s].expected = req[s].expected
        BY <1>0, <2>0, <4>1 DEF TypeOK, Request, Updating
      <4>3. \A s \in Requests : UpdateInv(req[s])'
        BY <4>1, <4>2 DEF UpdateInv, Updating, HasSnapshot
      <4>. QED
        BY <4>1, <4>3 DEF ChangesAtMostOnce
    <3>2. CASE ~ Unchanged(req[r].view, req[r].expected)
      BY <1>3, <2>7, <3>2 DEF TakeRow
    <3>. QED
      BY <3>1, <3>2
  <2>8. CASE RecordDownload(r)
    BY <1>3, <2>8 DEF RecordDownload
  <2>. QED
    BY <1>6, <2>1, <2>2, <2>3, <2>4, <2>5, <2>6, <2>7, <2>8 DEF Step
<1>7. ASSUME NEW r \in Requests, Abort(r) PROVE Goal
  BY <1>3, <1>7 DEF Abort
<1>8. CASE Crash
  BY <1>2, <1>8, ReadingKeepsUpdates DEF Crash
<1>9. CASE UNCHANGED vars
  BY <1>9, ReadingKeepsUpdates DEF vars
<1>. QED
  BY <1>4, <1>5, <1>6, <1>7, <1>8, <1>9 DEF Next

\* A submitted view changes at most once more, by its decision or by a refinement whose UPDATE had
\* begun: what submit_refine_race shows is all that can happen to it, a decision is final, and so
\* is the view such a refinement leaves (save_if_revision, submit_for_approval).
THEOREM SubmittedViewsChangeOnce == Spec => SubmittedChangesOnce
<1>. DEFINE UInv == \A s \in Requests : UpdateInv(req[s])
<1>1. Init => UInv
  BY DEF Init, UpdateInv, Updating, Idle
<1>2. UInv /\ IInv /\ LockInv /\ [Next]_vars => UInv'
  BY NextChangesOnce
<1>3. UInv /\ IInv /\ LockInv /\ [Next]_vars =>
          [\A v \in Views : HasSnapshot(v) =>
               /\ submission'[v] = submission[v]
               /\ row'[v] # row[v] => /\ row[v] = submission[v].snapshot
                                      /\ row'[v].revision = row[v].revision + 1]_vars
  BY NextChangesOnce DEF ChangesAtMostOnce
<1>. HIDE DEF UInv
<1>. QED
  BY <1>1, <1>2, <1>3, SpecInv, PTL DEF Spec, SubmittedChangesOnce

-----------------------------------------------------------------------------
(* The refinement: every step files, gives a verdict, or leaves the ledger *)
(* of ApprovalLedger alone                                                 *)

LedgerStep == [Ledger!Next]_(Ledger!ledger)

(* a view whose tables the step leaves as they are, as the ledger sees them *)
Untouched(v) == FilingOf(v)' = FilingOf(v) /\ VerdictOn(v)' = VerdictOn(v)

-----------------------------------------------------------------------------
(* What the ledger sees of the tables *)

LEMMA UntouchedRows ==
    ASSUME NEW v \in Views, row'[v] = row[v], submission'[v] = submission[v]
    PROVE  Untouched(v)
  BY DEF Untouched, FilingOf, VerdictOn, IsDecided

LEMMA QuietLedger ==
    ASSUME \A v \in Views : Untouched(v)
    PROVE  LedgerStep
<1>1. \A v \in Views : FilingOf(v)' = FilingOf(v) /\ VerdictOn(v)' = VerdictOn(v)
  BY DEF Untouched
<1>2. [v \in Views |-> FilingOf(v)]' = [v \in Views |-> FilingOf(v)]
  BY <1>1
<1>3. [v \in Views |-> VerdictOn(v)]' = [v \in Views |-> VerdictOn(v)]
  BY <1>1
<1>. QED
  BY <1>2, <1>3 DEF LedgerStep, Ledger!ledger

(* A step that files v, and touches no other view. *)
LEMMA FilingStep ==
    ASSUME NEW v \in Views, NEW c \in Contents, NEW u \in Users,
           FilingOf(v) = NoSubmission,
           VerdictOn(v) = NoSubmission,
           FilingOf(v)' = [content |-> c, by |-> u],
           VerdictOn(v)' = VerdictOn(v),
           \A w \in Views \ {v} : Untouched(w)
    PROVE  LedgerStep
<1>1. [w \in Views |-> FilingOf(w)]' =
          [[w \in Views |-> FilingOf(w)] EXCEPT ![v] = [content |-> c, by |-> u]]
  BY DEF Untouched
<1>2. [w \in Views |-> VerdictOn(w)]' = [w \in Views |-> VerdictOn(w)]
  BY DEF Untouched
<1>3. Ledger!File(v, c, u)
  BY <1>1, <1>2 DEF Ledger!File
<1>. QED
  BY <1>3 DEF LedgerStep, Ledger!Next

(* A step that gives the verdict on v, and touches no other view. *)
LEMMA VerdictStep ==
    ASSUME NEW v \in Views, NEW u \in Approvers, NEW verdict,
           FilingOf(v) # NoSubmission,
           VerdictOn(v) = NoSubmission,
           FilingOf(v)' = FilingOf(v),
           VerdictOn(v)' = verdict,
           u # FilingOf(v).by,
           \/ verdict = [outcome |-> "rejected", content |-> FilingOf(v).content, by |-> u]
           \/ /\ FilingOf(v).content \notin Blocking
              /\ verdict = [outcome |-> "approved", content |-> FilingOf(v).content, by |-> u]
           \/ /\ FilingOf(v).content \in Repairable
              /\ Repair[FilingOf(v).content] \notin Blocking
              /\ verdict = [outcome |-> "approved", content |-> Repair[FilingOf(v).content],
                            by |-> u],
           \A w \in Views \ {v} : Untouched(w)
    PROVE  LedgerStep
<1>1. [w \in Views |-> VerdictOn(w)]' = [[w \in Views |-> VerdictOn(w)] EXCEPT ![v] = verdict]
  BY DEF Untouched
<1>2. [w \in Views |-> FilingOf(w)]' = [w \in Views |-> FilingOf(w)]
  BY DEF Untouched
<1>3. CASE verdict = [outcome |-> "rejected", content |-> FilingOf(v).content, by |-> u]
  <2>1. Ledger!Reject(v, u)
    BY <1>1, <1>2, <1>3 DEF Ledger!Reject, Ledger!Give
  <2>. QED
    BY <2>1 DEF LedgerStep, Ledger!Next
<1>4. CASE /\ FilingOf(v).content \notin Blocking
           /\ verdict = [outcome |-> "approved", content |-> FilingOf(v).content, by |-> u]
  <2>1. Ledger!Approve(v, u)
    BY <1>1, <1>2, <1>4 DEF Ledger!Approve, Ledger!Give
  <2>. QED
    BY <2>1 DEF LedgerStep, Ledger!Next
<1>5. CASE /\ FilingOf(v).content \in Repairable
           /\ Repair[FilingOf(v).content] \notin Blocking
           /\ verdict = [outcome |-> "approved", content |-> Repair[FilingOf(v).content],
                         by |-> u]
  <2>1. Ledger!ApproveRepaired(v, u)
    BY <1>1, <1>2, <1>5 DEF Ledger!ApproveRepaired, Ledger!Give
  <2>. QED
    BY <2>1 DEF LedgerStep, Ledger!Next
<1>. QED
  BY <1>3, <1>4, <1>5

-----------------------------------------------------------------------------
(* Every step of the workflow *)

(* The submitting transaction's writes file the view as it stands. *)
LEMMA SubmissionFiles ==
    ASSUME IInv, NEW r \in Requests, SubmitRefresh(r) \/ SubmitInsert(r)
    PROVE  LedgerStep
<1>1. /\ TypeOK
      /\ req[r] \in Request
      /\ RequestInv(req[r])
      /\ req[r].pc = "submit_locked"
  BY DEF IInv, TypeOK, SubmitRefresh, SubmitInsert
<1>2. PICK v \in Views : v = req[r].view
  BY <1>1 DEF RequestInv
<1>3. PICK u \in Users : u = req[r].user
  BY <1>1 DEF RequestInv
<1>4. /\ row[v] \in Row /\ row[v] # NoRow
      /\ ViewInv(v)
  BY <1>1, <1>2 DEF IInv, TypeOK, RequestInv
<1>5. /\ ~ HasSnapshot(v)
      /\ submission' = [submission EXCEPT ![v] = [by |-> u, snapshot |-> row[v]]]
      /\ row' = row
  BY <1>2, <1>3 DEF SubmitRefresh, SubmitInsert, EndSubmit, HasSnapshot, IsLegacy
<1>6. ~ IsDecided(v)
  BY <1>4, <1>5 DEF ViewInv, DecisionRests
<1>7. FilingOf(v) = NoSubmission /\ VerdictOn(v) = NoSubmission
  BY <1>5, <1>6 DEF HasSnapshot, FilingOf, VerdictOn
<1>8. row[v].content \in Contents
  BY <1>4 DEF Row
<1>9. submission'[v] = [by |-> u, snapshot |-> row[v]] /\ submission'[v] # NoSubmission
  BY <1>1, <1>4, <1>5, NullsAssumption DEF TypeOK, Submission
<1>10. FilingOf(v)' = [content |-> row[v].content, by |-> u]
  BY <1>4, <1>5, <1>9 DEF FilingOf
<1>11. VerdictOn(v)' = VerdictOn(v)
  BY <1>5 DEF VerdictOn, IsDecided
<1>12. ASSUME NEW w \in Views \ {v} PROVE Untouched(w)
  BY <1>1, <1>5, UntouchedRows DEF TypeOK
<1>. QED
  BY <1>7, <1>8, <1>10, <1>11, <1>12, FilingStep

(* save_if_revision's write gives the verdict for a decision, and nothing for refine. *)
LEMMA UpdateGivesVerdict ==
    ASSUME IInv, LockInv, NEW r \in Requests, RecordUpdate(r)
    PROVE  LedgerStep
<1>1. /\ TypeOK
      /\ req[r] \in Request
      /\ RequestInv(req[r])
      /\ req[r].pc = "updated"
      /\ row[req[r].view] = req[r].expected
  BY DEF IInv, TypeOK, RecordUpdate, LockInv, Holds
<1>v. PICK v \in Views : v = req[r].view
  BY <1>1 DEF RequestInv
<1>q. PICK q \in Request : q = req[r]
  BY <1>1
<1>2. row' = [row EXCEPT ![v] = q.next] /\ submission' = submission
  BY <1>v, <1>q DEF RecordUpdate
<1>3. /\ row[v] = q.expected /\ q.expected \in Row /\ q.expected.status \in Open
      /\ row[v] # NoRow
      /\ q.user \in Users
      /\ q.op \in Decisions \cup {"refine"}
  BY <1>1, <1>v, <1>q, NullsAssumption DEF RequestInv
<1>4. row'[v] = q.next
  BY <1>1, <1>2 DEF TypeOK
<1>5. FilingOf(v)' = FilingOf(v)
  BY <1>2 DEF FilingOf
<1>6. VerdictOn(v) = NoSubmission
  BY <1>3 DEF VerdictOn, IsDecided
<1>7. ASSUME NEW w \in Views \ {v} PROVE Untouched(w)
  BY <1>1, <1>2, UntouchedRows DEF TypeOK
<1>8. CASE q.op = "refine"
  <2>1. PICK c \in Contents : q.next = Refined(q.expected, c)
    BY <1>1, <1>q, <1>8 DEF RequestInv
  <2>2. q.next.status \in Open
    BY <1>3, <2>1, RefinedRow
  <2>3. VerdictOn(v)' = NoSubmission
    BY <1>4, <2>2 DEF VerdictOn, IsDecided
  <2>. QED
    BY <1>5, <1>6, <1>7, <2>3, QuietLedger DEF Untouched
<1>9. CASE q.op \in Decisions
  <2>1. /\ q.next = Decided(q.op, q.expected, q.user)
        /\ Decidable(q.op, q.expected)
        /\ HasSnapshot(v)
        /\ submission[v].snapshot = q.expected
        /\ submission[v].by # q.user
        /\ q.user \in Approvers
    BY <1>1, <1>v, <1>q, <1>9 DEF RequestInv
  <2>2. FilingOf(v) = [content |-> q.expected.content, by |-> submission[v].by]
    BY <2>1 DEF FilingOf, HasSnapshot
  <2>3. FilingOf(v) # NoSubmission
    <3>1. FilingOf(v) \in Ledger!Filing
      BY <1>1, <1>3, <2>1, <2>2 DEF TypeOK, Submission, Row, HasSnapshot, Ledger!Filing
    <3>. QED
      BY <3>1, LedgerNullAssumption
  <2>4. /\ q.next \in Row
        /\ q.next.status \in {"approved", "rejected"}
        /\ q.next.reviewer = q.user
    BY <1>3, <1>9, <2>1, DecidedRow
  <2>5. VerdictOn(v)' = [outcome |-> q.next.status, content |-> q.next.content, by |-> q.user]
    BY <1>4, <2>4, NullsAssumption DEF VerdictOn, IsDecided, Open
  <2>6. CASE q.op = "reject"
    <3>1. q.next.status = "rejected" /\ q.next.content = q.expected.content
      BY <2>1, <2>6 DEF Decided, Rejected, Write
    <3>. QED
      BY <1>5, <1>6, <1>7, <2>1, <2>2, <2>3, <2>5, <3>1, VerdictStep
  <2>7. CASE q.op = "approve"
    <3>1. /\ q.next.status = "approved" /\ q.next.content = q.expected.content
          /\ q.expected.content \notin Blocking
      BY <2>1, <2>7 DEF Decided, Approved, Write, Decidable
    <3>. QED
      BY <1>5, <1>6, <1>7, <2>1, <2>2, <2>3, <2>5, <3>1, VerdictStep
  <2>8. CASE q.op = "approve_alternative"
    <3>1. /\ q.next.status = "approved" /\ q.next.content = Repair[q.expected.content]
          /\ q.expected.content \in Repairable
          /\ Repair[q.expected.content] \notin Blocking
      BY <2>1, <2>8 DEF Decided, Approved, Write, Decidable
    <3>. QED
      BY <1>5, <1>6, <1>7, <2>1, <2>2, <2>3, <2>5, <3>1, VerdictStep
  <2>. QED
    BY <1>9, <2>6, <2>7, <2>8 DEF Decisions
<1>. QED
  BY <1>3, <1>8, <1>9

LEMMA PreviewIsQuiet ==
    ASSUME IInv, NEW u \in Users, NEW v \in Views, NEW c \in Contents, CreatePreview(u, v, c)
    PROVE  LedgerStep
<1>1. TypeOK /\ row[v] = NoRow /\ submission' = submission
      /\ row' = [row EXCEPT ![v] = NewRow(u, c)]
  BY DEF IInv, CreatePreview
<1>2. NewRow(u, c).status \in Open
  BY DEF NewRow, StatusOf, Open
<1>3. ASSUME NEW w \in Views PROVE Untouched(w)
  <2>1. CASE w = v
    BY <1>1, <1>2, <2>1 DEF TypeOK, Untouched, FilingOf, VerdictOn, IsDecided
  <2>2. CASE w # v
    BY <1>1, <2>2, UntouchedRows DEF TypeOK
  <2>. QED
    BY <2>1, <2>2
<1>. QED
  BY <1>3, QuietLedger

LEMMA NextImplementsLedger == IInv /\ LockInv /\ [Next]_vars => LedgerStep
<1>. SUFFICES ASSUME IInv, LockInv, [Next]_vars PROVE LedgerStep
  OBVIOUS
<1>1. CASE row' = row /\ submission' = submission
  BY <1>1, UntouchedRows, QuietLedger
<1>2. ASSUME NEW u \in Users, NEW v \in Views, NEW c \in Contents, CreatePreview(u, v, c)
      PROVE  LedgerStep
  BY <1>2, PreviewIsQuiet
<1>3. ASSUME NEW r \in Requests, Start(r) PROVE LedgerStep
  BY <1>1, <1>3 DEF Start, StartSubmit, StartRefine, StartDecision, StartDownload
<1>4. ASSUME NEW r \in Requests, Step(r) PROVE LedgerStep
  <2>1. CASE SubmitRefresh(r) \/ SubmitInsert(r)
    BY <2>1, SubmissionFiles
  <2>2. CASE RecordUpdate(r)
    BY <2>2, UpdateGivesVerdict
  <2>5. CASE RecordDownload(r)
    BY <1>1, <2>5 DEF RecordDownload
  <2>3. CASE \/ SubmitLock(r) \/ SubmitReplay(r) \/ SubmitConflict(r)
             \/ RefineRead(r) \/ RefineCheckSubmission(r)
             \/ CheckSeparation(r) \/ ReadForDecision(r) \/ TakeRow(r)
    BY <1>1, <2>3 DEF SubmitLock, SubmitReplay, SubmitConflict, EndSubmit, RefineRead,
                      RefineCheckSubmission, CheckSeparation, ReadForDecision, TakeRow,
                      HoldUpdated
  <2>4. CASE DecisionUpdate(r) \/ \E c \in Contents : RefineUpdate(r, c)
    BY <1>1, <2>4 DEF DecisionUpdate, RefineUpdate, BeginUpdate
  <2>. QED
    BY <1>4, <2>1, <2>2, <2>3, <2>4, <2>5 DEF Step
<1>5. CASE Crash
  BY <1>1, <1>5 DEF Crash
<1>6. ASSUME NEW r \in Requests, Abort(r) PROVE LedgerStep
  BY <1>1, <1>6 DEF Abort
<1>7. CASE UNCHANGED vars
  BY <1>1, <1>7 DEF vars
<1>. QED
  BY <1>2, <1>3, <1>4, <1>5, <1>6, <1>7 DEF Next

(* At the start nothing with a snapshot is filed and nothing is decided. *)
LEMMA InitImplementsLedger == Init => Ledger!Init
<1>. SUFFICES ASSUME Init PROVE Ledger!Init
  OBVIOUS
<1>1. ASSUME NEW v \in Views PROVE FilingOf(v) = NoSubmission /\ VerdictOn(v) = NoSubmission
  <2>1. FilingOf(v) = NoSubmission
    BY DEF Init, FilingOf
  <2>2. ~ IsDecided(v)
    BY DEF Init, LegacyRow, NewRow, StatusOf, IsDecided, Open
  <2>. QED
    BY <2>1, <2>2 DEF VerdictOn
<1>. QED
  BY <1>1 DEF Ledger!Init

\* The workflow implements the ledger: filings with a snapshot never change, and a verdict is
\* given once, by an approver other than the filer, on what was filed or its repair
\* (submit_for_approval, save_if_revision and the operations around them).
THEOREM LedgerIsImplemented == Spec => ImplementsLedger
<1>1. Init => Ledger!Init
  BY InitImplementsLedger
<1>2. IInv /\ LockInv /\ [Next]_vars => [Ledger!Next]_(Ledger!ledger)
  BY NextImplementsLedger DEF LedgerStep
<1>. QED
  BY <1>1, <1>2, SpecInv, PTL DEF Spec, ImplementsLedger, Ledger!Spec
=============================================================================
