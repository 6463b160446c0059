---------------------------- MODULE ScanJobsProofs -----------------------------
(***************************************************************************)
(* Proofs about ScanJobs, for any number of jobs, workspaces and requests. *)
(***************************************************************************)
EXTENDS ScanJobs, TLAPS

-----------------------------------------------------------------------------
(* The inductive invariant *)

(* a job and its source, by the state of the job *)
JobInv(j) ==
    IF job[j] = NoRow THEN source[j] = NoRow
    ELSE /\ job[j].cipher <=> job[j].state = "complete"
         /\ source[j] # NoRow <=> job[j].state = "consumed"
         /\ source[j] # NoRow => source[j].inTime

(* what a request has found out by its phase *)
RequestInv(r) ==
    LET q == req[r] IN
    /\ q.pc # "idle" => q.ws \in Workspaces
    /\ q.pc \in {"completing", "begun", "consuming", "expiring"} => q.job \in Jobs
    /\ q.pc \in {"begun", "consuming", "expiring"} => job[q.job] # NoRow
    /\ q.pc \in {"consuming", "expiring"} => job[q.job].ws = q.ws
    /\ q.pc = "consuming" => job[q.job].state = "complete" /\ ~ q.due
    /\ q.pc = "expiring" => job[q.job].state # "consumed"

(* the row lock of a job has one holder *)
LocksAreExclusive ==
    \A r, s \in Requests, j \in Jobs : Holds(r, j) /\ Holds(s, j) => r = s

IInv ==
    /\ TypeOK
    /\ \A j \in Jobs : JobInv(j)
    /\ \A r \in Requests : RequestInv(r)
    /\ LocksAreExclusive

-----------------------------------------------------------------------------
(* The steps *)

LEMMA IdleIsQuiet == Idle \in Request /\ Idle.pc = "idle"
  BY DEF Idle, Request

(* one request goes on to a state that holds no lock, and the tables stay *)
LEMMA RequestStep ==
    ASSUME IInv, NEW r \in Requests, NEW state \in Request, Goto(r, state),
           UNCHANGED <<acting, owner, job, source>>,
           state.pc \in {"idle", "scanning", "completing", "begun"},
           state.pc # "idle" => state.ws \in Workspaces,
           state.pc \in {"completing", "begun"} => state.job \in Jobs,
           state.pc = "begun" => job[state.job] # NoRow
    PROVE  IInv'
<1>1. req' = [req EXCEPT ![r] = state] /\ req \in [Requests -> Request]
  BY DEF Goto, IInv, TypeOK
<1>2. TypeOK'
  BY <1>1 DEF IInv, TypeOK
<1>3. \A j \in Jobs : JobInv(j)'
  BY DEF IInv, JobInv
<1>4. ASSUME NEW s \in Requests PROVE RequestInv(s)'
  <2>1. CASE s = r
    BY <1>1, <2>1 DEF RequestInv
  <2>2. CASE s # r
    BY <1>1, <2>2 DEF IInv, RequestInv
  <2>. QED
    BY <2>1, <2>2
<1>5. LocksAreExclusive'
  BY <1>1 DEF IInv, LocksAreExclusive, Holds
<1>. QED
  BY <1>2, <1>3, <1>4, <1>5 DEF IInv

LEMMA AdmitStep ==
    ASSUME IInv, NEW r \in Requests,
           ScanStart(r) \/ \E j \in Jobs : CompleteStart(r, j)
    PROVE  IInv'
<1>1. acting \in Workspaces
  BY DEF IInv, TypeOK
<1>2. CASE ScanStart(r)
  <2>. DEFINE state == [pc |-> "scanning", ws |-> acting, job |-> NoJob, due |-> FALSE]
  <2>1. state \in Request /\ Goto(r, state) /\ UNCHANGED <<acting, owner, job, source>>
    BY <1>1, <1>2 DEF ScanStart, Admit, Request
  <2>2. state.pc = "scanning" /\ state.ws \in Workspaces
    BY <1>1
  <2>. HIDE DEF state
  <2>. QED
    BY <2>1, <2>2, RequestStep
<1>3. ASSUME NEW j \in Jobs, CompleteStart(r, j) PROVE IInv'
  <2>. DEFINE state == [pc |-> "completing", ws |-> acting, job |-> j, due |-> FALSE]
  <2>1. state \in Request /\ Goto(r, state) /\ UNCHANGED <<acting, owner, job, source>>
    BY <1>1, <1>3 DEF CompleteStart, Admit, Request
  <2>2. state.pc = "completing" /\ state.ws \in Workspaces /\ state.job \in Jobs
    BY <1>1
  <2>. HIDE DEF state
  <2>. QED
    BY <2>1, <2>2, RequestStep
<1>. QED
  BY <1>2, <1>3

LEMMA BeginStep ==
    ASSUME IInv, NEW r \in Requests, CompleteBegin(r)
    PROVE  IInv'
<1>. DEFINE q == req[r]
            state == [q EXCEPT !.pc = "begun", !.due = job[q.job].due]
<1>1. q \in Request /\ q.pc = "completing" /\ q.ws \in Workspaces /\ q.job \in Jobs
  BY DEF IInv, TypeOK, RequestInv, CompleteBegin
<1>2. job[q.job] \in Job
  BY <1>1 DEF IInv, TypeOK, CompleteBegin
<1>3. state \in Request /\ state.pc = "begun" /\ state.ws = q.ws /\ state.job = q.job
  BY <1>1, <1>2 DEF Request, Job
<1>4. job[q.job] # NoRow /\ Goto(r, state) /\ UNCHANGED <<acting, owner, job, source>>
  BY DEF CompleteBegin
<1>. HIDE DEF q, state
<1>. QED
  BY <1>1, <1>3, <1>4, RequestStep

LEMMA AbortStep ==
    ASSUME IInv, NEW r \in Requests, Abort(r)
    PROVE  IInv'
  BY IdleIsQuiet, RequestStep DEF Abort, Respond

LEMMA LockStep ==
    ASSUME IInv, NEW r \in Requests, CompleteLock(r)
    PROVE  IInv'
<1>. DEFINE q == req[r]
<1>1. /\ q \in Request /\ q.pc = "begun" /\ q.ws \in Workspaces /\ q.job \in Jobs
      /\ job[q.job] # NoRow /\ Unlocked(q.job)
      /\ UNCHANGED <<acting, owner, job, source>>
  BY DEF IInv, TypeOK, RequestInv, CompleteLock
<1>2. CASE Respond(r)
  BY <1>1, <1>2, IdleIsQuiet, RequestStep DEF Respond
<1>3. CASE /\ SameWorkspace(q) /\ Branch(q) # "idle"
           /\ Goto(r, [q EXCEPT !.pc = Branch(q)])
  <2>. DEFINE state == [q EXCEPT !.pc = Branch(q)]
  <2>1. /\ req' = [req EXCEPT ![r] = state] /\ req \in [Requests -> Request]
        /\ state.ws = q.ws /\ state.job = q.job /\ state.due = q.due /\ state.pc = Branch(q)
    BY <1>1, <1>3 DEF Goto, IInv, TypeOK, Request
  <2>2. job[q.job] \in Job
    BY <1>1 DEF IInv, TypeOK
  <2>3. \/ Branch(q) = "consuming" /\ job[q.job].state = "complete" /\ ~ q.due
        \/ Branch(q) = "expiring" /\ job[q.job].state # "consumed"
    BY <1>3, <2>2 DEF Branch, Job
  <2>4. state \in Request
    BY <1>1, <2>3 DEF Request
  <2>5. TypeOK'
    BY <1>1, <2>1, <2>4 DEF IInv, TypeOK
  <2>6. \A j \in Jobs : JobInv(j)'
    BY <1>1 DEF IInv, JobInv
  <2>7. ASSUME NEW s \in Requests PROVE RequestInv(s)'
    <3>1. CASE s = r
      <4>1. req'[s] = state /\ job' = job
        BY <1>1, <2>1, <3>1
      <4>. QED
        BY <1>1, <1>3, <2>1, <2>3, <4>1 DEF RequestInv, SameWorkspace
    <3>2. CASE s # r
      BY <1>1, <2>1, <3>2 DEF IInv, RequestInv
    <3>. QED
      BY <3>1, <3>2
  <2>8. LocksAreExclusive'
    <3>1. ASSUME NEW s \in Requests, NEW j \in Jobs, s # r, Holds(s, j)' PROVE ~ Holds(r, j)'
      <4>1. Holds(s, j)
        BY <2>1, <3>1 DEF Holds
      <4>2. j # q.job
        BY <1>1, <4>1 DEF Unlocked
      <4>. QED
        BY <2>1, <4>2 DEF Holds
    <3>2. ASSUME NEW s \in Requests, NEW t \in Requests, NEW j \in Jobs,
                 Holds(s, j)', Holds(t, j)', s # r, t # r
          PROVE  s = t
      BY <2>1, <3>2 DEF Holds, IInv, LocksAreExclusive
    <3>. QED
      BY <3>1, <3>2 DEF LocksAreExclusive
  <2>. QED
    BY <2>5, <2>6, <2>7, <2>8 DEF IInv
<1>. QED
  BY <1>2, <1>3 DEF CompleteLock

LEMMA StoreStep ==
    ASSUME IInv, NEW r \in Requests, NEW j \in Jobs, ScanStore(r, j)
    PROVE  IInv'
<1>1. /\ job[j] = NoRow /\ source[j] = NoRow
      /\ job' = [job EXCEPT ![j] = Scanned(req[r].ws)]
      /\ UNCHANGED <<acting, owner, source>>
      /\ req' = [req EXCEPT ![r] = Idle] /\ req \in [Requests -> Request]
      /\ job \in [Jobs -> Job \cup {NoRow}]
      /\ req[r].ws \in Workspaces
  BY DEF IInv, TypeOK, JobInv, RequestInv, ScanStore, Respond, Goto
<1>2. /\ Scanned(req[r].ws) \in Job /\ Scanned(req[r].ws) # NoRow
      /\ Scanned(req[r].ws).cipher /\ Scanned(req[r].ws).state = "complete"
  <2>1. ASSUME NEW w \in Workspaces
        PROVE  Scanned(w) \in Job /\ Scanned(w).cipher /\ Scanned(w).state = "complete"
    BY DEF Scanned, Job
  <2>. QED
    BY <1>1, <2>1, NoRowAssumption
<1>3. TypeOK'
  BY <1>1, <1>2, IdleIsQuiet DEF IInv, TypeOK
<1>4. \A i \in Jobs : JobInv(i)'
  BY <1>1, <1>2 DEF IInv, JobInv
<1>5. ASSUME NEW s \in Requests PROVE RequestInv(s)'
  <2>1. CASE s = r
    BY <1>1, <2>1, IdleIsQuiet DEF RequestInv
  <2>2. CASE s # r
    <3>1. req'[s] = req[s] /\ \A i \in Jobs : i # j => job'[i] = job[i]
      BY <1>1, <2>2
    <3>. QED
      BY <1>1, <1>2, <3>1 DEF IInv, RequestInv
  <2>. QED
    BY <2>1, <2>2
<1>6. LocksAreExclusive'
  BY <1>1, IdleIsQuiet DEF IInv, LocksAreExclusive, Holds
<1>. QED
  BY <1>3, <1>4, <1>5, <1>6 DEF IInv

(* the holder of the lock writes the job and lets go of it *)
LEMMA SettleStep ==
    ASSUME IInv, NEW r \in Requests, Consume(r) \/ Expire(r)
    PROVE  IInv'
<1>. PICK j \in Jobs : j = req[r].job
  BY DEF IInv, RequestInv, Consume, Expire
<1>1. /\ req[r].pc \in {"consuming", "expiring"} /\ Holds(r, j)
      /\ job[j] \in Job /\ job[j] # NoRow
      /\ req' = [req EXCEPT ![r] = Idle] /\ req \in [Requests -> Request]
      /\ job \in [Jobs -> Job \cup {NoRow}] /\ source \in [Jobs -> Source \cup {NoRow}]
      /\ UNCHANGED <<acting, owner>>
  BY DEF IInv, TypeOK, RequestInv, Consume, Expire, Respond, Goto, Holds
<1>2. /\ job' \in [Jobs -> Job \cup {NoRow}] /\ source' \in [Jobs -> Source \cup {NoRow}]
      /\ \A i \in Jobs : i # j => job'[i] = job[i] /\ source'[i] = source[i]
      /\ JobInv(j)'
      /\ job'[j] # NoRow
  <2>1. CASE Consume(r)
    <3>. DEFINE row == [ws |-> job[j].ws, inTime |-> ~ req[r].due]
    <3>1. /\ job' = [job EXCEPT ![j] = Consumed(@)]
          /\ source' = [source EXCEPT ![j] = row]
          /\ ~ req[r].due
      BY <2>1 DEF Consume, IInv, RequestInv
    <3>2. /\ Consumed(job[j]) \in Job /\ Consumed(job[j]).state = "consumed"
          /\ ~ Consumed(job[j]).cipher
      BY <1>1 DEF Consumed, Job
    <3>3. row \in Source /\ row.inTime
      BY <1>1, <3>1 DEF Job, Source
    <3>4. /\ job' \in [Jobs -> Job \cup {NoRow}] /\ job'[j] = Consumed(job[j])
          /\ source' \in [Jobs -> Source \cup {NoRow}] /\ source'[j] = row
          /\ \A i \in Jobs : i # j => job'[i] = job[i] /\ source'[i] = source[i]
      <4>. HIDE DEF row
      <4>. QED
        BY <1>1, <3>1, <3>2, <3>3
    <3>5. job'[j] # NoRow /\ source'[j] # NoRow
      BY <3>2, <3>3, <3>4, NoRowAssumption
    <3>6. JobInv(j)'
      <4>. HIDE DEF row
      <4>. QED
        BY <3>2, <3>3, <3>4, <3>5 DEF JobInv
    <3>. QED
      BY <3>4, <3>5, <3>6
  <2>2. CASE Expire(r)
    <3>. DEFINE row == [job[j] EXCEPT !.state = "expired", !.cipher = FALSE]
    <3>1. /\ job' = [job EXCEPT ![j] = row] /\ source' = source
          /\ job[j].state # "consumed"
      BY <1>1, <2>2 DEF Expire, IInv, RequestInv
    <3>2. row \in Job /\ row.state = "expired" /\ ~ row.cipher
      BY <1>1 DEF Job
    <3>3. source[j] = NoRow
      BY <1>1, <3>1 DEF IInv, JobInv
    <3>4. /\ job' \in [Jobs -> Job \cup {NoRow}] /\ job'[j] = row
          /\ \A i \in Jobs : i # j => job'[i] = job[i]
      <4>. HIDE DEF row
      <4>. QED
        BY <1>1, <3>1, <3>2
    <3>5. job'[j] # NoRow
      BY <3>2, <3>4, NoRowAssumption
    <3>6. JobInv(j)'
      <4>. HIDE DEF row
      <4>. QED
        BY <3>1, <3>2, <3>3, <3>4, <3>5, NoRowAssumption DEF JobInv
    <3>. QED
      BY <1>1, <3>1, <3>4, <3>5, <3>6
  <2>. QED
    BY <2>1, <2>2
<1>3. TypeOK'
  BY <1>1, <1>2, IdleIsQuiet DEF IInv, TypeOK
<1>4. \A i \in Jobs : JobInv(i)'
  <2>1. ASSUME NEW i \in Jobs, i # j PROVE JobInv(i)'
    BY <1>2, <2>1 DEF IInv, JobInv
  <2>. QED
    BY <1>2, <2>1 DEF JobInv
<1>5. ASSUME NEW s \in Requests PROVE RequestInv(s)'
  <2>1. CASE s = r
    BY <1>1, <2>1, IdleIsQuiet DEF RequestInv
  <2>2. CASE s # r
    <3>1. req'[s] = req[s]
      BY <1>1, <2>2
    <3>2. req[s].pc \in {"consuming", "expiring"} => req[s].job # j
      BY <1>1, <2>2 DEF IInv, LocksAreExclusive, Holds
    <3>. QED
      BY <1>2, <3>1, <3>2 DEF IInv, RequestInv
  <2>. QED
    BY <2>1, <2>2
<1>6. LocksAreExclusive'
  BY <1>1, IdleIsQuiet DEF IInv, LocksAreExclusive, Holds
<1>. QED
  BY <1>3, <1>4, <1>5, <1>6 DEF IInv

LEMMA ClockStep ==
    ASSUME IInv, NEW j \in Jobs, TimePasses(j)
    PROVE  IInv'
<1>. DEFINE row == [job[j] EXCEPT !.due = TRUE]
<1>1. /\ job[j] \in Job /\ job[j] # NoRow /\ job \in [Jobs -> Job \cup {NoRow}]
      /\ job' = [job EXCEPT ![j] = row]
      /\ UNCHANGED <<acting, owner, source, req>>
  BY DEF IInv, TypeOK, TimePasses
<1>2. /\ row \in Job /\ row # NoRow /\ row.ws = job[j].ws
      /\ row.state = job[j].state /\ row.cipher = job[j].cipher
  BY <1>1, NoRowAssumption DEF Job
<1>. HIDE DEF row
<1>3. TypeOK'
  BY <1>1, <1>2 DEF IInv, TypeOK
<1>4. \A i \in Jobs : JobInv(i)'
  BY <1>1, <1>2 DEF IInv, JobInv
<1>5. \A s \in Requests : RequestInv(s)'
  BY <1>1, <1>2 DEF IInv, RequestInv
<1>6. LocksAreExclusive'
  BY <1>1 DEF IInv, LocksAreExclusive, Holds
<1>. QED
  BY <1>3, <1>4, <1>5, <1>6 DEF IInv

LEMMA MembershipStep ==
    ASSUME IInv, NEW w \in Workspaces, NEW roles \in SUBSET Workspaces,
           MembershipChanges(w, roles)
    PROVE  IInv'
<1>1. acting' = w /\ owner' = roles /\ UNCHANGED <<job, source, req>>
  BY DEF MembershipChanges
<1>. QED
  BY <1>1 DEF IInv, TypeOK, JobInv, RequestInv, LocksAreExclusive, Holds

-----------------------------------------------------------------------------
LEMMA InitInv == Init => IInv
<1>. SUFFICES ASSUME Init PROVE IInv
  OBVIOUS
<1>1. TypeOK
  BY IdleIsQuiet DEF Init, TypeOK
<1>. QED
  BY <1>1, IdleIsQuiet DEF Init, IInv, JobInv, RequestInv, LocksAreExclusive, Holds

LEMMA NextInv == IInv /\ [Next]_vars => IInv'
<1>. SUFFICES ASSUME IInv, [Next]_vars PROVE IInv'
  OBVIOUS
<1>1. ASSUME NEW r \in Requests, Statement(r) PROVE IInv'
  BY <1>1, StoreStep, BeginStep, LockStep, SettleStep DEF Statement
<1>2. ASSUME NEW r \in Requests, ScanStart(r) \/ Abort(r) PROVE IInv'
  BY <1>2, AdmitStep, AbortStep
<1>3. ASSUME NEW r \in Requests, NEW j \in Jobs, CompleteStart(r, j) PROVE IInv'
  BY <1>3, AdmitStep
<1>4. ASSUME NEW j \in Jobs, TimePasses(j) PROVE IInv'
  BY <1>4, ClockStep
<1>5. ASSUME NEW w \in Workspaces, NEW roles \in SUBSET Workspaces, MembershipChanges(w, roles)
      PROVE  IInv'
  BY <1>5, MembershipStep
<1>6. CASE UNCHANGED vars
  BY <1>6 DEF vars, IInv, TypeOK, JobInv, RequestInv, LocksAreExclusive, Holds
<1>. QED
  BY <1>1, <1>2, <1>3, <1>4, <1>5, <1>6 DEF Next

LEMMA SpecInv == Spec => []IInv
  BY InitInv, NextInv, PTL DEF Spec

-----------------------------------------------------------------------------
(* The theorems *)

\* Type correctness of jobs, sources and requests.
THEOREM ScanTypeCorrect == Spec => []TypeOK
<1>1. IInv => TypeOK
  BY DEF IInv
<1>. QED
  BY <1>1, SpecInv, PTL

\* However completions of a job overlap, its credentials are with the job, then with its one source
\* or nowhere (complete_data_source_scan_job).
THEOREM CredentialsStayInOnePlace == Spec => []CredentialsHaveOneHome
<1>1. IInv => CredentialsHaveOneHome
  BY DEF IInv, JobInv, CredentialsHaveOneHome
<1>. QED
  BY <1>1, SpecInv, PTL

\* No source comes from a completion that began after its job expired (is_expired).
THEOREM SourcesAreInTime == Spec => []SourcesCameInTime
<1>1. IInv => SourcesCameInTime
  BY DEF IInv, JobInv, SourcesCameInTime
<1>. QED
  BY <1>1, SpecInv, PTL

\* A completion writes only jobs of the workspace it was admitted to.
THEOREM CompletionsStayHome == Spec => []CompletionStaysInWorkspace
<1>1. IInv => CompletionStaysInWorkspace
  BY DEF IInv, RequestInv, CompletionStaysInWorkspace
<1>. QED
  BY <1>1, SpecInv, PTL

-----------------------------------------------------------------------------
(* The refinement: every step takes, hands over or discards credentials, or *)
(* leaves the vault alone                                                   *)

VaultStep == [Vault!Next]_(Vault!vault)

Late == {j \in Jobs : job[j] # NoRow /\ job[j].due}

(* what a completion has found out about the time *)
TimeInv(q) ==
    /\ q.pc \in {"begun", "consuming", "expiring"} /\ q.due => job[q.job].due
    /\ q.pc = "expiring" => job[q.job].state = "expired" \/ q.due

LEMMA TimeUntouched ==
    ASSUME NEW r \in Requests, TimeInv(req[r]), req'[r] = req[r],
           req[r].pc \in {"begun", "consuming", "expiring"} =>
               (job[req[r].job].due => job'[req[r].job].due),
           req[r].pc = "expiring" => job'[req[r].job].state = job[req[r].job].state
    PROVE  TimeInv(req[r])'
  BY DEF TimeInv

LEMMA TimeOfReads ==
    ASSUME NEW state, NEW r \in Requests, Goto(r, state), job' = job, TypeOK, TimeInv(state),
           \A s \in Requests : TimeInv(req[s])
    PROVE  \A s \in Requests : TimeInv(req[s])'
<1>1. req' = [req EXCEPT ![r] = state] /\ req \in [Requests -> Request]
  BY DEF Goto, TypeOK
<1>. QED
  BY <1>1 DEF TimeInv

(* where nothing is written, and for the jobs that are not, the vault is left alone *)
LEMMA UntouchedJob ==
    ASSUME NEW j \in Jobs, job'[j] = job[j], source'[j] = source[j]
    PROVE  CustodyOf(j)' = CustodyOf(j)
  BY DEF CustodyOf, Places

LEMMA QuietVault ==
    ASSUME \A j \in Jobs : CustodyOf(j)' = CustodyOf(j), Late' = Late
    PROVE  VaultStep
<1>1. [j \in Jobs |-> CustodyOf(j)]' = [j \in Jobs |-> CustodyOf(j)]
  OBVIOUS
<1>. QED
  BY <1>1 DEF VaultStep, Vault!vault, Late

(* one job's custody changes *)
LEMMA MovedCustody ==
    ASSUME NEW j \in Jobs, NEW new, CustodyOf(j)' = new,
           \A i \in Jobs \ {j} : CustodyOf(i)' = CustodyOf(i)
    PROVE  [i \in Jobs |-> CustodyOf(i)]' = [[i \in Jobs |-> CustodyOf(i)] EXCEPT ![j] = new]
  OBVIOUS

(* the credentials move, and stay whose they are *)
LEMMA MovedPlaces ==
    ASSUME NEW j \in Jobs, NEW to,
           CustodyOf(j) = [at |-> Places(j), ws |-> job[j].ws],
           CustodyOf(j)' = [at |-> to, ws |-> job[j].ws],
           \A i \in Jobs \ {j} : CustodyOf(i)' = CustodyOf(i)
    PROVE  [i \in Jobs |-> CustodyOf(i)]' = [[i \in Jobs |-> CustodyOf(i)] EXCEPT ![j].at = to]
<1>. DEFINE old == [i \in Jobs |-> CustodyOf(i)]
<1>1. old[j] = [at |-> Places(j), ws |-> job[j].ws]
  OBVIOUS
<1>2. [old EXCEPT ![j].at = to] = [old EXCEPT ![j] = [at |-> to, ws |-> job[j].ws]]
  <2>. HIDE DEF old
  <2>1. [old[j] EXCEPT !.at = to] = [at |-> to, ws |-> job[j].ws]
    BY <1>1
  <2>. QED
    BY <2>1, Zenon
<1>. QED
  BY <1>2, MovedCustody

LEMMA StoreIsTaking ==
    ASSUME IInv, NEW r \in Requests, NEW j \in Jobs, ScanStore(r, j)
    PROVE  VaultStep
<1>1. /\ job[j] = NoRow /\ source[j] = NoRow /\ source' = source
      /\ job' = [job EXCEPT ![j] = Scanned(req[r].ws)]
      /\ job \in [Jobs -> Job \cup {NoRow}]
      /\ req[r].ws \in Workspaces
  BY DEF IInv, TypeOK, JobInv, RequestInv, ScanStore
<1>. PICK w \in Workspaces : w = req[r].ws
  BY <1>1
<1>2. /\ Scanned(w) \in Job /\ Scanned(w) # NoRow /\ Scanned(w).cipher
      /\ Scanned(w).ws = w /\ ~ Scanned(w).due
  <2>1. Scanned(w) \in Job
    BY DEF Scanned, Job
  <2>. QED
    BY <2>1, NoRowAssumption DEF Scanned
<1>3. job'[j] = Scanned(w) /\ \A i \in Jobs \ {j} : job'[i] = job[i]
  BY <1>1
<1>4. CustodyOf(j) = NoRow
  BY <1>1 DEF CustodyOf
<1>5. CustodyOf(j)' = [at |-> {"job"}, ws |-> w]
  <2>1. Places(j)' = {"job"}
    BY <1>1, <1>2, <1>3 DEF Places
  <2>. QED
    BY <1>1, <1>2, <1>3, <2>1 DEF CustodyOf
<1>6. \A i \in Jobs \ {j} : CustodyOf(i)' = CustodyOf(i)
  BY <1>1, <1>3, UntouchedJob
<1>7. Late' = Late
  BY <1>1, <1>2, <1>3 DEF Late
<1>8. Vault!Take(j, w)
  BY <1>4, <1>5, <1>6, <1>7, MovedCustody DEF Vault!Take, Late
<1>. QED
  BY <1>8 DEF VaultStep, Vault!Next

(* a job that is complete has its credentials, and no source *)
LEMMA CompleteInCustody ==
    ASSUME IInv, NEW j \in Jobs, job[j] # NoRow, job[j].state = "complete"
    PROVE  /\ job[j] \in Job /\ source[j] = NoRow
           /\ CustodyOf(j) = [at |-> Places(j), ws |-> job[j].ws]
           /\ Vault!InJob(j)
<1>1. job[j] \in Job /\ source[j] = NoRow /\ job[j].cipher
  BY DEF IInv, TypeOK, JobInv
<1>2. Places(j) = {"job"}
  BY <1>1 DEF Places
<1>3. CustodyOf(j) = [at |-> Places(j), ws |-> job[j].ws]
  BY <1>1 DEF CustodyOf
<1>4. CustodyOf(j) # NoRow
  <2>1. CustodyOf(j) \in Vault!Custody
    BY <1>1, <1>2, <1>3 DEF Vault!Custody, Job
  <2>. QED
    BY <2>1, VaultNullAssumption
<1>. QED
  BY <1>1, <1>2, <1>3, <1>4 DEF Vault!InJob

LEMMA ConsumeIsHandingOver ==
    ASSUME IInv, NEW r \in Requests, Consume(r)
    PROVE  VaultStep
<1>. PICK j \in Jobs : j = req[r].job
  BY DEF IInv, RequestInv, Consume
<1>1. /\ job[j] # NoRow /\ job[j].state = "complete"
      /\ job' = [job EXCEPT ![j] = Consumed(@)]
      /\ source' = [source EXCEPT ![j] = [ws |-> job[j].ws, inTime |-> ~ req[r].due]]
      /\ job \in [Jobs -> Job \cup {NoRow}] /\ source \in [Jobs -> Source \cup {NoRow}]
      /\ req[r].due \in BOOLEAN
  BY DEF IInv, TypeOK, RequestInv, Consume, Request
<1>2. job[j] \in Job
  BY <1>1
<1>3. /\ job'[j] = Consumed(job[j]) /\ job'[j] \in Job /\ ~ job'[j].cipher
      /\ job'[j].due = job[j].due
      /\ \A i \in Jobs \ {j} : job'[i] = job[i]
  BY <1>1, <1>2 DEF Consumed, Job
<1>4. /\ source'[j] = [ws |-> job[j].ws, inTime |-> ~ req[r].due] /\ source'[j] # NoRow
      /\ source'[j].ws = job[j].ws
      /\ \A i \in Jobs \ {j} : source'[i] = source[i]
  <2>1. [ws |-> job[j].ws, inTime |-> ~ req[r].due] \in Source
    BY <1>1, <1>2 DEF Job, Source
  <2>. QED
    BY <1>1, <2>1, NoRowAssumption
<1>5. job'[j] # NoRow
  BY <1>3, NoRowAssumption
<1>6. CustodyOf(j)' = [at |-> {"source"}, ws |-> job[j].ws]
  <2>1. Places(j)' = {"source"}
    BY <1>3, <1>4 DEF Places
  <2>. QED
    BY <1>4, <1>5, <2>1 DEF CustodyOf
<1>8. \A i \in Jobs \ {j} : CustodyOf(i)' = CustodyOf(i)
  BY <1>3, <1>4, UntouchedJob
<1>9. Late' = Late
  BY <1>1, <1>3, <1>5 DEF Late
<1>10. Vault!HandOver(j)
  <2>1. CustodyOf(j) = [at |-> Places(j), ws |-> job[j].ws] /\ Vault!InJob(j)
    BY <1>1, CompleteInCustody
  <2>. QED
    <3>1. [i \in Jobs |-> CustodyOf(i)]' = [[i \in Jobs |-> CustodyOf(i)] EXCEPT ![j].at = {"source"}]
      BY <1>6, <1>8, <2>1, MovedPlaces
    <3>2. UNCHANGED {i \in Jobs : job[i] # NoRow /\ job[i].due}
      BY <1>9 DEF Late
    <3>. QED
      BY <2>1, <3>1, <3>2 DEF Vault!HandOver
<1>. QED
  BY <1>10 DEF VaultStep, Vault!Next

(* Only a job that came due is expired, or one that has expired already. *)
LEMMA ExpireIsDiscarding ==
    ASSUME IInv, NEW r \in Requests, Expire(r), TimeInv(req[r])
    PROVE  VaultStep
<1>. PICK j \in Jobs : j = req[r].job
  BY DEF IInv, RequestInv, Expire
<1>. DEFINE row == [job[j] EXCEPT !.state = "expired", !.cipher = FALSE]
<1>1. /\ job[j] # NoRow /\ job[j].state # "consumed" /\ job' = [job EXCEPT ![j] = row]
      /\ source' = source /\ job \in [Jobs -> Job \cup {NoRow}]
      /\ job[j].state = "expired" \/ job[j].due
  BY DEF IInv, TypeOK, RequestInv, Expire, TimeInv
<1>2. job[j] \in Job /\ source[j] = NoRow
  BY <1>1 DEF IInv, JobInv
<1>3. /\ row \in Job /\ ~ row.cipher /\ row.due = job[j].due /\ row.ws = job[j].ws
      /\ row.state = "expired"
  BY <1>2 DEF Job
<1>. HIDE DEF row
<1>4. job'[j] = row /\ job'[j] # NoRow /\ \A i \in Jobs \ {j} : job'[i] = job[i]
  BY <1>1, <1>3, NoRowAssumption
<1>5. CustodyOf(j)' = [at |-> {}, ws |-> job[j].ws]
  <2>1. Places(j)' = {}
    BY <1>1, <1>2, <1>3, <1>4 DEF Places
  <2>. QED
    BY <1>1, <1>2, <1>3, <1>4, <2>1 DEF CustodyOf
<1>6. \A i \in Jobs \ {j} : CustodyOf(i)' = CustodyOf(i)
  BY <1>1, <1>4, UntouchedJob
<1>7. Late' = Late
  BY <1>1, <1>3, <1>4 DEF Late
<1>8. CASE job[j].state = "complete"
  <2>1. CustodyOf(j) = [at |-> Places(j), ws |-> job[j].ws] /\ Vault!InJob(j)
    BY <1>1, <1>8, CompleteInCustody
  <2>2. j \in Late
    BY <1>1, <1>8 DEF Late
  <2>3. Vault!Discard(j)
    <3>1. [i \in Jobs |-> CustodyOf(i)]' = [[i \in Jobs |-> CustodyOf(i)] EXCEPT ![j].at = {}]
      BY <1>5, <1>6, <2>1, MovedPlaces
    <3>2. UNCHANGED {i \in Jobs : job[i] # NoRow /\ job[i].due}
      BY <1>7 DEF Late
    <3>. QED
      BY <2>1, <2>2, <3>1, <3>2 DEF Vault!Discard, Late
  <2>. QED
    BY <2>3 DEF VaultStep, Vault!Next
<1>9. CASE job[j].state = "expired"
  <2>1. Places(j) = {}
    BY <1>1, <1>2, <1>9 DEF IInv, JobInv, Places
  <2>2. CustodyOf(j)' = CustodyOf(j)
    BY <1>1, <1>2, <1>5, <2>1 DEF CustodyOf
  <2>. QED
    BY <1>6, <1>7, <2>2, QuietVault
<1>. QED
  BY <1>1, <1>2, <1>8, <1>9 DEF Job

LEMMA ClockIsComingDue ==
    ASSUME IInv, NEW j \in Jobs, TimePasses(j)
    PROVE  VaultStep
<1>. DEFINE row == [job[j] EXCEPT !.due = TRUE]
<1>1. /\ job[j] # NoRow /\ job' = [job EXCEPT ![j] = row] /\ source' = source
      /\ job \in [Jobs -> Job \cup {NoRow}] /\ job[j] \in Job /\ ~ job[j].due
      /\ source \in [Jobs -> Source \cup {NoRow}]
  BY DEF IInv, TypeOK, TimePasses
<1>2. row \in Job /\ row.cipher = job[j].cipher /\ row.ws = job[j].ws /\ row.due
  BY <1>1 DEF Job
<1>. HIDE DEF row
<1>3. job'[j] = row /\ job'[j] # NoRow /\ \A i \in Jobs \ {j} : job'[i] = job[i]
  BY <1>1, <1>2, NoRowAssumption
<1>4. CustodyOf(j)' = CustodyOf(j)
  BY <1>1, <1>2, <1>3 DEF CustodyOf, Places
<1>5. \A i \in Jobs : CustodyOf(i)' = CustodyOf(i)
  BY <1>1, <1>3, <1>4, UntouchedJob
<1>6. Late' = Late \cup {j}
  BY <1>1, <1>2, <1>3 DEF Late
<1>7. CustodyOf(j) # NoRow
  <2>1. CustodyOf(j) = [at |-> Places(j), ws |-> CustodyOf(j).ws] /\ CustodyOf(j).ws \in Workspaces
    BY <1>1 DEF CustodyOf, Job, Source
  <2>2. CustodyOf(j) \in Vault!Custody
    BY <2>1 DEF Vault!Custody, Places
  <2>. QED
    BY <2>2, VaultNullAssumption
<1>8. Vault!ComeDue(j)
  BY <1>5, <1>6, <1>7 DEF Vault!ComeDue, Late
<1>. QED
  BY <1>8 DEF VaultStep, Vault!Next

(* What a completion has found out about the time stays true: a job that is *)
(* due stays so, and the state of a job is its lock holder's.               *)
LEMMA NextKeepsTime ==
    ASSUME IInv, [Next]_vars, \A r \in Requests : TimeInv(req[r])
    PROVE  \A r \in Requests : TimeInv(req[r])'
<1>0. TypeOK /\ job \in [Jobs -> Job \cup {NoRow}] /\ req \in [Requests -> Request]
  BY DEF IInv, TypeOK
<1>1. TimeInv(Idle)
  BY DEF TimeInv, Idle
<1>2. ASSUME NEW r \in Requests, ScanStart(r) \/ \E j \in Jobs : CompleteStart(r, j)
      PROVE  \A s \in Requests : TimeInv(req[s])'
  <2>1. PICK state : Goto(r, state) /\ state.pc \in {"scanning", "completing"} /\ job' = job
    BY <1>2 DEF ScanStart, CompleteStart, Admit
  <2>. QED
    BY <1>0, <2>1, TimeOfReads DEF TimeInv
<1>3. ASSUME NEW r \in Requests, Abort(r) PROVE \A s \in Requests : TimeInv(req[s])'
  BY <1>0, <1>1, <1>3, TimeOfReads DEF Abort, Respond
<1>4. ASSUME NEW r \in Requests, CompleteBegin(r) PROVE \A s \in Requests : TimeInv(req[s])'
  <2>. DEFINE state == [req[r] EXCEPT !.pc = "begun", !.due = job[req[r].job].due]
  <2>1. state.pc = "begun" /\ state.job = req[r].job /\ state.due = job[req[r].job].due
    BY <1>0 DEF Request
  <2>2. Goto(r, state) /\ job' = job
    BY <1>4 DEF CompleteBegin
  <2>. HIDE DEF state
  <2>. QED
    BY <1>0, <2>1, <2>2, TimeOfReads DEF TimeInv
<1>5. ASSUME NEW r \in Requests, CompleteLock(r) PROVE \A s \in Requests : TimeInv(req[s])'
  <2>1. CASE Respond(r)
    BY <1>0, <1>1, <1>5, <2>1, TimeOfReads DEF CompleteLock, Respond
  <2>2. CASE ~ Respond(r)
    <3>. DEFINE state == [req[r] EXCEPT !.pc = Branch(req[r])]
    <3>1. Goto(r, state) /\ job' = job /\ req[r].pc = "begun"
      BY <1>5, <2>2 DEF CompleteLock
    <3>2. state.pc = Branch(req[r]) /\ state.job = req[r].job /\ state.due = req[r].due
      BY <1>0 DEF Request
    <3>. HIDE DEF state
    <3>3. TimeInv(state)
      BY <3>1, <3>2 DEF TimeInv, Branch
    <3>. QED
      BY <1>0, <3>1, <3>3, TimeOfReads
  <2>. QED
    BY <2>1, <2>2
<1>6. ASSUME NEW r \in Requests, NEW j \in Jobs, ScanStore(r, j)
      PROVE  \A s \in Requests : TimeInv(req[s])'
  <2>1. /\ req' = [req EXCEPT ![r] = Idle] /\ job[j] = NoRow
        /\ \A i \in Jobs \ {j} : job'[i] = job[i]
    BY <1>0, <1>6 DEF ScanStore, Respond, Goto
  <2>2. ASSUME NEW s \in Requests, s # r PROVE TimeInv(req[s])'
    <3>1. req[s].pc \in {"begun", "consuming", "expiring"} => req[s].job \in Jobs \ {j}
      BY <2>1 DEF IInv, RequestInv
    <3>. QED
      BY <1>0, <2>1, <2>2, <3>1, TimeUntouched
  <2>. QED
    BY <1>0, <1>1, <2>1, <2>2 DEF TimeInv, Idle
<1>7. ASSUME NEW r \in Requests, Consume(r) \/ Expire(r)
      PROVE  \A s \in Requests : TimeInv(req[s])'
  <2>. PICK j \in Jobs : j = req[r].job
    BY <1>7 DEF IInv, RequestInv, Consume, Expire
  <2>1. /\ req' = [req EXCEPT ![r] = Idle] /\ Holds(r, j) /\ job[j] \in Job
        /\ \A i \in Jobs \ {j} : job'[i] = job[i]
        /\ job'[j].due = job[j].due
    <3>1. /\ req' = [req EXCEPT ![r] = Idle] /\ Holds(r, j) /\ job[j] \in Job
      BY <1>0, <1>7 DEF Consume, Expire, Respond, Goto, Holds, IInv, RequestInv
    <3>2. CASE Consume(r)
      <4>1. job' = [job EXCEPT ![j] = Consumed(@)] /\ Consumed(job[j]).due = job[j].due
        BY <3>1, <3>2 DEF Consume, Consumed, Job
      <4>. QED
        BY <1>0, <3>1, <4>1
    <3>3. CASE Expire(r)
      <4>. DEFINE row == [job[j] EXCEPT !.state = "expired", !.cipher = FALSE]
      <4>1. job' = [job EXCEPT ![j] = row] /\ row.due = job[j].due
        BY <3>1, <3>3 DEF Expire, Job
      <4>. HIDE DEF row
      <4>. QED
        BY <1>0, <3>1, <4>1
    <3>. QED
      BY <1>7, <3>2, <3>3
  <2>2. ASSUME NEW s \in Requests, s # r PROVE TimeInv(req[s])'
    <3>1. req[s].pc = "expiring" => req[s].job # j
      BY <2>1, <2>2 DEF IInv, LocksAreExclusive, Holds
    <3>2. req[s].pc \in {"begun", "consuming", "expiring"} => req[s].job \in Jobs
      BY DEF IInv, RequestInv
    <3>. QED
      BY <1>0, <2>1, <2>2, <3>1, <3>2, TimeUntouched
  <2>. QED
    BY <1>0, <1>1, <2>1, <2>2 DEF TimeInv, Idle
<1>8. ASSUME NEW j \in Jobs, TimePasses(j) PROVE \A s \in Requests : TimeInv(req[s])'
  <2>1. /\ req' = req /\ \A i \in Jobs \ {j} : job'[i] = job[i]
        /\ job'[j].due /\ job'[j].state = job[j].state
    BY <1>0, <1>8 DEF TimePasses, Job
  <2>2. ASSUME NEW s \in Requests PROVE TimeInv(req[s])'
    <3>1. req[s].pc \in {"begun", "consuming", "expiring"} => req[s].job \in Jobs
      BY DEF IInv, RequestInv
    <3>. QED
      BY <2>1, <3>1, TimeUntouched
  <2>. QED
    BY <2>2
<1>9. CASE UNCHANGED <<job, req>>
  BY <1>9 DEF TimeInv
<1>. QED
  BY <1>2, <1>3, <1>4, <1>5, <1>6, <1>7, <1>8, <1>9 DEF Next, Statement, MembershipChanges, vars

LEMMA NextImplementsVault ==
    IInv /\ (\A r \in Requests : TimeInv(req[r])) /\ [Next]_vars => VaultStep
<1>. SUFFICES ASSUME IInv, \A r \in Requests : TimeInv(req[r]), [Next]_vars PROVE VaultStep
  OBVIOUS
<1>1. CASE UNCHANGED <<job, source>>
  BY <1>1, UntouchedJob, QuietVault DEF Late
<1>2. ASSUME NEW r \in Requests, Statement(r) PROVE VaultStep
  BY <1>1, <1>2, StoreIsTaking, ConsumeIsHandingOver, ExpireIsDiscarding
     DEF Statement, CompleteBegin, CompleteLock
<1>3. ASSUME NEW j \in Jobs, TimePasses(j) PROVE VaultStep
  BY <1>3, ClockIsComingDue
<1>. QED
  BY <1>1, <1>2, <1>3 DEF Next, ScanStart, CompleteStart, Admit, Abort, MembershipChanges, vars

\* The scan jobs implement the vault: credentials are taken once, are in one place, are handed over
\* within their workspace or discarded after expires_at, and never come back, however the
\* completions of a job wait for each other and for the clock (complete_data_source_scan_job).
THEOREM JobsImplementVault == Spec => ImplementsVault
<1>. DEFINE TInv == \A r \in Requests : TimeInv(req[r])
<1>1. Init => TInv
  BY DEF Init, TimeInv, Idle
<1>2. TInv /\ IInv /\ [Next]_vars => TInv'
  BY NextKeepsTime
<1>3. Init => Vault!Init
  BY DEF Init, Vault!Init, CustodyOf
<1>4. TInv /\ IInv /\ [Next]_vars => [Vault!Next]_(Vault!vault)
  BY NextImplementsVault DEF VaultStep
<1>. HIDE DEF TInv
<1>. QED
  BY <1>1, <1>2, <1>3, <1>4, SpecInv, PTL DEF Spec, ImplementsVault, Vault!Spec

-----------------------------------------------------------------------------
\* A job that was consumed or expired stays what it is: no completion that was waiting for it, or
\* that comes after expires_at, turns it into the other.
OutcomeIsFinal ==
    [][\A j \in Jobs :
          job[j] # NoRow /\ job[j].state # "complete" => job'[j].state = job[j].state]_vars

\* Consumed and expired are final (the state is looked at under the row lock).
THEOREM OutcomesAreFinal == Spec => OutcomeIsFinal
<1>. DEFINE Keeps(j) == job[j] # NoRow /\ job[j].state # "complete" => job'[j].state = job[j].state
<1>1. ASSUME IInv, [Next]_vars, NEW j \in Jobs PROVE Keeps(j)
  <2>1. job \in [Jobs -> Job \cup {NoRow}]
    BY <1>1 DEF IInv, TypeOK
  <2>2. ASSUME NEW r \in Requests, NEW i \in Jobs, ScanStore(r, i) PROVE Keeps(j)
    BY <2>1, <2>2 DEF ScanStore
  <2>3. ASSUME NEW r \in Requests, Consume(r) PROVE Keeps(j)
    BY <1>1, <2>1, <2>3 DEF Consume, IInv, RequestInv
  <2>4. ASSUME NEW r \in Requests, Expire(r) PROVE Keeps(j)
    <3>1. job[req[r].job].state # "consumed" /\ req[r].job \in Jobs /\ job[req[r].job] # NoRow
      BY <1>1, <2>4 DEF Expire, IInv, RequestInv
    <3>2. job[req[r].job] \in Job
      BY <2>1, <3>1
    <3>. QED
      BY <2>1, <2>4, <3>1, <3>2 DEF Expire, Job
  <2>5. ASSUME NEW i \in Jobs, TimePasses(i) PROVE Keeps(j)
    BY <2>1, <2>5 DEF TimePasses, Job
  <2>6. CASE UNCHANGED job
    BY <2>6
  <2>. HIDE DEF Keeps
  <2>. QED
    BY <1>1, <2>2, <2>3, <2>4, <2>5, <2>6
    DEF Next, Statement, ScanStart, CompleteStart, Admit, CompleteBegin, CompleteLock, Abort,
        MembershipChanges, vars
<1>2. IInv /\ [Next]_vars => [\A j \in Jobs : Keeps(j)]_vars
  BY <1>1
<1>. QED
  BY <1>2, SpecInv, PTL DEF Spec, OutcomeIsFinal
=============================================================================
