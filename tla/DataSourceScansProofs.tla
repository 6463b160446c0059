------------------------- MODULE DataSourceScansProofs ------------------------
(***************************************************************************)
(* Proofs about DataSourceScans: each of its steps is one of ScanJobs or    *)
(* leaves the jobs alone, so all that is proved of ScanJobs holds of it;    *)
(* and what its connections add.                                           *)
(***************************************************************************)
EXTENDS DataSourceScans, ScanJobsProofs

-----------------------------------------------------------------------------
(* The jobs are those of ScanJobs *)

LEMMA ScansStepIsJobStep == ScansNext => Next \/ UNCHANGED vars
<1>1. ASSUME NEW r \in Requests, NEW tls \in BOOLEAN, NEW listed \in BOOLEAN,
             TestBegin(r, tls, listed) \/ ScanBegin(r, tls, listed)
      PROVE  Next \/ UNCHANGED vars
  BY <1>1 DEF TestBegin, ScanBegin, Next
<1>2. ASSUME NEW r \in Requests, RuntimeGoesOn(r) \/ TestEnd(r) \/ ScanAborted(r) \/ Dies(r)
      PROVE  Next \/ UNCHANGED vars
  BY <1>2 DEF RuntimeGoesOn, TestEnd, ScanAborted, Dies, Next
<1>3. ASSUME NEW r \in Requests, Elsewhere(r) PROVE Next \/ UNCHANGED vars
  BY <1>3 DEF Elsewhere, Next, Statement
<1>4. ASSUME NEW r \in Requests, NEW j \in Jobs, ScanEnd(r, j) PROVE Next \/ UNCHANGED vars
  BY <1>4 DEF ScanEnd, Next, Statement
<1>5. ASSUME Outside PROVE Next \/ UNCHANGED vars
  BY <1>5 DEF Outside, Next
<1>. QED
  BY <1>1, <1>2, <1>3, <1>4, <1>5 DEF ScansNext

\* The handlers with their connections implement the life of the jobs: whatever a connection
\* does, a scan appears to the tables as a request that was admitted and then stores or gives up.
THEOREM ScansImplementJobs == ScansSpec => Spec
<1>1. ScansInit => Init
  BY DEF ScansInit
<1>2. [ScansNext]_scanVars => [Next]_vars
  BY ScansStepIsJobStep DEF scanVars, vars
<1>. QED
  BY <1>1, <1>2, PTL DEF ScansSpec, Spec

\* And so they keep the promise about the credentials: the vault of the jobs is that of the
\* handlers, whatever becomes of their connections.
THEOREM ScansImplementVault == ScansSpec => ImplementsVault
  BY ScansImplementJobs, JobsImplementVault, PTL

-----------------------------------------------------------------------------
(* The inductive invariant of the calls *)

(* c: a call; open: it has a connection; scans: its request is at a scan    *)
CallInv(c, open, scans) ==
    /\ c \in Call
    /\ open => c.pc \in {"enforcing", "scanning", "closing"}
    /\ scans <=> c.op = "scan"
    /\ c.pc = "idle" => c = NoCall
    /\ c.pc \notin {"idle", "done"} => (RequireTLS => c.tls)
    /\ c.pc \in {"enforcing", "scanning"} =>
           /\ c.server # NoServer
           /\ PeerVerified(c.server)
           /\ TLSVerified(c, c.server)
    /\ c.pc = "scanning" => c.readOnly
    /\ c.pc \in {"idle", "resolving", "connecting", "enforcing", "scanning"} => c.outcome = "none"
    /\ c.outcome = "ok" => Verified(c)

CallsInv ==
    /\ call \in [Requests -> Call]
    /\ conn \subseteq Requests
    /\ \A r \in Requests : CallInv(call[r], r \in conn, req[r].pc = "scanning")

ScansInv == IInv /\ CallsInv

LEMMA NoCallInv == CallInv(NoCall, FALSE, FALSE)
  BY DEF CallInv, NoCall, Call

(* one call goes on, the others stay with their requests *)
LEMMA CallStep ==
    ASSUME CallsInv, NEW r \in Requests, NEW state, Set(r, state),
           CallInv(state, r \in conn', req'[r].pc = "scanning"),
           conn' \subseteq Requests,
           \A s \in Requests \ {r} : (s \in conn' <=> s \in conn) /\ req'[s] = req[s]
    PROVE  CallsInv'
<1>1. call \in [Requests -> Call] /\ call' = [call EXCEPT ![r] = state] /\ state \in Call
  BY DEF CallsInv, Set, CallInv
<1>2. call' \in [Requests -> Call]
  BY <1>1
<1>3. ASSUME NEW s \in Requests PROVE CallInv(call[s], s \in conn, req[s].pc = "scanning")'
  <2>1. CASE s = r
    BY <1>1, <2>1 DEF CallInv, Verified, TLSVerified
  <2>2. CASE s # r
    <3>1. call'[s] = call[s] /\ (s \in conn' <=> s \in conn) /\ req'[s] = req[s]
      BY <1>1, <2>2
    <3>. QED
      BY <3>1 DEF CallsInv, CallInv, Verified, TLSVerified
  <2>. QED
    BY <2>1, <2>2
<1>. QED
  BY <1>2, <1>3 DEF CallsInv

-----------------------------------------------------------------------------
(* The steps of a call *)

LEMMA RuntimeStepKeepsInv ==
    ASSUME ScansInv, NEW r \in Requests, RuntimeGoesOn(r) PROVE CallsInv'
<1>. DEFINE c == call[r]
            scans == req[r].pc = "scanning"
<1>1. CallsInv /\ c \in Call /\ CallInv(c, r \in conn, scans) /\ conn \subseteq Requests
  BY DEF ScansInv, CallsInv
<1>2. req' = req
  BY DEF RuntimeGoesOn, vars
<1>3. ASSUME NEW state, Set(r, state), CallInv(state, r \in conn', scans),
             conn' = conn \/ conn' = conn \cup {r} \/ conn' = conn \ {r}
      PROVE  CallsInv'
  <2>1. conn' \subseteq Requests /\ \A s \in Requests \ {r} : (s \in conn' <=> s \in conn) /\ req'[s] = req[s]
    BY <1>1, <1>2, <1>3
  <2>2. CallInv(state, r \in conn', req'[r].pc = "scanning")
    BY <1>2, <1>3
  <2>. QED
    BY <1>1, <1>3, <2>1, <2>2, CallStep
<1>4. ASSUME NEW outcome \in {"error", "cancelled"}, Finish(r, outcome), r \notin conn',
             c.pc # "idle",
             conn' = conn \/ conn' = conn \ {r}
      PROVE  CallsInv'
  <2>. DEFINE state == [c EXCEPT !.pc = "done", !.outcome = outcome]
  <2>1. CallInv(state, r \in conn', scans)
    BY <1>1, <1>4 DEF CallInv, Call
  <2>2. Set(r, state)
    BY <1>4 DEF Finish
  <2>. HIDE DEF state
  <2>. QED
    BY <1>3, <1>4, <2>1, <2>2
<1>5. ASSUME NEW outcome \in {"error", "cancelled"}, Leave(r, outcome),
             c.pc \in {"connecting", "enforcing", "scanning"},
             conn' = conn \/ conn' = conn \cup {r}
      PROVE  CallsInv'
  <2>. DEFINE state == [c EXCEPT !.pc = "closing", !.outcome = outcome]
  <2>1. CallInv(state, r \in conn', scans)
    BY <1>1, <1>5 DEF CallInv, Call
  <2>2. Set(r, state)
    BY <1>5 DEF Leave
  <2>. HIDE DEF state
  <2>. QED
    BY <1>3, <1>5, <2>1, <2>2
<1>6. ASSUME NEW allAllowed \in BOOLEAN, Resolve(r, allAllowed) PROVE CallsInv'
  <2>1. CASE allAllowed
    <3>. DEFINE state == [c EXCEPT !.pc = "connecting"]
    <3>1. CallInv(state, r \in conn', scans)
      BY <1>1, <1>6, <2>1 DEF CallInv, Call, Resolve
    <3>2. Set(r, state) /\ conn' = conn
      BY <1>6, <2>1 DEF Resolve
    <3>. HIDE DEF state
    <3>. QED
      BY <1>3, <3>1, <3>2
  <2>2. CASE ~ allAllowed
    BY <1>1, <1>4, <1>6, <2>2 DEF Resolve, CallInv
  <2>. QED
    BY <2>1, <2>2
<1>7. ASSUME NEW server \in Server, Connect(r, server) PROVE CallsInv'
  <2>1. CASE PeerVerified(server) /\ TLSVerified(c, server)
    <3>. DEFINE state == [c EXCEPT !.pc = "enforcing", !.server = server]
    <3>1. CallInv(state, r \in conn', scans)
      BY <1>1, <1>7, <2>1, DataSourceScansAssumption DEF CallInv, Call, Connect, TLSVerified
    <3>2. Set(r, state) /\ conn' = conn \cup {r}
      BY <1>7, <2>1 DEF Connect
    <3>. HIDE DEF state
    <3>. QED
      BY <1>3, <3>1, <3>2
  <2>2. CASE ~ (PeerVerified(server) /\ TLSVerified(c, server))
    BY <1>5, <1>7, <2>2 DEF Connect
  <2>. QED
    BY <2>1, <2>2
<1>8. CASE EnforceReadOnly(r)
  <2>. DEFINE done == [c EXCEPT !.readOnly = TRUE]
              state == IF done.op = "scan" THEN [done EXCEPT !.pc = "scanning"]
                       ELSE [done EXCEPT !.pc = "closing", !.outcome = "ok"]
  <2>1. CallInv(state, r \in conn', scans)
    BY <1>1, <1>8 DEF CallInv, Call, EnforceReadOnly, Verified, TLSVerified, PeerVerified
  <2>2. Set(r, state) /\ conn' = conn
    BY <1>8 DEF EnforceReadOnly
  <2>. HIDE DEF state
  <2>. QED
    BY <1>3, <2>1, <2>2
<1>9. CASE ScanCatalog(r)
  <2>. DEFINE state == [c EXCEPT !.pc = "closing", !.outcome = "ok"]
  <2>1. CallInv(state, r \in conn', scans)
    BY <1>1, <1>9 DEF CallInv, Call, ScanCatalog, Verified, TLSVerified, PeerVerified
  <2>2. Set(r, state) /\ conn' = conn
    BY <1>9 DEF ScanCatalog, Leave
  <2>. HIDE DEF state
  <2>. QED
    BY <1>3, <2>1, <2>2
<1>10. CASE Close(r)
  <2>. DEFINE state == [c EXCEPT !.pc = "done", !.outcome = c.outcome]
  <2>1. CallInv(state, r \in conn', scans)
    BY <1>1, <1>10 DEF CallInv, Call, Close, Verified, TLSVerified
  <2>2. Set(r, state) /\ conn' = conn \ {r}
    BY <1>10 DEF Close, Finish
  <2>. HIDE DEF state
  <2>. QED
    BY <1>3, <2>1, <2>2
<1>11. CASE ConnectFails(r) \/ CancelBefore(r)
  BY <1>1, <1>4, <1>11 DEF ConnectFails, CancelBefore, CallInv
<1>12. CASE StatementFails(r) \/ CancelOpen(r)
  BY <1>5, <1>12 DEF StatementFails, CancelOpen
<1>13. CASE CancelClosing(r)
  BY <1>4, <1>13 DEF CancelClosing, Terminate
<1>. QED
  BY <1>6, <1>7, <1>8, <1>9, <1>10, <1>11, <1>12, <1>13 DEF RuntimeGoesOn, RuntimeStep

-----------------------------------------------------------------------------
(* Where calls begin and end *)

LEMMA BeginKeepsInv ==
    ASSUME ScansInv, NEW r \in Requests, NEW tls \in BOOLEAN, NEW listed \in BOOLEAN,
           TestBegin(r, tls, listed) \/ ScanBegin(r, tls, listed)
    PROVE  CallsInv'
<1>1. PICK op \in {"test", "scan"} :
          /\ Begin(r, op, tls, listed)
          /\ op = "scan" <=> req'[r].pc = "scanning"
          /\ \A s \in Requests \ {r} : req'[s] = req[s]
  <2>1. req \in [Requests -> Request]
    BY DEF ScansInv, IInv, TypeOK
  <2>2. CASE TestBegin(r, tls, listed)
    BY <2>1, <2>2 DEF TestBegin, vars, Idle
  <2>3. CASE ScanBegin(r, tls, listed)
    BY <2>1, <2>3 DEF ScanBegin, ScanStart, Admit, Goto
  <2>. QED
    BY <2>2, <2>3
<1>. DEFINE started == [NoCall EXCEPT !.op = op, !.tls = tls]
            state == IF (RequireTLS => tls) /\ listed THEN [started EXCEPT !.pc = "resolving"]
                     ELSE [started EXCEPT !.pc = "done", !.outcome = "error"]
<1>2. call[r] = NoCall /\ Set(r, state) /\ conn' = conn
  BY <1>1 DEF Begin
<1>3. r \notin conn /\ conn \subseteq Requests /\ CallsInv
  BY <1>2 DEF ScansInv, CallsInv, CallInv, NoCall
<1>4. CallInv(state, r \in conn', req'[r].pc = "scanning")
  BY <1>1, <1>2, <1>3 DEF CallInv, NoCall, Call
<1>. HIDE DEF state
<1>. QED
  BY <1>1, <1>2, <1>3, <1>4, CallStep

LEMMA ForgetKeepsInv ==
    ASSUME ScansInv, NEW r \in Requests, Forget(r), req'[r].pc # "scanning",
           \A s \in Requests \ {r} : req'[s] = req[s]
    PROVE  CallsInv'
<1>1. Set(r, NoCall) /\ conn' = conn \ {r}
  BY DEF Forget
<1>2. CallsInv /\ conn \subseteq Requests
  BY DEF ScansInv, CallsInv
<1>3. CallInv(NoCall, r \in conn', req'[r].pc = "scanning")
  BY <1>1, NoCallInv DEF CallInv
<1>. QED
  BY <1>1, <1>2, <1>3, CallStep

LEMMA AbortLeavesOthers ==
    ASSUME ScansInv, NEW r \in Requests, Abort(r)
    PROVE  req'[r].pc # "scanning" /\ \A s \in Requests \ {r} : req'[s] = req[s]
  BY DEF ScansInv, IInv, TypeOK, Abort, Respond, Goto, Idle

LEMMA EndKeepsInv ==
    ASSUME ScansInv, NEW r \in Requests,
           TestEnd(r) \/ ScanAborted(r) \/ Dies(r) \/ \E j \in Jobs : ScanEnd(r, j)
    PROVE  CallsInv'
<1>1. CallInv(call[r], r \in conn, req[r].pc = "scanning")
  BY DEF ScansInv, CallsInv
<1>2. ASSUME Forget(r), UNCHANGED vars, call[r].op # "scan" PROVE CallsInv'
  BY <1>1, <1>2, ForgetKeepsInv DEF vars, CallInv
<1>3. ASSUME Forget(r), Abort(r) PROVE CallsInv'
  BY <1>3, ForgetKeepsInv, AbortLeavesOthers
<1>4. ASSUME NEW j \in Jobs, ScanEnd(r, j) PROVE CallsInv'
  <2>1. req'[r].pc # "scanning" /\ \A s \in Requests \ {r} : req'[s] = req[s]
    BY <1>4 DEF ScansInv, IInv, TypeOK, ScanEnd, ScanStore, Respond, Goto, Idle
  <2>. QED
    BY <1>4, <2>1, ForgetKeepsInv DEF ScanEnd
<1>. QED
  BY <1>2, <1>3, <1>4 DEF TestEnd, ScanAborted, Dies

LEMMA ElsewhereKeepsInv ==
    ASSUME ScansInv, NEW r \in Requests, Elsewhere(r) PROVE CallsInv'
<1>1. CallsInv /\ req \in [Requests -> Request] /\ req[r].pc # "scanning" /\ call[r] = NoCall
  BY DEF ScansInv, IInv, TypeOK, CallsInv, CallInv, Elsewhere, NoCall
<1>2. call' = call /\ conn' = conn
  BY DEF Elsewhere
<1>3. (req'[r].pc = "scanning" <=> req[r].pc = "scanning")
      /\ \A s \in Requests \ {r} : req'[s] = req[s]
  <2>1. ASSUME NEW state, req' = [req EXCEPT ![r] = state], state.pc # "scanning"
        PROVE  (req'[r].pc = "scanning" <=> req[r].pc = "scanning")
               /\ \A s \in Requests \ {r} : req'[s] = req[s]
    BY <1>1, <2>1
  <2>2. ASSUME NEW j \in Jobs, CompleteStart(r, j)
        PROVE  (req'[r].pc = "scanning" <=> req[r].pc = "scanning")
               /\ \A s \in Requests \ {r} : req'[s] = req[s]
    BY <1>1, <2>2, <2>1 DEF CompleteStart, Admit, Goto
  <2>3. CASE CompleteBegin(r)
    BY <1>1, <2>1, <2>3 DEF CompleteBegin, Goto, Request
  <2>4. CASE CompleteLock(r)
    BY <1>1, <2>1, <2>4 DEF CompleteLock, Goto, Request, Branch, Respond, Idle
  <2>5. CASE Consume(r) \/ Expire(r) \/ Abort(r)
    BY <2>1, <2>5 DEF Consume, Expire, Abort, Respond, Goto, Idle
  <2>. QED
    BY <2>2, <2>3, <2>4, <2>5 DEF Elsewhere
<1>4. ASSUME NEW s \in Requests PROVE CallInv(call[s], s \in conn, req[s].pc = "scanning")'
  <2>1. CallInv(call[s], s \in conn, req[s].pc = "scanning")
    BY <1>1 DEF CallsInv
  <2>2. req'[s].pc = "scanning" <=> req[s].pc = "scanning"
    BY <1>3
  <2>. QED
    BY <1>2, <2>1, <2>2 DEF CallInv, Verified, TLSVerified
<1>. QED
  BY <1>1, <1>2, <1>4 DEF CallsInv

LEMMA QuietKeepsInv ==
    ASSUME CallsInv, UNCHANGED <<req, call, conn>> PROVE CallsInv'
  BY DEF CallsInv, CallInv, Verified, TLSVerified

LEMMA ScansSpecInv == ScansSpec => []ScansInv
<1>1. ScansInit => ScansInv
  <2>1. ASSUME ScansInit, NEW r \in Requests
        PROVE  CallInv(call[r], r \in conn, req[r].pc = "scanning")
    <3>1. call[r] = NoCall /\ r \notin conn /\ req[r].pc # "scanning"
      BY <2>1 DEF ScansInit, RuntimeInit, Init, Idle
    <3>. QED
      BY <3>1, NoCallInv DEF CallInv
  <2>2. ASSUME ScansInit PROVE call \in [Requests -> Call] /\ conn \subseteq Requests
    BY <2>2, NoCallInv DEF ScansInit, RuntimeInit, CallInv
  <2>3. ScansInit => IInv
    BY InitInv DEF ScansInit
  <2>. QED
    BY <2>1, <2>2, <2>3 DEF ScansInv, CallsInv
<1>2. ScansInv /\ [ScansNext]_scanVars => ScansInv'
  <2>. SUFFICES ASSUME ScansInv, [ScansNext]_scanVars PROVE ScansInv'
    OBVIOUS
  <2>1. IInv'
    BY ScansStepIsJobStep, NextInv DEF ScansInv, scanVars, vars
  <2>2. ASSUME UNCHANGED <<req, call, conn>> PROVE ScansInv'
    <3>1. CallsInv'
      BY <2>2, QuietKeepsInv DEF ScansInv
    <3>. QED
      BY <2>1, <3>1 DEF ScansInv
  <2>3. CASE UNCHANGED scanVars
    BY <2>2, <2>3 DEF scanVars, vars
  <2>4. CASE Outside
    BY <2>2, <2>4 DEF Outside, TimePasses, MembershipChanges
  <2>5. CASE ScansNext /\ ~ Outside
    <3>1. CallsInv'
      BY <2>5, BeginKeepsInv, RuntimeStepKeepsInv, EndKeepsInv, ElsewhereKeepsInv DEF ScansNext
    <3>. QED
      BY <2>1, <3>1 DEF ScansInv
  <2>. QED
    BY <2>3, <2>4, <2>5
<1>. QED
  BY <1>1, <1>2, PTL DEF ScansSpec

-----------------------------------------------------------------------------
(* The theorems *)

\* Requests, tables, calls and connections have their types, and a request is at a scan exactly
\* while it has a call that scans.
THEOREM ScansTypeCorrect == ScansSpec => []ScansTypeOK
<1>1. ScansInv => ScansTypeOK
  BY DEF ScansInv, IInv, CallsInv, CallInv, ScansTypeOK, RuntimeTypeOK
<1>. QED
  BY <1>1, ScansSpecInv, PTL

\* No connection outlives its call (the finally of secured_postgresql_connection, and _close).
THEOREM NoConnectionIsLeft == ScansSpec => []ConnectionsAreReleased
<1>1. ScansInv => ConnectionsAreReleased
  BY DEF ScansInv, CallsInv, CallInv, ConnectionsAreReleased
<1>. QED
  BY <1>1, ScansSpecInv, PTL

\* A test that succeeds and a scan that returns were verified in every respect.
THEOREM ResultsComeVerified == ScansSpec => []ResultsAreVerified
<1>1. ScansInv => ResultsAreVerified
  BY DEF ScansInv, CallsInv, CallInv, ResultsAreVerified
<1>. QED
  BY <1>1, ScansSpecInv, PTL

\* A job is stored only by a scan that was verified, and whose connection is closed.
THEOREM JobsComeVerified == ScansSpec => JobsComeFromVerifiedScans
<1>. DEFINE Explained(j) ==
        job[j] = NoRow /\ job'[j] # NoRow =>
            \E r \in Requests : /\ call[r].op = "scan" /\ Verified(call[r])
                                /\ r \notin conn
                                /\ job'[j].ws = req[r].ws
<1>1. ASSUME ScansInv, [ScansNext]_scanVars, NEW j \in Jobs PROVE Explained(j)
  <2>1. job \in [Jobs -> Job \cup {NoRow}]
    BY <1>1 DEF ScansInv, IInv, TypeOK
  <2>2. ASSUME NEW r \in Requests, NEW i \in Jobs, ScanEnd(r, i) PROVE Explained(j)
    <3>1. call[r].op = "scan" /\ Verified(call[r]) /\ r \notin conn
      BY <1>1, <2>2 DEF ScanEnd, ScanStore, Returned, ScansInv, CallsInv, CallInv
    <3>2. job' = [job EXCEPT ![i] = Scanned(req[r].ws)]
      BY <2>2 DEF ScanEnd, ScanStore
    <3>3. CASE i = j
      BY <2>1, <3>1, <3>2, <3>3 DEF Scanned
    <3>4. CASE i # j
      BY <2>1, <3>2, <3>4
    <3>. QED
      BY <3>3, <3>4
  <2>3. ASSUME NEW r \in Requests, Consume(r) \/ Expire(r) PROVE Explained(j)
    <3>1. req[r].job \in Jobs /\ job[req[r].job] # NoRow
      BY <1>1, <2>3 DEF ScansInv, IInv, RequestInv, Consume, Expire
    <3>2. \E row : job' = [job EXCEPT ![req[r].job] = row]
      BY <2>3 DEF Consume, Expire
    <3>. QED
      BY <2>1, <3>1, <3>2
  <2>4. ASSUME NEW i \in Jobs, TimePasses(i) PROVE Explained(j)
    <3>1. job[i] # NoRow /\ \E row : job' = [job EXCEPT ![i] = row]
      BY <2>4 DEF TimePasses
    <3>. QED
      BY <2>1, <3>1
  <2>5. CASE UNCHANGED job
    BY <2>5
  <2>. HIDE DEF Explained
  <2>. QED
    BY <1>1, <2>2, <2>3, <2>4, <2>5
    DEF ScansNext, scanVars, vars, TestBegin, ScanBegin, RuntimeGoesOn, TestEnd, ScanAborted, Dies,
        Elsewhere, Outside, ScanStart, CompleteStart, Admit, CompleteBegin, CompleteLock, Abort,
        MembershipChanges
<1>2. ScansInv /\ [ScansNext]_scanVars => [\A j \in Jobs : Explained(j)]_scanVars
  BY <1>1
<1>. QED
  BY <1>2, ScansSpecInv, PTL DEF ScansSpec, JobsComeFromVerifiedScans
=============================================================================
