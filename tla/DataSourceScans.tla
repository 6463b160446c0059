---------------------------- MODULE DataSourceScans ---------------------------
(***************************************************************************)
(* The data-source handlers with the connections they make: a scan job is  *)
(* stored after scan_catalog has returned, a test stores nothing.          *)
(*                                                                         *)
(* Each step is one of ScanJobs or leaves its tables and requests alone.   *)
(***************************************************************************)
EXTENDS ScanJobs

CONSTANTS RequireTLS, VerifyTLS, NoServer

VARIABLES call, conn

INSTANCE DataSourceRuntime WITH Calls <- Requests

ASSUME DataSourceScansAssumption ==
    /\ RequireTLS \in BOOLEAN /\ VerifyTLS \in BOOLEAN
    /\ NoServer \notin Server

scanVars == <<vars, call, conn>>

-----------------------------------------------------------------------------
(* ui_test_data_source *)
TestBegin(r, tls, listed) ==
    /\ req[r] = Idle
    /\ acting \in owner
    /\ Begin(r, "test", tls, listed)
    /\ UNCHANGED vars

(* ui_scan_data_source *)
ScanBegin(r, tls, listed) ==
    /\ ScanStart(r)
    /\ Begin(r, "scan", tls, listed)

(* the handler goes on, or answers a test or a failed call *)
RuntimeGoesOn(r) == RuntimeStep(r) /\ UNCHANGED vars

StoreUnasked(r) == call[r].pc = "done"   \* mutant: the outcome is not looked at

Returned(r) == call[r].pc = "done" /\ call[r].outcome = "ok"

ScanEnd(r, j) ==
    /\ Returned(r)
    /\ ScanStore(r, j)
    /\ Forget(r)

TestEnd(r) ==
    /\ call[r].op = "test" /\ call[r].pc = "done"
    /\ Forget(r)
    /\ UNCHANGED vars

ScanAborted(r) ==
    /\ call[r].op = "scan" /\ call[r].pc = "done"
    /\ Abort(r)
    /\ Forget(r)

(* the process of this request dies during the call *)
Dies(r) ==
    /\ call[r].pc # "done"
    /\ Forget(r)
    /\ IF call[r].op = "scan" THEN Abort(r) ELSE UNCHANGED vars

(* everything that needs no connection *)
Elsewhere(r) ==
    /\ call[r] = NoCall
    /\ \/ \E j \in Jobs : CompleteStart(r, j)
       \/ CompleteBegin(r) \/ CompleteLock(r) \/ Consume(r) \/ Expire(r) \/ Abort(r)
    /\ UNCHANGED <<call, conn>>

Outside ==
    /\ \/ \E j \in Jobs : TimePasses(j)
       \/ \E w \in Workspaces, roles \in SUBSET Workspaces : MembershipChanges(w, roles)
    /\ UNCHANGED <<call, conn>>

ScansInit == Init /\ RuntimeInit

ScansNext ==
    \/ \E r \in Requests :
          \/ \E tls, listed \in BOOLEAN : TestBegin(r, tls, listed) \/ ScanBegin(r, tls, listed)
          \/ RuntimeGoesOn(r) \/ TestEnd(r) \/ ScanAborted(r) \/ Dies(r) \/ Elsewhere(r)
          \/ \E j \in Jobs : ScanEnd(r, j)
    \/ Outside

ScansSpec == ScansInit /\ [][ScansNext]_scanVars

-----------------------------------------------------------------------------
(* Properties *)

\* The requests and connections are of their types, and a request is at a scan exactly while it
\* has a call that scans.
ScansTypeOK ==
    /\ TypeOK
    /\ RuntimeTypeOK
    /\ \A r \in Requests : req[r].pc = "scanning" <=> call[r].op = "scan"

\* A job is stored only by a scan whose connection was verified, and is closed by then: no failed,
\* refused or cancelled scan, and no test, leaves a job with credentials behind.
JobsComeFromVerifiedScans ==
    [][\A j \in Jobs : job[j] = NoRow /\ job'[j] # NoRow =>
          \E r \in Requests : /\ call[r].op = "scan" /\ Verified(call[r])
                              /\ r \notin conn
                              /\ job'[j].ws = req[r].ws]_scanVars
=============================================================================
