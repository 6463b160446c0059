--------------------------- MODULE DataSourceRuntime --------------------------
(***************************************************************************)
(* Connections to the databases of customers (data_source_runtime.py): one *)
(* call tests a connection or scans a catalogue within                     *)
(* secured_postgresql_connection.  What happens between two awaits is one  *)
(* step; a call may be cancelled at each of them.                          *)
(*                                                                         *)
(* Outside src/: asyncpg.connect leaves nothing open when it fails or is   *)
(* cancelled, and terminate() drops the connection.                        *)
(***************************************************************************)
CONSTANTS
    Calls,
    RequireTLS,
    VerifyTLS,
    NoServer

(* What the other end turns out to be: its address is one the host resolved *)
(* to, or another one within the allowed networks, or outside of them; and  *)
(* what the handshake gave: no TLS, a certificate for another host, one for *)
(* this host.                                                              *)
Server == [peer : {"resolved", "allowed", "outside"}, cert : {"none", "other", "matching"}]

Call == [pc : {"idle", "resolving", "connecting", "enforcing", "scanning", "closing", "done"},
         op : {"none", "test", "scan"}, tls : BOOLEAN,
         server : Server \cup {NoServer},
         readOnly : BOOLEAN,                           \* history: the session was made read-only
         outcome : {"none", "ok", "error", "cancelled"}]

NoCall == [pc |-> "idle", op |-> "none", tls |-> FALSE, server |-> NoServer, readOnly |-> FALSE,
           outcome |-> "none"]

VARIABLES
    call,
    conn        \* the calls whose connection is open

runtimeVars == <<call, conn>>

-----------------------------------------------------------------------------
Set(r, state) == call' = [call EXCEPT ![r] = state]

(* the function returns or raises *)
Finish(r, outcome) == Set(r, [call[r] EXCEPT !.pc = "done", !.outcome = outcome])

(* the finally clause: await _close *)
Leave(r, outcome) == Set(r, [call[r] EXCEPT !.pc = "closing", !.outcome = outcome])

-----------------------------------------------------------------------------
(* secured_postgresql_connection up to the first await; listed: the host is *)
(* an address or matches an allowed name                                   *)
Begin(r, op, tls, listed) ==
    /\ call[r] = NoCall
    /\ LET started == [NoCall EXCEPT !.op = op, !.tls = tls] IN
       IF (RequireTLS => tls) /\ listed
       THEN Set(r, [started EXCEPT !.pc = "resolving"])
       ELSE Set(r, [started EXCEPT !.pc = "done", !.outcome = "error"])
    /\ UNCHANGED conn

(* allAllowed: the name resolved, and to addresses of allowed_cidrs only     *)
Resolve(r, allAllowed) ==
    /\ call[r].pc = "resolving"
    /\ IF allAllowed THEN Set(r, [call[r] EXCEPT !.pc = "connecting"]) ELSE Finish(r, "error")
    /\ UNCHANGED conn

(* _verify_peer *)
PeerVerified(server) == server.peer = "resolved"

(* _verify_tls *)
TLSVerified(c, server) ==
    c.tls => IF VerifyTLS THEN server.cert = "matching" ELSE server.cert # "none"

Connect(r, server) ==
    /\ call[r].pc = "connecting"
    /\ conn' = conn \cup {r}
    /\ IF PeerVerified(server) /\ TLSVerified(call[r], server)
       THEN Set(r, [call[r] EXCEPT !.pc = "enforcing", !.server = server])
       ELSE Leave(r, "error")

ConnectFails(r) ==
    /\ call[r].pc = "connecting"
    /\ Finish(r, "error")
    /\ UNCHANGED conn

(* _enforce_read_only; test_connection has nothing else to do               *)
EnforceReadOnly(r) ==
    /\ call[r].pc = "enforcing"
    /\ LET c == [call[r] EXCEPT !.readOnly = TRUE] IN
       Set(r, IF c.op = "scan" THEN [c EXCEPT !.pc = "scanning"]
              ELSE [c EXCEPT !.pc = "closing", !.outcome = "ok"])
    /\ UNCHANGED conn

(* the queries of scan_catalog, and _build_scan_result *)
ScanCatalog(r) ==
    /\ call[r].pc = "scanning"
    /\ Leave(r, "ok")
    /\ UNCHANGED conn

(* a statement fails, the session stays writable, a row is malformed        *)
StatementFails(r) ==
    /\ call[r].pc \in {"enforcing", "scanning"}
    /\ Leave(r, "error")
    /\ UNCHANGED conn

(* close() returns in time; or it fails or takes too long, and terminate()  *)
(* follows: either way the outcome is that of the operation                *)
Close(r) ==
    /\ call[r].pc = "closing"
    /\ conn' = conn \ {r}
    /\ Finish(r, call[r].outcome)

-----------------------------------------------------------------------------
(* CancelledError *)

CancelBefore(r) ==
    /\ call[r].pc \in {"resolving", "connecting"}
    /\ Finish(r, "cancelled")
    /\ UNCHANGED conn

CancelOpen(r) ==
    /\ call[r].pc \in {"enforcing", "scanning"}
    /\ Leave(r, "cancelled")
    /\ UNCHANGED conn

CancelledUnclosed(r) == UNCHANGED conn   \* mutant: CancelledError is not caught by _close

Terminate(r) == conn' = conn \ {r}

CancelClosing(r) ==
    /\ call[r].pc = "closing"
    /\ Terminate(r)
    /\ Finish(r, "cancelled")

RuntimeStep(r) ==
    \/ \E allAllowed \in BOOLEAN : Resolve(r, allAllowed)
    \/ \E server \in Server : Connect(r, server)
    \/ ConnectFails(r) \/ EnforceReadOnly(r) \/ ScanCatalog(r) \/ StatementFails(r) \/ Close(r)
    \/ CancelBefore(r) \/ CancelOpen(r) \/ CancelClosing(r)

(* the caller has the outcome; or the process dies, and its sockets with it *)
Forget(r) ==
    /\ call[r] # NoCall
    /\ Set(r, NoCall)
    /\ conn' = conn \ {r}

RuntimeInit ==
    /\ call = [r \in Calls |-> NoCall]
    /\ conn = {}

RuntimeNext ==
    \E r \in Calls :
        \/ \E op \in {"test", "scan"}, tls, listed \in BOOLEAN : Begin(r, op, tls, listed)
        \/ RuntimeStep(r)
        \/ Forget(r)

RuntimeSpec == RuntimeInit /\ [][RuntimeNext]_runtimeVars

-----------------------------------------------------------------------------
(* Properties *)

RuntimeTypeOK == call \in [Calls -> Call] /\ conn \subseteq Calls

\* A connection is open only while its call is within secured_postgresql_connection: however the
\* call ends, by a result, a failed check, a failed statement, a close that fails or hangs, or a
\* cancellation (a second one while it closes, too), the connection is gone when it returns.
ConnectionsAreReleased ==
    \A r \in Calls : r \in conn => call[r].pc \in {"enforcing", "scanning", "closing"}

Verified(c) ==
    /\ RequireTLS => c.tls
    /\ c.server # NoServer
    /\ c.server.peer = "resolved"
    /\ c.tls => c.server.cert # "none"
    /\ c.tls /\ VerifyTLS => c.server.cert = "matching"
    /\ c.readOnly

\* A test succeeds, and a catalogue is returned, only over a read-only session with a peer that is
\* one of the addresses the host resolved to, all of them allowed, and over TLS where it is due.
ResultsAreVerified ==
    \A r \in Calls : call[r].outcome = "ok" => Verified(call[r])
=============================================================================
