---------------------------- MODULE DeliveryOutbox ----------------------------
(***************************************************************************)
(* The mail outbox: auth_delivery_outbox and the worker loop that drains   *)
(* it.  Every process of the API runs a worker (mailer.py _worker_loop);   *)
(* a drain claims a batch under a lease, sends the mails one by one and    *)
(* marks each delivered or failed, every statement a step of its own.      *)
(*                                                                         *)
(* Time is three facts about a row that come true on their own: the lease  *)
(* is older than claim_seconds (stale), next_attempt_at has come (due),    *)
(* expires_at has passed (expired).  Nothing ties them to a drain's pace:  *)
(* a batch of 20 may take 20 SMTP timeouts of 10 s, the lease lasts 60 s.  *)
(***************************************************************************)
EXTENDS Naturals, FiniteSets

CONSTANTS
    Deliveries,
    Workers,        \* one per process; its name stands for the worker_id of its latest drain
    BatchSize,      \* taskview_mail_worker_batch_size
    MaxAttempts,    \* taskview_mail_worker_max_attempts
    NoRow, NoWorker, NoDelivery

ASSUME OutboxAssumption ==
    /\ BatchSize \in Nat \ {0}
    /\ MaxAttempts \in Nat \ {0}
    /\ NoWorker \notin Workers
    /\ NoDelivery \notin Deliveries

(* cipher: token_ciphertext IS NOT NULL; delivered, failed: the timestamp   *)
(* is set; lock: lock_id.                                                  *)
Row == [cipher : BOOLEAN, delivered : BOOLEAN, failed : BOOLEAN, attempts : Nat,
        lock : Workers \cup {NoWorker}, stale : BOOLEAN, due : BOOLEAN, expired : BOOLEAN]

ASSUME NoRowAssumption == NoRow \notin Row

Drain == [pc : {"idle", "draining", "sent", "refused"},
          batch : SUBSET Deliveries,                \* claimed and not marked yet
          current : Deliveries \cup {NoDelivery}]

IdleDrain == [pc |-> "idle", batch |-> {}, current |-> NoDelivery]

VARIABLES
    outbox,   \* auth_delivery_outbox
    drain,    \* the drain_once of each worker
    inbox,    \* what reached the recipient of a delivery: "nothing", "one" or "more" copies
    lapsed    \* history: the deliveries of which a lease ran out while it was held

vars == <<outbox, drain, inbox, lapsed>>

-----------------------------------------------------------------------------
(* The table *)

Pending(d) == outbox[d] # NoRow /\ ~ outbox[d].delivered /\ ~ outbox[d].failed
Settled(d) == outbox[d] # NoRow /\ ~ Pending(d)

NewRowWithoutDefault ==   \* mutant: attempts has no default
    [cipher |-> TRUE, delivered |-> FALSE, failed |-> FALSE, attempts |-> NoRow,
     lock |-> NoWorker, stale |-> FALSE, due |-> TRUE, expired |-> FALSE]

NewRow == [cipher |-> TRUE, delivered |-> FALSE, failed |-> FALSE, attempts |-> 0,
           lock |-> NoWorker, stale |-> FALSE, due |-> TRUE, expired |-> FALSE]

Unlocked(old) == [old EXCEPT !.lock = NoWorker, !.stale = FALSE]

NothingGivenUp(old) == old   \* mutant: the expiry statement is missing

(* the first statement of claim_outbox_deliveries, whoever holds the lease *)
GivenUp(old) ==
    IF old # NoRow /\ ~ old.delivered /\ ~ old.failed /\ old.expired
    THEN [Unlocked(old) EXCEPT !.failed = TRUE, !.cipher = FALSE] ELSE old

ClaimableEvenLocked(old) ==   \* mutant: the lease is not looked at
    /\ old # NoRow
    /\ ~ old.delivered /\ ~ old.failed /\ old.cipher
    /\ old.attempts < MaxAttempts
    /\ old.due

Claimable(old) ==
    /\ old # NoRow
    /\ ~ old.delivered /\ ~ old.failed /\ old.cipher
    /\ old.attempts < MaxAttempts
    /\ old.due
    /\ old.lock = NoWorker \/ old.stale

Claimed(old, w) == [old EXCEPT !.lock = w, !.stale = FALSE]

Delivered(old) == [Unlocked(old) EXCEPT !.delivered = TRUE, !.cipher = FALSE]

RefusedKeepingToken(old) ==   \* mutant: the last failure leaves the ciphertext
    [Unlocked(old) EXCEPT !.attempts = @ + 1, !.due = FALSE,
                          !.failed = old.attempts + 1 >= MaxAttempts]

(* backoff, and the last allowed attempt gives the delivery up *)
Refused(old) ==
    LET last == old.attempts + 1 >= MaxAttempts IN
    [Unlocked(old) EXCEPT !.attempts = @ + 1, !.due = FALSE,
                          !.failed = IF last THEN TRUE ELSE FALSE,
                          !.cipher = IF last THEN FALSE ELSE @]

OwnedByAnyone(w, d) == TRUE   \* mutant: the marks select by delivery_id alone

(* WHERE of both marks *)
OwnedBy(w, d) == Pending(d) /\ outbox[d].lock = w

-----------------------------------------------------------------------------
(* A delivery is inserted with its token or invitation, in one transaction. *)
Enqueue(d) ==
    /\ outbox[d] = NoRow
    /\ outbox' = [outbox EXCEPT ![d] = NewRow]
    /\ UNCHANGED <<drain, inbox, lapsed>>

(* One transaction: give up what expired, then lease at most BatchSize     *)
(* claimable rows.  SKIP LOCKED may leave some out.                        *)
Claim(w) ==
    LET swept == [d \in Deliveries |-> GivenUp(outbox[d])] IN
    /\ drain[w].pc = "idle"
    /\ \E batch \in SUBSET {d \in Deliveries : Claimable(swept[d])} :
           /\ Cardinality(batch) <= BatchSize
           /\ outbox' = [d \in Deliveries |->
                            IF d \in batch THEN Claimed(swept[d], w) ELSE swept[d]]
           /\ drain' = [drain EXCEPT ![w] =
                           [pc |-> IF batch = {} THEN "idle" ELSE "draining",
                            batch |-> batch, current |-> NoDelivery]]
    /\ UNCHANGED <<inbox, lapsed>>

OneMore(copies) == IF copies = "nothing" THEN "one" ELSE "more"

(* the message is built from the claimed record, whatever became of the row *)
SendAccepted(w, d) ==
    /\ drain[w].pc = "draining"
    /\ d \in drain[w].batch
    /\ inbox' = [inbox EXCEPT ![d] = OneMore(@)]
    /\ drain' = [drain EXCEPT ![w].pc = "sent", ![w].current = d]
    /\ UNCHANGED <<outbox, lapsed>>

(* DeliveryEncryptionError or MailDeliveryError.  A connection that breaks  *)
(* after DATA is reported as a failure although the mail is on its way.    *)
SendFails(w, d) ==
    /\ drain[w].pc = "draining"
    /\ d \in drain[w].batch
    /\ \E copies \in {inbox[d], OneMore(inbox[d])} : inbox' = [inbox EXCEPT ![d] = copies]
    /\ drain' = [drain EXCEPT ![w].pc = "refused", ![w].current = d]
    /\ UNCHANGED <<outbox, lapsed>>

(* on to the next of the batch, or drain_once returns *)
NextOfBatch(w) ==
    LET rest == drain[w].batch \ {drain[w].current} IN
    drain' = [drain EXCEPT ![w] = [pc |-> IF rest = {} THEN "idle" ELSE "draining",
                                   batch |-> rest, current |-> NoDelivery]]

MarkDelivered(w) ==
    LET d == drain[w].current IN
    /\ drain[w].pc = "sent"
    /\ outbox' = IF OwnedBy(w, d) THEN [outbox EXCEPT ![d] = Delivered(@)] ELSE outbox
    /\ NextOfBatch(w)
    /\ UNCHANGED <<inbox, lapsed>>

MarkFailed(w) ==
    LET d == drain[w].current IN
    /\ drain[w].pc = "refused"
    /\ outbox' = IF OwnedBy(w, d) THEN [outbox EXCEPT ![d] = Refused(@)] ELSE outbox
    /\ NextOfBatch(w)
    /\ UNCHANGED <<inbox, lapsed>>

(* The process dies, or a statement fails and _worker_loop drops the drain: *)
(* what was claimed stays leased.                                          *)
AbandonDrain(w) ==
    /\ drain[w].pc # "idle"
    /\ drain' = [drain EXCEPT ![w] = IdleDrain]
    /\ UNCHANGED <<outbox, inbox, lapsed>>

-----------------------------------------------------------------------------
(* The clock *)

LeaseLapses(d) ==
    /\ outbox[d] # NoRow
    /\ outbox[d].lock # NoWorker
    /\ ~ outbox[d].stale
    /\ outbox' = [outbox EXCEPT ![d].stale = TRUE]
    /\ lapsed' = lapsed \cup {d}
    /\ UNCHANGED <<drain, inbox>>

BackoffEnds(d) ==
    /\ outbox[d] # NoRow
    /\ ~ outbox[d].due
    /\ outbox' = [outbox EXCEPT ![d].due = TRUE]
    /\ UNCHANGED <<drain, inbox, lapsed>>

TokenExpires(d) ==
    /\ outbox[d] # NoRow
    /\ ~ outbox[d].expired
    /\ outbox' = [outbox EXCEPT ![d].expired = TRUE]
    /\ UNCHANGED <<drain, inbox, lapsed>>

-----------------------------------------------------------------------------
Init ==
    /\ outbox = [d \in Deliveries |-> NoRow]
    /\ drain = [w \in Workers |-> IdleDrain]
    /\ inbox = [d \in Deliveries |-> "nothing"]
    /\ lapsed = {}

DrainStep(w) ==
    \/ Claim(w)
    \/ \E d \in Deliveries : SendAccepted(w, d) \/ SendFails(w, d)
    \/ MarkDelivered(w)
    \/ MarkFailed(w)

Next == \/ \E d \in Deliveries : Enqueue(d)
        \/ \E w \in Workers : DrainStep(w) \/ AbandonDrain(w)
        \/ \E d \in Deliveries : LeaseLapses(d) \/ BackoffEnds(d) \/ TokenExpires(d)

(* The loop polls for ever and an SMTP call times out: some worker goes    *)
(* on, though any drain may be abandoned and other processes may hang or   *)
(* stay away.  Time passes, so every token expires.  Nobody has to enqueue *)
(* anything.                                                               *)
Fairness == /\ WF_vars(\E w \in Workers : DrainStep(w))
            /\ \A d \in Deliveries : WF_vars(TokenExpires(d))

Spec == Init /\ [][Next]_vars /\ Fairness

-----------------------------------------------------------------------------
(* Properties *)

\* Rows, drains, recipients' inboxes and the lease history are of their declared types.
TypeOK ==
    /\ outbox \in [Deliveries -> Row \cup {NoRow}]
    /\ drain \in [Workers -> Drain]
    /\ inbox \in [Deliveries -> {"nothing", "one", "more"}]
    /\ lapsed \in SUBSET Deliveries

\* The two timestamps exclude each other; a settled row holds neither the token's ciphertext nor
\* a lease; a pending one still has its ciphertext and an attempt left, so it is never stranded;
\* delivered means that a mail really went out, failed that the attempts or the time ran out.
\* Marks of drains that outlived their lease, and of the expiry sweep, interleave freely.
OutboxConsistent ==
    \A d \in Deliveries : outbox[d] # NoRow =>
        /\ ~ (outbox[d].delivered /\ outbox[d].failed)
        /\ Settled(d) => ~ outbox[d].cipher /\ outbox[d].lock = NoWorker
        /\ Pending(d) => outbox[d].cipher /\ outbox[d].attempts < MaxAttempts
        /\ outbox[d].delivered => inbox[d] # "nothing"
        /\ outbox[d].failed => outbox[d].expired \/ outbox[d].attempts >= MaxAttempts

\* Two drains hold the same delivery only if a lease on it ran out: SKIP LOCKED and the lease
\* keep workers apart as long as they keep pace, crashes included.
OneDrainPerLease ==
    \A d \in Deliveries, v, w \in Workers :
        v # w /\ d \in drain[v].batch \cap drain[w].batch => d \in lapsed

(* what has become of a delivery *)
Mail(d) ==
    IF outbox[d] = NoRow THEN "none"
    ELSE IF outbox[d].delivered THEN "delivered" ELSE IF outbox[d].failed THEN "failed" ELSE "queued"

Tries(d) == IF outbox[d] = NoRow THEN 0 ELSE outbox[d].attempts

Late == {d \in Deliveries : outbox[d] # NoRow /\ outbox[d].expired}

Promise == INSTANCE MailPromise WITH
    mail <- [d \in Deliveries |-> Mail(d)],
    copies <- inbox,
    tries <- [d \in Deliveries |-> Tries(d)],
    late <- Late,
    overrun <- lapsed

\* The outbox keeps what MailPromise says of each mail: a delivery settles once, whatever marks of
\* drains that outlived their lease and sweeps of other workers come after; a second copy goes out
\* only after a recorded failure or a lapsed lease, and a copy of a settled mail only after a
\* lapsed lease or its expiry.
ImplementsPromise == Promise!Spec

\* Every delivery is settled in the end, whatever drains are abandoned, as long as one process
\* goes on: it is delivered, or its attempts or its token run out, and its ciphertext does not
\* stay behind.  (A row is never deleted, so this is outbox[d] # NoRow ~> Settled(d).)
EveryDeliverySettles == \A d \in Deliveries : []<>(outbox[d] # NoRow => Settled(d))
=============================================================================
