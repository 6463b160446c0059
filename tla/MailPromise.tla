------------------------------ MODULE MailPromise -----------------------------
(***************************************************************************)
(* What the outbox promises of each mail, with no worker, batch, lease or  *)
(* ciphertext in sight: a queued mail is settled once, as delivered or as  *)
(* failed, and stays so.  It is delivered only after a copy went out, it   *)
(* fails only when its time or its attempts are over, a second copy needs  *)
(* a failed attempt or a sender that overran its time, and so does a copy  *)
(* of a mail that was settled before it expired.                           *)
(* DeliveryOutbox is shown to implement this module.                       *)
(***************************************************************************)
EXTENDS Naturals

CONSTANTS Deliveries, MaxAttempts

VARIABLES
    mail,       \* mail[d]: "none", "queued", "delivered" or "failed"
    copies,     \* copies[d]: how many reached the recipient, "nothing", "one" or "more"
    tries,      \* tries[d]: failed attempts on record
    late,       \* the mails whose token or invitation has expired
    overrun     \* the mails a sender of which did not keep to its time

promise == <<mail, copies, tries, late, overrun>>

Init == /\ mail = [d \in Deliveries |-> "none"]
        /\ copies = [d \in Deliveries |-> "nothing"]
        /\ tries = [d \in Deliveries |-> 0]
        /\ late = {}
        /\ overrun = {}

Queue(d) ==
    /\ mail[d] = "none"
    /\ mail' = [mail EXCEPT ![d] = "queued"]
    /\ UNCHANGED <<copies, tries, late, overrun>>

Send(d) ==
    /\ mail[d] # "none"
    /\ mail[d] = "queued" \/ d \in late \cup overrun
    /\ copies[d] = "nothing" \/ tries[d] > 0 \/ d \in overrun
    /\ copies' = [copies EXCEPT ![d] = IF @ = "nothing" THEN "one" ELSE "more"]
    /\ UNCHANGED <<mail, tries, late, overrun>>

Deliver(d) ==
    /\ mail[d] = "queued" /\ copies[d] # "nothing"
    /\ mail' = [mail EXCEPT ![d] = "delivered"]
    /\ UNCHANGED <<copies, tries, late, overrun>>

Fail(d) ==
    /\ mail[d] = "queued" /\ tries[d] < MaxAttempts
    /\ tries' = [tries EXCEPT ![d] = @ + 1]
    /\ mail' = [mail EXCEPT ![d] = IF tries[d] + 1 = MaxAttempts THEN "failed" ELSE "queued"]
    /\ UNCHANGED <<copies, late, overrun>>

(* many at once *)
GiveUp(some) ==
    /\ mail' = [d \in Deliveries |-> IF d \in some THEN "failed" ELSE mail[d]]
    /\ UNCHANGED <<copies, tries, late, overrun>>

Expire(d) ==
    /\ mail[d] # "none"
    /\ late' = late \cup {d}
    /\ UNCHANGED <<mail, copies, tries, overrun>>

Overrun(d) ==
    /\ mail[d] = "queued"
    /\ overrun' = overrun \cup {d}
    /\ UNCHANGED <<mail, copies, tries, late>>

Next == \/ \E d \in Deliveries : \/ Queue(d) \/ Send(d) \/ Deliver(d) \/ Fail(d)
                                 \/ Expire(d) \/ Overrun(d)
        \/ \E some \in SUBSET {d \in late : mail[d] = "queued"} : GiveUp(some)

Spec == Init /\ [][Next]_promise
=============================================================================
