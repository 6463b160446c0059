------------------------- MODULE DeliveryOutboxProofs --------------------------
(***************************************************************************)
(* Proofs about DeliveryOutbox, for any number of deliveries and workers,  *)
(* any batch size and any number of attempts.                              *)
(***************************************************************************)
EXTENDS DeliveryOutbox, TLAPS

-----------------------------------------------------------------------------
(* The inductive invariant *)

(* the row of one delivery, and what its history implies *)
RowInv(d) ==
    /\ outbox[d] = NoRow => inbox[d] = "nothing"
    /\ outbox[d] # NoRow =>
           /\ ~ (outbox[d].delivered /\ outbox[d].failed)
           /\ Settled(d) => ~ outbox[d].cipher /\ outbox[d].lock = NoWorker
           /\ Pending(d) => outbox[d].cipher /\ outbox[d].attempts < MaxAttempts
           /\ outbox[d].delivered => inbox[d] # "nothing"
           /\ outbox[d].failed => outbox[d].expired \/ outbox[d].attempts >= MaxAttempts
           /\ outbox[d].stale => d \in lapsed

(* a drain works on claimed deliveries, and says "sent" of what it sent *)
DrainInv(w) ==
    /\ drain[w].pc = "idle" => drain[w].batch = {}
    /\ drain[w].pc \in {"sent", "refused"} => drain[w].current \in drain[w].batch
    /\ drain[w].pc = "sent" => inbox[drain[w].current] # "nothing"

(* what is in a batch is leased to that drain, unless it is settled or the lease ran out *)
LeaseInv(w, d) ==
    d \in drain[w].batch =>
        /\ outbox[d] # NoRow
        /\ outbox[d].lock = w \/ Settled(d) \/ d \in lapsed

Apart(v, w, d) ==
    v # w /\ d \in drain[v].batch /\ d \in drain[w].batch => d \in lapsed

(* nothing happened to the delivery that may lead to a second copy *)
Quiet(d) == d \notin lapsed /\ outbox[d].attempts = 0

(* so the one copy was sent by the drain that is about to mark it, or by one that was abandoned *)
CopyInv(d) ==
    inbox[d] # "nothing" /\ Quiet(d) =>
        /\ inbox[d] = "one"
        /\ Pending(d) => outbox[d].lock # NoWorker
        /\ \A w \in Workers : d \in drain[w].batch =>
               drain[w].current = d /\ drain[w].pc \in {"sent", "refused"}

IInv ==
    /\ TypeOK
    /\ \A d \in Deliveries : RowInv(d) /\ CopyInv(d)
    /\ \A w \in Workers : DrainInv(w)
    /\ \A w \in Workers, d \in Deliveries : LeaseInv(w, d)
    /\ \A v, w \in Workers, d \in Deliveries : Apart(v, w, d)

-----------------------------------------------------------------------------
(* What the statements write *)

LEMMA InsertedRow ==
    NewRow \in Row /\ ~ NewRow.delivered /\ ~ NewRow.failed /\ NewRow.cipher
    /\ ~ NewRow.stale /\ NewRow.attempts = 0
  BY DEF NewRow, Row

LEMMA GivenUpRow ==
    ASSUME NEW old \in Row
    PROVE  /\ GivenUp(old) \in Row
           /\ GivenUp(old).attempts = old.attempts
           /\ GivenUp(old).delivered = old.delivered
           /\ \/ GivenUp(old) = old
              \/ /\ ~ old.delivered /\ ~ old.failed /\ old.expired
                 /\ GivenUp(old).failed /\ GivenUp(old).expired
                 /\ ~ GivenUp(old).cipher /\ ~ GivenUp(old).stale
                 /\ GivenUp(old).lock = NoWorker
  BY DEF GivenUp, Unlocked, Row

LEMMA ClaimedRow ==
    ASSUME NEW old \in Row, NEW w \in Workers
    PROVE  /\ Claimed(old, w) \in Row
           /\ Claimed(old, w).attempts = old.attempts
           /\ Claimed(old, w).delivered = old.delivered
           /\ Claimed(old, w).failed = old.failed
           /\ Claimed(old, w).expired = old.expired
           /\ Claimed(old, w).cipher = old.cipher
           /\ Claimed(old, w).lock = w
           /\ ~ Claimed(old, w).stale
  BY DEF Claimed, Row

LEMMA DeliveredRow ==
    ASSUME NEW old \in Row
    PROVE  /\ Delivered(old) \in Row
           /\ Delivered(old).attempts = old.attempts
           /\ Delivered(old).delivered
           /\ Delivered(old).failed = old.failed
           /\ Delivered(old).expired = old.expired
           /\ ~ Delivered(old).cipher /\ ~ Delivered(old).stale
           /\ Delivered(old).lock = NoWorker
  BY DEF Delivered, Unlocked, Row

LEMMA RefusedRow ==
    ASSUME NEW old \in Row
    PROVE  /\ Refused(old) \in Row
           /\ Refused(old).attempts = old.attempts + 1
           /\ Refused(old).delivered = old.delivered
           /\ Refused(old).failed <=> old.attempts + 1 >= MaxAttempts
           /\ Refused(old).expired = old.expired
           /\ Refused(old).cipher <=> old.cipher /\ old.attempts + 1 < MaxAttempts
           /\ ~ Refused(old).stale
           /\ Refused(old).lock = NoWorker
<1>1. old.attempts \in Nat /\ old.attempts + 1 \in Nat /\ MaxAttempts \in Nat
  BY OutboxAssumption DEF Row
<1>2. CASE old.attempts + 1 >= MaxAttempts
  <2>1. Refused(old) = [Unlocked(old) EXCEPT !.attempts = old.attempts + 1, !.due = FALSE,
                                             !.failed = TRUE, !.cipher = FALSE]
    BY <1>2 DEF Refused, Unlocked, Row
  <2>2. Refused(old) \in Row
    BY <1>1, <2>1 DEF Unlocked, Row
  <2>3. /\ Refused(old).attempts = old.attempts + 1
        /\ Refused(old).delivered = old.delivered
        /\ Refused(old).expired = old.expired
        /\ ~ Refused(old).stale
        /\ Refused(old).lock = NoWorker
    BY <2>1 DEF Unlocked, Row
  <2>4. /\ Refused(old).failed <=> old.attempts + 1 >= MaxAttempts
        /\ Refused(old).cipher <=> old.cipher /\ old.attempts + 1 < MaxAttempts
    BY <1>1, <1>2, <2>1 DEF Unlocked, Row
  <2>. QED
    BY <2>2, <2>3, <2>4
<1>3. CASE ~ (old.attempts + 1 >= MaxAttempts)
  <2>1. Refused(old) = [Unlocked(old) EXCEPT !.attempts = old.attempts + 1, !.due = FALSE,
                                             !.failed = FALSE]
    BY <1>3 DEF Refused, Unlocked, Row
  <2>2. Refused(old) \in Row
    BY <1>1, <2>1 DEF Unlocked, Row
  <2>3. /\ Refused(old).attempts = old.attempts + 1
        /\ Refused(old).delivered = old.delivered
        /\ Refused(old).expired = old.expired
        /\ ~ Refused(old).stale
        /\ Refused(old).lock = NoWorker
    BY <2>1 DEF Unlocked, Row
  <2>4. /\ Refused(old).failed <=> old.attempts + 1 >= MaxAttempts
        /\ Refused(old).cipher <=> old.cipher /\ old.attempts + 1 < MaxAttempts
    BY <1>1, <1>3, <2>1 DEF Unlocked, Row
  <2>. QED
    BY <2>2, <2>3, <2>4
<1>. QED
  BY <1>2, <1>3

LEMMA IdleDrainType == IdleDrain \in Drain
  BY DEF IdleDrain, Drain

LEMMA Copies ==
    ASSUME NEW copies \in {"nothing", "one", "more"}
    PROVE  /\ OneMore(copies) \in {"one", "more"}
           /\ copies = "nothing" => OneMore(copies) = "one"
  BY DEF OneMore

-----------------------------------------------------------------------------
(* The steps *)

LEMMA EnqueueStep ==
    ASSUME IInv, NEW d \in Deliveries, Enqueue(d)
    PROVE  IInv'
<1>1. /\ TypeOK
      /\ outbox[d] = NoRow
      /\ outbox' = [outbox EXCEPT ![d] = NewRow]
      /\ drain' = drain /\ inbox' = inbox /\ lapsed' = lapsed
  BY DEF IInv, Enqueue
<1>2. outbox'[d] = NewRow /\ NewRow # NoRow
  BY <1>1, InsertedRow, NoRowAssumption DEF TypeOK
<1>3. TypeOK'
  BY <1>1, InsertedRow DEF TypeOK
<1>4. ASSUME NEW e \in Deliveries, e # d PROVE outbox'[e] = outbox[e]
  BY <1>1, <1>4 DEF TypeOK
<1>5. ASSUME NEW e \in Deliveries PROVE RowInv(e)' /\ CopyInv(e)'
  <2>1. CASE e = d
    <3>1. inbox'[d] = "nothing"
      BY <1>1 DEF IInv, RowInv
    <3>. QED
      BY <1>2, <2>1, <3>1, InsertedRow, OutboxAssumption
         DEF RowInv, CopyInv, Settled, Pending
  <2>2. CASE e # d
    BY <1>1, <1>4, <2>2 DEF IInv, RowInv, CopyInv, Settled, Pending, Quiet
  <2>. QED
    BY <2>1, <2>2
<1>6. ASSUME NEW w \in Workers PROVE DrainInv(w)'
  BY <1>1 DEF IInv, DrainInv
<1>7. ASSUME NEW w \in Workers, NEW e \in Deliveries PROVE LeaseInv(w, e)'
  BY <1>1, <1>4 DEF IInv, LeaseInv, Settled, Pending
<1>8. ASSUME NEW v \in Workers, NEW w \in Workers, NEW e \in Deliveries PROVE Apart(v, w, e)'
  BY <1>1 DEF IInv, Apart
<1>. QED
  BY <1>3, <1>5, <1>6, <1>7, <1>8 DEF IInv

(* A mark: the row changes if it is still this drain's, and the batch goes on. *)
LEMMA NextOfBatchDrain ==
    ASSUME TypeOK, NEW w \in Workers, NextOfBatch(w), drain[w].current \in drain[w].batch
    PROVE  /\ drain' \in [Workers -> Drain]
           /\ \A v \in Workers : v # w => drain'[v] = drain[v]
           /\ drain'[w].batch = drain[w].batch \ {drain[w].current}
           /\ drain'[w].pc \in {"idle", "draining"}
           /\ drain'[w].pc = "idle" => drain'[w].batch = {}
<1>. DEFINE rest == drain[w].batch \ {drain[w].current}
            n == [pc |-> IF rest = {} THEN "idle" ELSE "draining",
                  batch |-> rest, current |-> NoDelivery]
<1>1. drain' = [drain EXCEPT ![w] = n]
  BY DEF NextOfBatch
<1>2. drain[w] \in Drain
  BY DEF TypeOK
<1>3. n \in Drain
  BY <1>2 DEF Drain
<1>. QED
  BY <1>1, <1>3 DEF TypeOK

(* What every mark keeps of the drains. *)
LEMMA MarkedDrains ==
    ASSUME IInv, NEW w \in Workers, NextOfBatch(w), drain[w].pc \in {"sent", "refused"},
           inbox' = inbox
    PROVE  /\ drain' \in [Workers -> Drain]
           /\ \A v \in Workers : DrainInv(v)'
           /\ \A v \in Workers, e \in Deliveries : e \in drain'[v].batch =>
                  /\ e \in drain[v].batch
                  /\ v = w => e # drain[w].current
                  /\ v # w => drain'[v] = drain[v]
<1>1. TypeOK /\ drain[w].current \in drain[w].batch
  BY DEF IInv, DrainInv
<1>2. ASSUME NEW v \in Workers PROVE DrainInv(v)'
  BY <1>1, <1>2, NextOfBatchDrain DEF IInv, DrainInv
<1>. QED
  BY <1>1, <1>2, NextOfBatchDrain

LEMMA MarkDeliveredStep ==
    ASSUME IInv, NEW w \in Workers, MarkDelivered(w)
    PROVE  IInv'
<1>. DEFINE d == drain[w].current
<1>1. /\ TypeOK /\ DrainInv(w)
      /\ drain[w].pc = "sent" /\ d \in drain[w].batch /\ d \in Deliveries
      /\ inbox[d] # "nothing"
      /\ NextOfBatch(w) /\ inbox' = inbox /\ lapsed' = lapsed
  BY DEF IInv, DrainInv, MarkDelivered, TypeOK, Drain
<1>2. /\ drain' \in [Workers -> Drain]
      /\ \A v \in Workers : DrainInv(v)'
      /\ \A v \in Workers, e \in Deliveries : e \in drain'[v].batch =>
             /\ e \in drain[v].batch
             /\ v = w => e # d
             /\ v # w => drain'[v] = drain[v]
  BY <1>1, MarkedDrains
<1>3. \A v \in Workers, u \in Workers, e \in Deliveries : Apart(v, u, e)'
  BY <1>1, <1>2 DEF IInv, Apart
<1>4. CASE ~ OwnedBy(w, d)
  <2>1. outbox' = outbox
    BY <1>4 DEF MarkDelivered
  <2>2. ASSUME NEW e \in Deliveries PROVE RowInv(e)' /\ CopyInv(e)'
    BY <1>1, <1>2, <2>1 DEF IInv, RowInv, CopyInv, Settled, Pending, Quiet
  <2>3. ASSUME NEW v \in Workers, NEW e \in Deliveries PROVE LeaseInv(v, e)'
    BY <1>1, <1>2, <2>1 DEF IInv, LeaseInv, Settled, Pending
  <2>4. TypeOK'
    BY <1>1, <1>2, <2>1 DEF TypeOK
  <2>. QED
    BY <1>2, <1>3, <2>2, <2>3, <2>4 DEF IInv
<1>5. CASE OwnedBy(w, d)
  <2>. DEFINE n == Delivered(outbox[d])
  <2>1. /\ outbox[d] \in Row /\ outbox[d] # NoRow
        /\ ~ outbox[d].delivered /\ ~ outbox[d].failed
        /\ outbox' = [outbox EXCEPT ![d] = n]
    BY <1>1, <1>5 DEF MarkDelivered, OwnedBy, Pending, TypeOK
  <2>2. /\ n \in Row /\ n # NoRow /\ n.attempts = outbox[d].attempts
        /\ n.delivered /\ ~ n.failed /\ ~ n.cipher /\ ~ n.stale /\ n.lock = NoWorker
    BY <2>1, DeliveredRow, NoRowAssumption
  <2>3. outbox'[d] = n /\ \A e \in Deliveries : e # d => outbox'[e] = outbox[e]
    BY <1>1, <2>1 DEF TypeOK
  <2>4. ASSUME NEW e \in Deliveries PROVE RowInv(e)' /\ CopyInv(e)'
    <3>. HIDE DEF n
    <3>1. CASE e = d
      <4>1. RowInv(e)'
        BY <1>1, <2>2, <2>3, <3>1 DEF RowInv, Settled, Pending
      <4>2. CopyInv(e)'
        <5>1. CopyInv(d)
          BY <1>1 DEF IInv
        <5>. QED
          BY <1>1, <1>2, <2>2, <2>3, <3>1, <5>1 DEF CopyInv, Settled, Pending, Quiet
      <4>. QED
        BY <4>1, <4>2
    <3>2. CASE e # d
      <4>1. RowInv(e) /\ CopyInv(e) /\ outbox'[e] = outbox[e]
        BY <2>3, <3>2 DEF IInv
      <4>. QED
        BY <1>1, <1>2, <3>2, <4>1 DEF RowInv, CopyInv, Settled, Pending, Quiet
    <3>. QED
      BY <3>1, <3>2
  <2>5. ASSUME NEW v \in Workers, NEW e \in Deliveries PROVE LeaseInv(v, e)'
    <3>. HIDE DEF n
    <3>1. LeaseInv(v, e)
      BY DEF IInv
    <3>. QED
      BY <1>1, <1>2, <2>2, <2>3, <3>1 DEF LeaseInv, Settled, Pending
  <2>6. TypeOK'
    BY <1>1, <1>2, <2>1, <2>2 DEF TypeOK
  <2>. QED
    BY <1>2, <1>3, <2>4, <2>5, <2>6 DEF IInv
<1>. QED
  BY <1>4, <1>5

LEMMA MarkFailedStep ==
    ASSUME IInv, NEW w \in Workers, MarkFailed(w)
    PROVE  IInv'
<1>. DEFINE d == drain[w].current
<1>1. /\ TypeOK
      /\ drain[w].pc = "refused" /\ d \in drain[w].batch /\ d \in Deliveries
      /\ NextOfBatch(w) /\ inbox' = inbox /\ lapsed' = lapsed
  BY DEF IInv, DrainInv, MarkFailed, TypeOK, Drain
<1>2. /\ drain' \in [Workers -> Drain]
      /\ \A v \in Workers : DrainInv(v)'
      /\ \A v \in Workers, e \in Deliveries : e \in drain'[v].batch =>
             /\ e \in drain[v].batch
             /\ v = w => e # d
             /\ v # w => drain'[v] = drain[v]
  BY <1>1, MarkedDrains
<1>3. \A v \in Workers, u \in Workers, e \in Deliveries : Apart(v, u, e)'
  BY <1>1, <1>2 DEF IInv, Apart
<1>4. CASE ~ OwnedBy(w, d)
  <2>1. outbox' = outbox
    BY <1>4 DEF MarkFailed
  <2>2. ASSUME NEW e \in Deliveries PROVE RowInv(e)' /\ CopyInv(e)'
    BY <1>1, <1>2, <2>1 DEF IInv, RowInv, CopyInv, Settled, Pending, Quiet
  <2>3. ASSUME NEW v \in Workers, NEW e \in Deliveries PROVE LeaseInv(v, e)'
    BY <1>1, <1>2, <2>1 DEF IInv, LeaseInv, Settled, Pending
  <2>4. TypeOK'
    BY <1>1, <1>2, <2>1 DEF TypeOK
  <2>. QED
    BY <1>2, <1>3, <2>2, <2>3, <2>4 DEF IInv
<1>5. CASE OwnedBy(w, d)
  <2>. DEFINE n == Refused(outbox[d])
  <2>1. /\ outbox[d] \in Row /\ outbox[d] # NoRow /\ outbox[d].attempts \in Nat
        /\ ~ outbox[d].delivered /\ ~ outbox[d].failed /\ outbox[d].cipher
        /\ outbox[d].lock = w
        /\ outbox' = [outbox EXCEPT ![d] = n]
    BY <1>1, <1>5 DEF MarkFailed, OwnedBy, Pending, TypeOK, Row, IInv, RowInv
  <2>2. /\ n \in Row /\ n # NoRow /\ n.attempts = outbox[d].attempts + 1
        /\ ~ n.delivered /\ ~ n.stale /\ n.lock = NoWorker
        /\ n.failed <=> n.attempts >= MaxAttempts
        /\ n.cipher <=> n.attempts < MaxAttempts
    BY <2>1, RefusedRow, NoRowAssumption
  <2>3. outbox'[d] = n /\ \A e \in Deliveries : e # d => outbox'[e] = outbox[e]
    BY <1>1, <2>1 DEF TypeOK
  <2>4. n.attempts \in Nat /\ n.attempts # 0 /\ MaxAttempts \in Nat
    BY <2>1, <2>2, OutboxAssumption
  <2>5. ASSUME NEW e \in Deliveries PROVE RowInv(e)' /\ CopyInv(e)'
    <3>. HIDE DEF n
    <3>1. CASE e = d
      <4>1. RowInv(e)'
        BY <1>1, <2>2, <2>3, <2>4, <3>1 DEF RowInv, Settled, Pending
      <4>2. CopyInv(e)'
        BY <2>3, <2>4, <3>1 DEF CopyInv, Quiet
      <4>. QED
        BY <4>1, <4>2
    <3>2. CASE e # d
      <4>1. RowInv(e) /\ CopyInv(e) /\ outbox'[e] = outbox[e]
        BY <2>3, <3>2 DEF IInv
      <4>. QED
        BY <1>1, <1>2, <3>2, <4>1 DEF RowInv, CopyInv, Settled, Pending, Quiet
    <3>. QED
      BY <3>1, <3>2
  <2>6. ASSUME NEW v \in Workers, NEW e \in Deliveries PROVE LeaseInv(v, e)'
    <3>. HIDE DEF n
    <3>1. LeaseInv(v, e) /\ Apart(v, w, e)
      BY DEF IInv
    <3>2. CASE e = d
      <4>1. d \in drain'[v].batch => d \in lapsed
        BY <1>1, <1>2, <3>1, <3>2 DEF Apart
      <4>. QED
        BY <1>1, <2>2, <2>3, <3>2, <4>1 DEF LeaseInv
    <3>3. CASE e # d
      BY <1>1, <1>2, <2>3, <3>1, <3>3 DEF LeaseInv, Settled, Pending
    <3>. QED
      BY <3>2, <3>3
  <2>7. TypeOK'
    BY <1>1, <1>2, <2>1, <2>2 DEF TypeOK
  <2>. QED
    BY <1>2, <1>3, <2>5, <2>6, <2>7 DEF IInv
<1>. QED
  BY <1>4, <1>5

(* The mail goes out, or may have: only the inbox and this drain change. *)
LEMMA SendStep ==
    ASSUME IInv, NEW w \in Workers, NEW d \in Deliveries,
           SendAccepted(w, d) \/ SendFails(w, d)
    PROVE  IInv'
<1>1. /\ TypeOK
      /\ drain[w].pc = "draining" /\ d \in drain[w].batch
      /\ outbox' = outbox /\ lapsed' = lapsed
      /\ outbox[d] # NoRow
  BY DEF IInv, SendAccepted, SendFails, LeaseInv
<1>2. PICK pc \in {"sent", "refused"} :
          /\ drain' = [drain EXCEPT ![w].pc = pc, ![w].current = d]
          /\ pc = "sent" => inbox' = [inbox EXCEPT ![d] = OneMore(inbox[d])]
          /\ \E copies \in {inbox[d], OneMore(inbox[d])} : inbox' = [inbox EXCEPT ![d] = copies]
  BY DEF SendAccepted, SendFails
<1>3. /\ inbox[d] \in {"nothing", "one", "more"}
      /\ OneMore(inbox[d]) \in {"one", "more"}
      /\ inbox[d] = "nothing" => OneMore(inbox[d]) = "one"
  BY <1>1, Copies DEF TypeOK
<1>4. /\ inbox' \in [Deliveries -> {"nothing", "one", "more"}]
      /\ inbox'[d] \in {inbox[d], OneMore(inbox[d])}
      /\ pc = "sent" => inbox'[d] # "nothing"
      /\ \A e \in Deliveries : e # d => inbox'[e] = inbox[e]
  BY <1>1, <1>2, <1>3 DEF TypeOK
<1>5. /\ drain' \in [Workers -> Drain]
      /\ drain'[w].pc = pc /\ drain'[w].current = d /\ drain'[w].batch = drain[w].batch
      /\ \A v \in Workers : v # w => drain'[v] = drain[v]
      /\ \A v \in Workers : drain'[v].batch = drain[v].batch
  <2>. DEFINE n == [drain[w] EXCEPT !.pc = pc, !.current = d]
  <2>1. drain[w] \in Drain
    BY <1>1 DEF TypeOK
  <2>2. n \in Drain /\ n.pc = pc /\ n.current = d /\ n.batch = drain[w].batch
    BY <2>1 DEF Drain
  <2>3. drain' = [drain EXCEPT ![w] = n]
    BY <1>1, <1>2 DEF TypeOK
  <2>. HIDE DEF n
  <2>. QED
    BY <1>1, <2>2, <2>3 DEF TypeOK
<1>6. TypeOK'
  BY <1>1, <1>4, <1>5 DEF TypeOK
<1>7. ASSUME NEW v \in Workers, NEW e \in Deliveries PROVE LeaseInv(v, e)'
  BY <1>1, <1>5 DEF IInv, LeaseInv, Settled, Pending
<1>8. ASSUME NEW v \in Workers, NEW u \in Workers, NEW e \in Deliveries PROVE Apart(v, u, e)'
  BY <1>1, <1>5 DEF IInv, Apart
<1>9. ASSUME NEW v \in Workers PROVE DrainInv(v)'
  <2>1. CASE v = w
    BY <1>1, <1>4, <1>5, <2>1 DEF DrainInv
  <2>2. CASE v # w
    <3>1. DrainInv(v) /\ drain'[v] = drain[v]
      BY <1>5, <2>2 DEF IInv
    <3>2. \A e \in Deliveries : inbox[e] # "nothing" => inbox'[e] # "nothing"
      BY <1>3, <1>4
    <3>3. drain[v].pc = "sent" => drain[v].current \in Deliveries
      BY <1>1, <3>1 DEF DrainInv, TypeOK, Drain
    <3>. QED
      BY <3>1, <3>2, <3>3 DEF DrainInv
  <2>. QED
    BY <2>1, <2>2
<1>10. ASSUME NEW e \in Deliveries PROVE RowInv(e)' /\ CopyInv(e)'
  <2>1. CASE e = d
    <3>1. RowInv(e)'
      BY <1>1, <1>3, <1>4, <2>1 DEF IInv, RowInv, Settled, Pending
    <3>2. CopyInv(e)'
      <4>1. SUFFICES ASSUME Quiet(d) PROVE CopyInv(d)'
        BY <1>1, <2>1 DEF CopyInv, Quiet
      <4>2. inbox[d] = "nothing"
        BY <1>1, <4>1 DEF IInv, CopyInv
      <4>3. inbox'[d] \in {"nothing", "one"}
        BY <1>3, <1>4, <4>2
      <4>4. Pending(d)' => outbox'[d].lock # NoWorker
        <5>1. outbox[d].lock = w \/ Settled(d)
          BY <1>1, <4>1 DEF IInv, LeaseInv, Quiet
        <5>. QED
          BY <1>1, <5>1, OutboxAssumption DEF Settled, Pending
      <4>5. ASSUME NEW v \in Workers, d \in drain'[v].batch
            PROVE  drain'[v].current = d /\ drain'[v].pc \in {"sent", "refused"}
        <5>1. v = w
          BY <1>1, <1>5, <4>1, <4>5 DEF IInv, Apart, Quiet
        <5>. QED
          BY <1>5, <5>1
      <4>. QED
        BY <4>3, <4>4, <4>5 DEF CopyInv
    <3>. QED
      BY <3>1, <3>2
  <2>2. CASE e # d
    <3>1. RowInv(e) /\ CopyInv(e) /\ inbox'[e] = inbox[e]
      BY <1>4, <2>2 DEF IInv
    <3>2. CopyInv(e)'
      <4>1. SUFFICES ASSUME inbox[e] # "nothing", Quiet(e) PROVE CopyInv(e)'
        BY <1>1, <3>1 DEF CopyInv, Quiet
      <4>2. e \notin drain[w].batch
        BY <1>1, <3>1, <4>1 DEF CopyInv
      <4>3. \A v \in Workers : e \in drain'[v].batch => v # w /\ drain'[v] = drain[v]
        BY <1>5, <4>2
      <4>. QED
        BY <1>1, <3>1, <4>1, <4>3 DEF CopyInv, Settled, Pending
    <3>. QED
      BY <1>1, <3>1, <3>2 DEF RowInv, Settled, Pending
  <2>. QED
    BY <2>1, <2>2
<1>. QED
  BY <1>6, <1>7, <1>8, <1>9, <1>10 DEF IInv

LEMMA AbandonStep ==
    ASSUME IInv, NEW w \in Workers, AbandonDrain(w)
    PROVE  IInv'
<1>1. /\ TypeOK
      /\ drain' = [drain EXCEPT ![w] = IdleDrain]
      /\ outbox' = outbox /\ inbox' = inbox /\ lapsed' = lapsed
  BY DEF IInv, AbandonDrain
<1>2. /\ drain'[w] = IdleDrain /\ IdleDrain.batch = {} /\ IdleDrain.pc = "idle"
      /\ \A v \in Workers : v # w => drain'[v] = drain[v]
  BY <1>1 DEF TypeOK, IdleDrain
<1>3. TypeOK'
  BY <1>1, IdleDrainType DEF TypeOK
<1>4. ASSUME NEW e \in Deliveries PROVE RowInv(e)' /\ CopyInv(e)'
  BY <1>1, <1>2 DEF IInv, RowInv, CopyInv, Settled, Pending, Quiet
<1>5. ASSUME NEW v \in Workers PROVE DrainInv(v)'
  BY <1>1, <1>2 DEF IInv, DrainInv
<1>6. ASSUME NEW v \in Workers, NEW e \in Deliveries PROVE LeaseInv(v, e)'
  BY <1>1, <1>2 DEF IInv, LeaseInv, Settled, Pending
<1>7. ASSUME NEW v \in Workers, NEW u \in Workers, NEW e \in Deliveries PROVE Apart(v, u, e)'
  BY <1>1, <1>2 DEF IInv, Apart
<1>. QED
  BY <1>3, <1>4, <1>5, <1>6, <1>7 DEF IInv

(* What a claim does to one row: gives it up, leases it, or nothing. *)
LEMMA SweptRow ==
    ASSUME TypeOK, NEW d \in Deliveries
    PROVE  /\ GivenUp(outbox[d]) \in Row \cup {NoRow}
           /\ outbox[d] = NoRow <=> GivenUp(outbox[d]) = NoRow
           /\ \/ GivenUp(outbox[d]) = outbox[d]
              \/ /\ Pending(d) /\ outbox[d].expired
                 /\ GivenUp(outbox[d]).failed /\ ~ GivenUp(outbox[d]).delivered
                 /\ GivenUp(outbox[d]).expired
                 /\ ~ GivenUp(outbox[d]).cipher /\ ~ GivenUp(outbox[d]).stale
                 /\ GivenUp(outbox[d]).lock = NoWorker
                 /\ GivenUp(outbox[d]).attempts = outbox[d].attempts
<1>1. CASE outbox[d] = NoRow
  BY <1>1 DEF GivenUp
<1>2. CASE outbox[d] \in Row
  <2>1. outbox[d] # NoRow
    BY <1>2, NoRowAssumption
  <2>. QED
    BY <1>2, <2>1, GivenUpRow, NoRowAssumption DEF Pending
<1>. QED
  BY <1>1, <1>2 DEF TypeOK

LEMMA ClaimStep ==
    ASSUME IInv, NEW w \in Workers, Claim(w)
    PROVE  IInv'
<1>. DEFINE swept(d) == GivenUp(outbox[d])
<1>1. PICK batch \in SUBSET Deliveries :
          /\ \A d \in batch : Claimable(swept(d))
          /\ outbox' = [d \in Deliveries |->
                           IF d \in batch THEN Claimed(swept(d), w) ELSE swept(d)]
          /\ drain' = [drain EXCEPT ![w] =
                          [pc |-> IF batch = {} THEN "idle" ELSE "draining",
                           batch |-> batch, current |-> NoDelivery]]
  BY DEF Claim
<1>2. /\ TypeOK
      /\ drain[w].pc = "idle" /\ drain[w].batch = {}
      /\ inbox' = inbox /\ lapsed' = lapsed
  BY DEF IInv, DrainInv, Claim
<1>3. /\ drain' \in [Workers -> Drain]
      /\ drain'[w].batch = batch
      /\ drain'[w].pc \in {"idle", "draining"}
      /\ drain'[w].pc = "idle" => batch = {}
      /\ \A v \in Workers : v # w => drain'[v] = drain[v]
  BY <1>1, <1>2 DEF TypeOK, Drain
(* a leased row: it was pending, and free or lapsed *)
<1>4. ASSUME NEW d \in batch
      PROVE  /\ outbox[d] \in Row /\ outbox[d] # NoRow /\ Pending(d)
             /\ outbox[d].lock = NoWorker \/ d \in lapsed
             /\ outbox'[d] \in Row /\ outbox'[d] # NoRow
             /\ outbox'[d].attempts = outbox[d].attempts
             /\ ~ outbox'[d].delivered /\ ~ outbox'[d].failed
             /\ outbox'[d].cipher = outbox[d].cipher
             /\ outbox'[d].lock = w /\ ~ outbox'[d].stale
  <2>. d \in Deliveries
    OBVIOUS
  <2>1. Claimable(swept(d))
    BY <1>1
  <2>2. swept(d) = outbox[d] /\ outbox[d] # NoRow
    BY <1>2, <2>1, SweptRow DEF Claimable
  <2>3. outbox[d] \in Row
    BY <1>2, <2>2 DEF TypeOK
  <2>4. /\ ~ outbox[d].delivered /\ ~ outbox[d].failed
        /\ outbox[d].lock = NoWorker \/ outbox[d].stale
    BY <2>1, <2>2 DEF Claimable
  <2>5. outbox'[d] = Claimed(outbox[d], w)
    BY <1>1, <2>2
  <2>6. outbox[d].stale => d \in lapsed
    BY <2>2 DEF IInv, RowInv
  <2>. QED
    BY <2>2, <2>3, <2>4, <2>5, <2>6, ClaimedRow, NoRowAssumption DEF Pending
<1>5. ASSUME NEW d \in Deliveries, d \notin batch PROVE outbox'[d] = swept(d)
  BY <1>1, <1>5
<1>6. TypeOK'
  <2>1. ASSUME NEW d \in Deliveries PROVE outbox'[d] \in Row \cup {NoRow}
    <3>1. CASE d \in batch
      BY <1>4, <3>1
    <3>2. CASE d \notin batch
      BY <1>2, <1>5, <3>2, SweptRow
    <3>. QED
      BY <3>1, <3>2
  <2>2. outbox' \in [Deliveries -> Row \cup {NoRow}]
    BY <1>1, <2>1
  <2>. QED
    BY <1>2, <1>3, <2>2 DEF TypeOK
(* a free row that never lapsed is in nobody's batch *)
<1>7. ASSUME NEW d \in batch, d \notin lapsed, NEW v \in Workers
      PROVE  d \notin drain[v].batch
  <2>1. Pending(d) /\ outbox[d].lock = NoWorker /\ d \in Deliveries
    BY <1>4, <1>7
  <2>2. LeaseInv(v, d)
    BY <2>1 DEF IInv
  <2>. QED
    BY <1>7, <2>1, <2>2, OutboxAssumption DEF LeaseInv, Settled
<1>8. ASSUME NEW v \in Workers PROVE DrainInv(v)'
  BY <1>2, <1>3 DEF IInv, DrainInv
<1>9. ASSUME NEW v \in Workers, NEW u \in Workers, NEW e \in Deliveries PROVE Apart(v, u, e)'
  BY <1>2, <1>3, <1>7 DEF IInv, Apart
<1>10. ASSUME NEW v \in Workers, NEW e \in Deliveries PROVE LeaseInv(v, e)'
  <2>1. LeaseInv(v, e) /\ Apart(v, w, e)
    BY DEF IInv
  <2>2. CASE e \in batch
    <3>1. v # w => (e \in drain'[v].batch => e \in lapsed)
      BY <1>2, <1>3, <1>7, <2>2
    <3>. QED
      BY <1>2, <1>4, <2>2, <3>1 DEF LeaseInv
  <2>3. CASE e \notin batch
    <3>1. e \in drain'[v].batch => v # w /\ e \in drain[v].batch
      BY <1>3, <2>3
    <3>2. outbox'[e] = swept(e)
      BY <1>5, <2>3
    <3>. QED
      BY <1>2, <2>1, <3>1, <3>2, SweptRow DEF LeaseInv, Settled, Pending
  <2>. QED
    BY <2>2, <2>3
<1>11. ASSUME NEW e \in Deliveries PROVE RowInv(e)' /\ CopyInv(e)'
  <2>1. RowInv(e) /\ CopyInv(e)
    BY DEF IInv
  <2>2. CASE e \in batch
    <3>1. RowInv(e)'
      BY <1>2, <1>4, <2>1, <2>2 DEF RowInv, Settled, Pending
    <3>2. CopyInv(e)'
      <4>1. SUFFICES ASSUME inbox[e] # "nothing", e \notin lapsed, outbox[e].attempts = 0
                     PROVE  FALSE
        BY <1>2, <1>4, <2>2 DEF CopyInv, Quiet
      <4>. QED
        BY <1>4, <2>1, <2>2, <4>1 DEF CopyInv, Quiet
    <3>. QED
      BY <3>1, <3>2
  <2>3. CASE e \notin batch
    <3>1. outbox'[e] = swept(e)
      BY <1>5, <2>3
    <3>2. RowInv(e)'
      BY <1>2, <2>1, <3>1, SweptRow DEF RowInv, Settled, Pending
    <3>3. \A v \in Workers : e \in drain'[v].batch => drain'[v] = drain[v]
      BY <1>3, <2>3
    <3>4. CopyInv(e)'
      BY <1>2, <2>1, <3>1, <3>3, SweptRow DEF RowInv, CopyInv, Settled, Pending, Quiet
    <3>. QED
      BY <3>2, <3>4
  <2>. QED
    BY <2>2, <2>3
<1>. QED
  BY <1>6, <1>8, <1>9, <1>10, <1>11 DEF IInv

(* Time passes for one row: its lease, its backoff or its token runs out. *)
LEMMA ClockStep ==
    ASSUME IInv, NEW d \in Deliveries, LeaseLapses(d) \/ BackoffEnds(d) \/ TokenExpires(d)
    PROVE  IInv'
<1>1. /\ TypeOK
      /\ outbox[d] # NoRow /\ outbox[d] \in Row
      /\ drain' = drain /\ inbox' = inbox
      /\ lapsed \subseteq lapsed' /\ lapsed' \in SUBSET Deliveries
      /\ \A e \in Deliveries : e # d => (e \in lapsed' <=> e \in lapsed)
  BY DEF IInv, TypeOK, LeaseLapses, BackoffEnds, TokenExpires
<1>2. /\ outbox' \in [Deliveries -> Row \cup {NoRow}]
      /\ outbox'[d] \in Row
      /\ outbox'[d].attempts = outbox[d].attempts
      /\ outbox'[d].delivered = outbox[d].delivered
      /\ outbox'[d].failed = outbox[d].failed
      /\ outbox'[d].cipher = outbox[d].cipher
      /\ outbox'[d].lock = outbox[d].lock
      /\ outbox[d].expired => outbox'[d].expired
      /\ outbox'[d].stale => outbox[d].stale \/ d \in lapsed'
      /\ \A e \in Deliveries : e # d => outbox'[e] = outbox[e]
  <2>1. CASE LeaseLapses(d)
    BY <1>1, <2>1 DEF TypeOK, LeaseLapses, Row
  <2>2. CASE BackoffEnds(d)
    BY <1>1, <2>2 DEF TypeOK, BackoffEnds, Row
  <2>3. CASE TokenExpires(d)
    BY <1>1, <2>3 DEF TypeOK, TokenExpires, Row
  <2>. QED
    BY <2>1, <2>2, <2>3
<1>3. outbox'[d] # NoRow
  BY <1>2, NoRowAssumption
<1>4. TypeOK'
  BY <1>1, <1>2 DEF TypeOK
<1>5. ASSUME NEW e \in Deliveries PROVE RowInv(e)' /\ CopyInv(e)'
  <2>1. RowInv(e) /\ CopyInv(e)
    BY DEF IInv
  <2>2. CASE e = d
    <3>1. RowInv(e)'
      BY <1>1, <1>2, <1>3, <2>1, <2>2 DEF RowInv, Settled, Pending
    <3>2. CopyInv(e)'
      BY <1>1, <1>2, <1>3, <2>1, <2>2 DEF CopyInv, Settled, Pending, Quiet
    <3>. QED
      BY <3>1, <3>2
  <2>3. CASE e # d
    BY <1>1, <1>2, <2>1, <2>3 DEF RowInv, CopyInv, Settled, Pending, Quiet
  <2>. QED
    BY <2>2, <2>3
<1>6. ASSUME NEW v \in Workers PROVE DrainInv(v)'
  BY <1>1 DEF IInv, DrainInv
<1>7. ASSUME NEW v \in Workers, NEW e \in Deliveries PROVE LeaseInv(v, e)'
  <2>1. LeaseInv(v, e)
    BY DEF IInv
  <2>. QED
    BY <1>1, <1>2, <1>3, <2>1 DEF LeaseInv, Settled, Pending
<1>8. ASSUME NEW v \in Workers, NEW u \in Workers, NEW e \in Deliveries PROVE Apart(v, u, e)'
  BY <1>1 DEF IInv, Apart
<1>. QED
  BY <1>4, <1>5, <1>6, <1>7, <1>8 DEF IInv

-----------------------------------------------------------------------------
(* The invariant *)

LEMMA InitInv == Init => IInv
<1>. SUFFICES ASSUME Init PROVE IInv
  OBVIOUS
<1>1. TypeOK
  BY IdleDrainType DEF Init, TypeOK
<1>2. ASSUME NEW w \in Workers PROVE drain[w].pc = "idle" /\ drain[w].batch = {}
  BY DEF Init, IdleDrain
<1>3. ASSUME NEW d \in Deliveries PROVE outbox[d] = NoRow /\ inbox[d] = "nothing"
  BY DEF Init
<1>. QED
  BY <1>1, <1>2, <1>3 DEF IInv, RowInv, CopyInv, DrainInv, LeaseInv, Apart

LEMMA NextInv == IInv /\ [Next]_vars => IInv'
<1>. SUFFICES ASSUME IInv, [Next]_vars PROVE IInv'
  OBVIOUS
<1>1. ASSUME NEW d \in Deliveries, Enqueue(d) PROVE IInv'
  BY <1>1, EnqueueStep
<1>2. ASSUME NEW w \in Workers, DrainStep(w) PROVE IInv'
  BY <1>2, ClaimStep, SendStep, MarkDeliveredStep, MarkFailedStep DEF DrainStep
<1>3. ASSUME NEW w \in Workers, AbandonDrain(w) PROVE IInv'
  BY <1>3, AbandonStep
<1>4. ASSUME NEW d \in Deliveries, LeaseLapses(d) \/ BackoffEnds(d) \/ TokenExpires(d)
      PROVE  IInv'
  BY <1>4, ClockStep
<1>5. CASE UNCHANGED vars
  BY <1>5 DEF vars, IInv, TypeOK, RowInv, CopyInv, DrainInv, LeaseInv, Apart,
              Settled, Pending, Quiet
<1>. QED
  BY <1>1, <1>2, <1>3, <1>4, <1>5 DEF Next

LEMMA SpecInv == Spec => []IInv
  BY InitInv, NextInv, PTL DEF Spec

-----------------------------------------------------------------------------
(* The theorems *)

\* Type correctness of the outbox table, the drains and the inboxes.
THEOREM OutboxTypeCorrect == Spec => []TypeOK
<1>1. IInv => TypeOK
  BY DEF IInv
<1>. QED
  BY <1>1, SpecInv, PTL

\* However marks, leases and the expiry sweep interleave, a row is never both delivered and failed,
\* keeps its ciphertext exactly while it is pending, and says what happened to the mail
\* (claim_outbox_deliveries, mark_outbox_delivered, mark_outbox_failed).
THEOREM OutboxStaysConsistent == Spec => []OutboxConsistent
<1>1. IInv => OutboxConsistent
  BY DEF IInv, RowInv, OutboxConsistent
<1>. QED
  BY <1>1, SpecInv, PTL

\* Without a lapsed lease no two drains hold the same delivery (claim_outbox_deliveries).
THEOREM LeasesKeepDrainsApart == Spec => []OneDrainPerLease
<1>1. IInv => OneDrainPerLease
  BY DEF IInv, Apart, OneDrainPerLease
<1>. QED
  BY <1>1, SpecInv, PTL

\* A recipient gets a second copy only after a failed attempt was recorded or a lease ran out.
DuplicatesAreExplained ==
    \A d \in Deliveries : inbox[d] = "more" => d \in lapsed \/ outbox[d].attempts > 0

\* Without a lapsed lease and a recorded failure no recipient gets a second copy (drain_once).
THEOREM CopiesAreExplained == Spec => []DuplicatesAreExplained
<1>1. IInv => DuplicatesAreExplained
  <2>1. ASSUME IInv, NEW d \in Deliveries, inbox[d] = "more", d \notin lapsed
        PROVE  outbox[d].attempts > 0
    <3>1. /\ outbox[d] # NoRow /\ outbox[d].attempts # 0
          /\ TypeOK
      BY <2>1 DEF IInv, RowInv, CopyInv, Quiet
    <3>2. outbox[d].attempts \in Nat
      BY <3>1 DEF TypeOK, Row
    <3>. QED
      BY <3>1, <3>2
  <2>. QED
    BY <2>1 DEF DuplicatesAreExplained
<1>. QED
  BY <1>1, SpecInv, PTL
-----------------------------------------------------------------------------
(***************************************************************************)
(* The outbox implements the promise.  Send needs one thing more than the  *)
(* invariant says: a settled delivery is in a batch only if a lease on it  *)
(* lapsed or its token expired.                                            *)
(***************************************************************************)

LateInv(w, d) ==
    d \in drain[w].batch /\ Settled(d) => d \in lapsed \/ outbox[d].expired

(* an unchanged row in a batch that did not grow *)
LEMMA LateStays ==
    ASSUME NEW w \in Workers, NEW d \in Deliveries, LateInv(w, d),
           d \in drain'[w].batch => d \in drain[w].batch,
           outbox'[d] = outbox[d], lapsed \subseteq lapsed'
    PROVE  LateInv(w, d)'
  BY DEF LateInv, Settled, Pending

LEMMA EnqueueLate ==
    ASSUME IInv, NEW c \in Deliveries, Enqueue(c), NEW w \in Workers, NEW d \in Deliveries,
           LateInv(w, d)
    PROVE  LateInv(w, d)'
<1>1. drain' = drain /\ lapsed' = lapsed /\ outbox[c] = NoRow
      /\ \A e \in Deliveries : e # c => outbox'[e] = outbox[e]
  BY DEF IInv, TypeOK, Enqueue
<1>2. CASE d = c
  <2>1. d \notin drain[w].batch
    BY <1>1, <1>2 DEF IInv, LeaseInv
  <2>. QED
    BY <1>1, <2>1 DEF LateInv
<1>3. CASE d # c
  BY <1>1, <1>3, LateStays
<1>. QED
  BY <1>2, <1>3

(* a mark touches the row of its own batch only: to any other drain it is lapsed *)
LEMMA MarkLate ==
    ASSUME IInv, NEW v \in Workers, MarkDelivered(v) \/ MarkFailed(v),
           NEW w \in Workers, NEW d \in Deliveries, LateInv(w, d)
    PROVE  LateInv(w, d)'
<1>. DEFINE c == drain[v].current
<1>1. /\ TypeOK /\ drain[v].pc \in {"sent", "refused"} /\ c \in drain[v].batch /\ c \in Deliveries
      /\ NextOfBatch(v) /\ lapsed' = lapsed /\ inbox' = inbox
  BY DEF IInv, DrainInv, MarkDelivered, MarkFailed, TypeOK, Drain
<1>2. \A e \in Deliveries : e # c => outbox'[e] = outbox[e]
  BY <1>1 DEF MarkDelivered, MarkFailed, TypeOK
<1>3. d \in drain'[w].batch => d \in drain[w].batch /\ (w = v => d # c)
  BY <1>1, MarkedDrains
<1>4. CASE d = c
  <2>1. d \in drain'[w].batch => d \in lapsed
    BY <1>1, <1>3, <1>4 DEF IInv, Apart
  <2>. QED
    BY <1>1, <2>1 DEF LateInv
<1>5. CASE d # c
  BY <1>1, <1>2, <1>3, <1>5, LateStays
<1>. QED
  BY <1>4, <1>5

(* What a claim does to a row: it leases a pending one, gives up an expired one, or nothing. *)
LEMMA ClaimedRows ==
    ASSUME IInv, NEW v \in Workers, Claim(v), NEW d \in Deliveries
    PROVE  \/ /\ Pending(d) /\ Pending(d)'
              /\ outbox'[d].attempts = outbox[d].attempts
              /\ outbox'[d].expired = outbox[d].expired
           \/ /\ d \notin drain'[v].batch
              /\ Pending(d) /\ outbox[d].expired
              /\ outbox'[d] # NoRow /\ outbox'[d].failed /\ ~ outbox'[d].delivered
              /\ outbox'[d].expired /\ outbox'[d].attempts = outbox[d].attempts
           \/ d \notin drain'[v].batch /\ outbox'[d] = outbox[d]
<1>. DEFINE swept == GivenUp(outbox[d])
<1>0. PICK batch \in SUBSET Deliveries :
          /\ \A e \in batch : Claimable(GivenUp(outbox[e]))
          /\ outbox' = [e \in Deliveries |->
                           IF e \in batch THEN Claimed(GivenUp(outbox[e]), v)
                           ELSE GivenUp(outbox[e])]
          /\ drain' = [drain EXCEPT ![v] =
                          [pc |-> IF batch = {} THEN "idle" ELSE "draining",
                           batch |-> batch, current |-> NoDelivery]]
  BY DEF Claim
<1>2. TypeOK
  BY DEF IInv
<1>1. /\ \A e \in batch : Claimable(GivenUp(outbox[e]))
      /\ outbox'[d] = IF d \in batch THEN Claimed(swept, v) ELSE swept
      /\ drain'[v].batch = batch
  BY <1>0, <1>2 DEF TypeOK
<1>3. CASE d \in batch
  <2>1. Claimable(swept)
    BY <1>1, <1>3
  <2>2. swept = outbox[d] /\ outbox[d] # NoRow
    BY <1>2, <2>1, SweptRow DEF Claimable
  <2>3. outbox[d] \in Row /\ ~ outbox[d].delivered /\ ~ outbox[d].failed
    BY <1>2, <2>1, <2>2 DEF TypeOK, Claimable
  <2>4. outbox'[d] = Claimed(outbox[d], v)
    BY <1>1, <1>3, <2>2
  <2>5. Claimed(outbox[d], v).expired = outbox[d].expired
    BY <2>3 DEF Claimed, Row
  <2>6. /\ Claimed(outbox[d], v) \in Row
        /\ Claimed(outbox[d], v).attempts = outbox[d].attempts
        /\ ~ Claimed(outbox[d], v).delivered /\ ~ Claimed(outbox[d], v).failed
    BY <2>3, ClaimedRow
  <2>. QED
    BY <2>2, <2>3, <2>4, <2>5, <2>6, NoRowAssumption DEF Pending
<1>4. CASE d \notin batch
  <2>1. outbox'[d] = swept /\ d \notin drain'[v].batch
    BY <1>1, <1>4
  <2>2. CASE swept = outbox[d]
    BY <2>1, <2>2
  <2>3. CASE swept # outbox[d]
    <3>1. /\ Pending(d) /\ outbox[d].expired
          /\ swept.failed /\ ~ swept.delivered /\ swept.expired
          /\ swept.attempts = outbox[d].attempts
      BY <1>2, <2>3, SweptRow
    <3>2. swept # NoRow
      BY <1>2, <3>1, SweptRow DEF Pending
    <3>. QED
      BY <2>1, <3>1, <3>2
  <2>. QED
    BY <2>2, <2>3
<1>. QED
  BY <1>3, <1>4

LEMMA ClaimLate ==
    ASSUME IInv, NEW v \in Workers, Claim(v), NEW w \in Workers, NEW d \in Deliveries,
           LateInv(w, d)
    PROVE  LateInv(w, d)'
<1>1. lapsed' = lapsed /\ (w # v => drain'[w] = drain[w])
  BY DEF IInv, TypeOK, Claim
<1>2. CASE Pending(d)'
  BY <1>2 DEF LateInv, Settled
<1>3. CASE outbox'[d].expired
  BY <1>3 DEF LateInv
<1>4. CASE d \notin drain'[v].batch /\ outbox'[d] = outbox[d]
  <2>1. d \in drain'[w].batch => d \in drain[w].batch
    BY <1>1, <1>4
  <2>. QED
    BY <1>1, <1>4, <2>1, LateStays
<1>. QED
  BY <1>2, <1>3, <1>4, ClaimedRows

LEMMA ClockLate ==
    ASSUME IInv, NEW c \in Deliveries, LeaseLapses(c) \/ BackoffEnds(c) \/ TokenExpires(c),
           NEW w \in Workers, NEW d \in Deliveries, LateInv(w, d)
    PROVE  LateInv(w, d)'
<1>1. /\ drain' = drain /\ lapsed \subseteq lapsed' /\ outbox[c] # NoRow
      /\ outbox[c] \in Row
      /\ \A e \in Deliveries : e # c => outbox'[e] = outbox[e]
  BY DEF IInv, TypeOK, LeaseLapses, BackoffEnds, TokenExpires
<1>2. /\ outbox'[c].delivered = outbox[c].delivered /\ outbox'[c].failed = outbox[c].failed
      /\ outbox[c].expired => outbox'[c].expired
  BY <1>1 DEF IInv, TypeOK, LeaseLapses, BackoffEnds, TokenExpires, Row
<1>3. CASE d = c
  BY <1>1, <1>2, <1>3 DEF LateInv, Settled, Pending
<1>4. CASE d # c
  BY <1>1, <1>4, LateStays
<1>. QED
  BY <1>3, <1>4

LEMMA NextLate ==
    IInv /\ (\A w \in Workers, d \in Deliveries : LateInv(w, d)) /\ [Next]_vars =>
        (\A w \in Workers, d \in Deliveries : LateInv(w, d))'
<1>. SUFFICES ASSUME IInv, [Next]_vars, NEW w \in Workers, NEW d \in Deliveries, LateInv(w, d)
              PROVE  LateInv(w, d)'
  OBVIOUS
<1>1. ASSUME NEW c \in Deliveries, Enqueue(c) PROVE LateInv(w, d)'
  BY <1>1, EnqueueLate
<1>2. ASSUME NEW v \in Workers, NEW c \in Deliveries, SendAccepted(v, c) \/ SendFails(v, c)
      PROVE  LateInv(w, d)'
  <2>1. outbox' = outbox /\ lapsed' = lapsed /\ drain'[w].batch = drain[w].batch
    BY <1>2 DEF IInv, TypeOK, Drain, SendAccepted, SendFails
  <2>. QED
    BY <2>1, LateStays
<1>3. ASSUME NEW v \in Workers, AbandonDrain(v) PROVE LateInv(w, d)'
  <2>1. outbox' = outbox /\ lapsed' = lapsed
        /\ (d \in drain'[w].batch => d \in drain[w].batch)
    BY <1>3 DEF IInv, TypeOK, AbandonDrain, IdleDrain
  <2>. QED
    BY <2>1, LateStays
<1>4. ASSUME NEW v \in Workers, DrainStep(v) PROVE LateInv(w, d)'
  BY <1>2, <1>4, ClaimLate, MarkLate DEF DrainStep
<1>5. ASSUME NEW c \in Deliveries, LeaseLapses(c) \/ BackoffEnds(c) \/ TokenExpires(c)
      PROVE  LateInv(w, d)'
  BY <1>5, ClockLate
<1>6. CASE UNCHANGED vars
  BY <1>6, LateStays DEF vars
<1>. QED
  BY <1>1, <1>3, <1>4, <1>5, <1>6 DEF Next

(* the same state under the map, and steps that change one mail of it *)
PromiseStep == [Promise!Next]_(Promise!promise)

SameMail(d) == Mail(d)' = Mail(d) /\ Tries(d)' = Tries(d) /\ (d \in Late' <=> d \in Late)

LEMMA QuietPromise ==
    ASSUME \A d \in Deliveries : SameMail(d), UNCHANGED <<inbox, lapsed>>
    PROVE  PromiseStep
<1>1. Late' = Late
  BY DEF SameMail, Late
<1>. QED
  BY <1>1 DEF SameMail, PromiseStep, Promise!promise

LEMMA UntouchedMail ==
    ASSUME NEW d \in Deliveries, outbox'[d] = outbox[d]
    PROVE  SameMail(d)
  BY DEF SameMail, Mail, Tries, Late

(* of a row: what is seen of it *)
LEMMA SeenMail ==
    ASSUME NEW d \in Deliveries, outbox[d] # NoRow
    PROVE  /\ Mail(d) = IF outbox[d].delivered THEN "delivered"
                        ELSE IF outbox[d].failed THEN "failed" ELSE "queued"
           /\ Mail(d) # "none"
           /\ Tries(d) = outbox[d].attempts
           /\ d \in Late <=> outbox[d].expired
  BY DEF Mail, Tries, Late

LEMMA EnqueuePromise ==
    ASSUME IInv, NEW d \in Deliveries, Enqueue(d)
    PROVE  PromiseStep
<1>1. /\ outbox[d] = NoRow /\ outbox'[d] = NewRow /\ NewRow # NoRow
      /\ UNCHANGED <<inbox, lapsed>>
      /\ \A e \in Deliveries : e # d => outbox'[e] = outbox[e]
  BY InsertedRow, NoRowAssumption DEF IInv, TypeOK, Enqueue
<1>2. /\ Mail(d) = "none" /\ Mail(d)' = "queued"
      /\ Tries(d)' = Tries(d) /\ (d \in Late' <=> d \in Late)
  BY <1>1, InsertedRow DEF Mail, Tries, Late, NewRow
<1>3. \A e \in Deliveries : e # d => SameMail(e)
  BY <1>1, UntouchedMail
<1>4. Late' = Late /\ \A e \in Deliveries : Tries(e)' = Tries(e)
  BY <1>2, <1>3 DEF SameMail, Late
<1>5. [e \in Deliveries |-> Mail(e)'] = [[e \in Deliveries |-> Mail(e)] EXCEPT ![d] = "queued"]
  BY <1>2, <1>3 DEF SameMail
<1>6. Promise!Queue(d)
  BY <1>1, <1>2, <1>4, <1>5 DEF Promise!Queue
<1>. QED
  BY <1>6 DEF PromiseStep, Promise!Next

(* The sender is one of the promise: of a mail in a batch, with an excuse for a second copy. *)
LEMMA SendPromise ==
    ASSUME IInv, NEW w \in Workers, NEW d \in Deliveries, LateInv(w, d),
           SendAccepted(w, d) \/ SendFails(w, d)
    PROVE  PromiseStep
<1>1. /\ drain[w].pc = "draining" /\ d \in drain[w].batch
      /\ UNCHANGED <<outbox, lapsed>>
      /\ inbox' = inbox \/ inbox' = [inbox EXCEPT ![d] = OneMore(@)]
  BY DEF IInv, TypeOK, SendAccepted, SendFails
<1>2. \A e \in Deliveries : SameMail(e)
  BY <1>1, UntouchedMail
<1>3. CASE inbox' = inbox
  BY <1>1, <1>2, <1>3, QuietPromise
<1>4. CASE inbox' = [inbox EXCEPT ![d] = OneMore(@)]
  <2>1. outbox[d] # NoRow /\ outbox[d] \in Row
    BY <1>1 DEF IInv, TypeOK, LeaseInv
  <2>2. /\ Mail(d) = IF outbox[d].delivered THEN "delivered"
                     ELSE IF outbox[d].failed THEN "failed" ELSE "queued"
        /\ Mail(d) # "none"
        /\ Tries(d) = outbox[d].attempts
        /\ d \in Late <=> outbox[d].expired
    BY <2>1, SeenMail
  <2>3. Mail(d) = "queued" \/ d \in Late \cup lapsed
    <3>1. CASE Pending(d)
      BY <2>2, <3>1 DEF Pending
    <3>2. CASE Settled(d)
      BY <1>1, <2>2, <3>2 DEF LateInv
    <3>. QED
      BY <2>1, <3>1, <3>2 DEF Settled
  <2>4. inbox[d] = "nothing" \/ Tries(d) > 0 \/ d \in lapsed
    <3>. SUFFICES ASSUME inbox[d] # "nothing", d \notin lapsed PROVE Tries(d) > 0
      OBVIOUS
    <3>1. outbox[d].attempts # 0
      BY <1>1 DEF IInv, CopyInv, Quiet
    <3>2. outbox[d].attempts \in Nat
      BY <2>1 DEF Row
    <3>. QED
      BY <2>2, <3>1, <3>2
  <2>5. /\ [e \in Deliveries |-> Mail(e)'] = [e \in Deliveries |-> Mail(e)]
        /\ [e \in Deliveries |-> Tries(e)'] = [e \in Deliveries |-> Tries(e)]
        /\ Late' = Late
    BY <1>2 DEF SameMail, Late
  <2>6. inbox' = [inbox EXCEPT ![d] = IF @ = "nothing" THEN "one" ELSE "more"]
    BY <1>4 DEF OneMore
  <2>7. Promise!Send(d)
    BY <1>1, <2>2, <2>3, <2>4, <2>5, <2>6 DEF Promise!Send
  <2>. QED
    BY <2>7 DEF PromiseStep, Promise!Next
<1>. QED
  BY <1>1, <1>3, <1>4

(* A mark settles or records what is still pending; a late one does nothing. *)
LEMMA MarkDeliveredPromise ==
    ASSUME IInv, NEW w \in Workers, MarkDelivered(w)
    PROVE  PromiseStep
<1>. PICK d : d = drain[w].current
  OBVIOUS
<1>. DEFINE n == Delivered(outbox[d])
<1>1. /\ TypeOK /\ d \in Deliveries /\ inbox[d] # "nothing"
      /\ UNCHANGED <<inbox, lapsed>>
      /\ outbox' = IF OwnedBy(w, d) THEN [outbox EXCEPT ![d] = n] ELSE outbox
  BY DEF IInv, DrainInv, MarkDelivered, TypeOK, Drain
<1>2. CASE ~ OwnedBy(w, d)
  BY <1>1, <1>2, UntouchedMail, QuietPromise
<1>3. CASE OwnedBy(w, d)
  <2>1. /\ outbox[d] \in Row /\ outbox[d] # NoRow
        /\ ~ outbox[d].delivered /\ ~ outbox[d].failed
    BY <1>1, <1>3 DEF OwnedBy, Pending, TypeOK
  <2>2. /\ n \in Row /\ n # NoRow /\ n.attempts = outbox[d].attempts /\ n.delivered
        /\ n.expired = outbox[d].expired
    BY <2>1, DeliveredRow, NoRowAssumption DEF Delivered, Unlocked, Row
  <2>. HIDE DEF n
  <2>3. outbox'[d] = n /\ \A e \in Deliveries : e # d => outbox'[e] = outbox[e]
    BY <1>1, <1>3 DEF TypeOK
  <2>4. /\ Mail(d) = "queued" /\ Mail(d)' = "delivered"
        /\ Tries(d)' = Tries(d) /\ (d \in Late' <=> d \in Late)
    BY <1>1, <2>1, <2>2, <2>3 DEF Mail, Tries, Late
  <2>5. \A e \in Deliveries : e # d => SameMail(e)
    BY <2>3, UntouchedMail
  <2>6. Late' = Late /\ \A e \in Deliveries : Tries(e)' = Tries(e)
    BY <2>4, <2>5 DEF SameMail, Late
  <2>7. [e \in Deliveries |-> Mail(e)'] = [[e \in Deliveries |-> Mail(e)] EXCEPT ![d] = "delivered"]
    BY <2>4, <2>5 DEF SameMail
  <2>8. Promise!Deliver(d)
    BY <1>1, <2>4, <2>6, <2>7 DEF Promise!Deliver
  <2>. QED
    BY <1>1, <2>8 DEF PromiseStep, Promise!Next
<1>. QED
  BY <1>2, <1>3

LEMMA MarkFailedPromise ==
    ASSUME IInv, NEW w \in Workers, MarkFailed(w)
    PROVE  PromiseStep
<1>. PICK d : d = drain[w].current
  OBVIOUS
<1>. DEFINE n == Refused(outbox[d])
<1>1. /\ TypeOK /\ d \in Deliveries
      /\ UNCHANGED <<inbox, lapsed>>
      /\ outbox' = IF OwnedBy(w, d) THEN [outbox EXCEPT ![d] = n] ELSE outbox
  BY DEF IInv, DrainInv, MarkFailed, TypeOK, Drain
<1>2. CASE ~ OwnedBy(w, d)
  BY <1>1, <1>2, UntouchedMail, QuietPromise
<1>3. CASE OwnedBy(w, d)
  <2>1. /\ outbox[d] \in Row /\ outbox[d] # NoRow /\ outbox[d].attempts \in Nat
        /\ ~ outbox[d].delivered /\ ~ outbox[d].failed /\ outbox[d].cipher
        /\ outbox[d].attempts < MaxAttempts
    BY <1>1, <1>3 DEF OwnedBy, Pending, TypeOK, Row, IInv, RowInv
  <2>2. /\ n \in Row /\ n # NoRow /\ n.attempts = outbox[d].attempts + 1 /\ ~ n.delivered
        /\ n.failed <=> n.attempts >= MaxAttempts
    BY <2>1, RefusedRow, NoRowAssumption
  <2>3. n.expired = outbox[d].expired
    BY <2>1 DEF Refused, Unlocked, Row
  <2>4. n.failed <=> outbox[d].attempts + 1 = MaxAttempts
    BY <2>1, <2>2, OutboxAssumption
  <2>. HIDE DEF n
  <2>5. outbox'[d] = n /\ \A e \in Deliveries : e # d => outbox'[e] = outbox[e]
    BY <1>1, <1>3 DEF TypeOK
  <2>6. /\ Mail(d) = "queued" /\ Tries(d) = outbox[d].attempts
        /\ Mail(d)' = IF Tries(d) + 1 = MaxAttempts THEN "failed" ELSE "queued"
        /\ Tries(d)' = Tries(d) + 1 /\ (d \in Late' <=> d \in Late)
    BY <1>1, <2>1, <2>2, <2>3, <2>4, <2>5 DEF Mail, Tries, Late
  <2>7. \A e \in Deliveries : e # d => SameMail(e)
    BY <2>5, UntouchedMail
  <2>8. Late' = Late
    BY <2>6, <2>7 DEF SameMail, Late
  <2>9. /\ [e \in Deliveries |-> Mail(e)'] =
               [[e \in Deliveries |-> Mail(e)] EXCEPT
                   ![d] = IF Tries(d) + 1 = MaxAttempts THEN "failed" ELSE "queued"]
        /\ [e \in Deliveries |-> Tries(e)'] =
               [[e \in Deliveries |-> Tries(e)] EXCEPT ![d] = Tries(d) + 1]
    BY <2>6, <2>7 DEF SameMail
  <2>10. Tries(d) < MaxAttempts
    BY <2>1, <2>6
  <2>11. Promise!Fail(d)
    BY <1>1, <2>6, <2>8, <2>9, <2>10 DEF Promise!Fail
  <2>. QED
    BY <1>1, <2>11 DEF PromiseStep, Promise!Next
<1>. QED
  BY <1>2, <1>3

(* A claim gives up the expired ones it sweeps, all at once. *)
LEMMA ClaimPromise ==
    ASSUME IInv, NEW w \in Workers, Claim(w)
    PROVE  PromiseStep
<1>. DEFINE some == {d \in Deliveries : Mail(d) = "queued" /\ Mail(d)' = "failed"}
<1>1. UNCHANGED <<inbox, lapsed>>
  BY DEF Claim
<1>2. ASSUME NEW d \in Deliveries
      PROVE  /\ Tries(d)' = Tries(d) /\ (d \in Late' <=> d \in Late)
             /\ Mail(d)' = Mail(d) \/ (Mail(d) = "queued" /\ Mail(d)' = "failed" /\ d \in Late)
  BY ClaimedRows DEF Mail, Tries, Late, Pending
<1>3. Late' = Late
  BY <1>2 DEF Late
<1>4. some \in SUBSET {d \in Late : Mail(d) = "queued"}
  BY <1>2 DEF Late
<1>5. \A d \in Deliveries : Mail(d)' = IF d \in some THEN "failed" ELSE Mail(d)
  BY <1>2
<1>. HIDE DEF some
<1>6. Promise!GiveUp(some)
  BY <1>1, <1>2, <1>3, <1>4, <1>5 DEF Promise!GiveUp, Late
<1>7. {d \in Late : Mail(d) = "queued"} =
          {d \in Late : [e \in Deliveries |-> Mail(e)][d] = "queued"}
  BY DEF Late
<1>. QED
  BY <1>4, <1>6, <1>7 DEF PromiseStep, Promise!Next

LEMMA ClockPromise ==
    ASSUME IInv, NEW d \in Deliveries, LeaseLapses(d) \/ BackoffEnds(d) \/ TokenExpires(d)
    PROVE  PromiseStep
<1>1. /\ TypeOK /\ outbox[d] # NoRow /\ outbox[d] \in Row /\ inbox' = inbox
      /\ \A e \in Deliveries : e # d => outbox'[e] = outbox[e]
  BY DEF IInv, TypeOK, LeaseLapses, BackoffEnds, TokenExpires
<1>2. \A e \in Deliveries : e # d => SameMail(e)
  BY <1>1, UntouchedMail
<1>3. /\ outbox'[d] \in Row /\ outbox'[d].attempts = outbox[d].attempts
      /\ outbox'[d].delivered = outbox[d].delivered /\ outbox'[d].failed = outbox[d].failed
      /\ IF TokenExpires(d) THEN outbox'[d].expired ELSE outbox'[d].expired = outbox[d].expired
  <2>1. CASE TokenExpires(d)
    BY <1>1, <2>1 DEF TypeOK, TokenExpires, Row
  <2>2. CASE LeaseLapses(d)
    <3>1. ~ TokenExpires(d) \/ outbox'[d].expired
      BY <1>1, <2>2 DEF TypeOK, LeaseLapses, TokenExpires, Row
    <3>. QED
      BY <1>1, <2>2, <3>1 DEF TypeOK, LeaseLapses, Row
  <2>3. CASE BackoffEnds(d)
    <3>1. ~ TokenExpires(d) \/ outbox'[d].expired
      BY <1>1, <2>3 DEF TypeOK, BackoffEnds, TokenExpires, Row
    <3>. QED
      BY <1>1, <2>3, <3>1 DEF TypeOK, BackoffEnds, Row
  <2>. QED
    BY <2>1, <2>2, <2>3
<1>4. Mail(d)' = Mail(d) /\ Tries(d)' = Tries(d) /\ Mail(d) # "none"
  BY <1>1, <1>3, NoRowAssumption DEF Mail, Tries
<1>5. /\ [e \in Deliveries |-> Mail(e)'] = [e \in Deliveries |-> Mail(e)]
      /\ [e \in Deliveries |-> Tries(e)'] = [e \in Deliveries |-> Tries(e)]
  BY <1>2, <1>4 DEF SameMail
<1>6. CASE TokenExpires(d)
  <2>1. Late' = Late \cup {d} /\ lapsed' = lapsed
    BY <1>1, <1>2, <1>3, <1>6, NoRowAssumption DEF SameMail, Late, TokenExpires
  <2>2. Promise!Expire(d)
    BY <1>1, <1>4, <1>5, <2>1 DEF Promise!Expire
  <2>. QED
    BY <2>2 DEF PromiseStep, Promise!Next
<1>7. CASE ~ TokenExpires(d)
  <2>1. d \in Late' <=> d \in Late
    BY <1>1, <1>3, <1>7, NoRowAssumption DEF Late
  <2>2. Late' = Late /\ SameMail(d)
    BY <1>2, <1>4, <2>1 DEF SameMail, Late
  <2>3. CASE LeaseLapses(d)
    <3>1. outbox[d].lock # NoWorker /\ lapsed' = lapsed \cup {d}
      BY <2>3 DEF LeaseLapses
    <3>2. Pending(d)
      BY <1>1, <3>1 DEF IInv, RowInv, Settled
    <3>3. Mail(d) = "queued"
      BY <3>2 DEF Mail, Pending
    <3>4. Promise!Overrun(d)
      BY <1>1, <1>5, <2>2, <3>1, <3>3 DEF Promise!Overrun
    <3>. QED
      BY <3>4 DEF PromiseStep, Promise!Next
  <2>4. CASE BackoffEnds(d)
    <3>1. lapsed' = lapsed
      BY <2>4 DEF BackoffEnds
    <3>. QED
      BY <1>1, <1>2, <2>2, <3>1, QuietPromise
  <2>. QED
    BY <1>7, <2>3, <2>4
<1>. QED
  BY <1>6, <1>7

LEMMA NextPromise ==
    IInv /\ (\A w \in Workers, d \in Deliveries : LateInv(w, d)) /\ [Next]_vars => PromiseStep
<1>. SUFFICES ASSUME IInv, \A w \in Workers, d \in Deliveries : LateInv(w, d), [Next]_vars
              PROVE  PromiseStep
  OBVIOUS
<1>1. ASSUME NEW d \in Deliveries, Enqueue(d) PROVE PromiseStep
  BY <1>1, EnqueuePromise
<1>2. ASSUME NEW w \in Workers, DrainStep(w) PROVE PromiseStep
  BY <1>2, ClaimPromise, SendPromise, MarkDeliveredPromise, MarkFailedPromise DEF DrainStep
<1>3. ASSUME NEW w \in Workers, AbandonDrain(w) PROVE PromiseStep
  BY <1>3, UntouchedMail, QuietPromise DEF AbandonDrain
<1>4. ASSUME NEW d \in Deliveries, LeaseLapses(d) \/ BackoffEnds(d) \/ TokenExpires(d)
      PROVE  PromiseStep
  BY <1>4, ClockPromise
<1>5. CASE UNCHANGED vars
  BY <1>5, UntouchedMail, QuietPromise DEF vars
<1>. QED
  BY <1>1, <1>2, <1>3, <1>4, <1>5 DEF Next

\* The outbox implements the promise: however the drains of any number of workers, their marks
\* and sweeps, lapsed leases and abandoned drains interleave, each mail settles once and for
\* good, and no copy goes out without one of the named reasons (claim_outbox_deliveries,
\* mark_outbox_delivered, mark_outbox_failed, drain_once).
THEOREM PromiseIsImplemented == Spec => ImplementsPromise
<1>1. Init => Promise!Init
  BY DEF Init, Promise!Init, Mail, Tries, Late
<1>2. Init => \A w \in Workers, d \in Deliveries : LateInv(w, d)
  BY DEF Init, LateInv, IdleDrain
<1>. QED
  BY <1>1, <1>2, InitInv, NextInv, NextLate, NextPromise, PTL
     DEF Spec, ImplementsPromise, Promise!Spec, PromiseStep
=============================================================================
