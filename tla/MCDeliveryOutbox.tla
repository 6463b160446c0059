-------------------------- MODULE MCDeliveryOutbox ----------------------------
(* Two processes, two deliveries: a batch of both, or one each. *)
EXTENDS DeliveryOutbox

CONSTANTS w1, w2, d1, d2

MCWorkers == {w1, w2}
MCDeliveries == {d1, d2}
=============================================================================
