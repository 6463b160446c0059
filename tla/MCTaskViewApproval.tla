------------------------ MODULE MCTaskViewApproval --------------------------
(* A small workspace: one view, two members who may both create and        *)
(* approve, two requests in flight (slots are used again and again), and    *)
(* plans of each kind the policy tells apart: the contents of a view and    *)
(* what can be offered, repaired and approved are what Policy makes of them. *)
EXTENDS TaskViewApproval, Policy, TLC

CONSTANTS ann, bob, r1, r2, clean, fixable, twisted, hopeless

MCUsers == {ann, bob}
MCRequests == {r1, r2}
MCContents == {clean, fixable, twisted, hopeless}

Voc(inputs, op, output) == [source |-> "voc", inputs |-> inputs, op |-> op, output |-> output]

PlanOf(item, ttl) == [audience |-> "product", ttl |-> ttl, sources |-> <<"voc">>,
                      items |-> <<item>>, columns |-> {"case_count"}]

(* twisted: offered, but the two fields of its transformation want different *)
(* operators, and repairing the one gives hopeless, for which nothing is     *)
(* offered                                                                   *)
MCPlan ==
    (clean :> PlanOf(Voc(<<"address">>, "region_group", "region"), 7)) @@
    (fixable :> PlanOf(Voc(<<"address">>, "select", "area"), 30)) @@
    (twisted :> PlanOf(Voc(<<"address", "ticket_text">>, "classify", "issue_type"), 7)) @@
    (hopeless :> PlanOf(Voc(<<"address", "ticket_text">>, "region_group", "region"), 7))

MCBlocking == {fixable, twisted, hopeless}
MCOffered == {fixable, twisted}
MCRepair == (fixable :> clean) @@ (twisted :> hopeless) @@ (hopeless :> twisted)

(* what the policy makes of these plans is what the instance takes it to be *)
ASSUME Classified ==
    /\ MCBlocking = {c \in MCContents : Blocks(MCPlan[c])}
    /\ MCOffered = {c \in MCContents : Offers(MCPlan[c])}
    /\ DOMAIN MCRepair = {c \in MCContents : Handles(MCPlan[c])}
    /\ \A c \in DOMAIN MCRepair : MCPlan[MCRepair[c]] = Repaired(MCPlan[c])

-----------------------------------------------------------------------------
(* Plans of two transformations that may read the same fields, for the       *)
(* order of repairs.                                                         *)
Reading == LET fields == {"address", "ticket_text", "message", "user_id"}
           IN {<<f>> : f \in fields} \cup {<<f, g>> : f, g \in fields}

Items == {Voc(in, op, "area") : in \in Reading, op \in {"select", "classify", "drop"}}

TwoItemPlans == {[PlanOf(x, 8) EXCEPT !.items = <<x, y>>] : x, y \in Items}

(* the order in which evaluate_policy comes to what can be repaired          *)
Turns == LET codes == <<"SENSITIVE_FIELD_TRANSFORM", "RAW_VOC_FOR_PRODUCT">>
         IN [n \in 1 .. 8 |-> [item |-> ((n - 1) \div 4) + 1,
                               input |-> (((n - 1) \div 2) % 2) + 1,
                               code |-> codes[((n - 1) % 2) + 1]]]

RepairStep(plan, item, turn) ==
    LET found == {f \in Findings(plan) :
                      /\ <<f.item, f.input, f.code>> = <<turn.item, turn.input, turn.code>>
                      /\ f.field \in ToSet(item.inputs)}
    IN IF found = {} THEN item
       ELSE LET op == Applied(CHOOSE f \in found : TRUE)
            IN [item EXCEPT !.op = op, !.output = OutputOf(op, @)]

(* what Repaired takes in one look is what the loop over the findings comes  *)
(* to, one repair after the other                                            *)
ASSUME RepairsInTurn ==
    \A plan \in TwoItemPlans : \A i \in DOMAIN plan.items :
        Repaired(plan).items[i] =
            FoldLeft(LAMBDA item, turn : RepairStep(plan, item, turn), plan.items[i], Turns)
=============================================================================
