-------------------------------- MODULE Policy --------------------------------
(***************************************************************************)
(* What the policy says of a plan (policy.py), what it offers for a plan   *)
(* it blocks (experience.py) and what the approval of that offer makes of  *)
(* the plan (service.py).                                                  *)
(*                                                                         *)
(* A plan's transformations and their input fields are ordered, since the  *)
(* findings come in that order and each repair overwrites the one before   *)
(* it; a source may be selected twice.  Purpose, assumptions and the texts *)
(* of findings are left out.                                               *)
(***************************************************************************)
EXTENDS Naturals, SequencesExt

Transforms == {"select", "drop", "mask", "age_band", "region_group", "aggregate", "classify"}

(* REQUIRED_TRANSFORMS; "any" for the fields it does not name *)
Required(field) ==
    CASE field \in {"account_id"} -> "mask"
      [] field \in {"address", "exact_address"} -> "region_group"
      [] field \in {"age", "birth_date"} -> "age_band"
      [] field \in {"ticket_text", "error_log"} -> "classify"
      [] field \in {"user_id", "customer_name", "name", "phone", "email", "ticket_id",
                    "caller_id_number", "incident_address", "latitude", "longitude",
                    "vin", "summary"} -> "drop"
      [] OTHER -> "any"

Catalog == [
    product |-> {"event_date", "event_time", "feature", "account_id", "user_id", "usage_count",
                 "os_family", "os_version", "dropoff_step", "error_log", "ticket_created",
                 "state", "issue_type", "issue", "method", "caller_id_number"},
    operations |-> {"ticket_id", "created_at", "status", "assignee", "region",
                    "resolution_hours", "exact_address", "birth_date", "created_date", "borough",
                    "agency", "complaint_type", "incident_address", "latitude", "longitude"},
    voc |-> {"ticket_id", "created_at", "customer_name", "name", "phone", "email", "address",
             "age", "message", "ticket_text", "issue_type", "date_complaint_filed",
             "manufacturer", "make", "model", "model_year", "component", "crash", "fire",
             "injuries", "deaths", "vin", "summary"}]

MaxTTL == 7

Item == [source : DOMAIN Catalog, inputs : Seq(STRING), output : STRING, op : Transforms]

Plan == [audience : {"product", "operations", "support", "executive"}, ttl : Nat,
         sources : Seq(DOMAIN Catalog), items : Seq(Item), columns : SUBSET STRING]

-----------------------------------------------------------------------------
(* evaluate_policy *)

Sensitive(item, field) == Required(field) \notin {"any", item.op}

RawVoc(plan, item, field) ==
    /\ field \in {"message", "ticket_text"}
    /\ plan.audience = "product"
    /\ item.op # "classify"

Produced(plan) ==
    {"case_count"} \cup {plan.items[i].output : i \in {j \in DOMAIN plan.items :
                                                          plan.items[j].op # "drop"}}

Finding(i, k, code, field) == [item |-> i, input |-> k, code |-> code, field |-> field]

(* the blocking findings about input k of transformation i *)
InputFindings(plan, i, k) ==
    LET item == plan.items[i]
        field == item.inputs[k]
    IN {Finding(i, k, code, field) : code \in
           {c \in {"UNKNOWN_CATALOG_FIELD", "SENSITIVE_FIELD_TRANSFORM", "RAW_VOC_FOR_PRODUCT"} :
               \/ c = "UNKNOWN_CATALOG_FIELD" /\ field \notin Catalog[item.source]
               \/ c = "SENSITIVE_FIELD_TRANSFORM" /\ Sensitive(item, field)
               \/ c = "RAW_VOC_FOR_PRODUCT" /\ RawVoc(plan, item, field)}}

PlanFindings(plan) ==
    LET last == Len(plan.items) + 1 IN
    {Finding(i, 0, "SOURCE_NOT_SELECTED", plan.items[i].source) :
        i \in {j \in DOMAIN plan.items : plan.items[j].source \notin ToSet(plan.sources)}}
    \cup {Finding(last, 0, "UNKNOWN_PREVIEW_COLUMN", c) : c \in plan.columns \ Produced(plan)}
    \cup (IF plan.ttl > MaxTTL THEN {Finding(last, 1, "TTL_LIMIT", "ttl_days")} ELSE {})

Findings(plan) ==
    PlanFindings(plan) \cup
    UNION {UNION {InputFindings(plan, i, k) : k \in DOMAIN plan.items[i].inputs} :
              i \in DOMAIN plan.items}

Blocks(plan) == Findings(plan) # {}

-----------------------------------------------------------------------------
(* _alternative_for_view *)

(* the operator the reviewer is told of; "none" for an unresolved finding *)
Announced(finding) ==
    CASE finding.code = "TTL_LIMIT" -> "ttl"
      [] finding.code = "RAW_VOC_FOR_PRODUCT" -> "classify"
      [] finding.code = "SENSITIVE_FIELD_TRANSFORM" /\ finding.field = "address" -> "region_group"
      [] finding.code = "SENSITIVE_FIELD_TRANSFORM" /\ finding.field = "age" -> "age_band"
      [] finding.code = "SENSITIVE_FIELD_TRANSFORM"
             /\ finding.field \in {"customer_name", "ticket_id", "user_id"} -> "drop"
      [] OTHER -> "none"

Offers(plan) == /\ Blocks(plan)
                /\ \A f \in Findings(plan) : Announced(f) # "none"

-----------------------------------------------------------------------------
(* approve_recommended_alternative: one repair per finding, in their order *)

Applied(finding) ==
    CASE finding.code = "TTL_LIMIT" -> "ttl"
      [] finding.code = "RAW_VOC_FOR_PRODUCT" -> "classify"
      [] finding.code = "SENSITIVE_FIELD_TRANSFORM" -> Required(finding.field)
      [] OTHER -> "none"

Handles(plan) == /\ Blocks(plan)
                 /\ \A f \in Findings(plan) : Applied(f) # "none"

OutputOf(op, old) == CASE op = "classify" -> "issue_type"
                       [] op = "region_group" -> "region"
                       [] op = "age_band" -> "age_band"
                       [] OTHER -> old

Renaming == {"classify", "region_group", "age_band"}

TooLong(finding) == finding.code = "TTL_LIMIT"

(* a repair is applied to every transformation that reads the finding's field *)
RepairsOf(plan, item) ==
    {f \in Findings(plan) : /\ ~ TooLong(f) /\ Applied(f) # "none"
                            /\ f.field \in ToSet(item.inputs)}

Earlier(f, g) == f.item < g.item \/ (f.item = g.item /\ f.input < g.input)

(* two findings about one input ask for the same operator *)
Latest(repairs) == CHOOSE f \in repairs : \A g \in repairs : ~ Earlier(f, g)

RepairedKeepingOutput(plan, item) ==   \* mutant: the output field is not renamed
    LET repairs == RepairsOf(plan, item) IN
    [item EXCEPT !.op = IF repairs = {} THEN @ ELSE Applied(Latest(repairs))]

(* each repair overwrites the operator the one before it has set, and the  *)
(* name of the output if its own operator comes with one                   *)
RepairedItem(plan, item) ==
    LET repairs == RepairsOf(plan, item)
        renames == {f \in repairs : Applied(f) \in Renaming}
    IN [item EXCEPT !.op = IF repairs = {} THEN @ ELSE Applied(Latest(repairs)),
                    !.output = IF renames = {} THEN @
                               ELSE OutputOf(Applied(Latest(renames)), @)]

Repaired(plan) ==
    [plan EXCEPT !.ttl = IF \E f \in Findings(plan) : TooLong(f) THEN MaxTTL ELSE @,
                 !.items = [i \in DOMAIN @ |-> RepairedItem(plan, @[i])]]

-----------------------------------------------------------------------------
(* Properties *)

Demands(plan, item) ==
    ({Required(f) : f \in ToSet(item.inputs)} \ {"any"})
    \cup {d \in {"classify"} : plan.audience = "product"
                                   /\ ToSet(item.inputs) \cap {"message", "ticket_text"} # {}}

Touched(plan, item) == \E f \in Findings(plan) : f.field \in ToSet(item.inputs)

(* No transformation is asked for two operators, and every preview column  *)
(* is what some transformation yields after its own repair.                *)
Compatible(plan) ==
    /\ \A i \in DOMAIN plan.items : \A d, e \in Demands(plan, plan.items[i]) : d = e
    /\ \A c \in plan.columns \ {"case_count"} : \E i \in DOMAIN plan.items :
           LET item == plan.items[i] IN
           \/ ~ Touched(plan, item) /\ item.op # "drop" /\ item.output = c
           \/ Touched(plan, item) /\ \E d \in Demands(plan, item) \ {"drop"} : OutputOf(d, item.output) = c
=============================================================================
