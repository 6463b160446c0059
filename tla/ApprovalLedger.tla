--------------------------- MODULE ApprovalLedger ---------------------------
(***************************************************************************)
(* What the approval workflow promises, with no database, revision or     *)
(* request in sight: per task view, one person files one content, the      *)
(* filing is never altered, and at most one verdict is given on it, once,  *)
(* by somebody else, on that very content or on its policy repair.         *)
(* TaskViewApproval is shown to implement this module.                     *)
(***************************************************************************)
CONSTANTS Views, Users, Approvers, Contents,
          Blocking,     \* contents with a blocking policy finding
          Repairable,   \* contents the recommended alternative can be applied to
          Repair,       \* the content the recommended alternative produces
          None          \* no filing, no verdict

VARIABLES filed,        \* filed[v]: what was filed for approval, and by whom
          verdict       \* verdict[v]: how, on what and by whom it was decided

ledger == <<filed, verdict>>

Filing == [content : Contents, by : Users]
Verdict == [outcome : {"approved", "rejected"}, content : Contents, by : Users]

Init == /\ filed = [v \in Views |-> None]
        /\ verdict = [v \in Views |-> None]

File(v, c, u) ==
    /\ filed[v] = None
    /\ verdict[v] = None
    /\ filed' = [filed EXCEPT ![v] = [content |-> c, by |-> u]]
    /\ UNCHANGED verdict

Give(v, outcome, c, u) ==
    /\ filed[v] # None
    /\ verdict[v] = None
    /\ u # filed[v].by
    /\ verdict' = [verdict EXCEPT ![v] = [outcome |-> outcome, content |-> c, by |-> u]]
    /\ UNCHANGED filed

Reject(v, u) == Give(v, "rejected", filed[v].content, u)

Approve(v, u) == /\ filed[v].content \notin Blocking
                 /\ Give(v, "approved", filed[v].content, u)

ApproveRepaired(v, u) == /\ filed[v].content \in Repairable
                         /\ Repair[filed[v].content] \notin Blocking
                         /\ Give(v, "approved", Repair[filed[v].content], u)

Next == \E v \in Views :
            \/ \E c \in Contents, u \in Users : File(v, c, u)
            \/ /\ filed[v] # None
               /\ \E u \in Approvers :
                      Reject(v, u) \/ Approve(v, u) \/ ApproveRepaired(v, u)

Spec == Init /\ [][Next]_ledger
=============================================================================
