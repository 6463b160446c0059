--------------------------- MODULE CredentialVault ----------------------------
(***************************************************************************)
(* What the scan jobs promise about the credentials of a data source, with *)
(* no request, role, lock or transaction in sight: a scan takes them into  *)
(* custody for one workspace, and they are handed over to the workspace's  *)
(* source or, once their time is over, discarded.  They are never in two   *)
(* places, never given up early, and never come back.                      *)
(* ScanJobs is shown to implement this module.                             *)
(***************************************************************************)
CONSTANTS Jobs, Workspaces,
          None          \* no credentials have been taken

VARIABLES custody,      \* custody[j]: where the credentials of scan j are, and whose they are
          late          \* the scans whose time is over

vault == <<custody, late>>

Custody == [at : SUBSET {"job", "source"}, ws : Workspaces]

Init == /\ custody = [j \in Jobs |-> None]
        /\ late = {}

Take(j, w) ==
    /\ custody[j] = None
    /\ custody' = [custody EXCEPT ![j] = [at |-> {"job"}, ws |-> w]]
    /\ UNCHANGED late

InJob(j) == custody[j] # None /\ custody[j].at = {"job"}

HandOver(j) ==
    /\ InJob(j)
    /\ custody' = [custody EXCEPT ![j].at = {"source"}]
    /\ UNCHANGED late

Discard(j) ==
    /\ InJob(j)
    /\ j \in late
    /\ custody' = [custody EXCEPT ![j].at = {}]
    /\ UNCHANGED late

ComeDue(j) ==
    /\ custody[j] # None
    /\ late' = late \cup {j}
    /\ UNCHANGED custody

Next == \E j \in Jobs :
            \/ \E w \in Workspaces : Take(j, w)
            \/ HandOver(j) \/ Discard(j) \/ ComeDue(j)

Spec == Init /\ [][Next]_vault
=============================================================================
