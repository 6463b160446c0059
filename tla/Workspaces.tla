------------------------------ MODULE Workspaces ------------------------------
(***************************************************************************)
(* Workspaces: creation, onboarding, batches of invitations and their      *)
(* acceptance, and the settings, whose handlers find out in one statement  *)
(* that the caller may act and in another on which workspace.              *)
(*                                                                         *)
(* Users are signed up and verified; an invitation is addressed to one of  *)
(* them.  A transaction shows nothing before its COMMIT, and keeps what it *)
(* has locked until then.                                                  *)
(***************************************************************************)
EXTENDS Naturals

CONSTANTS
    Users, Workspaces, Requests,
    Roles,          \* the roles that creators choose and invitations offer
    MaxStarts,      \* bound: creations and acceptances that are begun
    NoRow, NoUser, NoWorkspace

ASSUME WorkspacesAssumption ==
    /\ Roles \subseteq {"requester", "data_owner", "admin"}
    /\ MaxStarts \in Nat
    /\ NoUser \notin Users
    /\ NoWorkspace \notin Workspaces

Workspace == [creator : Users, complete : BOOLEAN]
Membership == [role : Roles, at : Nat]      \* at: joined_at

(* History: overtaken says that the invited user became a member after the *)
(* batch had looked.                                                       *)
Invitation == [role : Roles, expired : BOOLEAN, overtaken : BOOLEAN]

(* newcomer (history): the batch saw that the user is no member *)
Offer == [role : Roles, newcomer : BOOLEAN]

(* History: role is what the writer holds in the workspace when the row is  *)
(* written; regranted says that the membership the check of a change of     *)
(* settings saw was replaced before the write.                              *)
Write == [what : {"settings", "policy"}, role : Roles, regranted : BOOLEAN]

ASSUME NoRowAssumption ==
    NoRow \notin Workspace \cup Membership \cup Invitation \cup Offer \cup Write \cup Roles

Request == [pc : {"idle", "creating", "accepting", "inviting", "checked",
                  "resolved", "targeted", "permitted", "notifying", "noticing"},
            user : Users \cup {NoUser}, ws : Workspaces \cup {NoWorkspace},
            role : Roles \cup {NoRow},   \* the principal's, or the one on the invitation
            at : Nat,                    \* CURRENT_TIMESTAMP of the transaction; in a change of
                                         \* settings (history) the joined_at that the check saw
            offer : Offer \cup {NoRow},  \* of the batch, looked at but not written yet
            staged : [Users -> Offer \cup {NoRow}]]

Idle == [pc |-> "idle", user |-> NoUser, ws |-> NoWorkspace, role |-> NoRow, at |-> 0,
         offer |-> NoRow, staged |-> [u \in Users |-> NoRow]]

VARIABLES
    status,     \* users.onboarding_status
    workspace,  \* workspaces
    member,     \* workspace_memberships
    invitation, \* workspace_invitations that are not accepted, by workspace and address
    req,
    now,
    lastWrite   \* history: the last change of settings or policy, as it was written

vars == <<status, workspace, member, invitation, req, now, lastWrite>>

-----------------------------------------------------------------------------
Goto(r, state) == req' = [req EXCEPT ![r] = state]
Respond(r) == Goto(r, Idle)

Member(w, u) == member[w][u] # NoRow
JoinedBy(u) == {w \in Workspaces : Member(w, u)}
Latest(set, u) == CHOOSE w \in set : \A v \in set : member[v][u].at <= member[w][u].at

(* get_workspace_for_user *)
Current(u) == Latest(JoinedBy(u), u)

(* get_current_workspace_membership, with onboarding required *)
Onboarded(u) == {w \in JoinedBy(u) : workspace[w].complete}
ActingIn(u) == Latest(Onboarded(u), u)

Wrote(what, q) ==
    lastWrite' = [what |-> what, role |-> member[q.ws][q.user].role,
                  regranted |-> what = "settings" /\ member[q.ws][q.user].at # q.at]

Set(table, w, u, row) == [table EXCEPT ![w][u] = row]

-----------------------------------------------------------------------------
(* create_workspace *)
CreateBegin(r, u) ==
    /\ req[r] = Idle
    /\ now < MaxStarts
    /\ now' = now + 1
    /\ Goto(r, [Idle EXCEPT !.pc = "creating", !.user = u, !.at = now])
    /\ UNCHANGED <<status, workspace, member, invitation, lastWrite>>

CreateCommit(r, w, role) ==
    LET q == req[r] IN
    /\ q.pc = "creating"
    /\ workspace[w] = NoRow
    /\ workspace' = [workspace EXCEPT ![w] = [creator |-> q.user, complete |-> FALSE]]
    /\ member' = Set(member, w, q.user, [role |-> role, at |-> q.at])
    /\ status' = [status EXCEPT ![q.user] = "team_invite"]
    /\ Respond(r)
    /\ UNCHANGED <<invitation, now, lastWrite>>

(* complete_workspace_onboarding *)
CompleteLeavesStatus(u) == status   \* mutant: the user's status is forgotten

StatusComplete(u) == [status EXCEPT ![u] = "complete"]

CompleteOnboarding(w, u) ==
    /\ workspace[w] # NoRow
    /\ workspace[w].creator = u
    /\ Member(w, u)
    /\ workspace' = [workspace EXCEPT ![w].complete = TRUE]
    /\ status' = StatusComplete(u)
    /\ UNCHANGED <<member, invitation, req, now, lastWrite>>

-----------------------------------------------------------------------------
(* accept_workspace_invitation: the invitation's row is held FOR UPDATE *)

HoldsInvitation(r, w, u) ==
    /\ req[r].ws = w
    /\ \/ req[r].pc = "accepting" /\ req[r].user = u
       \/ req[r].staged[u] # NoRow

NeverLocked(w, u) == FALSE   \* mutant: no FOR UPDATE

Locked(w, u) == \E r \in Requests : HoldsInvitation(r, w, u)

AcceptBegin(r, w, u) ==
    /\ req[r] = Idle
    /\ invitation[w][u] # NoRow
    /\ ~ invitation[w][u].expired
    /\ ~ Locked(w, u)
    /\ now < MaxStarts
    /\ now' = now + 1
    /\ Goto(r, [Idle EXCEPT !.pc = "accepting", !.user = u, !.ws = w, !.at = now,
                            !.role = invitation[w][u].role])
    /\ UNCHANGED <<status, workspace, member, invitation, lastWrite>>

Accepted(w, u) == Set(invitation, w, u, NoRow)

AcceptCommit(r) ==
    LET q == req[r] IN
    /\ q.pc = "accepting"
    /\ member' = Set(member, q.ws, q.user, [role |-> q.role, at |-> q.at])
    /\ invitation' = Accepted(q.ws, q.user)
    /\ status' = StatusComplete(q.user)
    /\ Respond(r)
    /\ UNCHANGED <<workspace, now, lastWrite>>

InvitationExpires(w, u) ==
    /\ invitation[w][u] # NoRow
    /\ ~ invitation[w][u].expired
    /\ invitation' = [invitation EXCEPT ![w][u].expired = TRUE]
    /\ UNCHANGED <<status, workspace, member, req, now, lastWrite>>

-----------------------------------------------------------------------------
(* create_workspace_invitations: one transaction for the whole batch *)

(* invite_workspace_members *)
OnboardingPermit(r, w, u) ==
    /\ req[r] = Idle
    /\ workspace[w] # NoRow
    /\ workspace[w].creator = u
    /\ ~ workspace[w].complete
    /\ Member(w, u)
    /\ Goto(r, [Idle EXCEPT !.pc = "inviting", !.ws = w])
    /\ UNCHANGED <<status, workspace, member, invitation, now, lastWrite>>

IsAdmin(w, u) == Member(w, u) /\ member[w][u].role = "admin"

(* ui_invite_team_member, after its two reads *)
AdminPermit(r) ==
    /\ req[r].pc = "targeted"
    /\ req[r].role = "admin"
    /\ IsAdmin(req[r].ws, req[r].user)
    /\ Goto(r, [Idle EXCEPT !.pc = "inviting", !.ws = req[r].ws])
    /\ UNCHANGED <<status, workspace, member, invitation, now, lastWrite>>

(* an address that the batch holds already is a duplicate, a member is skipped *)
AnyoneInvitable(w, u) == TRUE   \* mutant: members are invited too

Invitable(w, u) == ~ Member(w, u)

InviteCheck(r, u, role) ==
    LET q == req[r] IN
    /\ q.pc = "inviting"
    /\ q.staged[u] = NoRow
    /\ Invitable(q.ws, u)
    /\ Goto(r, [q EXCEPT !.pc = "checked", !.user = u,
                         !.offer = [role |-> role, newcomer |-> ~ Member(q.ws, u)]])
    /\ UNCHANGED <<status, workspace, member, invitation, now, lastWrite>>

(* the upsert waits for whoever holds the address's row *)
InviteUpsert(r) ==
    LET q == req[r] IN
    /\ q.pc = "checked"
    /\ ~ Locked(q.ws, q.user)
    /\ Goto(r, [q EXCEPT !.pc = "inviting", !.user = NoUser, !.offer = NoRow,
                         !.staged[q.user] = q.offer])
    /\ UNCHANGED <<status, workspace, member, invitation, now, lastWrite>>

InvitedForever(w, u, offer) ==   \* mutant: expires_at is left out
    [role |-> offer.role, expired |-> NoRow, overtaken |-> FALSE]

Invited(w, u, offer) ==
    [role |-> offer.role, expired |-> FALSE, overtaken |-> offer.newcomer /\ Member(w, u)]

InviteCommit(r) ==
    LET q == req[r] IN
    /\ q.pc = "inviting"
    /\ invitation' = [invitation EXCEPT ![q.ws] =
                         [u \in Users |-> IF q.staged[u] = NoRow THEN @[u]
                                          ELSE Invited(q.ws, u, q.staged[u])]]
    /\ Respond(r)
    /\ UNCHANGED <<status, workspace, member, now, lastWrite>>

-----------------------------------------------------------------------------
(* The settings handlers *)

(* _resolve_business_principal and require_workspace_roles.  Its two reads  *)
(* are one step: what may come between them, a creation, leaves the second *)
(* where it was.                                                           *)
ResolvePrincipal(r, u) ==
    LET role == member[ActingIn(u)][u].role IN
    /\ req[r] = Idle
    /\ status[u] = "complete"
    /\ Onboarded(u) # {}
    /\ role \in {"data_owner", "admin"}
    /\ Goto(r, [Idle EXCEPT !.pc = "resolved", !.user = u, !.role = role])
    /\ UNCHANGED <<status, workspace, member, invitation, now, lastWrite>>

(* the workspace that a settings handler acts on *)
ReadCurrent(r) ==
    /\ req[r].pc = "resolved"
    /\ Goto(r, [req[r] EXCEPT !.pc = "targeted", !.ws = Current(req[r].user)])
    /\ UNCHANGED <<status, workspace, member, invitation, now, lastWrite>>

(* set_workspace_ui_setting *)
WritePolicy(r) ==
    LET q == req[r] IN
    /\ q.pc = "targeted"
    /\ Wrote("policy", q)
    /\ Respond(r)
    /\ UNCHANGED <<status, workspace, member, invitation, now>>

(* update_workspace and update_workspace_notifications: the check of the    *)
(* membership, and the write of the workspace's row.  The one is a SELECT   *)
(* and an UPDATE, the other an UPDATE whose EXISTS sees the statement's     *)
(* snapshot; neither keeps the membership from changing in between.        *)
PermitAnyMember(w, u) == Member(w, u)   \* mutant: the role is not looked at again

MayChangeSettings(w, u) == IsAdmin(w, u)

Permit(r, state) ==
    LET q == req[r] IN
    /\ MayChangeSettings(q.ws, q.user)
    /\ Goto(r, [q EXCEPT !.pc = state, !.at = member[q.ws][q.user].at])
    /\ UNCHANGED <<status, workspace, member, invitation, now, lastWrite>>

SettingsPermit(r) ==
    /\ req[r].pc = "targeted"
    /\ req[r].role = "admin"
    /\ Permit(r, "permitted")

(* ui_patch_workspace_settings goes on to the notifications *)
SettingsWrite(r) ==
    LET q == req[r] IN
    /\ q.pc = "permitted"
    /\ Wrote("settings", q)
    /\ Respond(r) \/ Goto(r, [q EXCEPT !.pc = "notifying"])
    /\ UNCHANGED <<status, workspace, member, invitation, now>>

NotificationsPermit(r) ==
    /\ \/ req[r].pc = "targeted" /\ req[r].role = "admin"
       \/ req[r].pc = "notifying"
    /\ Permit(r, "noticing")

NotificationsWrite(r) ==
    LET q == req[r] IN
    /\ q.pc = "noticing"
    /\ Wrote("settings", q)
    /\ Respond(r)
    /\ UNCHANGED <<status, workspace, member, invitation, now>>

(* a refusal, an error, a deadlock victim or the end of the process: rolled back *)
Abort(r) ==
    /\ req[r] # Idle
    /\ Respond(r)
    /\ UNCHANGED <<status, workspace, member, invitation, now, lastWrite>>

-----------------------------------------------------------------------------
Init ==
    /\ status = [u \in Users |-> "workspace_setup"]
    /\ workspace = [w \in Workspaces |-> NoRow]
    /\ member = [w \in Workspaces |-> [u \in Users |-> NoRow]]
    /\ invitation = [w \in Workspaces |-> [u \in Users |-> NoRow]]
    /\ req = [r \in Requests |-> Idle]
    /\ now = 0
    /\ lastWrite = NoRow

Invite(r) ==
    \/ \E w \in Workspaces, u \in Users : OnboardingPermit(r, w, u)
    \/ AdminPermit(r)
    \/ \E u \in Users, role \in Roles : InviteCheck(r, u, role)
    \/ InviteUpsert(r)
    \/ InviteCommit(r)

ChangeSettings(r) ==
    \/ \E u \in Users : ResolvePrincipal(r, u)
    \/ ReadCurrent(r) \/ WritePolicy(r)
    \/ SettingsPermit(r) \/ SettingsWrite(r)
    \/ NotificationsPermit(r) \/ NotificationsWrite(r)

Next ==
    \/ \E r \in Requests :
          \/ \E u \in Users : CreateBegin(r, u)
          \/ \E w \in Workspaces, role \in Roles : CreateCommit(r, w, role)
          \/ \E w \in Workspaces, u \in Users : AcceptBegin(r, w, u)
          \/ AcceptCommit(r) \/ Invite(r) \/ ChangeSettings(r) \/ Abort(r)
    \/ \E w \in Workspaces, u \in Users : CompleteOnboarding(w, u) \/ InvitationExpires(w, u)

Spec == Init /\ [][Next]_vars

-----------------------------------------------------------------------------
(* Properties *)

\* The tables, the requests and the histories are of their declared types.
TypeOK ==
    /\ status \in [Users -> {"workspace_setup", "team_invite", "complete"}]
    /\ workspace \in [Workspaces -> Workspace \cup {NoRow}]
    /\ member \in [Workspaces -> [Users -> Membership \cup {NoRow}]]
    /\ invitation \in [Workspaces -> [Users -> Invitation \cup {NoRow}]]
    /\ req \in [Requests -> Request]
    /\ now \in Nat
    /\ lastWrite \in Write \cup {NoRow}

\* A member has no open invitation to the workspace (create_workspace_invitations skips members,
\* acceptance closes the invitation), except when the acceptance committed between a batch's look
\* at the members and its upsert.
MembersAreNotInvited ==
    \A w \in Workspaces, u \in Users :
        Member(w, u) /\ invitation[w][u] # NoRow => invitation[w][u].overtaken

\* A membership is written by the creation of the workspace or from the invitation that is open
\* at that moment, with the role it offers then, and closes it: an invitation that was issued anew
\* with another role while its old link is being accepted grants nothing of the old offer.
GrantsFollowOpenInvitation ==
    [][\A w \in Workspaces, u \in Users :
          member'[w][u] # member[w][u] /\ workspace[w] # NoRow =>
              /\ invitation[w][u] # NoRow
              /\ member'[w][u].role = invitation[w][u].role
              /\ invitation'[w][u] = NoRow]_vars

\* Whoever is in the middle of onboarding has created a workspace that is still to be completed,
\* so that the onboarding can be ended: no overlap of creations, completions and acceptances
\* leaves a user in "team_invite" for good.
OnboardingCanBeCompleted ==
    \A u \in Users :
        status[u] = "team_invite" =>
            \E w \in Workspaces :
                workspace[w] # NoRow /\ workspace[w].creator = u /\ ~ workspace[w].complete /\ Member(w, u)

\* Whoever changes the settings of a workspace was its admin when the handler checked, although
\* the handlers are admitted with the role of one workspace and act on another, and is its admin
\* still when the row is written, unless an acceptance has replaced the membership in between: the
\* write itself asks for no role (update_workspace, update_workspace_notifications).  The other
\* properties say which acceptance that can be: one of an invitation that was overtaken.
SettingsWritersWereAdmins ==
    lastWrite # NoRow /\ lastWrite.what = "settings" =>
        lastWrite.role = "admin" \/ lastWrite.regranted

\* ui_patch_policy_settings asks for a data owner or an admin: the policy of a workspace is
\* written by one of its own.
OwnersWritePolicy ==
    lastWrite # NoRow /\ lastWrite.what = "policy" => lastWrite.role \in {"data_owner", "admin"}
=============================================================================
